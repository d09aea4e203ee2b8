--------------------------- MODULE TelemetryProofs ---------------------------
(***************************************************************************)
(* The way of a measurement keeps its order and its counts: the inductive  *)
(* invariant of Telemetry, and the safety properties it carries, for every *)
(* number of devices, samples, batches, faults and restarts.               *)
(***************************************************************************)
EXTENDS Telemetry, SequenceTheorems, TLAPS

-----------------------------------------------------------------------------
(* Sequences *)

LEMMA Appended ==
    ASSUME NEW S, NEW s \in Seq(S), NEW e \in S
    PROVE  /\ Append(s, e) \in Seq(S)
           /\ Len(s) \in Nat /\ Len(Append(s, e)) = Len(s) + 1
           /\ DOMAIN s = 1 .. Len(s) /\ DOMAIN Append(s, e) = 1 .. Len(s) + 1
           /\ \A i \in 1 .. Len(s) : Append(s, e)[i] = s[i]
           /\ Append(s, e)[Len(s) + 1] = e
<1>1. /\ Append(s, e) \in Seq(S) /\ Len(Append(s, e)) = Len(s) + 1
      /\ \A i \in 1 .. Len(s) : Append(s, e)[i] = s[i]
      /\ Append(s, e)[Len(s) + 1] = e
  BY AppendProperties
<1>2. Len(s) \in Nat /\ DOMAIN s = 1 .. Len(s) /\ DOMAIN Append(s, e) = 1 .. Len(Append(s, e))
  BY <1>1, LenProperties
<1> QED BY <1>1, <1>2

LEMMA HeadAndTail ==
    ASSUME NEW S, NEW s \in Seq(S), s # <<>>
    PROVE  /\ Head(s) = s[1] /\ s[1] \in S
           /\ Tail(s) \in Seq(S)
           /\ Len(s) \in Nat /\ Len(s) >= 1 /\ Len(Tail(s)) = Len(s) - 1
           /\ DOMAIN s = 1 .. Len(s) /\ DOMAIN Tail(s) = 1 .. Len(s) - 1
           /\ \A i \in 1 .. Len(s) - 1 : Tail(s)[i] = s[i + 1]
<1>1. /\ Tail(s) \in Seq(S) /\ Len(Tail(s)) = Len(s) - 1
      /\ \A i \in 1 .. Len(Tail(s)) : Tail(s)[i] = s[i + 1]
  BY HeadTailProperties
<1>2. Len(s) \in Nat \ {0}
  BY EmptySeq
<1>3. DOMAIN s = 1 .. Len(s) /\ DOMAIN Tail(s) = 1 .. Len(Tail(s))
  BY <1>1, LenProperties
<1>4. Head(s) = s[1] /\ s[1] \in S
  BY <1>2, ElementOfSeq
<1> QED BY <1>1, <1>2, <1>3, <1>4

LEMMA Widened ==
    ASSUME NEW S, NEW T, S \subseteq T
    PROVE  \A s \in Seq(S) : s \in Seq(T)
OBVIOUS

LEMMA MembersOf ==
    ASSUME NEW S, NEW s \in Seq(S)
    PROVE  /\ Members(s) \subseteq S
           /\ \A m : m \in Members(s) <=> \E i \in DOMAIN s : m = s[i]
BY LenProperties DEF Members

LEMMA MembersAppended ==
    ASSUME NEW S, NEW s \in Seq(S), NEW e \in S
    PROVE  Members(Append(s, e)) = Members(s) \union {e}
<1>1. /\ DOMAIN s = 1 .. Len(s) /\ DOMAIN Append(s, e) = 1 .. Len(s) + 1 /\ Len(s) \in Nat
      /\ \A i \in 1 .. Len(s) : Append(s, e)[i] = s[i]
      /\ Append(s, e)[Len(s) + 1] = e
  BY Appended
<1>2. ASSUME NEW m PROVE m \in Members(Append(s, e)) <=> m \in Members(s) \union {e}
  <2>1. m \in Members(Append(s, e)) <=> \E i \in 1 .. Len(s) + 1 : m = Append(s, e)[i]
    BY <1>1 DEF Members
  <2>2. m \in Members(s) <=> \E i \in 1 .. Len(s) : m = s[i]
    BY <1>1 DEF Members
  <2>3. (\E i \in 1 .. Len(s) + 1 : m = Append(s, e)[i])
            <=> (\E i \in 1 .. Len(s) : m = s[i]) \/ m = e
    BY <1>1
  <2> QED BY <2>1, <2>2, <2>3
<1> QED BY <1>2

(* The oldest member of a buffer leaves it, the others stay. *)
LEMMA MembersTail ==
    ASSUME NEW S, NEW s \in Seq(S), s # <<>>
    PROVE  /\ Members(s) = {Head(s)} \union Members(Tail(s))
           /\ Head(s) \in Members(s)
<1>1. /\ DOMAIN s = 1 .. Len(s) /\ DOMAIN Tail(s) = 1 .. Len(s) - 1 /\ Len(s) \in Nat
      /\ Len(s) >= 1 /\ Head(s) = s[1]
      /\ \A i \in 1 .. Len(s) - 1 : Tail(s)[i] = s[i + 1]
  BY HeadAndTail
<1>2. ASSUME NEW m PROVE m \in Members(s) <=> m \in {Head(s)} \union Members(Tail(s))
  <2>1. m \in Members(s) <=> \E i \in 1 .. Len(s) : m = s[i]
    BY <1>1 DEF Members
  <2>2. m \in Members(Tail(s)) <=> \E i \in 1 .. Len(s) - 1 : m = s[i + 1]
    BY <1>1 DEF Members
  <2>3. ASSUME NEW i \in 1 .. Len(s), m = s[i], i # 1
        PROVE  \E k \in 1 .. Len(s) - 1 : m = s[k + 1]
    <3>1. i - 1 \in 1 .. Len(s) - 1 /\ (i - 1) + 1 = i
      BY <1>1, <2>3
    <3> QED BY <3>1, <2>3
  <2>4. ASSUME NEW i \in 1 .. Len(s) - 1, m = s[i + 1]
        PROVE  \E k \in 1 .. Len(s) : m = s[k]
    <3>1. i + 1 \in 1 .. Len(s)
      BY <1>1
    <3> QED BY <3>1, <2>4
  <2>5. 1 \in 1 .. Len(s)
    BY <1>1
  <2> QED BY <2>1, <2>2, <2>3, <2>4, <2>5, <1>1
<1>3. Members(s) = {Head(s)} \union Members(Tail(s))
  BY <1>2
<1> QED BY <1>3

(* What a group hands out: the entries behind the last one, in order. *)
Handed(b, stream, done) ==
    /\ Len(b) \in Nat /\ Len(b) >= 1 /\ done + Len(b) <= Len(stream)
    /\ b \in Seq(1 .. done + Len(b)) /\ b # <<>>
    /\ DOMAIN b = 1 .. Len(b)
    /\ \A k \in 1 .. Len(b) : b[k] = done + k
    /\ Members(b) = done + 1 .. done + Len(b)

LEMMA NextEntriesFacts ==
    ASSUME NEW S, NEW stream \in Seq(S), NEW done \in Nat, done < Len(stream),
           NEW n \in Nat \ {0}
    PROVE  Handed(NextEntries(stream, done, n), stream, done)
<1> DEFINE b == NextEntries(stream, done, n)
<1> DEFINE k == IF Len(stream) - done < n THEN Len(stream) - done ELSE n
<1>1. Len(stream) \in Nat
  BY LenProperties
<1>2. k \in Nat /\ k >= 1 /\ done + k <= Len(stream)
  BY <1>1
<1>3. b = [i \in 1 .. k |-> done + i]
  BY DEF NextEntries
<1> HIDE DEF k
<1>4. DOMAIN b = 1 .. k /\ \A i \in 1 .. k : b[i] = done + i
  BY <1>3
<1>5. \A i \in 1 .. k : done + i \in 1 .. done + k
  BY <1>2
<1>6. b \in [1 .. k -> 1 .. done + k]
  BY <1>3, <1>5
<1>7. b \in Seq(1 .. done + k) /\ Len(b) = k
  BY <1>2, <1>6
<1>8. b # <<>>
  BY <1>2, <1>7
<1>9. ASSUME NEW e PROVE e \in Members(b) <=> e \in done + 1 .. done + k
  <2>1. e \in Members(b) <=> \E i \in 1 .. k : e = done + i
    BY <1>4 DEF Members
  <2>2. ASSUME e \in done + 1 .. done + k PROVE \E i \in 1 .. k : e = done + i
    <3>1. e - done \in 1 .. k /\ e = done + (e - done)
      BY <1>2, <2>2
    <3> QED BY <3>1
  <2>3. ASSUME NEW i \in 1 .. k PROVE done + i \in done + 1 .. done + k
    BY <1>2
  <2> QED BY <2>1, <2>2, <2>3
<1>10. Members(b) = done + 1 .. done + k
  BY <1>9
<1> HIDE DEF b
<1>11. Handed(b, stream, done)
  BY <1>2, <1>4, <1>7, <1>8, <1>10 DEF Handed
<1> QED BY <1>11 DEF b

-----------------------------------------------------------------------------
(* Consumers *)

(* What a consumer holds in hand is the first entry it has not finished. *)
LEMMA InHandFacts ==
    ASSUME NEW read \in Nat, NEW c, c.batch \in Seq(1 .. read), c.batch # <<>>, InStep(read, c)
    PROVE  /\ Behind(read, c) \in Nat
           /\ Head(c.batch) = Behind(read, c) + 1 /\ Head(c.batch) \in 1 .. read
<1>1. /\ Head(c.batch) = c.batch[1] /\ c.batch[1] \in 1 .. read
      /\ Len(c.batch) \in Nat /\ Len(c.batch) >= 1 /\ DOMAIN c.batch = 1 .. Len(c.batch)
  BY HeadAndTail
<1>2. 1 \in DOMAIN c.batch
  BY <1>1
<1>3. c.batch[1] = Behind(read, c) + 1
  BY <1>2 DEF InStep
<1>4. c.batch[1] = read - Len(c.batch) + 1 /\ c.batch[1] >= 1
  BY <1>1, <1>3 DEF Behind
<1>5. Behind(read, c) \in Nat
  BY <1>1, <1>4 DEF Behind
<1> QED BY <1>1, <1>3, <1>5

(* Having gone on, it has finished one entry more. *)
LEMMA AdvanceFacts ==
    ASSUME NEW read \in Nat, NEW c, c.batch \in Seq(1 .. read), c.batch # <<>>, InStep(read, c),
           NEW first, first # "read", NEW n, n = Advance(c, first)
    PROVE  /\ n = [at |-> n.at, batch |-> n.batch] /\ n.at \in {"read", first}
           /\ n.batch \in Seq(1 .. read) /\ (n.at = first <=> n.batch # <<>>)
           /\ Behind(read, n) = Behind(read, c) + 1 /\ InStep(read, n)
<1>1. /\ Tail(c.batch) \in Seq(1 .. read)
      /\ Len(c.batch) \in Nat /\ Len(c.batch) >= 1 /\ Len(Tail(c.batch)) = Len(c.batch) - 1
      /\ DOMAIN c.batch = 1 .. Len(c.batch) /\ DOMAIN Tail(c.batch) = 1 .. Len(c.batch) - 1
      /\ \A i \in 1 .. Len(c.batch) - 1 : Tail(c.batch)[i] = c.batch[i + 1]
  BY HeadAndTail
<1>2. n.batch = Tail(c.batch) /\ n.at = (IF Len(c.batch) = 1 THEN "read" ELSE first)
      /\ n = [at |-> n.at, batch |-> n.batch]
  BY DEF Advance
<1>3. Behind(read, n) = Behind(read, c) + 1
  <2> DEFINE a == Len(c.batch)  b == Len(Tail(c.batch))
  <2>1. a \in Nat /\ b = a - 1
    BY <1>1
  <2> HIDE DEF a, b
  <2>2. read - b = (read - a) + 1
    BY <2>1
  <2>3. read - Len(Tail(c.batch)) = (read - Len(c.batch)) + 1
    BY <2>2 DEF a, b
  <2> QED BY <2>3, <1>2 DEF Behind
<1>4. InStep(read, n)
  <2>1. ASSUME NEW k \in 1 .. Len(c.batch) - 1
        PROVE  Tail(c.batch)[k] = Behind(read, c) + 1 + k
    <3>1. k + 1 \in 1 .. Len(c.batch) /\ Behind(read, c) \in Int
      BY <1>1 DEF Behind
    <3>2. c.batch[k + 1] = Behind(read, c) + (k + 1)
      BY <3>1, <1>1 DEF InStep
    <3> QED BY <3>1, <3>2, <1>1
  <2> QED BY <2>1, <1>1, <1>2, <1>3 DEF InStep
<1>5. Tail(c.batch) = <<>> <=> Len(c.batch) = 1
  <2>1. Tail(c.batch) # <<>> => Len(Tail(c.batch)) \in Nat \ {0}
    BY <1>1, EmptySeq
  <2>2. Tail(c.batch) = <<>> => Len(Tail(c.batch)) = 0
    BY EmptySeq
  <2> QED BY <2>1, <2>2, <1>1
<1>6. n.batch \in Seq(1 .. read) /\ (n.at = first <=> n.batch # <<>>)
  BY <1>1, <1>2, <1>5
<1> QED BY <1>2, <1>3, <1>4, <1>6

-----------------------------------------------------------------------------
(* Types, by service *)

Envelopes          == [dev : Devices, sample : Samples, over : SUBSET Samples]
Snapshots(read)    == [dev : Devices, sample : Samples, entry : 1 .. read]
Batches(at, read)  == [at : at, batch : Seq(1 .. read)]

IngestionTyped ==
    /\ taken \in 0 .. MaxSamples
    /\ window \in [Devices -> Windows]
    /\ flush \in [items : [Devices -> Windows], todo : SUBSET Devices, failed : SUBSET Devices]
    /\ sensor \in Seq(Envelopes)

ProcessorTyped ==
    /\ sensorRead \in Nat /\ unacked \subseteq 1 .. sensorRead
    /\ worker \in Batches({"read", "set", "publish", "ack", "dead"}, sensorRead)
    /\ worker.at \in {"set", "publish", "ack"} <=> worker.batch # <<>>
    /\ state \in [Devices -> Samples \union {NoSample}]
    /\ result \in Seq(Snapshots(sensorRead))

WriterTyped ==
    /\ resultRead \in Nat /\ unconfirmed \subseteq 1 .. resultRead
    /\ writer \in Batches({"read", "add", "upsert"}, resultRead)
    /\ writer.at \in {"add", "upsert"} <=> writer.batch # <<>>
    /\ buffer \in [Devices -> Seq(1 .. resultRead)]
    /\ inserting \in [Devices -> Seq(1 .. resultRead)]
    /\ sensorData \in Seq([Devices -> Seq(1 .. resultRead)])
    /\ lost \subseteq 1 .. resultRead

LimitsTyped == faults \in 0 .. MaxFaults /\ crashes \in 0 .. MaxCrashes

LEMMA TypeParts ==
    TypeOK <=> /\ IngestionTyped /\ ProcessorTyped /\ WriterTyped /\ LimitsTyped
               /\ sensorRead <= Len(sensor) /\ resultRead <= Len(result)
<1>1. IngestionTyped => Len(sensor) \in Nat
  BY LenProperties DEF IngestionTyped
<1>2. ProcessorTyped => Len(result) \in Nat
  BY LenProperties DEF ProcessorTyped
<1>3. TypeOK => Len(sensor) \in Nat /\ Len(result) \in Nat
  BY LenProperties DEF TypeOK
<1>4. ASSUME TypeOK
      PROVE  /\ IngestionTyped /\ ProcessorTyped /\ WriterTyped /\ LimitsTyped
             /\ sensorRead <= Len(sensor) /\ resultRead <= Len(result)
  <2>1. IngestionTyped
    BY <1>4 DEF TypeOK, IngestionTyped, Envelopes
  <2>2. /\ sensorRead \in Nat /\ sensorRead <= Len(sensor)
        /\ resultRead \in Nat /\ resultRead <= Len(result)
    BY <1>3, <1>4 DEF TypeOK
  <2>3. ProcessorTyped
    BY <1>4, <2>2 DEF TypeOK, ProcessorTyped, Snapshots, Batches
  <2>4. WriterTyped
    BY <1>4, <2>2 DEF TypeOK, WriterTyped, Batches
  <2>5. LimitsTyped
    BY <1>4 DEF TypeOK, LimitsTyped
  <2> QED BY <2>1, <2>2, <2>3, <2>4, <2>5
<1>5. ASSUME IngestionTyped, ProcessorTyped, WriterTyped, LimitsTyped,
             sensorRead <= Len(sensor), resultRead <= Len(result)
      PROVE  TypeOK
  <2>1. sensorRead \in 0 .. Len(sensor) /\ resultRead \in 0 .. Len(result)
    BY <1>1, <1>2, <1>5 DEF ProcessorTyped, WriterTyped
  <2> QED BY <2>1, <1>5 DEF TypeOK, IngestionTyped, ProcessorTyped, WriterTyped, LimitsTyped,
                           Envelopes, Snapshots, Batches
<1> QED BY <1>4, <1>5

LEMMA ConstantFacts ==
    /\ SensorBatch \in Nat \ {0} /\ ResultBatch \in Nat \ {0} /\ BufferSize \in Nat \ {0}
    /\ MaxSamples \in Nat /\ MaxFaults \in Nat /\ MaxCrashes \in Nat
BY SizesAssumption, LimitsAssumption

LEMMA LimitsStep ==
    ASSUME LimitsTyped, Fault \/ Restart \/ UNCHANGED limits
    PROVE  LimitsTyped'
BY ConstantFacts DEF LimitsTyped, Fault, Restart, limits

LEMMA EmptyWindowTyped == EmptyWindow \in Windows
BY DEF EmptyWindow, Windows

LEMMA NoRowsTyped == \A read : NoRows \in [Devices -> Seq(1 .. read)]
BY DEF NoRows

LEMMA TypeInit == Init => TypeOK
<1> SUFFICES ASSUME Init PROVE TypeOK
  OBVIOUS
<1>1. IngestionTyped
  BY EmptyWindowTyped, ConstantFacts DEF Init, IngestionTyped, IdleFlush
<1>2. ProcessorTyped
  BY DEF Init, ProcessorTyped, Batches, Reading
<1>3. WriterTyped
  BY NoRowsTyped DEF Init, WriterTyped, Batches, Reading
<1>4. LimitsTyped
  BY ConstantFacts DEF Init, LimitsTyped
<1>5. sensorRead <= Len(sensor) /\ resultRead <= Len(result)
  BY DEF Init
<1> QED BY <1>1, <1>2, <1>3, <1>4, <1>5, TypeParts

-----------------------------------------------------------------------------
(* The steps of ingestion.  A publication that returned or raised is one   *)
(* kind of step: the device goes from those to publish, perhaps to those   *)
(* that failed, and its envelope is added unless XADD raised without.      *)

Sent(d, failed, added) ==
    /\ FlushGoesOn(d, failed)
    /\ (failed = flush.failed /\ added) \/ failed = flush.failed \union {d}
    /\ sensor' = IF added THEN Append(sensor, Envelope(d)) ELSE sensor

LEMMA SendingSteps ==
    ASSUME NEW d \in Devices
    PROVE  /\ PublishEnvelope(d) => Sent(d, flush.failed, TRUE)
           /\ \A added \in BOOLEAN : PublishFails(d, added) => Sent(d, flush.failed \union {d}, added)
BY DEF PublishEnvelope, PublishFails, Sent

LEMMA Added ==
    ASSUME NEW w \in Windows, NEW s \in Samples
    PROVE  /\ Add(w, s) \in Windows /\ Add(w, s) # EmptyWindow
           /\ Add(w, s).latest = s /\ Add(w, s).over = w.over \union {s}
<1>1. Add(w, s).over # EmptyWindow.over
  BY DEF Add, EmptyWindow
<1> QED BY <1>1 DEF Add, Windows

LEMMA InFlightTyped ==
    ASSUME IngestionTyped, WindowsOK, NEW d \in InFlight
    PROVE  /\ d \in Devices /\ flush.items[d] \in Windows
           /\ flush.items[d].latest \in Samples /\ flush.items[d].latest \in 1 .. taken
BY ConstantFacts DEF IngestionTyped, WindowsOK, InFlight, Windows, Samples

LEMMA EnvelopeFacts ==
    ASSUME IngestionTyped, WindowsOK, NEW d \in InFlight
    PROVE  /\ Envelope(d) \in Envelopes
           /\ Envelope(d).dev = d /\ Envelope(d).sample = flush.items[d].latest
           /\ Envelope(d).over = flush.items[d].over
BY InFlightTyped DEF Envelope, Envelopes, Windows

LEMMA SentWindows ==
    ASSUME IngestionTyped, WindowsOK, NEW d \in flush.todo, NEW failed, NEW added \in BOOLEAN,
           Sent(d, failed, added)
    PROVE  /\ failed \subseteq InFlight /\ d \in InFlight /\ taken' = taken
           /\ \A e \in Devices : window'[e] =
                 IF InFlight' = {} /\ e \in failed THEN Add(window[e], flush.items[e].latest)
                                                ELSE window[e]
           /\ \A e \in InFlight' : e \in InFlight /\ flush'.items[e] = flush.items[e]
           /\ flush'.todo \subseteq flush.todo \ {d} /\ flush'.failed \subseteq failed
           /\ flush'.todo = {} => InFlight' = {}
           /\ window' \in [Devices -> Windows]
           /\ flush' \in [items : [Devices -> Windows], todo : SUBSET Devices, failed : SUBSET Devices]
           /\ InFlight' = {} \/ flush'.failed = failed
<1> DEFINE left == flush.todo \ {d}
<1>1. /\ failed \subseteq InFlight /\ d \in InFlight /\ taken' = taken /\ d \in Devices
      /\ failed \subseteq Devices
  BY DEF Sent, FlushGoesOn, InFlight, IngestionTyped
<1>2. \A e \in InFlight : flush.items[e].latest \in Samples
  BY InFlightTyped
<1>3. CASE left = {}
  <2>1. flush' = IdleFlush /\ window' = Restored(failed)
    BY <1>3 DEF Sent, FlushGoesOn
  <2>2. flush'.todo = {} /\ flush'.failed = {} /\ InFlight' = {}
    BY <2>1 DEF IdleFlush, InFlight
  <2>3. flush' \in [items : [Devices -> Windows], todo : SUBSET Devices, failed : SUBSET Devices]
    BY <2>1, EmptyWindowTyped DEF IdleFlush
  <2>4. \A e \in Devices : window'[e] =
            IF e \in failed THEN Add(window[e], flush.items[e].latest) ELSE window[e]
    BY <2>1 DEF Restored
  <2>5. window' \in [Devices -> Windows]
    <3>1. \A e \in Devices : window[e] \in Windows
      BY DEF IngestionTyped
    <3>2. \A e \in failed : Add(window[e], flush.items[e].latest) \in Windows
      BY <1>1, <1>2, <3>1, Added
    <3> QED BY <2>1, <3>1, <3>2 DEF Restored
  <2> QED BY <1>1, <2>2, <2>3, <2>4, <2>5
<1>4. CASE left # {}
  <2>1. flush' = [flush EXCEPT !.todo = left, !.failed = failed] /\ window' = window
    BY <1>4 DEF Sent, FlushGoesOn
  <2>2. flush'.todo = left /\ flush'.failed = failed /\ flush'.items = flush.items
    BY <2>1 DEF IngestionTyped
  <2>3. InFlight' \subseteq InFlight /\ InFlight' # {}
    BY <1>1, <1>4, <2>2 DEF InFlight
  <2>4. flush' \in [items : [Devices -> Windows], todo : SUBSET Devices, failed : SUBSET Devices]
    BY <1>1, <2>1 DEF IngestionTyped
  <2>5. flush'.todo # {}
    BY <1>4, <2>2
  <2> QED BY <1>1, <2>1, <2>2, <2>3, <2>4, <2>5 DEF IngestionTyped
<1> QED BY <1>3, <1>4

LEMMA SensorGrows ==
    ASSUME IngestionTyped, WindowsOK, NEW d \in flush.todo, NEW failed, NEW added \in BOOLEAN,
           Sent(d, failed, added)
    PROVE  /\ sensor' \in Seq(Envelopes) /\ Len(sensor) \in Nat
           /\ DOMAIN sensor = 1 .. Len(sensor) /\ DOMAIN sensor' = 1 .. Len(sensor')
           /\ Len(sensor') = Len(sensor) + (IF added THEN 1 ELSE 0)
           /\ \A i \in 1 .. Len(sensor) : sensor'[i] = sensor[i]
           /\ added => sensor'[Len(sensor) + 1] = Envelope(d)
<1>1. sensor \in Seq(Envelopes) /\ Envelope(d) \in Envelopes
  BY EnvelopeFacts DEF IngestionTyped, InFlight
<1>2. Len(sensor) \in Nat /\ DOMAIN sensor = 1 .. Len(sensor)
  BY <1>1, LenProperties
<1>3. CASE added
  <2>1. sensor' = Append(sensor, Envelope(d))
    BY <1>3 DEF Sent
  <2> QED BY <1>1, <1>2, <1>3, <2>1, Appended
<1>4. CASE ~added
  BY <1>1, <1>2, <1>4 DEF Sent
<1> QED BY <1>3, <1>4

LEMMA SentKeepsWindows ==
    ASSUME IngestionTyped, WindowsOK, NEW d \in flush.todo, NEW failed, NEW added \in BOOLEAN,
           Sent(d, failed, added)
    PROVE  WindowsOK'
<1>1. flush'.todo = {} => flush'.failed = {}
  BY SentWindows DEF InFlight
<1>2. ASSUME NEW e \in Devices
      PROVE  /\ window'[e].over \subseteq 1 .. taken'
             /\ window'[e] # EmptyWindow => window'[e].latest \in window'[e].over
  <2>1. window[e] \in Windows
    BY DEF IngestionTyped
  <2>2. CASE InFlight' = {} /\ e \in failed
    <3>1. e \in InFlight /\ window'[e] = Add(window[e], flush.items[e].latest) /\ taken' = taken
      BY <2>2, SentWindows
    <3>2. flush.items[e].latest \in Samples /\ flush.items[e].latest \in 1 .. taken
      BY <3>1, InFlightTyped
    <3>3. window[e].over \subseteq 1 .. taken
      BY DEF WindowsOK
    <3> QED BY <2>1, <3>1, <3>2, <3>3, Added
  <2>3. CASE ~(InFlight' = {} /\ e \in failed)
    <3>1. window'[e] = window[e] /\ taken' = taken
      BY <2>3, SentWindows
    <3> QED BY <3>1 DEF WindowsOK
  <2> QED BY <2>2, <2>3
<1>3. ASSUME NEW e \in InFlight'
      PROVE  /\ flush'.items[e].over \subseteq 1 .. taken'
             /\ flush'.items[e].latest \in flush'.items[e].over
             /\ flush'.items[e].over \intersect window'[e].over = {}
             /\ window'[e] # EmptyWindow => flush'.items[e].latest <= window'[e].latest
  <2>1. e \in InFlight /\ flush'.items[e] = flush.items[e] /\ e \in Devices /\ taken' = taken
    BY SentWindows, InFlightTyped
  <2>2. window'[e] = window[e]
    BY <1>3, <2>1, SentWindows
  <2> QED BY <2>1, <2>2 DEF WindowsOK
<1> QED BY <1>1, <1>2, <1>3 DEF WindowsOK

(* Whatever was published before stays in order with what is still to      *)
(* come; so does the envelope published now.                               *)
LEMMA SentKeepsEntry ==
    ASSUME IngestionTyped, WindowsOK, NEW d \in flush.todo, NEW failed, NEW added \in BOOLEAN,
           Sent(d, failed, added), NEW e \in Envelopes, EntryOK(e)
    PROVE  EntryOK(e)'
<1>1. /\ e.dev \in Devices /\ e.sample \in 1 .. taken /\ e.over \subseteq 1 .. taken
      /\ taken' = taken /\ taken \in Nat
  BY SentWindows DEF EntryOK, Envelopes, IngestionTyped
<1>2. e.dev \in failed => PutBackAfter(e, flush.items[e.dev])
  <2>1. CASE e.dev \in flush.failed
    BY <2>1 DEF EntryOK
  <2>2. CASE e.dev = d
    <3>1. PublishedBefore(e, flush.items[d])
      BY <2>2 DEF EntryOK
    <3>2. flush.items[d].latest \in flush.items[d].over
      BY DEF WindowsOK, InFlight
    <3> QED BY <2>2, <3>1, <3>2 DEF PublishedBefore, PutBackAfter
  <2> QED BY <2>1, <2>2 DEF Sent
<1>3. window'[e.dev] # EmptyWindow => PublishedBefore(e, window'[e.dev])
  <2>1. CASE InFlight' = {} /\ e.dev \in failed
    <3> DEFINE s == flush.items[e.dev].latest
    <3>1. window'[e.dev] = Add(window[e.dev], s) /\ e.dev \in InFlight
      BY <1>1, <2>1, SentWindows
    <3>2. s \in Samples /\ window[e.dev] \in Windows
      BY <1>1, <3>1, InFlightTyped DEF IngestionTyped
    <3>3. e.sample <= s /\ (s \in e.over => s = e.sample)
      BY <1>2, <2>1 DEF PutBackAfter
    <3>4. e.over \intersect window[e.dev].over \subseteq {e.sample}
      BY DEF EntryOK, PublishedBefore, EmptyWindow
    <3>5. window'[e.dev].latest = s /\ window'[e.dev].over = window[e.dev].over \union {s}
      BY <3>1, <3>2, Added
    <3> HIDE DEF s
    <3> QED BY <3>3, <3>4, <3>5 DEF PublishedBefore
  <2>2. CASE ~(InFlight' = {} /\ e.dev \in failed)
    <3>1. window'[e.dev] = window[e.dev]
      BY <1>1, <2>2, SentWindows
    <3> QED BY <3>1 DEF EntryOK
  <2> QED BY <2>1, <2>2
<1>4. e.dev \in flush'.todo => PublishedBefore(e, flush'.items[e.dev])
  <2>1. ASSUME e.dev \in flush'.todo PROVE flush'.items[e.dev] = flush.items[e.dev] /\ e.dev \in flush.todo
    BY <2>1, SentWindows DEF InFlight
  <2> QED BY <2>1 DEF EntryOK
<1>5. e.dev \in flush'.failed => PutBackAfter(e, flush'.items[e.dev])
  <2>1. ASSUME e.dev \in flush'.failed PROVE flush'.items[e.dev] = flush.items[e.dev] /\ e.dev \in failed
    BY <2>1, SentWindows DEF InFlight
  <2> QED BY <1>2, <2>1
<1> QED BY <1>1, <1>3, <1>4, <1>5 DEF EntryOK, PublishedBefore, PutBackAfter

LEMMA SentEntry ==
    ASSUME IngestionTyped, WindowsOK, NEW d \in flush.todo, NEW failed, NEW added \in BOOLEAN,
           Sent(d, failed, added), NEW e, e = Envelope(d)
    PROVE  EntryOK(e)'
<1> DEFINE sent == flush.items[d]
<1>1. /\ e.dev = d /\ e.sample = sent.latest /\ e.over = sent.over /\ d \in InFlight /\ d \in Devices
      /\ sent \in Windows /\ taken' = taken /\ sent.latest \in 1 .. taken /\ taken \in Nat
  BY SentWindows, EnvelopeFacts, InFlightTyped DEF IngestionTyped
<1>2. /\ sent.over \subseteq 1 .. taken /\ sent.latest \in sent.over
      /\ sent.over \intersect window[d].over = {}
      /\ window[d] # EmptyWindow => sent.latest <= window[d].latest
  BY <1>1 DEF WindowsOK
<1>3. window'[d] # EmptyWindow => PublishedBefore(e, window'[d])
  <2>1. CASE InFlight' = {} /\ d \in failed
    <3>1. window'[d] = Add(window[d], sent.latest)
      BY <1>1, <2>1, SentWindows
    <3>2. sent.latest \in Samples /\ window[d] \in Windows
      BY <1>1, InFlightTyped DEF IngestionTyped
    <3>3. window'[d].latest = sent.latest /\ window'[d].over = window[d].over \union {sent.latest}
      BY <3>1, <3>2, Added
    <3> QED BY <1>1, <1>2, <3>3 DEF PublishedBefore
  <2>2. CASE ~(InFlight' = {} /\ d \in failed)
    <3>1. window'[d] = window[d]
      BY <1>1, <2>2, SentWindows
    <3> QED BY <1>1, <1>2, <3>1 DEF PublishedBefore
  <2> QED BY <2>1, <2>2
<1>4. d \notin flush'.todo
  BY SentWindows
<1>5. d \in flush'.failed => PutBackAfter(e, flush'.items[d])
  <2>1. d \in flush'.failed => flush'.items[d] = sent
    BY SentWindows DEF InFlight
  <2> QED BY <1>1, <2>1 DEF PutBackAfter
<1> QED BY <1>1, <1>2, <1>3, <1>4, <1>5 DEF EntryOK, PublishedBefore, PutBackAfter

LEMMA SentKeepsOrder ==
    ASSUME IngestionTyped, WindowsOK, SensorOK, NEW d \in flush.todo, NEW failed,
           NEW added \in BOOLEAN, Sent(d, failed, added)
    PROVE  SensorOK'
<1>1. PICK e : e = Envelope(d)
  OBVIOUS
<1>2. EntryOK(e)' /\ e.dev = d /\ e.sample = flush.items[d].latest /\ e.over = flush.items[d].over
  BY <1>1, SentEntry, EnvelopeFacts DEF InFlight
<1>3. \A i \in 1 .. Len(sensor) : sensor[i] \in Envelopes
  BY ElementOfSeq DEF IngestionTyped
<1>4. /\ Len(sensor) \in Nat /\ DOMAIN sensor = 1 .. Len(sensor) /\ DOMAIN sensor' = 1 .. Len(sensor')
      /\ Len(sensor') = Len(sensor) + (IF added THEN 1 ELSE 0)
      /\ \A i \in 1 .. Len(sensor) : sensor'[i] = sensor[i]
      /\ added => sensor'[Len(sensor) + 1] = e
  BY <1>1, SensorGrows
<1>5. ASSUME NEW i \in DOMAIN sensor' PROVE EntryOK(sensor[i])' 
  <2>1. CASE i \in 1 .. Len(sensor)
    <3>1. PICK old \in Envelopes : old = sensor[i]
      BY <1>3, <2>1
    <3>2. EntryOK(old)
      BY <1>4, <2>1, <3>1 DEF SensorOK
    <3>3. EntryOK(old)'
      BY <3>2, SentKeepsEntry
    <3>4. sensor'[i] = old
      BY <1>4, <2>1, <3>1
    <3> QED BY <3>3, <3>4 DEF EntryOK
  <2>2. CASE i \notin 1 .. Len(sensor)
    <3>1. sensor'[i] = e
      BY <1>4, <1>5, <2>2
    <3> QED BY <1>2, <3>1 DEF EntryOK
  <2> QED BY <2>1, <2>2
<1>6. ASSUME NEW i \in DOMAIN sensor', NEW j \in DOMAIN sensor', Before(i, j, sensor')
      PROVE  /\ sensor'[i].sample <= sensor'[j].sample
             /\ sensor'[i].over \intersect sensor'[j].over \subseteq {sensor'[i].sample}
  <2>1. i \in 1 .. Len(sensor) /\ i < j /\ sensor'[i] = sensor[i]
    BY <1>4, <1>6 DEF Before
  <2>2. CASE j \in 1 .. Len(sensor)
    <3>1. Before(i, j, sensor) /\ sensor'[j] = sensor[j]
      BY <1>4, <1>6, <2>1, <2>2 DEF Before
    <3> QED BY <1>4, <2>1, <2>2, <3>1 DEF SensorOK
  <2>3. CASE j \notin 1 .. Len(sensor)
    <3>1. sensor'[j] = e
      BY <1>4, <1>6, <2>3
    <3>2. sensor[i].dev = d
      BY <1>2, <1>6, <2>1, <3>1 DEF Before
    <3>3. PublishedBefore(sensor[i], flush.items[d])
      BY <1>4, <2>1, <3>2 DEF SensorOK, EntryOK
    <3> QED BY <1>2, <2>1, <3>1, <3>3 DEF PublishedBefore
  <2> QED BY <2>2, <2>3
<1> QED BY <1>5, <1>6 DEF SensorOK

IngestionOK == IngestionTyped /\ WindowsOK /\ SensorOK

LEMMA EntriesTyped ==
    ASSUME IngestionTyped
    PROVE  /\ Len(sensor) \in Nat /\ DOMAIN sensor = 1 .. Len(sensor)
           /\ \A i \in DOMAIN sensor : sensor[i] \in Envelopes
BY LenProperties DEF IngestionTyped

(* A step that publishes nothing keeps the order if each entry stays in    *)
(* order with what is still to come.                                       *)
LEMMA NothingPublished ==
    ASSUME IngestionTyped, SensorOK, sensor' = sensor,
           \A e \in Envelopes : EntryOK(e) => EntryOK(e)'
    PROVE  SensorOK'
<1>1. ASSUME NEW i \in DOMAIN sensor' PROVE EntryOK(sensor[i])'
  <2>1. PICK e \in Envelopes : e = sensor[i]
    BY <1>1, EntriesTyped
  <2>2. EntryOK(e)
    BY <2>1 DEF SensorOK
  <2>3. EntryOK(e)' /\ sensor'[i] = e
    BY <2>1, <2>2
  <2> QED BY <2>3 DEF EntryOK
<1>2. \A i, j \in DOMAIN sensor : Before(i, j, sensor) <=> Before(i, j, sensor')
  BY DEF Before
<1> QED BY <1>1, <1>2 DEF SensorOK

LEMMA SampleStep == ASSUME IngestionOK, NEW d \in Devices, SampleArrives(d) PROVE IngestionOK'
<1>1. /\ taken \in Nat /\ taken' = taken + 1 /\ taken + 1 \in Samples /\ taken' \in 0 .. MaxSamples
      /\ flush' = flush /\ sensor' = sensor /\ InFlight' = InFlight /\ InFlight \subseteq Devices
  BY ConstantFacts DEF IngestionOK, IngestionTyped, SampleArrives, Samples, InFlight
<1>2. /\ \A e \in Devices : window[e] \in Windows
      /\ \A e \in Devices : window'[e] = IF e = d THEN Add(window[e], taken + 1) ELSE window[e]
      /\ window' = [window EXCEPT ![d] = Add(window[d], taken + 1)]
  BY DEF IngestionOK, IngestionTyped, SampleArrives
<1>3. /\ Add(window[d], taken + 1) \in Windows /\ Add(window[d], taken + 1).latest = taken + 1
      /\ Add(window[d], taken + 1).over = window[d].over \union {taken + 1}
  BY <1>1, <1>2, Added
<1>4. IngestionTyped'
  BY <1>1, <1>2, <1>3 DEF IngestionOK, IngestionTyped
<1>5. WindowsOK'
  <2>1. ASSUME NEW e \in Devices
        PROVE  /\ window'[e].over \subseteq 1 .. taken'
               /\ window'[e] # EmptyWindow => window'[e].latest \in window'[e].over
    <3>1. /\ window[e].over \subseteq 1 .. taken
          /\ window[e] # EmptyWindow => window[e].latest \in window[e].over
      BY DEF IngestionOK, WindowsOK
    <3> QED BY <1>1, <1>2, <1>3, <3>1
  <2>2. ASSUME NEW e \in InFlight
        PROVE  /\ flush.items[e].over \subseteq 1 .. taken'
               /\ flush.items[e].latest \in flush.items[e].over
               /\ flush.items[e].over \intersect window'[e].over = {}
               /\ window'[e] # EmptyWindow => flush.items[e].latest <= window'[e].latest
    <3>1. /\ flush.items[e].over \subseteq 1 .. taken
          /\ flush.items[e].latest \in flush.items[e].over
          /\ flush.items[e].over \intersect window[e].over = {}
          /\ window[e] # EmptyWindow => flush.items[e].latest <= window[e].latest
      BY DEF IngestionOK, WindowsOK
    <3>2. e \in Devices
      BY <1>1
    <3>3. CASE e = d
      <4>1. window'[e].latest = taken + 1 /\ window'[e].over = window[e].over \union {taken + 1}
        BY <1>2, <1>3, <3>2, <3>3
      <4>2. taken + 1 \notin flush.items[e].over /\ flush.items[e].latest <= taken + 1
        BY <1>1, <3>1
      <4> QED BY <1>1, <3>1, <4>1, <4>2
    <3>4. CASE e # d
      BY <1>1, <1>2, <3>1, <3>2, <3>4
    <3> QED BY <3>3, <3>4
  <2> QED BY <1>1, <2>1, <2>2 DEF IngestionOK, WindowsOK
<1>6. ASSUME NEW e \in Envelopes, EntryOK(e) PROVE EntryOK(e)'
  <2>1. /\ e.dev \in Devices /\ e.sample \in 1 .. taken /\ e.over \subseteq 1 .. taken
    BY <1>6 DEF EntryOK, Envelopes
  <2>2. CASE e.dev = d
    <3>1. window'[d].latest = taken + 1 /\ window'[d].over = window[d].over \union {taken + 1}
      BY <1>2, <1>3
    <3>2. e.over \intersect window[d].over \subseteq {e.sample}
      BY <1>6, <2>2 DEF EntryOK, PublishedBefore, EmptyWindow
    <3>3. taken + 1 \notin e.over /\ e.sample <= taken + 1
      BY <1>1, <2>1
    <3>4. PublishedBefore(e, window'[d])
      BY <3>1, <3>2, <3>3 DEF PublishedBefore
    <3> QED BY <1>1, <1>6, <2>1, <2>2, <3>4 DEF EntryOK, PublishedBefore, PutBackAfter
  <2>3. CASE e.dev # d
    <3>1. window'[e.dev] = window[e.dev]
      BY <1>2, <2>1, <2>3
    <3> QED BY <1>1, <1>6, <2>1, <3>1 DEF EntryOK, PublishedBefore, PutBackAfter
  <2> QED BY <2>2, <2>3
<1>7. SensorOK'
  BY <1>1, <1>6, NothingPublished DEF IngestionOK
<1> QED BY <1>4, <1>5, <1>7 DEF IngestionOK

LEMMA FlushStep == ASSUME IngestionOK, FlushBegin PROVE IngestionOK'
<1>1. /\ flush'.items = window /\ flush'.todo = {d \in Devices : window[d] # EmptyWindow}
      /\ flush'.failed = {} /\ InFlight' = flush'.todo
      /\ taken' = taken /\ sensor' = sensor
  BY DEF FlushBegin, InFlight
<1>2. \A d \in Devices : window'[d] = EmptyWindow /\ window'[d].over = {}
  BY DEF FlushBegin, NewWindows, EmptyWindow
<1>3. IngestionTyped'
  BY EmptyWindowTyped DEF IngestionOK, IngestionTyped, FlushBegin, NewWindows
<1>4. WindowsOK'
  BY <1>1, <1>2 DEF IngestionOK, WindowsOK
<1>5. ASSUME NEW e \in Envelopes, EntryOK(e) PROVE EntryOK(e)'
  <2>1. e.dev \in Devices
    BY DEF Envelopes
  <2> QED BY <1>1, <1>2, <1>5, <2>1 DEF EntryOK, PublishedBefore, PutBackAfter
<1>6. SensorOK'
  BY <1>1, <1>5, NothingPublished DEF IngestionOK
<1> QED BY <1>3, <1>4, <1>6 DEF IngestionOK

LEMMA RestartStep == ASSUME IngestionOK, IngestionRestarts PROVE IngestionOK'
<1>1. /\ flush'.todo = {} /\ flush'.failed = {} /\ InFlight' = {}
      /\ taken' = taken /\ sensor' = sensor
  BY DEF IngestionRestarts, IdleFlush, InFlight
<1>2. \A d \in Devices : window'[d] = EmptyWindow /\ window'[d].over = {}
  BY DEF IngestionRestarts, EmptyWindow
<1>3. IngestionTyped'
  BY EmptyWindowTyped DEF IngestionOK, IngestionTyped, IngestionRestarts, IdleFlush
<1>4. WindowsOK'
  BY <1>1, <1>2 DEF WindowsOK
<1>5. ASSUME NEW e \in Envelopes, EntryOK(e) PROVE EntryOK(e)'
  <2>1. e.dev \in Devices
    BY DEF Envelopes
  <2> QED BY <1>1, <1>2, <1>5, <2>1 DEF EntryOK, PublishedBefore
<1>6. SensorOK'
  BY <1>1, <1>5, NothingPublished DEF IngestionOK
<1> QED BY <1>3, <1>4, <1>6 DEF IngestionOK

(* Ingestion only adds to the stream, and leaves the consumers alone. *)
Extends(s, t) == Len(s) <= Len(t) /\ \A i \in 1 .. Len(s) : t[i] = s[i]

LEMMA IngestionFramed ==
    ASSUME IngestionOK, UNCHANGED <<ingestion, sensor>>
    PROVE  IngestionOK'
<1>1. UNCHANGED <<taken, window, flush, sensor>>
  BY DEF ingestion
<1> QED BY <1>1 DEF IngestionOK, IngestionTyped, WindowsOK, InFlight, SensorOK, EntryOK, Before,
                    PublishedBefore, PutBackAfter

LEMMA SentStep ==
    ASSUME IngestionOK, NEW d, NEW failed, NEW added \in BOOLEAN, Sent(d, failed, added)
    PROVE  IngestionOK' /\ Extends(sensor, sensor')
<1>1. d \in flush.todo
  BY DEF Sent, FlushGoesOn
<1>2. IngestionTyped'
  <2>1. taken' = taken /\ window' \in [Devices -> Windows]
        /\ flush' \in [items : [Devices -> Windows], todo : SUBSET Devices, failed : SUBSET Devices]
    BY <1>1, SentWindows DEF IngestionOK
  <2>2. sensor' \in Seq(Envelopes)
    BY <1>1, SensorGrows DEF IngestionOK
  <2> QED BY <2>1, <2>2 DEF IngestionOK, IngestionTyped
<1>3. WindowsOK' /\ SensorOK'
  BY <1>1, SentKeepsWindows, SentKeepsOrder DEF IngestionOK
<1>4. Extends(sensor, sensor')
  BY <1>1, SensorGrows DEF IngestionOK, Extends
<1> QED BY <1>2, <1>3, <1>4 DEF IngestionOK

LEMMA IngestionStep ==
    ASSUME IngestionOK, LimitsTyped, Coalesce
    PROVE  /\ IngestionOK' /\ LimitsTyped' /\ Extends(sensor, sensor')
           /\ UNCHANGED <<processor, result, dbWriter>>
<1>1. Len(sensor) \in Nat
  BY EntriesTyped DEF IngestionOK
<1>2. sensor' = sensor => Extends(sensor, sensor')
  BY <1>1 DEF Extends
<1>3. ASSUME NEW d \in Devices, SampleArrives(d)
      PROVE  /\ IngestionOK' /\ Extends(sensor, sensor')
             /\ UNCHANGED <<processor, result, dbWriter>> /\ UNCHANGED limits
  BY <1>2, <1>3, SampleStep DEF SampleArrives
<1>4. ASSUME NEW d \in Devices, PublishEnvelope(d)
      PROVE  /\ IngestionOK' /\ Extends(sensor, sensor')
             /\ UNCHANGED <<processor, result, dbWriter>> /\ UNCHANGED limits
  <2>1. Sent(d, flush.failed, TRUE)
    BY <1>4, SendingSteps
  <2> QED BY <1>4, <2>1, SentStep DEF PublishEnvelope, FlushGoesOn
<1>5. ASSUME NEW d \in Devices, NEW added \in BOOLEAN, PublishFails(d, added)
      PROVE  /\ IngestionOK' /\ Extends(sensor, sensor')
             /\ UNCHANGED <<processor, result, dbWriter>> /\ Fault
  <2>1. Sent(d, flush.failed \union {d}, added)
    BY <1>5, SendingSteps
  <2> QED BY <1>5, <2>1, SentStep DEF PublishFails, FlushGoesOn
<1>6. ASSUME FlushBegin
      PROVE  /\ IngestionOK' /\ Extends(sensor, sensor')
             /\ UNCHANGED <<processor, result, dbWriter>> /\ UNCHANGED limits
  BY <1>2, <1>6, FlushStep DEF FlushBegin
<1>7. ASSUME FlushNothing
      PROVE  /\ IngestionOK' /\ Extends(sensor, sensor')
             /\ UNCHANGED <<processor, result, dbWriter>> /\ UNCHANGED limits
  <2>1. UNCHANGED <<taken, window, flush, sensor>> /\ UNCHANGED <<processor, result, dbWriter, limits>>
    BY <1>7 DEF FlushNothing, vars, ingestion
  <2>2. IngestionTyped' /\ WindowsOK' /\ SensorOK'
    BY <2>1 DEF IngestionOK, IngestionTyped, WindowsOK, InFlight, SensorOK, EntryOK, Before,
                PublishedBefore, PutBackAfter
  <2> QED BY <1>2, <2>1, <2>2 DEF IngestionOK
<1>8. ASSUME IngestionRestarts
      PROVE  /\ IngestionOK' /\ Extends(sensor, sensor')
             /\ UNCHANGED <<processor, result, dbWriter>> /\ Restart
  BY <1>2, <1>8, RestartStep DEF IngestionRestarts
<1> QED BY <1>3, <1>4, <1>5, <1>6, <1>7, <1>8, LimitsStep DEF Coalesce

-----------------------------------------------------------------------------
(* The steps of the state-processor *)

LEMMA AppendExtends ==
    ASSUME NEW S, NEW s \in Seq(S), NEW e
    PROVE  Extends(s, Append(s, e))
BY DEF Extends

ProcessorSafe == ProcessorTyped /\ ProcessorOK /\ IngestionTyped /\ sensorRead <= Len(sensor)

(* What is on mg:state:result: true copies of entries up to p, in order. *)
Copies(res, p) ==
    /\ \A r \in DOMAIN res :
        /\ res[r].entry <= p
        /\ res[r].dev = sensor[res[r].entry].dev
        /\ res[r].sample = sensor[res[r].entry].sample
    /\ \A i, j \in DOMAIN res : i < j => res[i].entry < res[j].entry

Shown(res, e) == \E r \in DOMAIN res : res[r].entry = e

LEMMA ProcessorParts ==
    ProcessorOK <=>
        /\ InStep(sensorRead, worker)
        /\ \A e \in 1 .. sensorRead : e > Behind(sensorRead, worker) => e \in unacked
        /\ \A e \in 1 .. sensorRead : e \in unacked \/ Shown(result, e)
        /\ worker.at = "ack" => Shown(result, Passed)
        /\ Copies(result, Passed)
BY DEF ProcessorOK, Shown, Copies

LEMMA ShownEntries ==
    ASSUME ProcessorTyped
    PROVE  \A r \in DOMAIN result : result[r].entry \in 1 .. sensorRead /\ result[r].entry \in Nat
<1>1. DOMAIN result = 1 .. Len(result) /\ result \in Seq(Snapshots(sensorRead)) /\ sensorRead \in Nat
  BY LenProperties DEF ProcessorTyped
<1>2. \A r \in DOMAIN result : result[r] \in Snapshots(sensorRead)
  BY <1>1, ElementOfSeq
<1>3. \A r \in DOMAIN result : result[r].entry \in 1 .. sensorRead
  BY <1>2 DEF Snapshots
<1> QED BY <1>1, <1>3

(* The stream may grow meanwhile. *)
LEMMA ProcessorFramed ==
    ASSUME ProcessorTyped, ProcessorOK, IngestionTyped, sensorRead <= Len(sensor),
           Extends(sensor, sensor'), UNCHANGED <<processor, result>>
    PROVE  ProcessorTyped' /\ ProcessorOK'
<1>1. UNCHANGED <<sensorRead, unacked, worker, state, result>>
  BY DEF processor, group
<1>2. /\ \A r \in DOMAIN result : result[r].entry \in 1 .. sensorRead
      /\ Len(sensor) \in Nat /\ sensorRead \in Nat
  BY ShownEntries, EntriesTyped DEF ProcessorTyped
<1>3. \A r \in DOMAIN result : sensor'[result[r].entry] = sensor[result[r].entry]
  BY <1>2 DEF Extends
<1>4. ProcessorTyped'
  BY <1>1 DEF ProcessorTyped
<1>5. Copies(result, Passed)
  BY ProcessorParts
<1>6. /\ \A r \in DOMAIN result :
          /\ result[r].entry <= Passed
          /\ result[r].dev = sensor'[result[r].entry].dev
          /\ result[r].sample = sensor'[result[r].entry].sample
      /\ \A i, j \in DOMAIN result : i < j => result[i].entry < result[j].entry
  BY <1>3, <1>5 DEF Copies
<1>7. /\ InStep(sensorRead, worker)' /\ Behind(sensorRead, worker)' = Behind(sensorRead, worker)
      /\ Passed' = Passed
  BY <1>1 DEF ProcessorOK, InStep, Behind, Passed
<1> QED BY <1>1, <1>4, <1>6, <1>7 DEF ProcessorOK

LEMMA CurrentFacts ==
    ASSUME ProcessorSafe, worker.at \in {"set", "publish", "ack"}
    PROVE  /\ worker.batch \in Seq(1 .. sensorRead) /\ worker.batch # <<>>
           /\ sensorRead \in Nat /\ InStep(sensorRead, worker)
           /\ Behind(sensorRead, worker) \in Nat
           /\ Current = Behind(sensorRead, worker) + 1 /\ Current \in 1 .. sensorRead
           /\ sensor[Current] \in Envelopes
<1>1. /\ worker.batch \in Seq(1 .. sensorRead) /\ worker.batch # <<>>
      /\ sensorRead \in Nat /\ InStep(sensorRead, worker)
  BY DEF ProcessorSafe, ProcessorTyped, ProcessorOK, Batches
<1>2. /\ Behind(sensorRead, worker) \in Nat
      /\ Current = Behind(sensorRead, worker) + 1 /\ Current \in 1 .. sensorRead
  BY <1>1, InHandFacts DEF Current
<1>3. Len(sensor) \in Nat /\ sensorRead <= Len(sensor) /\ DOMAIN sensor = 1 .. Len(sensor)
      /\ \A i \in DOMAIN sensor : sensor[i] \in Envelopes
  BY EntriesTyped DEF ProcessorSafe
<1>4. Current \in DOMAIN sensor
  BY <1>1, <1>2, <1>3
<1> QED BY <1>1, <1>2, <1>3, <1>4

(* Publishing the entry in hand keeps the copies true and in order. *)
LEMMA SnapshotShown ==
    ASSUME ProcessorSafe, worker.at = "publish", NEW res, res = Append(result, Snapshot)
    PROVE  /\ res \in Seq(Snapshots(sensorRead)) /\ Shown(res, Current)
           /\ \A e : Shown(result, e) => Shown(res, e)
           /\ Copies(res, Current)
           /\ Len(result) \in Nat /\ Len(res) = Len(result) + 1
<1>1. PICK n : n = Snapshot
  OBVIOUS
<1>2. PICK c : c = Current
  OBVIOUS
<1>3. /\ c = Behind(sensorRead, worker) + 1 /\ c \in 1 .. sensorRead /\ sensorRead \in Nat
      /\ sensor[c] \in Envelopes /\ Passed = Behind(sensorRead, worker) /\ Passed \in Nat
  BY <1>2, CurrentFacts DEF Passed
<1>4. n.dev = sensor[c].dev /\ n.sample = sensor[c].sample /\ n.entry = c /\ n \in Snapshots(sensorRead)
  BY <1>1, <1>2, <1>3 DEF Snapshot, Snapshots, Envelopes
<1>5. result \in Seq(Snapshots(sensorRead)) /\ Copies(result, Passed)
  BY ProcessorParts DEF ProcessorSafe, ProcessorTyped
<1>6. /\ res \in Seq(Snapshots(sensorRead))
      /\ Len(result) \in Nat /\ Len(res) = Len(result) + 1
      /\ DOMAIN result = 1 .. Len(result) /\ DOMAIN res = 1 .. Len(result) + 1
      /\ \A i \in 1 .. Len(result) : res[i] = result[i]
      /\ res[Len(result) + 1] = n
  BY <1>1, <1>4, <1>5, Appended
<1>7. \A i \in DOMAIN result : result[i].entry <= Passed /\ result[i].entry \in Nat
  BY <1>5, ShownEntries DEF Copies, ProcessorSafe
<1>8. \A i \in DOMAIN res : i \in DOMAIN result \/ i = Len(result) + 1
  BY <1>6
<1>9. Copies(res, c)
  <2>1. ASSUME NEW r \in DOMAIN res
        PROVE  /\ res[r].entry <= c
               /\ res[r].dev = sensor[res[r].entry].dev
               /\ res[r].sample = sensor[res[r].entry].sample
    <3>1. CASE r \in DOMAIN result
      <4>1. res[r] = result[r] /\ result[r].entry <= c
        BY <1>3, <1>6, <1>7, <3>1
      <4> QED BY <1>5, <3>1, <4>1 DEF Copies
    <3>2. CASE r = Len(result) + 1
      BY <1>3, <1>4, <1>6, <3>2
    <3> QED BY <1>8, <3>1, <3>2
  <2>2. ASSUME NEW i \in DOMAIN res, NEW j \in DOMAIN res, i < j
        PROVE  res[i].entry < res[j].entry
    <3>1. i \in DOMAIN result /\ res[i] = result[i]
      BY <1>6, <2>2
    <3>2. CASE j \in DOMAIN result
      BY <1>5, <1>6, <2>2, <3>1, <3>2 DEF Copies
    <3>3. CASE j = Len(result) + 1
      BY <1>3, <1>4, <1>6, <1>7, <3>1, <3>3
    <3> QED BY <1>8, <3>2, <3>3
  <2> QED BY <2>1, <2>2 DEF Copies
<1>10. Shown(res, c) /\ \A e : Shown(result, e) => Shown(res, e)
  <2>1. Len(result) + 1 \in DOMAIN res
    BY <1>6
  <2>2. \A i \in DOMAIN result : i \in DOMAIN res /\ res[i] = result[i]
    BY <1>6
  <2> QED BY <1>4, <1>6, <2>1, <2>2 DEF Shown
<1> QED BY <1>2, <1>6, <1>9, <1>10

LEMMA CopiesLater ==
    ASSUME NEW res, NEW p \in Int, NEW q \in Int, p <= q, Copies(res, p),
           \A r \in DOMAIN res : res[r].entry \in Int
    PROVE  Copies(res, q)
BY DEF Copies

(* A worker without a batch has passed on all it was handed. *)
LEMMA NoBatch ==
    ASSUME NEW c, c.batch = <<>>, NEW read \in Nat
    PROVE  Behind(read, c) = read /\ InStep(read, c)
BY DEF Behind, InStep

LEMMA ProcessorNumbers ==
    ASSUME ProcessorTyped
    PROVE  /\ Behind(sensorRead, worker) \in Int /\ Passed \in Int /\ sensorRead \in Nat
           /\ Behind(sensorRead, worker) <= sensorRead
           /\ worker.at = "ack" => Passed = Behind(sensorRead, worker) + 1
           /\ worker.at # "ack" => Passed = Behind(sensorRead, worker)
<1>1. sensorRead \in Nat /\ Len(worker.batch) \in Nat
  BY LenProperties DEF ProcessorTyped, Batches
<1>2. Behind(sensorRead, worker) \in Int /\ Behind(sensorRead, worker) <= sensorRead
  BY <1>1 DEF Behind
<1> QED BY <1>1, <1>2 DEF Passed

LEMMA WorkerStops ==
    ASSUME ProcessorSafe, sensor' = sensor, NEW at \in {"read", "dead"},
           worker' = [at |-> at, batch |-> <<>>],
           UNCHANGED <<group, state, result>>
    PROVE  ProcessorTyped' /\ ProcessorOK' /\ sensorRead' <= Len(sensor')
<1>1. UNCHANGED <<sensorRead, unacked, state, result>> /\ worker'.batch = <<>> /\ worker'.at = at
  BY DEF group
<1>2. ProcessorTyped'
  BY <1>1 DEF ProcessorSafe, ProcessorTyped, Batches
<1>3. /\ sensorRead \in Nat /\ Behind(sensorRead, worker') = sensorRead /\ InStep(sensorRead, worker')
      /\ Passed' = sensorRead
  BY <1>1, NoBatch, ProcessorNumbers DEF ProcessorSafe, Passed
<1>4. Passed \in Int /\ Passed <= sensorRead
  <2>1. CASE worker.at = "ack"
    BY <2>1, CurrentFacts, ProcessorNumbers DEF ProcessorSafe
  <2>2. CASE worker.at # "ack"
    BY <2>2, ProcessorNumbers DEF ProcessorSafe
  <2> QED BY <2>1, <2>2
<1>5. Copies(result, sensorRead)
  BY <1>3, <1>4, ProcessorParts, CopiesLater, ShownEntries DEF ProcessorSafe
<1>6. /\ InStep(sensorRead, worker)'
      /\ \A e \in 1 .. sensorRead : e > sensorRead => e \in unacked
      /\ \A e \in 1 .. sensorRead : e \in unacked \/ Shown(result, e)
  BY <1>1, <1>3, ProcessorParts DEF ProcessorSafe
<1>7. Copies(result, Passed)' /\ Behind(sensorRead, worker)' = sensorRead
  BY <1>1, <1>3, <1>5 DEF Copies
<1>8. ProcessorOK'
  BY <1>1, <1>6, <1>7 DEF ProcessorOK, Copies, Shown
<1> QED BY <1>1, <1>2, <1>8 DEF ProcessorSafe

LEMMA WorkerReads ==
    ASSUME ProcessorSafe, WorkerRead
    PROVE  ProcessorTyped' /\ ProcessorOK' /\ sensorRead' <= Len(sensor')
<1>1. PICK b : b = NextEntries(sensor, sensorRead, SensorBatch)
  OBVIOUS
<1>2. /\ worker.at = "read" /\ sensorRead < Len(sensor)
      /\ worker' = [at |-> "set", batch |-> b] /\ sensorRead' = sensorRead + Len(b)
      /\ unacked' = unacked \union Members(b)
      /\ UNCHANGED <<sensor, state, result>>
  BY <1>1 DEF WorkerRead
<1>3. /\ Len(b) \in Nat /\ Len(b) >= 1 /\ sensorRead + Len(b) <= Len(sensor)
      /\ b \in Seq(1 .. sensorRead + Len(b)) /\ b # <<>> /\ DOMAIN b = 1 .. Len(b)
      /\ \A k \in 1 .. Len(b) : b[k] = sensorRead + k
      /\ Members(b) = sensorRead + 1 .. sensorRead + Len(b)
  <2>1. sensor \in Seq(Envelopes) /\ sensorRead \in Nat
    BY DEF ProcessorSafe, IngestionTyped, ProcessorTyped
  <2>2. SensorBatch \in Nat \ {0} /\ sensorRead < Len(sensor)
    BY <1>2, ConstantFacts
  <2>3. Handed(b, sensor, sensorRead)
    BY <1>1, <2>1, <2>2, NextEntriesFacts
  <2> QED BY <2>3 DEF Handed
<1>4. /\ sensorRead \in Nat /\ Behind(sensorRead, worker) = sensorRead /\ Passed = sensorRead
      /\ 1 .. sensorRead \subseteq 1 .. sensorRead + Len(b)
  <2>1. worker.batch = <<>> /\ sensorRead \in Nat
    BY <1>2 DEF ProcessorSafe, ProcessorTyped
  <2> QED BY <1>2, <1>3, <2>1, NoBatch, ProcessorNumbers DEF ProcessorSafe
<1>5. ProcessorTyped'
  <2>1. result \in Seq(Snapshots(sensorRead + Len(b)))
    <3>1. Snapshots(sensorRead) \subseteq Snapshots(sensorRead + Len(b))
      BY <1>4 DEF Snapshots
    <3> QED BY <3>1, Widened DEF ProcessorSafe, ProcessorTyped
  <2>2. unacked' \subseteq 1 .. sensorRead + Len(b)
    <3>1. unacked \subseteq 1 .. sensorRead
      BY DEF ProcessorSafe, ProcessorTyped
    <3>2. Members(b) \subseteq 1 .. sensorRead + Len(b)
      BY <1>3, <1>4
    <3> QED BY <1>2, <1>4, <3>1, <3>2
  <2> QED BY <1>2, <1>3, <1>4, <2>1, <2>2 DEF ProcessorSafe, ProcessorTyped, Batches
<1>6. /\ Behind(sensorRead, worker)' = sensorRead /\ Passed' = sensorRead
      /\ InStep(sensorRead, worker)'
  <2>1. worker'.batch = b /\ worker'.at = "set"
    BY <1>2
  <2>2. Behind(sensorRead, worker)' = sensorRead
    BY <1>2, <1>3, <1>4, <2>1 DEF Behind
  <2> QED BY <1>3, <1>4, <2>1, <2>2 DEF InStep, Passed
<1>7. \A e \in 1 .. sensorRead' : e > sensorRead => e \in unacked'
  BY <1>2, <1>3, <1>4
<1>8. \A e \in 1 .. sensorRead' : e \in unacked' \/ Shown(result, e)
  <2>1. \A e \in 1 .. sensorRead : e \in unacked \/ Shown(result, e)
    BY ProcessorParts DEF ProcessorSafe
  <2>2. \A e \in 1 .. sensorRead' : e \in 1 .. sensorRead \/ e \in Members(b)
    BY <1>2, <1>3, <1>4
  <2> QED BY <1>2, <2>1, <2>2
<1>9. Copies(result, sensorRead)
  BY <1>4, ProcessorParts DEF ProcessorSafe
<1>10. ProcessorOK'
  <2>1. worker'.at # "ack"
    BY <1>2
  <2> QED BY <1>2, <1>6, <1>7, <1>8, <1>9, <2>1 DEF ProcessorOK, Copies, Shown
<1> QED BY <1>2, <1>3, <1>5, <1>10

(* The entry in hand is done with, one way or the other. *)
LEMMA WorkerGoesOn ==
    ASSUME ProcessorSafe, worker.at \in {"set", "publish", "ack"},
           worker' = Advance(worker, "set"), UNCHANGED <<sensor, sensorRead, state>>,
           result' \in Seq(Snapshots(sensorRead)), Copies(result', Current),
           \A e : Shown(result, e) => Shown(result', e),
           unacked' = unacked \/ (unacked' = unacked \ {Current} /\ Shown(result', Current))
    PROVE  ProcessorTyped' /\ ProcessorOK' /\ sensorRead' <= Len(sensor')
<1>1. /\ worker.batch \in Seq(1 .. sensorRead) /\ worker.batch # <<>>
      /\ sensorRead \in Nat /\ InStep(sensorRead, worker)
      /\ Behind(sensorRead, worker) \in Nat
      /\ Current = Behind(sensorRead, worker) + 1 /\ Current \in 1 .. sensorRead
  BY CurrentFacts
<1>2. /\ worker' = [at |-> worker'.at, batch |-> worker'.batch] /\ worker'.at \in {"read", "set"}
      /\ worker'.batch \in Seq(1 .. sensorRead) /\ (worker'.at = "set" <=> worker'.batch # <<>>)
      /\ Behind(sensorRead, worker') = Current /\ InStep(sensorRead, worker')
  BY <1>1, AdvanceFacts
<1>3. ProcessorTyped'
  BY <1>1, <1>2 DEF ProcessorSafe, ProcessorTyped, Batches
<1>4. Passed' = Current /\ InStep(sensorRead, worker)' /\ Behind(sensorRead, worker)' = Current
  BY <1>1, <1>2 DEF Passed
<1>5. \A e \in 1 .. sensorRead : e > Current => e \in unacked'
  BY <1>1, ProcessorParts DEF ProcessorSafe
<1>6. \A e \in 1 .. sensorRead : e \in unacked' \/ Shown(result', e)
  BY ProcessorParts DEF ProcessorSafe
<1>7. worker'.at # "ack"
  BY <1>2
<1> QED BY <1>1, <1>3, <1>4, <1>5, <1>6, <1>7 DEF ProcessorSafe, ProcessorOK, Copies, Shown

LEMMA ProcessorStep ==
    ASSUME ProcessorSafe, LimitsTyped, Process
    PROVE  /\ ProcessorTyped' /\ ProcessorOK' /\ LimitsTyped' /\ sensorRead' <= Len(sensor')
           /\ UNCHANGED <<ingestion, sensor, dbWriter>>
           /\ Extends(result, result')
<1> DEFINE Goal == ProcessorTyped' /\ ProcessorOK' /\ sensorRead' <= Len(sensor')
<1>1. /\ result \in Seq(Snapshots(sensorRead)) /\ Len(result) \in Nat
      /\ sensorRead \in Nat
  BY LenProperties DEF ProcessorSafe, ProcessorTyped
<1>2. result' = result => Extends(result, result')
  BY <1>1 DEF Extends
<1>3. CASE WorkerRead
  BY <1>2, <1>3, WorkerReads, LimitsStep DEF WorkerRead
<1>4. CASE WorkerReadFails
  <2>1. Goal
    BY <1>4, WorkerStops DEF WorkerReadFails
  <2> QED BY <1>2, <1>4, <2>1, LimitsStep DEF WorkerReadFails
<1>5. CASE WorkerSet
  <2>1. /\ UNCHANGED <<sensor, sensorRead, unacked, result>> /\ worker.at = "set"
        /\ worker'.at = "publish" /\ worker'.batch = worker.batch
        /\ worker' \in Batches({"read", "set", "publish", "ack", "dead"}, sensorRead)
    BY <1>5 DEF WorkerSet, group, ProcessorSafe, ProcessorTyped, Batches
  <2>2. state' \in [Devices -> Samples \union {NoSample}]
    <3>1. sensor[Current].dev \in Devices /\ sensor[Current].sample \in Samples
      BY <2>1, CurrentFacts DEF Envelopes
    <3> QED BY <1>5, <3>1 DEF WorkerSet, ProcessorSafe, ProcessorTyped
  <2>3. ProcessorTyped'
    BY <2>1, <2>2 DEF ProcessorSafe, ProcessorTyped
  <2>4. /\ InStep(sensorRead, worker)' /\ Behind(sensorRead, worker)' = Behind(sensorRead, worker)
        /\ Passed' = Passed
    BY <2>1 DEF ProcessorSafe, ProcessorOK, InStep, Behind, Passed
  <2>5. ProcessorOK'
    BY <2>1, <2>4 DEF ProcessorSafe, ProcessorOK
  <2> QED BY <1>2, <1>5, <2>1, <2>3, <2>5, LimitsStep DEF WorkerSet, ProcessorSafe
<1>6. CASE WorkerPublish
  <2>1. /\ UNCHANGED <<sensor, sensorRead, unacked, state>> /\ worker.at = "publish"
        /\ worker'.at = "ack" /\ worker'.batch = worker.batch
        /\ worker' \in Batches({"read", "set", "publish", "ack", "dead"}, sensorRead)
        /\ result' = Append(result, Snapshot)
    BY <1>6 DEF WorkerPublish, group, ProcessorSafe, ProcessorTyped, Batches
  <2>2. /\ result' \in Seq(Snapshots(sensorRead)) /\ Shown(result', Current)
        /\ \A e : Shown(result, e) => Shown(result', e)
        /\ Copies(result', Current)
    BY <2>1, SnapshotShown
  <2>3. ProcessorTyped'
    BY <2>1, <2>2 DEF ProcessorSafe, ProcessorTyped
  <2>4. /\ InStep(sensorRead, worker)' /\ Behind(sensorRead, worker)' = Behind(sensorRead, worker)
        /\ Passed' = Current
    BY <2>1, CurrentFacts DEF InStep, Behind, Passed
  <2>5. ProcessorOK'
    <3>1. \A e \in 1 .. sensorRead : e \in unacked \/ Shown(result', e)
      BY <2>2, ProcessorParts DEF ProcessorSafe
    <3>2. \A e \in 1 .. sensorRead : e > Behind(sensorRead, worker) => e \in unacked
      BY ProcessorParts DEF ProcessorSafe
    <3> QED BY <2>1, <2>2, <2>4, <3>1, <3>2 DEF ProcessorOK, Shown, Copies
  <2>6. Extends(result, result')
    BY <1>1, <2>1, AppendExtends
  <2> QED BY <1>6, <2>1, <2>3, <2>5, <2>6, LimitsStep DEF WorkerPublish, ProcessorSafe
<1>7. CASE WorkerAck
  <2>1. /\ UNCHANGED <<sensor, sensorRead, state, result>> /\ worker.at = "ack"
        /\ unacked' = unacked \ {Current} /\ worker' = Advance(worker, "set")
    BY <1>7 DEF WorkerAck
  <2>2. Shown(result, Current) /\ Copies(result, Current)
    <3>1. Passed = Current
      BY <2>1, CurrentFacts, ProcessorNumbers DEF ProcessorSafe
    <3> QED BY <2>1, <3>1, ProcessorParts DEF ProcessorSafe
  <2>3. Goal
    <3>1. Copies(result', Current) /\ Shown(result', Current)
      BY <2>1, <2>2
    <3>2. result' \in Seq(Snapshots(sensorRead)) /\ \A e : Shown(result, e) => Shown(result', e)
      BY <1>1, <2>1
    <3> QED BY <2>1, <3>1, <3>2, WorkerGoesOn
  <2> QED BY <1>2, <1>7, <2>1, <2>3, LimitsStep DEF WorkerAck
<1>8. ASSUME NEW added \in BOOLEAN, WorkerFails(added)
      PROVE  /\ Goal /\ LimitsTyped' /\ UNCHANGED <<ingestion, sensor, dbWriter>>
             /\ Extends(result, result')
  <2>1. /\ UNCHANGED <<sensor, sensorRead, state, unacked>> /\ worker.at \in {"set", "publish", "ack"}
        /\ worker' = Advance(worker, "set")
        /\ result' = (IF added THEN Append(result, Snapshot) ELSE result)
        /\ added => worker.at = "publish"
    BY <1>8 DEF WorkerFails, StaysPending
  <2>2. /\ result' \in Seq(Snapshots(sensorRead)) /\ \A e : Shown(result, e) => Shown(result', e)
        /\ Copies(result', Current) /\ Extends(result, result')
    <3>1. CASE added
      BY <1>1, <2>1, <3>1, SnapshotShown, AppendExtends
    <3>2. CASE ~added
      <4>1. Passed \in Int /\ Passed <= Current /\ Current \in Int
        BY <2>1, CurrentFacts, ProcessorNumbers DEF ProcessorSafe
      <4>2. Copies(result, Current)
        BY <4>1, ProcessorParts, CopiesLater, ShownEntries DEF ProcessorSafe
      <4> QED BY <1>1, <1>2, <2>1, <3>2, <4>2
    <3> QED BY <3>1, <3>2
  <2>3. Goal
    BY <2>1, <2>2, WorkerGoesOn
  <2> QED BY <1>8, <2>1, <2>2, <2>3, LimitsStep DEF WorkerFails
<1>9. CASE WorkerRestarts
  <2>1. Goal
    BY <1>9, WorkerStops DEF WorkerRestarts, StartWorker, Reading
  <2> QED BY <1>2, <1>9, <2>1, LimitsStep DEF WorkerRestarts
<1> QED BY <1>3, <1>4, <1>5, <1>6, <1>7, <1>8, <1>9 DEF Process

-----------------------------------------------------------------------------
(* The steps of the db-writer *)

WriterSafe == WriterTyped /\ WriterOK /\ RowsOnce /\ ProcessorTyped /\ resultRead <= Len(result)

LEMMA NoRowsFacts ==
    /\ \A d \in Devices : NoRows[d] = <<>> /\ Members(NoRows[d]) = {} /\ Distinct(NoRows[d])
    /\ InRows(NoRows) = {}
<1>1. \A d \in Devices : NoRows[d] = <<>>
  BY DEF NoRows
<1>2. Members(<<>>) = {} /\ Distinct(<<>>)
  BY DEF Members, Distinct
<1> QED BY <1>1, <1>2 DEF InRows

LEMMA DistinctTail ==
    ASSUME NEW S, NEW s \in Seq(S), s # <<>>, Distinct(s)
    PROVE  Distinct(Tail(s))
<1>1. /\ DOMAIN s = 1 .. Len(s) /\ DOMAIN Tail(s) = 1 .. Len(s) - 1 /\ Len(s) \in Nat
      /\ \A i \in 1 .. Len(s) - 1 : Tail(s)[i] = s[i + 1]
  BY HeadAndTail
<1>2. \A i \in 1 .. Len(s) - 1 : i + 1 \in DOMAIN s
  BY <1>1
<1> QED BY <1>1, <1>2 DEF Distinct

LEMMA DistinctAppended ==
    ASSUME NEW S, NEW s \in Seq(S), NEW e \in S, Distinct(s), e \notin Members(s)
    PROVE  Distinct(Append(s, e))
<1>1. /\ DOMAIN s = 1 .. Len(s) /\ DOMAIN Append(s, e) = 1 .. Len(s) + 1 /\ Len(s) \in Nat
      /\ \A i \in 1 .. Len(s) : Append(s, e)[i] = s[i]
      /\ Append(s, e)[Len(s) + 1] = e
  BY Appended
<1>2. \A i \in 1 .. Len(s) : s[i] # e
  BY <1>1 DEF Members
<1> QED BY <1>1, <1>2 DEF Distinct

LEMMA WriterNumbers ==
    ASSUME WriterTyped
    PROVE  /\ Behind(resultRead, writer) \in Int /\ Buffered \in Int /\ resultRead \in Nat
           /\ Behind(resultRead, writer) <= resultRead /\ Buffered <= resultRead
           /\ writer.at = "upsert" => Buffered = Behind(resultRead, writer) + 1
           /\ writer.at # "upsert" => Buffered = Behind(resultRead, writer)
<1>1. resultRead \in Nat /\ Len(writer.batch) \in Nat
  BY LenProperties DEF WriterTyped, Batches
<1>2. Behind(resultRead, writer) \in Int /\ Behind(resultRead, writer) <= resultRead
  BY <1>1 DEF Behind
<1>3. writer.at = "upsert" => Len(writer.batch) >= 1
  <2>1. writer.at = "upsert" => Len(writer.batch) \in Nat \ {0}
    BY EmptySeq DEF WriterTyped, Batches
  <2> QED BY <2>1
<1>4. writer.at = "upsert" => Behind(resultRead, writer) + 1 <= resultRead
  <2> DEFINE k == Len(writer.batch)
  <2>1. k \in Nat /\ (writer.at = "upsert" => k >= 1)
    BY <1>1, <1>3
  <2> HIDE DEF k
  <2>2. writer.at = "upsert" => resultRead - k + 1 <= resultRead
    BY <1>1, <2>1
  <2> QED BY <2>2 DEF k, Behind
<1> QED BY <1>1, <1>2, <1>4 DEF Buffered

(* Where a snapshot that was not lost may be. *)
InPlace(e) ==
    \/ e \in lost
    \/ \E d \in Devices : e \in Members(buffer[d]) \/ e \in Members(inserting[d])
    \/ \E d \in Devices, i \in DOMAIN sensorData : e \in Members(sensorData[i][d])

LEMMA KeptInPlace == \A e : e \in Kept <=> InPlace(e)
BY DEF Kept, InTable, InRows, InPlace

(* Rows stay distinct while the tables stay and the writer moves on. *)
LEMMA RowsFramed ==
    ASSUME RowsOnce, UNCHANGED <<buffer, inserting, sensorData>>,
           Buffered \in Int, Buffered' \in Int, Buffered <= Buffered'
    PROVE  RowsOnce'
<1>1. 1 .. Buffered \subseteq 1 .. Buffered'
  OBVIOUS
<1> QED BY <1>1 DEF RowsOnce

(* The steps that move snapshots from place to place and nothing else. *)
LEMMA PlacesOnly ==
    ASSUME WriterSafe, UNCHANGED <<resultRead, unconfirmed, writer>>,
           \A e : InPlace(e) => InPlace(e)'
    PROVE  WriterOK' /\ Buffered' = Buffered
<1>1. \A e : e \in Kept => e \in Kept'
  <2>1. \A e : (e \in Kept <=> InPlace(e))'
    BY KeptInPlace DEF Kept, InTable, InRows, InPlace
  <2> QED BY <2>1, KeptInPlace
<1>2. /\ InStep(resultRead, writer)' /\ Behind(resultRead, writer)' = Behind(resultRead, writer)
      /\ Buffered' = Buffered
  BY DEF WriterSafe, WriterOK, InStep, Behind, Buffered
<1> QED BY <1>1, <1>2 DEF WriterSafe, WriterOK

LEMMA WriterFramed ==
    ASSUME WriterTyped, WriterOK, RowsOnce, UNCHANGED dbWriter
    PROVE  WriterTyped' /\ WriterOK' /\ RowsOnce'
<1>1. UNCHANGED <<resultRead, unconfirmed, writer, buffer, inserting, sensorData, lost>>
  BY DEF dbWriter, tables
<1>2. WriterTyped'
  BY <1>1 DEF WriterTyped
<1>3. /\ Buffered' = Buffered /\ Kept' = Kept /\ InStep(resultRead, writer)'
      /\ Behind(resultRead, writer)' = Behind(resultRead, writer)
  BY <1>1 DEF Buffered, Kept, InTable, InRows, InStep, Behind, WriterOK
<1>4. WriterOK'
  BY <1>1, <1>3 DEF WriterOK
<1>5. RowsOnce'
  BY <1>1, <1>3, WriterNumbers, RowsFramed
<1> QED BY <1>2, <1>4, <1>5

WriterGoal == WriterTyped' /\ WriterOK' /\ RowsOnce' /\ resultRead' <= Len(result')

LEMMA WriterReads == ASSUME WriterSafe, WriterRead PROVE WriterGoal
<1>1. PICK b : b = NextEntries(result, resultRead, ResultBatch)
  OBVIOUS
<1>2. /\ writer.at = "read" /\ resultRead < Len(result)
      /\ writer' = [at |-> "add", batch |-> b] /\ resultRead' = resultRead + Len(b)
      /\ unconfirmed' = unconfirmed \union Members(b)
      /\ UNCHANGED <<result, buffer, inserting, sensorData, lost>>
  BY <1>1 DEF WriterRead, tables
<1>3. /\ Len(b) \in Nat /\ Len(b) >= 1 /\ resultRead + Len(b) <= Len(result)
      /\ b \in Seq(1 .. resultRead + Len(b)) /\ b # <<>> /\ DOMAIN b = 1 .. Len(b)
      /\ \A k \in 1 .. Len(b) : b[k] = resultRead + k
      /\ Members(b) = resultRead + 1 .. resultRead + Len(b)
  <2>1. result \in Seq(Snapshots(sensorRead)) /\ resultRead \in Nat
    BY DEF WriterSafe, ProcessorTyped, WriterTyped
  <2>2. ResultBatch \in Nat \ {0} /\ resultRead < Len(result)
    BY <1>2, ConstantFacts
  <2>3. Handed(b, result, resultRead)
    BY <1>1, <2>1, <2>2, NextEntriesFacts
  <2> QED BY <2>3 DEF Handed
<1>4. /\ resultRead \in Nat /\ Behind(resultRead, writer) = resultRead /\ Buffered = resultRead
      /\ 1 .. resultRead \subseteq 1 .. resultRead + Len(b)
  <2>1. writer.batch = <<>> /\ resultRead \in Nat
    BY <1>2 DEF WriterSafe, WriterTyped
  <2> QED BY <1>2, <1>3, <2>1, NoBatch, WriterNumbers DEF WriterSafe
<1>5. WriterTyped'
  <2> DEFINE old == 1 .. resultRead  new == 1 .. resultRead + Len(b)
  <2>1. /\ \A s \in Seq(old) : s \in Seq(new)
        /\ [Devices -> Seq(old)] \subseteq [Devices -> Seq(new)]
    <3>1. \A s \in Seq(old) : s \in Seq(new)
      BY <1>4, Widened
    <3> QED BY <3>1
  <2>2. \A s \in Seq([Devices -> Seq(old)]) : s \in Seq([Devices -> Seq(new)])
    BY <2>1, Widened
  <2>3. buffer \in [Devices -> Seq(new)] /\ inserting \in [Devices -> Seq(new)]
    BY <2>1 DEF WriterSafe, WriterTyped
  <2>4. sensorData \in Seq([Devices -> Seq(new)])
    BY <2>2 DEF WriterSafe, WriterTyped
  <2>5. unconfirmed' \subseteq new /\ lost \subseteq new
    <3>1. unconfirmed \subseteq old /\ lost \subseteq old
      BY DEF WriterSafe, WriterTyped
    <3>2. Members(b) \subseteq new
      BY <1>3, <1>4
    <3> QED BY <1>2, <1>4, <3>1, <3>2
  <2>6. /\ writer' \in Batches({"read", "add", "upsert"}, resultRead + Len(b))
        /\ writer'.at \in {"add", "upsert"} /\ writer'.batch # <<>>
    BY <1>2, <1>3 DEF Batches
  <2> QED BY <1>2, <1>3, <1>4, <2>3, <2>4, <2>5, <2>6 DEF WriterTyped
<1>6. /\ Behind(resultRead, writer)' = resultRead /\ Buffered' = resultRead
      /\ InStep(resultRead, writer)' /\ writer'.at # "upsert"
  <2>1. writer'.batch = b /\ writer'.at = "add"
    BY <1>2
  <2>2. Behind(resultRead, writer)' = resultRead
    BY <1>2, <1>3, <1>4, <2>1 DEF Behind
  <2> QED BY <1>3, <1>4, <2>1, <2>2 DEF InStep, Buffered
<1>7. Kept' = Kept
  BY <1>2 DEF Kept, InTable, InRows
<1>8. WriterOK'
  <2>1. \A e \in 1 .. resultRead' : e > resultRead => e \in unconfirmed'
    BY <1>2, <1>3, <1>4
  <2>2. (1 .. resultRead') \ unconfirmed' \subseteq (1 .. resultRead) \ unconfirmed
    BY <1>2, <1>3, <1>4
  <2>3. (1 .. resultRead) \ unconfirmed \subseteq Kept
    BY DEF WriterSafe, WriterOK
  <2> QED BY <1>6, <1>7, <2>1, <2>2, <2>3 DEF WriterOK
<1>9. RowsOnce'
  BY <1>2, <1>4, <1>6, RowsFramed DEF WriterSafe
<1> QED BY <1>2, <1>3, <1>5, <1>8, <1>9 DEF WriterGoal

LEMMA InHandOf ==
    ASSUME WriterSafe, writer.at \in {"add", "upsert"}
    PROVE  /\ writer.batch \in Seq(1 .. resultRead) /\ writer.batch # <<>>
           /\ resultRead \in Nat /\ InStep(resultRead, writer)
           /\ Behind(resultRead, writer) \in Nat
           /\ InHand = Behind(resultRead, writer) + 1 /\ InHand \in 1 .. resultRead
           /\ result[InHand].dev \in Devices
<1>1. /\ writer.batch \in Seq(1 .. resultRead) /\ writer.batch # <<>>
      /\ resultRead \in Nat /\ InStep(resultRead, writer)
  BY DEF WriterSafe, WriterTyped, WriterOK, Batches
<1>2. /\ Behind(resultRead, writer) \in Nat
      /\ InHand = Behind(resultRead, writer) + 1 /\ InHand \in 1 .. resultRead
  BY <1>1, InHandFacts DEF InHand
<1>3. result \in Seq(Snapshots(sensorRead)) /\ Len(result) \in Nat /\ resultRead <= Len(result)
  BY LenProperties DEF WriterSafe, ProcessorTyped
<1>4. InHand \in 1 .. Len(result)
  BY <1>1, <1>2, <1>3
<1>5. result[InHand] \in Snapshots(sensorRead)
  BY <1>3, <1>4, ElementOfSeq
<1> QED BY <1>1, <1>2, <1>5 DEF Snapshots

LEMMA WriterAdds == ASSUME WriterSafe, WriterAdd PROVE WriterGoal
<1>1. PICK c : c = InHand
  OBVIOUS
<1>2. PICK v : v = result[InHand].dev
  OBVIOUS
<1> DEFINE old  == buffer[v]
           full == Len(old) >= BufferSize
           base == IF full THEN Tail(old) ELSE old
<1>3. /\ writer.at = "add" /\ v \in Devices
      /\ c = Behind(resultRead, writer) + 1 /\ c \in 1 .. resultRead /\ resultRead \in Nat
      /\ Behind(resultRead, writer) \in Nat /\ Buffered = Behind(resultRead, writer)
  BY <1>1, <1>2, InHandOf, WriterNumbers DEF WriterAdd, WriterSafe
<1>4. /\ buffer' = [buffer EXCEPT ![v] = Append(base, c)]
      /\ lost' = (IF full THEN lost \union {Head(old)} ELSE lost)
      /\ writer' = [writer EXCEPT !.at = "upsert"]
      /\ UNCHANGED <<result, resultRead, unconfirmed, inserting, sensorData>>
  BY <1>1, <1>2 DEF WriterAdd
<1>5. old \in Seq(1 .. resultRead) /\ Distinct(old) /\ Members(old) \subseteq 1 .. Buffered
  BY <1>3 DEF WriterSafe, WriterTyped, RowsOnce
<1>6. full => old # <<>>
  <2>1. Len(<<>>) = 0 /\ BufferSize \in Nat \ {0}
    BY ConstantFacts
  <2> QED BY <2>1
<1>7. /\ base \in Seq(1 .. resultRead) /\ Distinct(base) /\ Members(base) \subseteq Members(old)
      /\ \A e \in Members(old) : e \in Members(base) \/ e \in lost'
      /\ full => Head(old) \in 1 .. resultRead
  <2>1. CASE full
    <3>1. Tail(old) \in Seq(1 .. resultRead) /\ Head(old) \in 1 .. resultRead
      BY <1>5, <1>6, <2>1, HeadAndTail
    <3>2. Distinct(Tail(old))
      BY <1>5, <1>6, <2>1, DistinctTail
    <3>3. Members(old) = {Head(old)} \union Members(Tail(old))
      BY <1>5, <1>6, <2>1, MembersTail
    <3>4. base = Tail(old) /\ lost' = lost \union {Head(old)}
      BY <1>4, <2>1
    <3> HIDE DEF base, old, full
    <3> QED BY <3>1, <3>2, <3>3, <3>4
  <2>2. CASE ~full
    BY <1>5, <2>2
  <2> QED BY <2>1, <2>2
<1> HIDE DEF old, full, base
<1>8. c \notin Members(old) /\ c \notin Members(base)
  BY <1>3, <1>5, <1>7
<1>9. /\ Append(base, c) \in Seq(1 .. resultRead) /\ Distinct(Append(base, c))
      /\ Members(Append(base, c)) = Members(base) \union {c}
  BY <1>3, <1>7, <1>8, Appended, DistinctAppended, MembersAppended
<1>10. \A d \in Devices : buffer'[d] = IF d = v THEN Append(base, c) ELSE buffer[d]
  BY <1>4 DEF WriterSafe, WriterTyped
<1>11. /\ writer'.at = "upsert" /\ writer'.batch = writer.batch
       /\ writer' \in Batches({"read", "add", "upsert"}, resultRead) /\ writer.batch # <<>>
  BY <1>3, <1>4 DEF WriterSafe, WriterTyped, Batches
<1>12. WriterTyped'
  <2>1. buffer' \in [Devices -> Seq(1 .. resultRead)]
    BY <1>3, <1>4, <1>9 DEF WriterSafe, WriterTyped
  <2>2. lost' \subseteq 1 .. resultRead
    BY <1>4, <1>7 DEF WriterSafe, WriterTyped
  <2> QED BY <1>4, <1>11, <2>1, <2>2 DEF WriterSafe, WriterTyped
<1>13. /\ InStep(resultRead, writer)' /\ Behind(resultRead, writer)' = Behind(resultRead, writer)
       /\ Buffered' = c
  BY <1>3, <1>4, <1>11 DEF WriterSafe, WriterOK, InStep, Behind, Buffered
<1>14. ASSUME NEW e, InPlace(e) PROVE InPlace(e)'
  <2>1. CASE e \in lost
    BY <1>4, <2>1 DEF InPlace
  <2>2. ASSUME NEW d \in Devices, e \in Members(buffer[d]) PROVE InPlace(e)'
    <3>1. CASE d = v
      <4>1. e \in Members(base) \/ e \in lost'
        BY <1>7, <2>2, <3>1 DEF old
      <4> QED BY <1>9, <1>10, <3>1, <4>1 DEF InPlace
    <3>2. CASE d # v
      BY <1>10, <2>2, <3>2 DEF InPlace
    <3> QED BY <3>1, <3>2
  <2> QED BY <1>4, <1>14, <2>1, <2>2 DEF InPlace
<1>15. WriterOK'
  <2>1. \A e : e \in Kept => e \in Kept'
    <3>1. \A e : (e \in Kept <=> InPlace(e))'
      BY KeptInPlace DEF Kept, InTable, InRows, InPlace
    <3> QED BY <1>14, <3>1, KeptInPlace
  <2>2. c \in Kept'
    <3>1. c \in Members(buffer'[v])
      BY <1>3, <1>9, <1>10
    <3>2. c \in InRows(buffer')
      BY <1>3, <3>1 DEF InRows
    <3> QED BY <3>2 DEF Kept
  <2> QED BY <1>4, <1>13, <2>1, <2>2 DEF WriterSafe, WriterOK
<1>16. RowsOnce'
  <2>1. 1 .. Buffered \subseteq 1 .. c /\ c \notin 1 .. Buffered /\ c \in 1 .. c
    BY <1>3
  <2>2. ASSUME NEW d \in Devices
        PROVE  /\ Distinct(buffer'[d]) /\ Members(buffer'[d]) \subseteq Members(buffer[d]) \union {c}
               /\ Members(buffer'[d]) \subseteq 1 .. c
    BY <1>5, <1>7, <1>9, <1>10, <2>1 DEF RowsOnce, WriterSafe, old
  <2>3. ASSUME NEW d \in Devices
        PROVE  /\ Distinct(inserting[d]) /\ Members(buffer'[d]) \intersect Members(inserting[d]) = {}
               /\ Members(inserting[d]) \subseteq 1 .. c
    <3>1. /\ Distinct(inserting[d]) /\ Members(buffer[d]) \intersect Members(inserting[d]) = {}
          /\ Members(inserting[d]) \subseteq 1 .. Buffered
      BY DEF RowsOnce, WriterSafe
    <3> QED BY <2>1, <2>2, <3>1
  <2>4. ASSUME NEW d \in Devices, NEW i \in DOMAIN sensorData
        PROVE  /\ Distinct(sensorData[i][d]) /\ Members(sensorData[i][d]) \subseteq 1 .. c
               /\ Members(sensorData[i][d])
                      \intersect (Members(buffer'[d]) \union Members(inserting[d])) = {}
               /\ \A j \in DOMAIN sensorData :
                     i # j => Members(sensorData[i][d]) \intersect Members(sensorData[j][d]) = {}
    <3>1. /\ Distinct(sensorData[i][d]) /\ Members(sensorData[i][d]) \subseteq 1 .. Buffered
          /\ Members(sensorData[i][d])
                 \intersect (Members(buffer[d]) \union Members(inserting[d])) = {}
          /\ \A j \in DOMAIN sensorData :
                i # j => Members(sensorData[i][d]) \intersect Members(sensorData[j][d]) = {}
      BY DEF RowsOnce, WriterSafe
    <3> QED BY <2>1, <2>2, <3>1
  <2> QED BY <1>4, <1>13, <2>2, <2>3, <2>4 DEF RowsOnce
<1> QED BY <1>4, <1>12, <1>15, <1>16 DEF WriterGoal, WriterSafe

LEMMA WriterGoesOn ==
    ASSUME WriterSafe, writer.at = "upsert", writer' = Advance(writer, "add"),
           UNCHANGED <<result, resultRead, tables>>,
           unconfirmed' = unconfirmed \/ unconfirmed' = unconfirmed \ {InHand}
    PROVE  WriterGoal
<1>1. /\ writer.batch \in Seq(1 .. resultRead) /\ writer.batch # <<>>
      /\ resultRead \in Nat /\ InStep(resultRead, writer)
      /\ Behind(resultRead, writer) \in Nat
      /\ InHand = Behind(resultRead, writer) + 1 /\ InHand \in 1 .. resultRead
      /\ Buffered = InHand
  BY InHandOf, WriterNumbers DEF WriterSafe
<1>2. /\ writer' = [at |-> writer'.at, batch |-> writer'.batch] /\ writer'.at \in {"read", "add"}
      /\ writer'.batch \in Seq(1 .. resultRead) /\ (writer'.at = "add" <=> writer'.batch # <<>>)
      /\ Behind(resultRead, writer') = InHand /\ InStep(resultRead, writer')
  BY <1>1, AdvanceFacts
<1>3. UNCHANGED <<buffer, inserting, sensorData, lost>>
  BY DEF tables
<1>4. WriterTyped'
  BY <1>1, <1>2, <1>3 DEF WriterSafe, WriterTyped, Batches
<1>5. /\ InStep(resultRead, writer)' /\ Behind(resultRead, writer)' = InHand
      /\ Buffered' = InHand /\ writer'.at # "upsert"
  BY <1>1, <1>2 DEF Buffered
<1>6. Kept' = Kept /\ InHand \in Kept
  BY <1>1, <1>3 DEF Kept, InTable, InRows, WriterSafe, WriterOK
<1>7. WriterOK'
  <2>1. \A e \in 1 .. resultRead : e > InHand => e \in unconfirmed'
    BY <1>1 DEF WriterSafe, WriterOK
  <2>2. (1 .. resultRead) \ unconfirmed' \subseteq Kept
    BY <1>6 DEF WriterSafe, WriterOK
  <2> QED BY <1>5, <1>6, <2>1, <2>2 DEF WriterOK
<1>8. RowsOnce'
  <2>1. Buffered \in Int /\ Buffered' \in Int /\ Buffered <= Buffered'
    BY <1>1, <1>5
  <2> QED BY <1>3, <2>1, RowsFramed DEF WriterSafe
<1> QED BY <1>4, <1>7, <1>8 DEF WriterGoal, WriterSafe

LEMMA Flushes == ASSUME WriterSafe, BatchFlush PROVE WriterGoal
<1>1. /\ inserting = NoRows /\ inserting' = buffer /\ buffer' = NoRows
      /\ UNCHANGED <<result, resultRead, unconfirmed, writer, sensorData, lost>>
  BY DEF BatchFlush, Emptied
<1>2. WriterTyped'
  BY <1>1, NoRowsTyped DEF WriterSafe, WriterTyped
<1>3. \A e : InPlace(e) => InPlace(e)'
  BY <1>1, NoRowsFacts DEF InPlace
<1>4. WriterOK' /\ Buffered' = Buffered
  BY <1>1, <1>3, PlacesOnly
<1>5. RowsOnce'
  BY <1>1, <1>4, NoRowsFacts DEF WriterSafe, RowsOnce
<1> QED BY <1>1, <1>2, <1>4, <1>5 DEF WriterGoal, WriterSafe

LEMMA Inserts == ASSUME WriterSafe, InsertRows PROVE WriterGoal
<1>1. /\ sensorData' = Append(sensorData, inserting) /\ inserting' = NoRows
      /\ UNCHANGED <<result, resultRead, unconfirmed, writer, buffer, lost>>
  BY DEF InsertRows
<1> DEFINE n == Len(sensorData)
<1>2. /\ sensorData' \in Seq([Devices -> Seq(1 .. resultRead)])
      /\ n \in Nat /\ DOMAIN sensorData = 1 .. n /\ DOMAIN sensorData' = 1 .. n + 1
      /\ \A i \in 1 .. n : sensorData'[i] = sensorData[i]
      /\ sensorData'[n + 1] = inserting
  BY <1>1, Appended DEF WriterSafe, WriterTyped
<1> HIDE DEF n
<1>3. WriterTyped'
  BY <1>1, <1>2, NoRowsTyped DEF WriterSafe, WriterTyped
<1>4. ASSUME NEW e, InPlace(e) PROVE InPlace(e)'
  <2>1. 1 .. n \subseteq 1 .. n + 1 /\ n + 1 \in 1 .. n + 1
    BY <1>2
  <2>2. ASSUME NEW d \in Devices, e \in Members(inserting[d]) PROVE InPlace(e)'
    BY <1>2, <2>1, <2>2 DEF InPlace
  <2>3. ASSUME NEW d \in Devices, NEW i \in DOMAIN sensorData, e \in Members(sensorData[i][d])
        PROVE  InPlace(e)'
    BY <1>2, <2>1, <2>3 DEF InPlace
  <2> QED BY <1>1, <1>4, <2>2, <2>3 DEF InPlace
<1>5. WriterOK' /\ Buffered' = Buffered
  BY <1>1, <1>4, PlacesOnly
<1>6. RowsOnce'
  <2>1. \A i \in 1 .. n + 1 : i \in 1 .. n \/ i = n + 1
    BY <1>2
  <2>2. n + 1 \notin 1 .. n
    BY <1>2
  <2>3. ASSUME NEW d \in Devices, NEW i \in 1 .. n + 1
        PROVE  /\ Distinct(sensorData'[i][d])
               /\ Members(sensorData'[i][d]) \intersect Members(buffer[d]) = {}
               /\ Members(sensorData'[i][d]) \subseteq 1 .. Buffered
    BY <1>2, <2>1 DEF WriterSafe, RowsOnce
  <2>4. ASSUME NEW d \in Devices, NEW i \in 1 .. n + 1, NEW j \in 1 .. n + 1, i # j
        PROVE  Members(sensorData'[i][d]) \intersect Members(sensorData'[j][d]) = {}
    <3>1. CASE i \in 1 .. n /\ j \in 1 .. n
      BY <1>2, <2>4, <3>1 DEF WriterSafe, RowsOnce
    <3>2. CASE i = n + 1
      <4>1. j \in 1 .. n
        BY <2>1, <2>4, <3>2
      <4> QED BY <1>2, <3>2, <4>1 DEF WriterSafe, RowsOnce
    <3>3. CASE j = n + 1
      <4>1. i \in 1 .. n
        BY <2>1, <2>4, <3>3
      <4> QED BY <1>2, <3>3, <4>1 DEF WriterSafe, RowsOnce
    <3> QED BY <2>1, <3>1, <3>2, <3>3
  <2>5. ASSUME NEW d \in Devices
        PROVE  /\ inserting'[d] = <<>> /\ Members(inserting'[d]) = {} /\ Distinct(inserting'[d])
               /\ buffer'[d] = buffer[d] /\ Distinct(buffer[d]) /\ Members(buffer[d]) \subseteq 1 .. Buffered
    BY <1>1, NoRowsFacts DEF WriterSafe, RowsOnce
  <2> QED BY <1>2, <1>5, <2>3, <2>4, <2>5 DEF RowsOnce
<1> QED BY <1>1, <1>3, <1>5, <1>6 DEF WriterGoal, WriterSafe

LEMMA InRowsTyped ==
    ASSUME NEW rows, NEW read, rows \in [Devices -> Seq(1 .. read)]
    PROVE  InRows(rows) \subseteq 1 .. read
<1>1. \A d \in Devices : Members(rows[d]) \subseteq 1 .. read
  BY MembersOf
<1> QED BY <1>1 DEF InRows

LEMMA InsertsNot == ASSUME WriterSafe, InsertFails PROVE WriterGoal
<1>1. /\ lost' = lost \union InRows(inserting) /\ inserting' = NoRows
      /\ UNCHANGED <<result, resultRead, unconfirmed, writer, buffer, sensorData>>
  BY DEF InsertFails
<1>2. WriterTyped'
  <2>1. InRows(inserting) \subseteq 1 .. resultRead
    BY InRowsTyped DEF WriterSafe, WriterTyped
  <2> QED BY <1>1, <2>1, NoRowsTyped DEF WriterSafe, WriterTyped
<1>3. \A e : InPlace(e) => InPlace(e)'
  BY <1>1 DEF InPlace, InRows
<1>4. WriterOK' /\ Buffered' = Buffered
  BY <1>1, <1>3, PlacesOnly
<1>5. RowsOnce'
  BY <1>1, <1>4, NoRowsFacts DEF WriterSafe, RowsOnce
<1> QED BY <1>1, <1>2, <1>4, <1>5 DEF WriterGoal, WriterSafe

LEMMA WriterStops == ASSUME WriterSafe, WriterRestarts PROVE WriterGoal
<1>1. /\ lost' = lost \union InRows(buffer) \union InRows(inserting)
      /\ inserting' = NoRows /\ buffer' = NoRows /\ writer' = Reading
      /\ UNCHANGED <<result, resultRead, unconfirmed, sensorData>>
  BY DEF WriterRestarts
<1>2. writer'.at = "read" /\ writer'.batch = <<>> /\ resultRead \in Nat
  BY <1>1 DEF Reading, WriterSafe, WriterTyped
<1>3. WriterTyped'
  <2>1. InRows(inserting) \subseteq 1 .. resultRead /\ InRows(buffer) \subseteq 1 .. resultRead
    BY InRowsTyped DEF WriterSafe, WriterTyped
  <2>2. writer' \in Batches({"read", "add", "upsert"}, resultRead)
    BY <1>1 DEF Reading, Batches
  <2> QED BY <1>1, <1>2, <2>1, <2>2, NoRowsTyped DEF WriterSafe, WriterTyped
<1>4. /\ InStep(resultRead, writer)' /\ Behind(resultRead, writer)' = resultRead
      /\ Buffered' = resultRead
  <2>1. Behind(resultRead, writer') = resultRead /\ InStep(resultRead, writer')
    BY <1>2, NoBatch
  <2> QED BY <1>1, <1>2, <2>1 DEF Buffered
<1>5. ASSUME NEW e, InPlace(e) PROVE InPlace(e)'
  BY <1>1, <1>5 DEF InPlace, InRows
<1>6. WriterOK'
  <2>1. \A e : e \in Kept => e \in Kept'
    <3>1. \A e : (e \in Kept <=> InPlace(e))'
      BY KeptInPlace DEF Kept, InTable, InRows, InPlace
    <3> QED BY <1>5, <3>1, KeptInPlace
  <2>2. \A e \in 1 .. resultRead : ~(e > resultRead)
    BY <1>2
  <2> QED BY <1>1, <1>2, <1>4, <2>1, <2>2 DEF WriterSafe, WriterOK
<1>7. RowsOnce'
  <2>1. 1 .. Buffered \subseteq 1 .. resultRead
    BY WriterNumbers DEF WriterSafe
  <2> QED BY <1>1, <1>4, <2>1, NoRowsFacts DEF WriterSafe, RowsOnce
<1> QED BY <1>1, <1>3, <1>6, <1>7 DEF WriterGoal, WriterSafe

LEMMA WriterStep ==
    ASSUME WriterSafe, LimitsTyped, Store
    PROVE  WriterGoal /\ LimitsTyped' /\ UNCHANGED <<ingestion, sensor, processor, result>>
<1>1. CASE WriterRead
  BY <1>1, WriterReads, LimitsStep DEF WriterRead
<1>2. CASE WriterAdd
  BY <1>2, WriterAdds, LimitsStep DEF WriterAdd
<1>3. CASE WriterAck
  BY <1>3, WriterGoesOn, LimitsStep DEF WriterAck
<1>4. CASE WriterFails
  BY <1>4, WriterGoesOn, LimitsStep DEF WriterFails
<1>5. CASE BatchFlush
  BY <1>5, Flushes, LimitsStep DEF BatchFlush
<1>6. CASE InsertRows
  BY <1>6, Inserts, LimitsStep DEF InsertRows
<1>7. CASE InsertFails
  BY <1>7, InsertsNot, LimitsStep DEF InsertFails
<1>8. CASE WriterRestarts
  BY <1>8, WriterStops, LimitsStep DEF WriterRestarts
<1> QED BY <1>1, <1>2, <1>3, <1>4, <1>5, <1>6, <1>7, <1>8 DEF Store

-----------------------------------------------------------------------------
(* The inductive invariant *)

Sound == TypeOK /\ IInv

Parts ==
    /\ IngestionOK /\ LimitsTyped
    /\ ProcessorTyped /\ ProcessorOK /\ sensorRead <= Len(sensor)
    /\ WriterTyped /\ WriterOK /\ RowsOnce /\ resultRead <= Len(result)

LEMMA SoundParts == Sound <=> Parts
BY TypeParts DEF Sound, IInv, IngestionOK, Parts

LEMMA SoundInit == Init => Sound
<1> SUFFICES ASSUME Init PROVE Sound
  OBVIOUS
<1>1. WindowsOK
  BY DEF Init, WindowsOK, IdleFlush, InFlight, EmptyWindow
<1>2. SensorOK
  BY DEF Init, SensorOK
<1>3. Behind(0, Reading) = 0 /\ InStep(0, Reading) /\ Reading.batch = <<>> /\ Reading.at = "read"
  <2>1. Reading.batch = <<>> /\ Reading.at = "read"
    BY DEF Reading
  <2> QED BY <2>1, NoBatch
<1>4. ProcessorOK
  BY <1>3 DEF Init, ProcessorOK, Passed
<1>5. WriterOK
  BY <1>3 DEF Init, WriterOK, Buffered
<1>6. RowsOnce
  <2>1. buffer = NoRows /\ inserting = NoRows /\ DOMAIN sensorData = {}
    BY DEF Init
  <2> QED BY <2>1, NoRowsFacts DEF RowsOnce
<1> QED BY <1>1, <1>2, <1>4, <1>5, <1>6, TypeInit DEF Sound, IInv

(* What was read of a stream is still within it when it has grown. *)
LEMMA LengthsGrow ==
    ASSUME NEW s, NEW t, Extends(s, t), Len(s) \in Int, Len(t) \in Int, NEW n \in Int, n <= Len(s)
    PROVE  n <= Len(t)
BY DEF Extends

LEMMA SoundNext == Sound /\ [Next]_vars => Sound'
<1> SUFFICES ASSUME Sound, [Next]_vars PROVE Sound'
  OBVIOUS
<1> SUFFICES Parts'
  BY SoundParts, PTL
<1>1. /\ IngestionOK /\ LimitsTyped
      /\ ProcessorTyped /\ ProcessorOK /\ sensorRead <= Len(sensor)
      /\ WriterTyped /\ WriterOK /\ RowsOnce /\ resultRead <= Len(result)
  BY SoundParts DEF Parts
<1>2. ProcessorSafe /\ WriterSafe /\ IngestionTyped
  BY <1>1 DEF ProcessorSafe, WriterSafe, IngestionOK
<1>3. Len(sensor) \in Nat /\ Len(result) \in Nat /\ sensorRead \in Nat /\ resultRead \in Nat
  BY <1>1, LenProperties DEF IngestionOK, IngestionTyped, ProcessorTyped, WriterTyped
<1>4. CASE Coalesce
  <2>1. /\ IngestionOK' /\ LimitsTyped' /\ Extends(sensor, sensor')
        /\ UNCHANGED <<processor, result, dbWriter>>
    BY <1>1, <1>4, IngestionStep
  <2>2. ProcessorTyped' /\ ProcessorOK'
    BY <1>1, <1>2, <2>1, ProcessorFramed
  <2>3. WriterTyped' /\ WriterOK' /\ RowsOnce'
    BY <1>1, <2>1, WriterFramed
  <2>4. sensorRead' <= Len(sensor') /\ resultRead' <= Len(result')
    <3>1. sensorRead' = sensorRead /\ resultRead' = resultRead /\ result' = result
      BY <2>1 DEF processor, group, dbWriter
    <3>2. Len(sensor') \in Nat
      BY <2>1, LenProperties DEF IngestionOK, IngestionTyped
    <3> QED BY <1>1, <1>3, <2>1, <3>1, <3>2, LengthsGrow
  <2> QED BY <2>1, <2>2, <2>3, <2>4 DEF Parts
<1>5. CASE Process
  <2>1. /\ ProcessorTyped' /\ ProcessorOK' /\ LimitsTyped' /\ sensorRead' <= Len(sensor')
        /\ UNCHANGED <<ingestion, sensor, dbWriter>> /\ Extends(result, result')
    BY <1>1, <1>2, <1>5, ProcessorStep
  <2>2. IngestionOK'
    BY <1>1, <2>1, IngestionFramed
  <2>3. WriterTyped' /\ WriterOK' /\ RowsOnce'
    BY <1>1, <2>1, WriterFramed
  <2>4. resultRead' <= Len(result')
    <3>1. resultRead' = resultRead
      BY <2>1 DEF dbWriter
    <3>2. Len(result') \in Nat
      BY <2>1, LenProperties DEF ProcessorTyped
    <3> QED BY <1>1, <1>3, <2>1, <3>1, <3>2, LengthsGrow
  <2> QED BY <2>1, <2>2, <2>3, <2>4 DEF Parts
<1>6. CASE Store
  <2>1. /\ WriterTyped' /\ WriterOK' /\ RowsOnce' /\ resultRead' <= Len(result') /\ LimitsTyped'
        /\ UNCHANGED <<ingestion, sensor, processor, result>>
    BY <1>1, <1>2, <1>6, WriterStep DEF WriterGoal
  <2>2. IngestionOK'
    BY <1>1, <2>1, IngestionFramed
  <2>3. Extends(sensor, sensor')
    BY <1>3, <2>1 DEF Extends
  <2>4. ProcessorTyped' /\ ProcessorOK'
    BY <1>1, <1>2, <2>1, <2>3, ProcessorFramed
  <2>5. sensorRead' <= Len(sensor')
    BY <1>1, <2>1 DEF processor, group
  <2> QED BY <2>1, <2>2, <2>4, <2>5 DEF Parts
<1>7. CASE UNCHANGED vars
  <2>1. UNCHANGED <<ingestion, sensor, processor, result, dbWriter, limits>>
    BY <1>7 DEF vars
  <2>2. IngestionOK'
    BY <1>1, <2>1, IngestionFramed
  <2>3. Extends(sensor, sensor')
    BY <1>3, <2>1 DEF Extends
  <2>4. ProcessorTyped' /\ ProcessorOK'
    BY <1>1, <1>2, <2>1, <2>3, ProcessorFramed
  <2>5. WriterTyped' /\ WriterOK' /\ RowsOnce'
    BY <1>1, <2>1, WriterFramed
  <2>6. LimitsTyped'
    BY <1>1, <2>1, LimitsStep
  <2>7. sensorRead' <= Len(sensor') /\ resultRead' <= Len(result')
    BY <1>1, <2>1 DEF processor, group, dbWriter
  <2> QED BY <2>2, <2>4, <2>5, <2>6, <2>7 DEF Parts
<1> QED BY <1>4, <1>5, <1>6, <1>7 DEF Next

LEMMA SoundAlways == Spec => []Sound
BY SoundInit, SoundNext, PTL DEF Spec

-----------------------------------------------------------------------------
(* What follows *)

(* Whatever fails, every window, envelope, batch, buffer and row has the   *)
(* shape the three services give it.                                       *)
THEOREM TypeCorrect == Spec => []TypeOK
<1>1. Sound => TypeOK
  BY DEF Sound
<1> QED BY <1>1, SoundAlways, PTL

(* No consumer of mg:state:result sees a device's measurements go back in  *)
(* time, though ingestion puts failed envelopes back, XADD may have added  *)
(* what it reports as failed, and each service may restart at any point.   *)
THEOREM OrderIsKept == Spec => []ShownInOrder
<1>1. Sound => ShownInOrder
  <2> SUFFICES ASSUME Sound, NEW i \in DOMAIN result, NEW j \in DOMAIN result, Before(i, j, result)
               PROVE  result[i].sample <= result[j].sample
    BY DEF ShownInOrder
  <2> DEFINE a == result[i].entry  b == result[j].entry
  <2>1. IngestionOK /\ ProcessorTyped /\ ProcessorOK /\ sensorRead <= Len(sensor)
    BY SoundParts DEF Parts
  <2>2. a \in 1 .. sensorRead /\ b \in 1 .. sensorRead /\ sensorRead \in Nat
    BY <2>1, ShownEntries DEF ProcessorTyped
  <2>3. /\ result[i].dev = sensor[a].dev /\ result[i].sample = sensor[a].sample
        /\ result[j].dev = sensor[b].dev /\ result[j].sample = sensor[b].sample
        /\ a < b
    BY <2>1 DEF ProcessorOK, Before
  <2>4. a \in DOMAIN sensor /\ b \in DOMAIN sensor
    BY <2>1, <2>2, EntriesTyped DEF IngestionOK
  <2>5. Before(a, b, sensor)
    BY <2>3 DEF Before
  <2> QED BY <2>1, <2>3, <2>4, <2>5 DEF IngestionOK, SensorOK
<1> QED BY <1>1, SoundAlways, PTL

(* A sample is counted in at most one envelope, but for the one that an    *)
(* envelope shows, which comes again when the answer to its XADD was lost; *)
(* a snapshot is in at most one row of sensor_data, or in none.            *)
THEOREM CountsAreTrue == Spec => []CountedOnce
<1>1. Sound => CountedOnce
  <2> SUFFICES ASSUME Sound PROVE CountedOnce
    OBVIOUS
  <2>1. SensorOK /\ RowsOnce
    BY SoundParts DEF Parts, IngestionOK
  <2>2. ASSUME NEW i \in DOMAIN sensorData, NEW j \in DOMAIN sensorData, NEW d \in Devices,
               NEW p \in DOMAIN sensorData[i][d], NEW q \in DOMAIN sensorData[j][d],
               sensorData[i][d][p] = sensorData[j][d][q]
        PROVE  i = j /\ p = q
    <3>1. sensorData[i][d][p] \in Members(sensorData[i][d]) \intersect Members(sensorData[j][d])
      BY <2>2 DEF Members
    <3>2. i = j
      BY <2>1, <3>1 DEF RowsOnce
    <3>3. Distinct(sensorData[i][d])
      BY <2>1 DEF RowsOnce
    <3> QED BY <2>2, <3>2, <3>3 DEF Distinct
  <2> QED BY <2>1, <2>2 DEF CountedOnce, SensorOK
<1> QED BY <1>1, SoundAlways, PTL

(* An envelope the state-processor acknowledged was passed on; a snapshot  *)
(* the db-writer acknowledged is buffered, in a row being inserted, in the *)
(* table, or lost in one of three ways: to a full buffer, a failed INSERT  *)
(* or a restart.                                                           *)
THEOREM AckedIsNotLost == Spec => []AckedIsKept
<1>1. Sound => AckedIsKept
  <2> SUFFICES ASSUME Sound PROVE AckedIsKept
    OBVIOUS
  <2>1. ProcessorOK /\ WriterOK
    BY SoundParts DEF Parts
  <2>2. \A e \in (1 .. sensorRead) \ unacked : \E r \in DOMAIN result : result[r].entry = e
    BY <2>1 DEF ProcessorOK
  <2>3. (1 .. resultRead) \ unconfirmed \subseteq Kept
    BY <2>1 DEF WriterOK
  <2> QED BY <2>2, <2>3 DEF AckedIsKept, Kept, InTable
<1> QED BY <1>1, SoundAlways, PTL
=============================================================================
