------------------------ MODULE TopologyFeedProofs -------------------------
(***************************************************************************)
(* The answer the control service dispatches by shows the lines as they    *)
(* are, for any topology, any number of changes, messages and faults.      *)
(***************************************************************************)
EXTENDS TopologyFeed, TLAPS

-----------------------------------------------------------------------------
(* Facts about documents, reports and messages *)

LineStatus == {"NORMAL", "FAULT", "DELETED"}

LEMMA PlantFacts ==
    ASSUME NEW p \in Plants
    PROVE  /\ p.position \in [Switches -> Positions] /\ p.blocked \in SUBSET Switches
           /\ p.status \in [Lines -> LineStatus]
           /\ p = [position |-> p.position, blocked |-> p.blocked, status |-> p.status]
           /\ p # NoCache
<1>1. DOMAIN p = {"position", "blocked", "status"}
  BY DEF Plants
<1>2. DOMAIN NoCache = {"is"}
  BY DEF NoCache
<1>3. p # NoCache
  BY <1>1, <1>2
<1>4. /\ p.position \in [Switches -> Positions] /\ p.blocked \in SUBSET Switches
      /\ p.status \in [Lines -> LineStatus]
  BY DEF Plants, LineStatus
<1>5. p = [position |-> p.position, blocked |-> p.blocked, status |-> p.status]
  BY DEF Plants
<1> QED BY <1>3, <1>4, <1>5

LEMMA PlantMade ==
    ASSUME NEW q \in [Switches -> Positions], NEW b \in SUBSET Switches, NEW st \in [Lines -> LineStatus]
    PROVE  [position |-> q, blocked |-> b, status |-> st] \in Plants
BY DEF Plants, LineStatus

LEMMA SwitchExcept ==
    ASSUME NEW d \in Plants, NEW s, NEW q, NEW b
    PROVE  [d EXCEPT !.position[s] = q, !.blocked = b]
             = [position |-> [d.position EXCEPT ![s] = q], blocked |-> b, status |-> d.status]
<1> DEFINE moved == [d.position EXCEPT ![s] = q]
<1>1. d = [position |-> d.position, blocked |-> d.blocked, status |-> d.status]
  BY PlantFacts
<1> HIDE DEF moved
<1>2. [d EXCEPT !.position = moved] = [position |-> moved, blocked |-> d.blocked, status |-> d.status]
  BY <1>1
<1>3. [[d EXCEPT !.position = moved] EXCEPT !.blocked = b] = [position |-> moved, blocked |-> b, status |-> d.status]
  <2>1. PICK e : e = [d EXCEPT !.position = moved]
    OBVIOUS
  <2>2. e = [position |-> moved, blocked |-> d.blocked, status |-> d.status]
    BY <1>2, <2>1
  <2>3. [e EXCEPT !.blocked = b] = [position |-> moved, blocked |-> b, status |-> d.status]
    BY <2>2
  <2> QED BY <2>1, <2>3
<1>4. [d EXCEPT !.position[s] = q, !.blocked = b] = [[d EXCEPT !.position = moved] EXCEPT !.blocked = b]
  BY DEF moved
<1> QED BY <1>3, <1>4 DEF moved

LEMMA BlockedExcept ==
    ASSUME NEW d \in Plants, NEW b
    PROVE  [d EXCEPT !.blocked = b] = [position |-> d.position, blocked |-> b, status |-> d.status]
BY PlantFacts

LEMMA LineExcept ==
    ASSUME NEW d \in Plants, NEW e, NEW q
    PROVE  [d EXCEPT !.status[e] = q]
             = [position |-> d.position, blocked |-> d.blocked, status |-> [d.status EXCEPT ![e] = q]]
BY PlantFacts

LEMMA ReportFacts ==
    /\ NoState \notin Reports /\ EventReport \in Reports /\ EventReport.position = "UNKNOWN"
    /\ plant \in Plants => \A s \in Switches : plant.position[s] # "DELETED" => ReportOf(s) \in Reports
<1>1. ASSUME NEW r \in Reports PROVE r # NoState
  <2>1. DOMAIN r = {"position", "blocked"}
    BY DEF Reports
  <2>2. DOMAIN NoState = {"is"}
    BY DEF NoState
  <2> QED BY <2>1, <2>2
<1>2. EventReport \in Reports /\ EventReport.position = "UNKNOWN"
  BY DEF EventReport, Reports
<1>3. ASSUME plant \in Plants, NEW s \in Switches, plant.position[s] # "DELETED" PROVE ReportOf(s) \in Reports
  <2>1. plant.position[s] \in {"CLOSED", "OPEN"}
    BY <1>3, PlantFacts DEF Positions
  <2> QED BY <2>1 DEF ReportOf, Reports
<1> QED BY <1>1, <1>2, <1>3

(* What a switch's message leaves of a document. *)
LEMMA SwitchMerged ==
    ASSUME NEW d \in Plants, NEW m \in SwitchMessages
    PROVE  \E position \in Positions, blocked \in BOOLEAN :
             /\ position = IF "position" \in m.fields THEN m.position
                           ELSE IF d.position[m.id] = "DELETED" THEN "CLOSED" ELSE d.position[m.id]
             /\ blocked = (/\ position # "DELETED"
                           /\ IF "blocked" \in m.fields THEN m.blocked
                              ELSE d.position[m.id] # "DELETED" /\ m.id \in d.blocked)
             /\ Merged(d, m) = [position |-> [d.position EXCEPT ![m.id] = position],
                                blocked |-> IF blocked THEN d.blocked \union {m.id} ELSE d.blocked \ {m.id},
                                status |-> d.status]
             /\ Merged(d, m) \in Plants
<1>1. /\ m.kind = "switch" /\ m.id \in Switches /\ m.position \in Positions /\ m.blocked \in BOOLEAN
  BY DEF SwitchMessages
<1> DEFINE position == IF "position" \in m.fields THEN m.position
                       ELSE IF d.position[m.id] = "DELETED" THEN "CLOSED" ELSE d.position[m.id]
           blocked == /\ position # "DELETED"
                      /\ IF "blocked" \in m.fields THEN m.blocked
                         ELSE d.position[m.id] # "DELETED" /\ m.id \in d.blocked
<1>2. position \in Positions
  BY <1>1, PlantFacts DEF Positions
<1>3. blocked \in BOOLEAN
  BY <1>1
<1>4. Merged(d, m) = WithSwitch(d, m)
  BY <1>1 DEF Merged
<1>5. WithSwitch(d, m) =
        [d EXCEPT !.position[m.id] = position,
                  !.blocked = IF blocked THEN @ \union {m.id} ELSE @ \ {m.id}]
  BY DEF WithSwitch
<1> HIDE DEF position, blocked
<1>6. Merged(d, m) = [position |-> [d.position EXCEPT ![m.id] = position],
                      blocked |-> IF blocked THEN d.blocked \union {m.id} ELSE d.blocked \ {m.id},
                      status |-> d.status]
  BY <1>4, <1>5, PlantFacts
<1>7. Merged(d, m) \in Plants
  <2>1. [d.position EXCEPT ![m.id] = position] \in [Switches -> Positions]
    BY <1>1, <1>2, PlantFacts
  <2>2. (IF blocked THEN d.blocked \union {m.id} ELSE d.blocked \ {m.id}) \in SUBSET Switches
    BY <1>1, PlantFacts
  <2> QED BY <1>6, <2>1, <2>2, PlantFacts, PlantMade
<1> QED BY <1>2, <1>3, <1>6, <1>7 DEF position, blocked

LEMMA LineMerged ==
    ASSUME NEW d \in Plants, NEW m \in LineMessages
    PROVE  \E status \in LineStatus :
             /\ status = IF "status" \in m.fields THEN m.status
                         ELSE IF d.status[m.id] = "DELETED" THEN "NORMAL" ELSE d.status[m.id]
             /\ Merged(d, m) = [position |-> d.position, blocked |-> d.blocked,
                                status |-> [d.status EXCEPT ![m.id] = status]]
             /\ Merged(d, m) \in Plants
<1>1. m.kind = "line" /\ m.id \in Lines /\ m.status \in LineStatus
  BY DEF LineMessages, LineStatus
<1> DEFINE status == IF "status" \in m.fields THEN m.status
                     ELSE IF d.status[m.id] = "DELETED" THEN "NORMAL" ELSE d.status[m.id]
<1>2. status \in LineStatus
  BY <1>1, PlantFacts DEF LineStatus
<1>3. Merged(d, m) = WithLine(d, m)
  BY <1>1 DEF Merged
<1>4. WithLine(d, m) = [d EXCEPT !.status[m.id] = status]
  BY DEF WithLine
<1> HIDE DEF status
<1>5. Merged(d, m) = [position |-> d.position, blocked |-> d.blocked,
                      status |-> [d.status EXCEPT ![m.id] = status]]
  BY <1>3, <1>4, PlantFacts
<1>6. [d.status EXCEPT ![m.id] = status] \in [Lines -> LineStatus]
  BY <1>1, <1>2, PlantFacts
<1>7. Merged(d, m) \in Plants
  BY <1>5, <1>6, PlantFacts, PlantMade
<1> QED BY <1>2, <1>5, <1>7 DEF status

LEMMA AppliedTyped == ASSUME NEW d \in Plants, NEW m \in Messages PROVE Applied(d, m) \in Plants
<1>1. CASE m \in SwitchMessages
  <2>1. m.kind # "snapshot"
    BY <1>1 DEF SwitchMessages
  <2> QED BY <1>1, <2>1, SwitchMerged DEF Applied
<1>2. CASE m \in LineMessages
  <2>1. m.kind # "snapshot"
    BY <1>2 DEF LineMessages
  <2> QED BY <1>2, <2>1, LineMerged DEF Applied
<1>3. CASE m \in Snapshots
  BY <1>3 DEF Snapshots, Applied, Cached
<1> QED BY <1>1, <1>2, <1>3 DEF Messages

-----------------------------------------------------------------------------
(* What the steps do to the messages under way *)

TypedInbox == inbox \in Seq(Messages) /\ disturbed \in Nat /\ cachedAt \in Nat
              /\ plant \in Plants /\ cache \in Plants \union {NoCache}

FeedParts == TypedInbox /\ RemoteOK /\ StampsOK /\ FeedOK

(* A message that tells of what changes. *)
LEMMA FeedPublished ==
    ASSUME FeedParts, local, NEW m \in Messages, inbox' = Append(inbox, m),
           plant' \in Plants, plant' = Applied(plant, m),
           m.kind = "snapshot" => m.sent <= disturbed,
           UNCHANGED <<local, cache, cachedAt, disturbed>>
    PROVE  RemoteOK' /\ StampsOK' /\ FeedOK'
<1> DEFINE n == Len(inbox)
<1>1. /\ n \in Nat /\ inbox \in Seq(Messages) /\ Len(inbox') = n + 1 /\ DOMAIN inbox' = 1 .. n + 1
      /\ inbox'[n + 1] = m /\ \A i \in 1 .. n : inbox'[i] = inbox[i]
      /\ DOMAIN inbox = 1 .. n
  BY DEF FeedParts, TypedInbox
<1>2. RemoteOK'
  BY DEF RemoteOK
<1>3. StampsOK'
  BY <1>1 DEF FeedParts, StampsOK
<1>4. FeedOK'
  <2> SUFFICES ASSUME NEW k \in 0 .. n + 1, Fresh(k)'
               PROVE  \E docs \in [k .. n + 1 -> Plants] : Documents(k, docs)' /\ docs[n + 1] = plant'
    BY <1>1 DEF FeedOK
  <2>1. PICK p \in Plants : p = plant'
    OBVIOUS
  <2>2. CASE k = n + 1
    <3>1. m.kind = "snapshot"
      BY <1>1, <2>2 DEF Fresh
    <3>2. p = Cached(m)
      BY <2>1, <3>1 DEF Applied
    <3>3. PICK docs \in [k .. n + 1 -> Plants] : docs = [i \in k .. n + 1 |-> p]
      OBVIOUS
    <3>4. n + 1 \in k .. n + 1 /\ k # 0 /\ k + 1 .. n + 1 = {}
      BY <1>1, <2>2
    <3>5. docs[n + 1] = p
      BY <3>3, <3>4
    <3>6. Documents(k, docs)'
      BY <1>1, <2>2, <3>2, <3>4, <3>5 DEF Documents
    <3> QED BY <2>1, <3>5, <3>6
  <2>3. CASE k # n + 1
    <3>1. k \in 0 .. n /\ Fresh(k)
      BY <1>1, <2>3 DEF Fresh
    <3>2. PICK old \in [k .. n -> Plants] : Documents(k, old) /\ old[n] = plant
      BY <1>1, <3>1 DEF FeedParts, FeedOK
    <3>3. PICK docs \in [k .. n + 1 -> Plants] :
             docs = [i \in k .. n + 1 |-> IF i = n + 1 THEN p ELSE old[i]]
      <4>1. \A i \in k .. n + 1 : i = n + 1 \/ i \in k .. n
        BY <1>1, <3>1
      <4>2. [i \in k .. n + 1 |-> IF i = n + 1 THEN p ELSE old[i]] \in [k .. n + 1 -> Plants]
        BY <4>1
      <4> QED BY <4>2
    <3>4. docs[n + 1] = p /\ \A i \in k .. n : docs[i] = old[i]
      <4>1. n + 1 \in k .. n + 1 /\ \A i \in k .. n : i \in k .. n + 1 /\ i # n + 1
        BY <1>1, <3>1
      <4> QED BY <3>3, <4>1
    <3>5. docs[k] = IF k = 0 THEN cache' ELSE Cached(inbox'[k])
      <4>1. k \in k .. n /\ (k # 0 => k \in 1 .. n)
        BY <1>1, <3>1
      <4> QED BY <1>1, <3>2, <3>4, <4>1 DEF Documents
    <3>6. ASSUME NEW i \in k + 1 .. n + 1 PROVE docs[i] = Applied(docs[i - 1], inbox'[i])
      <4>1. CASE i = n + 1
        <5>1. i - 1 = n /\ n \in k .. n
          BY <1>1, <3>1, <4>1
        <5>2. docs[i - 1] = plant /\ docs[i] = plant' /\ inbox'[i] = m
          BY <1>1, <2>1, <3>2, <3>4, <4>1, <5>1
        <5> QED BY <5>2
      <4>2. CASE i # n + 1
        <5>1. i \in k + 1 .. n /\ i - 1 \in k .. n /\ i \in k .. n /\ i \in 1 .. n
          BY <1>1, <3>1, <4>2
        <5>2. old[i] = Applied(old[i - 1], inbox[i])
          BY <3>2, <5>1 DEF Documents
        <5>3. docs[i] = old[i] /\ docs[i - 1] = old[i - 1] /\ inbox'[i] = inbox[i]
          BY <1>1, <3>4, <5>1
        <5> QED BY <5>2, <5>3
      <4> QED BY <4>1, <4>2
    <3>7. Documents(k, docs)'
      BY <1>1, <3>5, <3>6 DEF Documents
    <3> QED BY <2>1, <3>4, <3>7
  <2> QED BY <2>2, <2>3
<1> QED BY <1>2, <1>3, <1>4

(* The ingestion service takes a message. *)
LEMMA FeedTaken ==
    ASSUME FeedParts, inbox # <<>>, inbox' = Tail(inbox), plant' = plant, disturbed' = disturbed, local' = local,
           cache' = IF Head(inbox).kind = "snapshot" THEN Cached(Head(inbox))
                    ELSE IF cache = NoCache THEN cache ELSE Merged(cache, Head(inbox)),
           cachedAt' = IF Head(inbox).kind = "snapshot" THEN Head(inbox).sent ELSE cachedAt
    PROVE  RemoteOK' /\ StampsOK' /\ FeedOK'
<1> DEFINE n == Len(inbox)
<1>1. /\ n \in Nat \ {0} /\ Head(inbox) = inbox[1] /\ Len(inbox') = n - 1 /\ DOMAIN inbox' = 1 .. n - 1
      /\ \A i \in 1 .. n - 1 : inbox'[i] = inbox[i + 1]
      /\ DOMAIN inbox = 1 .. n /\ inbox[1] \in Messages
  BY DEF FeedParts, TypedInbox
<1>2. RemoteOK'
  BY DEF FeedParts, RemoteOK
<1>3. StampsOK'
  BY <1>1 DEF FeedParts, StampsOK
<1>4. FeedOK'
  <2> SUFFICES ASSUME NEW k \in 0 .. n - 1, Fresh(k)'
               PROVE  \E docs \in [k .. n - 1 -> Plants] : Documents(k, docs)' /\ docs[n - 1] = plant
    BY <1>1 DEF FeedOK
  <2>1. \E j \in {0, k + 1} :
           /\ Fresh(j)
           /\ k # 0 => j = k + 1
           /\ k = 0 => /\ j = 1 => cache' = Cached(inbox[1])
                       /\ j = 0 => cache # NoCache /\ cache' = Applied(cache, inbox[1])
    <3>1. CASE k # 0
      BY <1>1, <3>1 DEF Fresh
    <3>2. CASE k = 0 /\ inbox[1].kind = "snapshot"
      BY <1>1, <3>2 DEF Fresh
    <3>3. CASE k = 0 /\ inbox[1].kind # "snapshot"
      BY <1>1, <3>3 DEF Fresh, Applied
    <3> QED BY <3>1, <3>2, <3>3
  <2>2. PICK j \in {0, k + 1} :
           /\ Fresh(j)
           /\ k # 0 => j = k + 1
           /\ k = 0 => /\ j = 1 => cache' = Cached(inbox[1])
                       /\ j = 0 => cache # NoCache /\ cache' = Applied(cache, inbox[1])
    BY <2>1
  <2>3. j \in 0 .. n
    BY <1>1
  <2>4. PICK old \in [j .. n -> Plants] : Documents(j, old) /\ old[n] = plant
    BY <2>2, <2>3 DEF FeedParts, FeedOK
  <2>5. PICK docs \in [k .. n - 1 -> Plants] : docs = [i \in k .. n - 1 |-> old[i + 1]]
    <3>1. \A i \in k .. n - 1 : i + 1 \in j .. n
      BY <1>1, <2>3
    <3>2. [i \in k .. n - 1 |-> old[i + 1]] \in [k .. n - 1 -> Plants]
      BY <3>1
    <3> QED BY <3>2
  <2>6. docs[n - 1] = plant /\ \A i \in k .. n - 1 : docs[i] = old[i + 1]
    <3>1. n - 1 \in k .. n - 1 /\ (n - 1) + 1 = n
      BY <1>1
    <3> QED BY <2>4, <2>5, <3>1
  <2>7. docs[k] = IF k = 0 THEN cache' ELSE Cached(inbox'[k])
    <3>1. CASE j = k + 1
      <4>1. old[k + 1] = Cached(inbox[k + 1])
        BY <1>1, <2>4, <3>1 DEF Documents
      <4> QED BY <1>1, <2>2, <2>6, <3>1, <4>1
    <3>2. CASE j = 0
      <4>1. k = 0 /\ old[0] = cache /\ 1 \in 0 + 1 .. n
        BY <1>1, <2>2, <2>4, <3>2 DEF Documents
      <4>2. old[1] = Applied(old[0], inbox[1])
        BY <2>4, <3>2, <4>1 DEF Documents
      <4> QED BY <2>2, <2>6, <3>2, <4>1, <4>2
    <3> QED BY <3>1, <3>2
  <2>8. ASSUME NEW i \in k + 1 .. n - 1 PROVE docs[i] = Applied(docs[i - 1], inbox'[i])
    <3>1. i \in k .. n - 1 /\ i - 1 \in k .. n - 1 /\ i \in 1 .. n - 1 /\ i + 1 \in j + 1 .. n
      BY <1>1
    <3>2. old[i + 1] = Applied(old[(i + 1) - 1], inbox[i + 1])
      BY <2>4, <3>1 DEF Documents
    <3>3. (i + 1) - 1 = i /\ (i - 1) + 1 = i
      BY <3>1
    <3> QED BY <1>1, <2>6, <3>1, <3>2, <3>3
  <2>9. Documents(k, docs)'
    BY <1>1, <2>7, <2>8 DEF Documents
  <2> QED BY <2>6, <2>9
<1> QED BY <1>2, <1>3, <1>4

(* Nothing is fresh after a disturbance. *)
LEMMA FeedDisturbed ==
    ASSUME FeedParts, inbox' \in Seq(Messages), disturbed' = disturbed + 1,
           \A k \in DOMAIN inbox' : \E j \in DOMAIN inbox : inbox'[k] = inbox[j],
           inbox # <<>>, UNCHANGED <<local, cache, cachedAt, plant>>
    PROVE  RemoteOK' /\ StampsOK' /\ FeedOK'
<1>1. disturbed \in Nat /\ cachedAt \in Nat
  BY DEF FeedParts, TypedInbox
<1>2. \A j \in DOMAIN inbox : inbox[j].kind = "snapshot" => inbox[j].sent \in Nat /\ inbox[j].sent <= disturbed
  <2>1. ASSUME NEW j \in DOMAIN inbox, inbox[j].kind = "snapshot" PROVE inbox[j].sent \in Nat
    <3>1. inbox[j] \in Messages
      BY DEF FeedParts, TypedInbox
    <3>2. inbox[j] \in Snapshots
      BY <2>1, <3>1 DEF Messages, SwitchMessages, LineMessages
    <3> QED BY <3>2, BoundsAssumption DEF Snapshots
  <2> QED BY <2>1 DEF FeedParts, StampsOK
<1>3. StampsOK'
  BY <1>1, <1>2 DEF FeedParts, StampsOK
<1>4. RemoteOK'
  BY DEF FeedParts, RemoteOK
<1>5. ASSUME NEW k \in 0 .. Len(inbox') PROVE ~Fresh(k)'
  <2>1. CASE k = 0
    BY <1>1, <2>1 DEF FeedParts, StampsOK, Fresh
  <2>2. CASE k # 0
    <3>1. k \in DOMAIN inbox'
      BY <2>2
    <3>2. PICK j \in DOMAIN inbox : inbox'[k] = inbox[j]
      BY <3>1
    <3> QED BY <1>1, <1>2, <2>2, <3>2 DEF Fresh
  <2> QED BY <2>1, <2>2
<1>6. FeedOK'
  BY <1>5 DEF FeedOK
<1> QED BY <1>3, <1>4, <1>6

LEMMA FeedSame ==
    ASSUME FeedParts, UNCHANGED <<local, inbox, cache, cachedAt, plant, disturbed>>
    PROVE  RemoteOK' /\ StampsOK' /\ FeedOK'
BY DEF FeedParts, RemoteOK, StampsOK, FeedOK, Fresh, Documents

LEMMA FeedExpires ==
    ASSUME FeedParts, cache' = NoCache, UNCHANGED <<local, inbox, cachedAt, plant, disturbed>>
    PROVE  RemoteOK' /\ StampsOK' /\ FeedOK'
<1>1. RemoteOK' /\ StampsOK'
  BY DEF FeedParts, RemoteOK, StampsOK
<1>2. ASSUME NEW k \in 0 .. Len(inbox), Fresh(k)'
      PROVE  \E docs \in [k .. Len(inbox) -> Plants] : Documents(k, docs)' /\ docs[Len(inbox)] = plant
  <2>1. k # 0 /\ Fresh(k)
    BY <1>2 DEF Fresh
  <2>2. PICK docs \in [k .. Len(inbox) -> Plants] : Documents(k, docs) /\ docs[Len(inbox)] = plant
    BY <2>1 DEF FeedParts, FeedOK
  <2>3. Documents(k, docs)'
    BY <2>1, <2>2 DEF Documents
  <2> QED BY <2>2, <2>3
<1>3. FeedOK'
  BY <1>2 DEF FeedOK
<1> QED BY <1>1, <1>3

(* Without the topology messages nothing is under way, whatever changes.   *)
LEMMA FeedRemote ==
    ASSUME FeedParts, ~local, UNCHANGED <<local, inbox, cache, cachedAt, disturbed>>
    PROVE  RemoteOK' /\ StampsOK' /\ FeedOK'
<1>1. inbox = <<>> /\ cache = NoCache
  BY DEF FeedParts, RemoteOK
<1>2. RemoteOK' /\ StampsOK'
  BY DEF FeedParts, RemoteOK, StampsOK
<1>3. FeedOK'
  BY <1>1 DEF FeedOK, Fresh
<1> QED BY <1>2, <1>3

LEMMA InvFeedParts == ASSUME FeedInv PROVE FeedParts
<1>1. disturbed \in Nat /\ cachedAt \in Nat
  BY BoundsAssumption DEF FeedInv, TypeOK
<1> QED BY <1>1 DEF FeedInv, TypeOK, FeedParts, TypedInbox

(* Reports of switches that did not change stay true. *)
LEMMA ReportsSame == ASSUME ReportsOK, UNCHANGED <<report, plant>> PROVE ReportsOK'
BY DEF ReportsOK, ReportOf, report

LEMMA PublishTyped ==
    ASSUME inbox \in Seq(Messages), Len(inbox) <= MaxInbox, NEW m \in Messages, Publish(m)
    PROVE  inbox' \in Seq(Messages) /\ Len(inbox') <= MaxInbox
<1>1. Len(inbox) < MaxInbox /\ inbox' = Append(inbox, m)
  BY DEF Publish
<1> QED BY <1>1, BoundsAssumption

-----------------------------------------------------------------------------
(* The plant changes *)

LEMMA SwitchMovesKeeps ==
    ASSUME FeedInv, NEW s \in Switches, NEW position \in Positions, SwitchMoves(s, position)
    PROVE  FeedInv'
<1> DEFINE gone == position = "DELETED"
           now == IF gone THEN plant.blocked \ {s} ELSE plant.blocked
<1>1. /\ plant.position[s] # position
      /\ plant' = [plant EXCEPT !.position[s] = position, !.blocked = IF position = "DELETED" THEN @ \ {s} ELSE @]
      /\ sampled' = sampled \ {s}
      /\ changes < MaxChanges /\ changes' = changes + 1
      /\ UNCHANGED <<local, cache, cachedAt, telemetry, state, known, aged, graph, disturbed, faults>>
  BY DEF SwitchMoves, Changes, reader
<1>2. /\ plant \in Plants /\ plant.position \in [Switches -> Positions] /\ plant.blocked \in SUBSET Switches
      /\ plant.status \in [Lines -> LineStatus]
  BY PlantFacts DEF FeedInv, TypeOK
<1>3. plant' = [position |-> [plant.position EXCEPT ![s] = position], blocked |-> now, status |-> plant.status]
  <2>1. plant' = [plant EXCEPT !.position[s] = position, !.blocked = now]
    BY <1>1
  <2> HIDE DEF now
  <2> QED BY <1>2, <2>1, SwitchExcept
<1>4. plant' \in Plants
  BY <1>2, <1>3, PlantMade
<1>5. /\ plant'.position[s] = position /\ (s \in plant'.blocked <=> ~gone /\ s \in plant.blocked)
      /\ \A t \in Switches \ {s} : /\ plant'.position[t] = plant.position[t]
                                   /\ t \in plant'.blocked <=> t \in plant.blocked
  BY <1>2, <1>3
<1>6. PICK fields \in {{"position"}, {"position", "blocked"}} : Told(SwitchMessage(s, fields))
  BY DEF SwitchMoves
<1>7. PICK m \in SwitchMessages : m = SwitchMessage(s, fields)
  <2>1. SwitchMessage(s, fields) \in SwitchMessages
    BY <1>5 DEF SwitchMessage, SwitchMessages
  <2> QED BY <2>1
<1>8. m.kind = "switch" /\ m.id = s /\ m.fields = fields /\ m.position = position /\ m.blocked = (s \in plant'.blocked)
  BY <1>5, <1>7 DEF SwitchMessage
<1>9. m \in Messages /\ Told(m)
  BY <1>6, <1>7 DEF Messages
<1>10. plant' = Applied(plant, m)
  <2>1. PICK p \in Positions, blocked \in BOOLEAN :
           /\ p = IF "position" \in m.fields THEN m.position
                  ELSE IF plant.position[m.id] = "DELETED" THEN "CLOSED" ELSE plant.position[m.id]
           /\ blocked = (/\ p # "DELETED"
                         /\ IF "blocked" \in m.fields THEN m.blocked
                            ELSE plant.position[m.id] # "DELETED" /\ m.id \in plant.blocked)
           /\ Merged(plant, m) = [position |-> [plant.position EXCEPT ![m.id] = p],
                                  blocked |-> IF blocked THEN plant.blocked \union {m.id} ELSE plant.blocked \ {m.id},
                                  status |-> plant.status]
    BY <1>2, SwitchMerged
  <2>2. p = position
    BY <1>8, <2>1
  <2>3. plant.position[s] = "DELETED" => s \notin plant.blocked
    BY DEF FeedInv, ReportsOK
  <2>4. blocked <=> ~gone /\ s \in plant.blocked
    BY <1>5, <1>8, <2>1, <2>2, <2>3
  <2>5. (IF blocked THEN plant.blocked \union {s} ELSE plant.blocked \ {s}) = now
    BY <2>4
  <2> QED BY <1>3, <1>8, <2>1, <2>2, <2>5 DEF Applied
<1>11. inbox' \in Seq(Messages) /\ Len(inbox') <= MaxInbox
  BY <1>9, PublishTyped DEF Told, FeedInv, TypeOK
<1>12. TypeOK'
  BY <1>1, <1>4, <1>11, BoundsAssumption DEF FeedInv, TypeOK
<1>13. ReportsOK'
  <2> SUFFICES ASSUME NEW t \in Switches
               PROVE  /\ Len(telemetry[t]) <= 1
                      /\ plant'.position[t] = "DELETED" => t \notin plant'.blocked
                      /\ t \in sampled' =>
                           /\ plant'.position[t] # "DELETED"
                           /\ telemetry[t] # <<>> => Head(telemetry[t]) = ReportOf(t)'
                           /\ telemetry[t] = <<>> => state[t] \in {NoState, EventReport, ReportOf(t)'}
    BY <1>1 DEF ReportsOK
  <2>1. CASE t = s
    BY <1>1, <1>5, <2>1 DEF FeedInv, ReportsOK
  <2>2. CASE t # s
    <3>1. ReportOf(t)' = ReportOf(t)
      BY <1>5, <2>2 DEF ReportOf
    <3> QED BY <1>1, <1>5, <2>2, <3>1 DEF FeedInv, ReportsOK
  <2> QED BY <2>1, <2>2
<1>14. RemoteOK' /\ StampsOK' /\ FeedOK'
  <2>1. CASE Publish(m)
    BY <1>1, <1>4, <1>8, <1>9, <1>10, <2>1, InvFeedParts, FeedPublished DEF Publish
  <2>2. CASE ~local /\ UNCHANGED inbox
    BY <1>1, <2>2, InvFeedParts, FeedRemote
  <2> QED BY <1>9, <2>1, <2>2 DEF Told
<1> QED BY <1>12, <1>13, <1>14 DEF FeedInv

LEMMA InterlockKeeps ==
    ASSUME FeedInv, NEW s \in Switches, InterlockChanges(s)
    PROVE  FeedInv'
<1> DEFINE now == IF s \in plant.blocked THEN plant.blocked \ {s} ELSE plant.blocked \union {s}
<1>1. /\ plant.position[s] # "DELETED"
      /\ plant' = [plant EXCEPT !.blocked = IF s \in @ THEN @ \ {s} ELSE @ \union {s}]
      /\ sampled' = sampled \ {s}
      /\ changes < MaxChanges /\ changes' = changes + 1
      /\ UNCHANGED <<local, cache, cachedAt, telemetry, state, known, aged, graph, disturbed, faults>>
  BY DEF InterlockChanges, Changes, reader
<1>2. /\ plant \in Plants /\ plant.position \in [Switches -> Positions] /\ plant.blocked \in SUBSET Switches
      /\ plant.status \in [Lines -> LineStatus]
  BY PlantFacts DEF FeedInv, TypeOK
<1>3. plant' = [position |-> plant.position, blocked |-> now, status |-> plant.status]
  BY <1>1, <1>2, BlockedExcept
<1>4. plant' \in Plants
  BY <1>2, <1>3, PlantMade
<1>5. /\ plant'.position = plant.position /\ (s \in plant'.blocked <=> s \notin plant.blocked)
      /\ \A t \in Switches \ {s} : t \in plant'.blocked <=> t \in plant.blocked
  BY <1>3
<1>6. PICK m \in SwitchMessages : m = SwitchMessage(s, {"blocked"})
  <2>1. SwitchMessage(s, {"blocked"}) \in SwitchMessages
    BY <1>2, <1>5 DEF SwitchMessage, SwitchMessages
  <2> QED BY <2>1
<1>7. m.kind = "switch" /\ m.id = s /\ m.fields = {"blocked"} /\ m.blocked = (s \in plant'.blocked)
  BY <1>6 DEF SwitchMessage
<1>8. m \in Messages /\ Told(m)
  BY <1>6 DEF Messages, InterlockChanges
<1>9. plant' = Applied(plant, m)
  <2>1. PICK p \in Positions, blocked \in BOOLEAN :
           /\ p = IF "position" \in m.fields THEN m.position
                  ELSE IF plant.position[m.id] = "DELETED" THEN "CLOSED" ELSE plant.position[m.id]
           /\ blocked = (/\ p # "DELETED"
                         /\ IF "blocked" \in m.fields THEN m.blocked
                            ELSE plant.position[m.id] # "DELETED" /\ m.id \in plant.blocked)
           /\ Merged(plant, m) = [position |-> [plant.position EXCEPT ![m.id] = p],
                                  blocked |-> IF blocked THEN plant.blocked \union {m.id} ELSE plant.blocked \ {m.id},
                                  status |-> plant.status]
    BY <1>2, SwitchMerged
  <2>2. p = plant.position[s] /\ p # "DELETED"
    BY <1>1, <1>7, <2>1
  <2>3. blocked <=> s \notin plant.blocked
    BY <1>5, <1>7, <2>1, <2>2
  <2>4. [plant.position EXCEPT ![s] = p] = plant.position
    BY <1>2, <2>2
  <2>5. (IF blocked THEN plant.blocked \union {s} ELSE plant.blocked \ {s}) = now
    BY <2>3
  <2> QED BY <1>3, <1>7, <2>1, <2>4, <2>5 DEF Applied
<1>10. inbox' \in Seq(Messages) /\ Len(inbox') <= MaxInbox
  BY <1>8, PublishTyped DEF Told, FeedInv, TypeOK
<1>11. TypeOK'
  BY <1>1, <1>4, <1>10, BoundsAssumption DEF FeedInv, TypeOK
<1>12. ReportsOK'
  <2> SUFFICES ASSUME NEW t \in Switches
               PROVE  /\ Len(telemetry[t]) <= 1
                      /\ plant'.position[t] = "DELETED" => t \notin plant'.blocked
                      /\ t \in sampled' =>
                           /\ plant'.position[t] # "DELETED"
                           /\ telemetry[t] # <<>> => Head(telemetry[t]) = ReportOf(t)'
                           /\ telemetry[t] = <<>> => state[t] \in {NoState, EventReport, ReportOf(t)'}
    BY <1>1 DEF ReportsOK
  <2>1. CASE t = s
    BY <1>1, <1>5, <2>1 DEF FeedInv, ReportsOK
  <2>2. CASE t # s
    <3>1. ReportOf(t)' = ReportOf(t)
      BY <1>5, <2>2 DEF ReportOf
    <3> QED BY <1>1, <1>5, <2>2, <3>1 DEF FeedInv, ReportsOK
  <2> QED BY <2>1, <2>2
<1>13. RemoteOK' /\ StampsOK' /\ FeedOK'
  <2>1. CASE Publish(m)
    BY <1>1, <1>4, <1>7, <1>8, <1>9, <2>1, InvFeedParts, FeedPublished DEF Publish
  <2>2. CASE ~local /\ UNCHANGED inbox
    BY <1>1, <2>2, InvFeedParts, FeedRemote
  <2> QED BY <1>8, <2>1, <2>2 DEF Told
<1> QED BY <1>11, <1>12, <1>13 DEF FeedInv

LEMMA LineKeeps ==
    ASSUME FeedInv, NEW e \in Lines, NEW status \in LineStatus, LineChanges(e, status)
    PROVE  FeedInv'
<1>1. /\ plant' = [plant EXCEPT !.status[e] = status]
      /\ changes < MaxChanges /\ changes' = changes + 1
      /\ UNCHANGED <<local, cache, cachedAt, telemetry, sampled, state, known, aged, graph, disturbed, faults>>
  BY DEF LineChanges, Changes, report, reader
<1>2. /\ plant \in Plants /\ plant.position \in [Switches -> Positions] /\ plant.blocked \in SUBSET Switches
      /\ plant.status \in [Lines -> LineStatus]
  BY PlantFacts DEF FeedInv, TypeOK
<1>3. plant' = [position |-> plant.position, blocked |-> plant.blocked, status |-> [plant.status EXCEPT ![e] = status]]
  BY <1>1, <1>2, LineExcept
<1>4. plant' \in Plants
  BY <1>2, <1>3, PlantMade
<1>5. PICK m \in LineMessages : m = [kind |-> "line", id |-> e, fields |-> {"status"}, status |-> status]
  BY DEF LineMessages, LineStatus
<1>6. m.kind = "line" /\ m.id = e /\ m.fields = {"status"} /\ m.status = status
  BY <1>5
<1>7. m \in Messages /\ Told(m)
  BY <1>5 DEF Messages, LineChanges
<1>8. plant' = Applied(plant, m)
  BY <1>2, <1>3, <1>6, LineMerged DEF Applied
<1>9. inbox' \in Seq(Messages) /\ Len(inbox') <= MaxInbox
  BY <1>7, PublishTyped DEF Told, FeedInv, TypeOK
<1>10. TypeOK'
  BY <1>1, <1>4, <1>9, BoundsAssumption DEF FeedInv, TypeOK
<1>11. ReportsOK'
  BY <1>1, <1>3 DEF FeedInv, ReportsOK, ReportOf
<1>12. RemoteOK' /\ StampsOK' /\ FeedOK'
  <2>1. CASE Publish(m)
    BY <1>1, <1>4, <1>6, <1>7, <1>8, <2>1, InvFeedParts, FeedPublished DEF Publish
  <2>2. CASE ~local /\ UNCHANGED inbox
    BY <1>1, <2>2, InvFeedParts, FeedRemote
  <2> QED BY <1>7, <2>1, <2>2 DEF Told
<1> QED BY <1>10, <1>11, <1>12 DEF FeedInv

LEMMA FlowKeeps == ASSUME FeedInv, NEW e \in Lines, FlowTold(e) PROVE FeedInv'
<1>1. /\ plant.status[e] # "DELETED" /\ changes < MaxChanges /\ changes' = changes + 1
      /\ UNCHANGED <<local, plant, cache, cachedAt, report, known, aged, graph, disturbed, faults>>
  BY DEF FlowTold, Changes, reader
<1>2. plant \in Plants /\ plant.status \in [Lines -> LineStatus]
  BY PlantFacts DEF FeedInv, TypeOK
<1>3. PICK m \in LineMessages : m = [kind |-> "line", id |-> e, fields |-> {}, status |-> plant.status[e]]
  <2>1. [kind |-> "line", id |-> e, fields |-> {}, status |-> plant.status[e]] \in LineMessages
    BY <1>2 DEF LineMessages, LineStatus
  <2> QED BY <2>1
<1>4. m.kind = "line" /\ m.id = e /\ m.fields = {}
  BY <1>3
<1>5. m \in Messages /\ Publish(m)
  BY <1>3 DEF Messages, FlowTold
<1>6. plant' = Applied(plant, m)
  <2>1. [plant.status EXCEPT ![e] = plant.status[e]] = plant.status
    BY <1>2
  <2>2. Merged(plant, m) = [position |-> plant.position, blocked |-> plant.blocked, status |-> plant.status]
    BY <1>1, <1>2, <1>4, <2>1, LineMerged
  <2>3. Merged(plant, m) = plant
    BY <1>2, <2>2, PlantFacts
  <2> QED BY <1>1, <1>4, <2>3 DEF Applied
<1>7. inbox' \in Seq(Messages) /\ Len(inbox') <= MaxInbox
  BY <1>5, PublishTyped DEF FeedInv, TypeOK
<1>8. TypeOK'
  BY <1>1, <1>7, BoundsAssumption DEF FeedInv, TypeOK, report
<1>9. ReportsOK'
  BY <1>1, ReportsSame DEF FeedInv
<1>10. RemoteOK' /\ StampsOK' /\ FeedOK'
  BY <1>1, <1>2, <1>4, <1>5, <1>6, InvFeedParts, FeedPublished DEF Publish
<1> QED BY <1>8, <1>9, <1>10 DEF FeedInv

LEMMA SnapshotKeeps == ASSUME FeedInv, SnapshotSent PROVE FeedInv'
<1>1. UNCHANGED <<local, plant, cache, cachedAt, report, known, aged, graph, changes, disturbed, faults>>
  BY DEF SnapshotSent, reader, limits
<1>2. plant \in Plants /\ disturbed \in 0 .. MaxFaults
  BY BoundsAssumption DEF FeedInv, TypeOK
<1>3. PICK m \in Snapshots : m = [kind |-> "snapshot", plant |-> plant, sent |-> disturbed]
  <2>1. [kind |-> "snapshot", plant |-> plant, sent |-> disturbed] \in Snapshots
    BY <1>2 DEF Snapshots
  <2> QED BY <2>1
<1>4. m.kind = "snapshot" /\ m.plant = plant /\ m.sent = disturbed
  BY <1>3
<1>5. m \in Messages /\ Publish(m)
  BY <1>3 DEF Messages, SnapshotSent
<1>6. plant' = Applied(plant, m) /\ m.sent <= disturbed
  BY <1>1, <1>2, <1>4 DEF Applied, Cached
<1>7. inbox' \in Seq(Messages) /\ Len(inbox') <= MaxInbox
  BY <1>5, PublishTyped DEF FeedInv, TypeOK
<1>8. TypeOK'
  BY <1>1, <1>7 DEF FeedInv, TypeOK, report
<1>9. ReportsOK'
  BY <1>1, ReportsSame DEF FeedInv
<1>10. RemoteOK' /\ StampsOK' /\ FeedOK'
  BY <1>1, <1>2, <1>5, <1>6, InvFeedParts, FeedPublished DEF Publish
<1> QED BY <1>8, <1>9, <1>10 DEF FeedInv

-----------------------------------------------------------------------------
(* Messages are lost, overtaken and taken *)

LEMMA InboxFacts ==
    ASSUME FeedInv, inbox # <<>>
    PROVE  /\ Head(inbox) \in Messages /\ Tail(inbox) \in Seq(Messages) /\ Len(Tail(inbox)) <= MaxInbox
           /\ \A k \in DOMAIN Tail(inbox) : \E j \in DOMAIN inbox : Tail(inbox)[k] = inbox[j]
           /\ 1 \in DOMAIN inbox /\ Head(inbox) = inbox[1]
<1>1. inbox \in Seq(Messages) /\ Len(inbox) \in Nat \ {0} /\ Len(inbox) <= MaxInbox
  BY DEF FeedInv, TypeOK
<1>2. /\ Head(inbox) \in Messages /\ Tail(inbox) \in Seq(Messages) /\ Len(Tail(inbox)) = Len(inbox) - 1
      /\ Head(inbox) = inbox[1]
  BY <1>1
<1>3. Len(Tail(inbox)) <= MaxInbox
  BY <1>1, <1>2, BoundsAssumption
<1>4. ASSUME NEW k \in DOMAIN Tail(inbox) PROVE \E j \in DOMAIN inbox : Tail(inbox)[k] = inbox[j]
  <2>1. k + 1 \in DOMAIN inbox /\ Tail(inbox)[k] = inbox[k + 1]
    BY <1>1, <1>2
  <2> QED BY <2>1
<1> QED BY <1>1, <1>2, <1>3, <1>4

LEMMA LostKeeps == ASSUME FeedInv, MessageLost PROVE FeedInv'
<1>1. /\ inbox # <<>> /\ inbox' = Tail(inbox)
      /\ faults < MaxFaults /\ faults' = faults + 1 /\ disturbed' = disturbed + 1
      /\ UNCHANGED <<local, plant, cache, cachedAt, report, known, aged, graph, changes>>
  BY DEF MessageLost, Disturb, Fault, reader
<1>2. TypeOK'
  BY <1>1, InboxFacts, BoundsAssumption DEF FeedInv, TypeOK, report
<1>3. ReportsOK'
  BY <1>1, ReportsSame DEF FeedInv
<1>4. RemoteOK' /\ StampsOK' /\ FeedOK'
  BY <1>1, InboxFacts, InvFeedParts, FeedDisturbed
<1> QED BY <1>2, <1>3, <1>4 DEF FeedInv

LEMMA OvertakesKeeps == ASSUME FeedInv, MessageOvertakes PROVE FeedInv'
<1> DEFINE n == Len(inbox)
<1>1. /\ n > 1 /\ inbox' = <<inbox[2], inbox[1]>> \o SubSeq(inbox, 3, n)
      /\ faults < MaxFaults /\ faults' = faults + 1 /\ disturbed' = disturbed + 1
      /\ UNCHANGED <<local, plant, cache, cachedAt, report, known, aged, graph, changes>>
  BY DEF MessageOvertakes, Disturb, Fault, reader
<1>2. inbox \in Seq(Messages) /\ n \in Nat /\ n <= MaxInbox
  BY DEF FeedInv, TypeOK
<1>3. /\ <<inbox[2], inbox[1]>> \in Seq(Messages) /\ Len(<<inbox[2], inbox[1]>>) = 2
      /\ <<inbox[2], inbox[1]>>[1] = inbox[2] /\ <<inbox[2], inbox[1]>>[2] = inbox[1]
  BY <1>1, <1>2
<1>4. /\ SubSeq(inbox, 3, n) \in Seq(Messages) /\ Len(SubSeq(inbox, 3, n)) = n - 2
      /\ \A i \in 1 .. n - 2 : SubSeq(inbox, 3, n)[i] = inbox[i + 2]
  BY <1>1, <1>2
<1>5. /\ inbox' \in Seq(Messages) /\ Len(inbox') = n /\ DOMAIN inbox' = 1 .. n
      /\ \A i \in 1 .. n : inbox'[i] = IF i = 1 THEN inbox[2] ELSE IF i = 2 THEN inbox[1] ELSE inbox[i]
  BY <1>1, <1>2, <1>3, <1>4
<1>6. \A k \in DOMAIN inbox' : \E j \in DOMAIN inbox : inbox'[k] = inbox[j]
  <2>1. DOMAIN inbox = 1 .. n /\ 1 \in 1 .. n /\ 2 \in 1 .. n
    BY <1>1, <1>2
  <2> SUFFICES ASSUME NEW k \in 1 .. n PROVE \E j \in 1 .. n : inbox'[k] = inbox[j]
    BY <1>5, <2>1
  <2> QED BY <1>5, <2>1
<1>7. TypeOK'
  BY <1>1, <1>2, <1>5, BoundsAssumption DEF FeedInv, TypeOK, report
<1>8. ReportsOK'
  BY <1>1, ReportsSame DEF FeedInv
<1>9. inbox # <<>>
  BY <1>1
<1>10. RemoteOK' /\ StampsOK' /\ FeedOK'
  BY <1>1, <1>5, <1>6, <1>9, InvFeedParts, FeedDisturbed
<1> QED BY <1>7, <1>8, <1>10 DEF FeedInv

LEMMA CachedKeeps == ASSUME FeedInv, SnapshotCached PROVE FeedInv'
<1>1. /\ inbox # <<>> /\ Head(inbox).kind = "snapshot" /\ inbox' = Tail(inbox)
      /\ cache' = Cached(Head(inbox)) /\ cachedAt' = Head(inbox).sent
      /\ UNCHANGED <<local, plant, report, known, aged, graph, changes, disturbed, faults>>
  BY DEF SnapshotCached, reader, limits
<1>2. Head(inbox) \in Snapshots
  BY <1>1, InboxFacts DEF Messages, SwitchMessages, LineMessages
<1>3. cache' \in Plants /\ cachedAt' \in 0 .. disturbed
  <2>1. Head(inbox).plant \in Plants /\ Head(inbox).sent \in 0 .. MaxFaults
    BY <1>2 DEF Snapshots
  <2>2. Head(inbox).sent <= disturbed
    BY <1>1, InboxFacts DEF FeedInv, StampsOK
  <2> QED BY <1>1, <2>1, <2>2, BoundsAssumption DEF Cached, FeedInv, TypeOK
<1>4. TypeOK'
  BY <1>1, <1>3, InboxFacts DEF FeedInv, TypeOK, report
<1>5. ReportsOK'
  BY <1>1, ReportsSame DEF FeedInv
<1>6. RemoteOK' /\ StampsOK' /\ FeedOK'
  BY <1>1, InvFeedParts, FeedTaken
<1> QED BY <1>4, <1>5, <1>6 DEF FeedInv

LEMMA MergedKeeps == ASSUME FeedInv, StateMerged PROVE FeedInv'
<1>1. /\ inbox # <<>> /\ Head(inbox).kind # "snapshot" /\ inbox' = Tail(inbox)
      /\ cache' = IF cache = NoCache THEN cache ELSE Merged(cache, Head(inbox))
      /\ UNCHANGED <<local, plant, cachedAt, report, known, aged, graph, changes, disturbed, faults>>
  BY DEF StateMerged, reader, limits
<1>2. cache' \in Plants \union {NoCache}
  <2>1. CASE cache = NoCache
    BY <1>1, <2>1
  <2>2. CASE cache # NoCache
    <3>1. cache \in Plants /\ Head(inbox) \in Messages
      BY <1>1, <2>2, InboxFacts DEF FeedInv, TypeOK
    <3> QED BY <1>1, <2>2, <3>1, AppliedTyped DEF Applied
  <2> QED BY <2>1, <2>2
<1>3. TypeOK'
  BY <1>1, <1>2, InboxFacts DEF FeedInv, TypeOK, report
<1>4. ReportsOK'
  BY <1>1, ReportsSame DEF FeedInv
<1>5. RemoteOK' /\ StampsOK' /\ FeedOK'
  BY <1>1, InvFeedParts, FeedTaken
<1> QED BY <1>3, <1>4, <1>5 DEF FeedInv

LEMMA ExpiresKeeps == ASSUME FeedInv, CacheExpires PROVE FeedInv'
<1>1. /\ cache' = NoCache /\ faults < MaxFaults /\ faults' = faults + 1
      /\ UNCHANGED <<local, plant, inbox, cachedAt, report, known, aged, graph, changes, disturbed>>
  BY DEF CacheExpires, Fault, reader
<1>2. TypeOK'
  BY <1>1, BoundsAssumption DEF FeedInv, TypeOK, report
<1>3. ReportsOK'
  BY <1>1, ReportsSame DEF FeedInv
<1>4. RemoteOK' /\ StampsOK' /\ FeedOK'
  BY <1>1, InvFeedParts, FeedExpires
<1> QED BY <1>2, <1>3, <1>4 DEF FeedInv

-----------------------------------------------------------------------------
(* The reports of the switches *)

(* A step of one switch's reports leaves the documents and the others.     *)
LEMMA ReportStep ==
    ASSUME FeedInv, NEW s \in Switches, UNCHANGED <<local, plant, inbox, cache, cachedAt, known, aged, graph, disturbed>>,
           changes' \in 0 .. MaxChanges, faults' \in faults .. MaxFaults,
           telemetry' \in [Switches -> Seq(Reports)], state' \in [Switches -> Reports \union {NoState}],
           sampled' \subseteq Switches,
           \A t \in Switches \ {s} : /\ telemetry'[t] = telemetry[t] /\ state'[t] = state[t]
                                     /\ t \in sampled' <=> t \in sampled,
           Len(telemetry'[s]) <= 1,
           s \in sampled' =>
              /\ plant.position[s] # "DELETED"
              /\ telemetry'[s] # <<>> => Head(telemetry'[s]) = ReportOf(s)
              /\ telemetry'[s] = <<>> => state'[s] \in {NoState, EventReport, ReportOf(s)}
    PROVE  FeedInv'
<1>1. disturbed \in 0 .. faults'
  BY BoundsAssumption DEF FeedInv, TypeOK
<1>2. faults' \in 0 .. MaxFaults
  BY BoundsAssumption DEF FeedInv, TypeOK
<1>3. TypeOK'
  BY <1>1, <1>2 DEF FeedInv, TypeOK
<1>4. ReportsOK'
  <2> SUFFICES ASSUME NEW t \in Switches
               PROVE  /\ Len(telemetry'[t]) <= 1
                      /\ plant.position[t] = "DELETED" => t \notin plant.blocked
                      /\ t \in sampled' =>
                           /\ plant.position[t] # "DELETED"
                           /\ telemetry'[t] # <<>> => Head(telemetry'[t]) = ReportOf(t)
                           /\ telemetry'[t] = <<>> => state'[t] \in {NoState, EventReport, ReportOf(t)}
    BY DEF ReportsOK, ReportOf
  <2> QED BY DEF FeedInv, ReportsOK
<1>5. RemoteOK' /\ StampsOK' /\ FeedOK'
  BY InvFeedParts, FeedSame
<1> QED BY <1>3, <1>4, <1>5 DEF FeedInv

LEMMA QueueFacts ==
    ASSUME FeedInv, NEW s \in Switches
    PROVE  /\ telemetry \in [Switches -> Seq(Reports)] /\ state \in [Switches -> Reports \union {NoState}]
           /\ telemetry[s] # <<>> => /\ Head(telemetry[s]) \in Reports /\ Tail(telemetry[s]) = <<>>
                                     /\ Tail(telemetry[s]) \in Seq(Reports)
           /\ changes \in 0 .. MaxChanges /\ faults \in faults .. MaxFaults
<1>1. telemetry[s] \in Seq(Reports) /\ Len(telemetry[s]) <= 1
  BY DEF FeedInv, TypeOK, ReportsOK
<1>2. telemetry[s] # <<>> => /\ Head(telemetry[s]) \in Reports /\ Tail(telemetry[s]) = <<>>
                             /\ Tail(telemetry[s]) \in Seq(Reports)
  BY <1>1
<1> QED BY <1>2, BoundsAssumption DEF FeedInv, TypeOK

LEMMA SwitchReportsKeeps == ASSUME FeedInv, NEW s \in Switches, SwitchReports(s) PROVE FeedInv'
<1>1. /\ plant.position[s] # "DELETED"
      /\ telemetry' = [telemetry EXCEPT ![s] =
           <<[position |-> plant.position[s], blocked |-> s \in plant.blocked]>>]
      /\ sampled' = sampled \union {s}
      /\ UNCHANGED <<local, plant, inbox, cachedAt, cache, state, known, aged, graph, changes, disturbed, faults>>
  BY DEF SwitchReports, feed, reader, limits
<1>2. ReportOf(s) \in Reports
  BY <1>1, ReportFacts DEF FeedInv, TypeOK
<1>3. telemetry' = [telemetry EXCEPT ![s] = <<ReportOf(s)>>]
  BY <1>1 DEF ReportOf
<1>4. <<ReportOf(s)>> \in Seq(Reports) /\ Len(<<ReportOf(s)>>) = 1 /\ Head(<<ReportOf(s)>>) = ReportOf(s)
      /\ <<ReportOf(s)>> # <<>>
  BY <1>2
<1>5. /\ telemetry' \in [Switches -> Seq(Reports)] /\ telemetry'[s] = <<ReportOf(s)>>
      /\ \A t \in Switches \ {s} : telemetry'[t] = telemetry[t]
  BY <1>3, <1>4, QueueFacts
<1>6. sampled' \subseteq Switches
  BY <1>1 DEF FeedInv, TypeOK
<1>7. /\ \A t \in Switches \ {s} : state'[t] = state[t] /\ (t \in sampled' <=> t \in sampled)
      /\ state' \in [Switches -> Reports \union {NoState}]
      /\ changes' \in 0 .. MaxChanges /\ faults' \in faults .. MaxFaults
  BY <1>1, QueueFacts
<1>8. Len(telemetry'[s]) <= 1 /\ telemetry'[s] # <<>> /\ Head(telemetry'[s]) = ReportOf(s)
  BY <1>4, <1>5
<1> QED BY <1>1, <1>5, <1>6, <1>7, <1>8, ReportStep

LEMMA ArrivesKeeps == ASSUME FeedInv, NEW s \in Switches, ReportArrives(s) PROVE FeedInv'
<1>1. /\ telemetry[s] # <<>>
      /\ state' = [state EXCEPT ![s] = Head(telemetry[s])]
      /\ telemetry' = [telemetry EXCEPT ![s] = Tail(@)]
      /\ UNCHANGED <<local, plant, inbox, cachedAt, cache, sampled, known, aged, graph, changes, disturbed, faults>>
  BY DEF ReportArrives, feed, reader, limits
<1>2. /\ telemetry' \in [Switches -> Seq(Reports)] /\ telemetry'[s] = <<>>
      /\ state' \in [Switches -> Reports \union {NoState}] /\ state'[s] = Head(telemetry[s])
      /\ \A t \in Switches \ {s} : telemetry'[t] = telemetry[t] /\ state'[t] = state[t]
  BY <1>1, QueueFacts
<1>3. sampled' \subseteq Switches
  BY <1>1 DEF FeedInv, TypeOK
<1>4. s \in sampled => plant.position[s] # "DELETED" /\ Head(telemetry[s]) = ReportOf(s)
  BY <1>1 DEF FeedInv, ReportsOK
<1>5. Len(telemetry'[s]) <= 1
  <2>1. Len(<<>>) = 0
    OBVIOUS
  <2> QED BY <1>2, <2>1
<1> QED BY <1>1, <1>2, <1>3, <1>4, <1>5, QueueFacts, ReportStep

LEMMA EventKeeps == ASSUME FeedInv, NEW s \in Switches, EventArrives(s) PROVE FeedInv'
<1>1. /\ state' = [state EXCEPT ![s] = EventReport]
      /\ changes < MaxChanges /\ changes' = changes + 1
      /\ UNCHANGED <<local, plant, inbox, cachedAt, cache, telemetry, sampled, known, aged, graph, disturbed, faults>>
  BY DEF EventArrives, Changes, feed, reader
<1>2. /\ state' \in [Switches -> Reports \union {NoState}] /\ state'[s] = EventReport
      /\ \A t \in Switches \ {s} : state'[t] = state[t]
  BY <1>1, QueueFacts, ReportFacts
<1>3. sampled' \subseteq Switches /\ changes' \in 0 .. MaxChanges
  BY <1>1, BoundsAssumption DEF FeedInv, TypeOK
<1>4. Len(telemetry[s]) <= 1 /\ (s \in sampled => plant.position[s] # "DELETED"
                                   /\ (telemetry[s] # <<>> => Head(telemetry[s]) = ReportOf(s)))
  BY DEF FeedInv, ReportsOK
<1> QED BY <1>1, <1>2, <1>3, <1>4, QueueFacts, ReportStep

LEMMA ReportLostKeeps == ASSUME FeedInv, NEW s \in Switches, ReportLost(s) PROVE FeedInv'
<1>1. /\ telemetry[s] # <<>> /\ telemetry' = [telemetry EXCEPT ![s] = Tail(@)]
      /\ sampled' = sampled \ {s} /\ faults < MaxFaults /\ faults' = faults + 1
      /\ UNCHANGED <<local, plant, inbox, cachedAt, cache, state, known, aged, graph, changes, disturbed>>
  BY DEF ReportLost, Fault, feed, reader
<1>2. /\ telemetry' \in [Switches -> Seq(Reports)] /\ telemetry'[s] = <<>>
      /\ \A t \in Switches \ {s} : telemetry'[t] = telemetry[t]
  BY <1>1, QueueFacts
<1>3. sampled' \subseteq Switches /\ faults' \in faults .. MaxFaults
  BY <1>1, BoundsAssumption DEF FeedInv, TypeOK
<1>4. Len(telemetry'[s]) <= 1
  <2>1. Len(<<>>) = 0
    OBVIOUS
  <2> QED BY <1>2, <2>1
<1>5. \A t \in Switches \ {s} : t \in sampled' <=> t \in sampled
  BY <1>1
<1>6. s \notin sampled'
  BY <1>1
<1> QED BY <1>1, <1>2, <1>3, <1>4, <1>5, <1>6, QueueFacts, ReportStep

LEMMA StateExpiresKeeps == ASSUME FeedInv, NEW s \in Switches, StateExpires(s) PROVE FeedInv'
<1>1. /\ state' = [state EXCEPT ![s] = NoState] /\ faults < MaxFaults /\ faults' = faults + 1
      /\ UNCHANGED <<local, plant, inbox, cachedAt, cache, telemetry, sampled, known, aged, graph, changes, disturbed>>
  BY DEF StateExpires, Fault, feed, reader
<1>2. /\ state' \in [Switches -> Reports \union {NoState}] /\ state'[s] = NoState
      /\ \A t \in Switches \ {s} : state'[t] = state[t]
  BY <1>1, QueueFacts
<1>3. sampled' \subseteq Switches /\ faults' \in faults .. MaxFaults
  BY <1>1, BoundsAssumption DEF FeedInv, TypeOK
<1>4. Len(telemetry[s]) <= 1 /\ (s \in sampled => plant.position[s] # "DELETED"
                                   /\ (telemetry[s] # <<>> => Head(telemetry[s]) = ReportOf(s)))
  BY DEF FeedInv, ReportsOK
<1> QED BY <1>1, <1>2, <1>3, <1>4, QueueFacts, ReportStep

-----------------------------------------------------------------------------
(* The control loop asks *)

LEMMA ReaderKeeps ==
    ASSUME FeedInv, UNCHANGED <<local, plant, inbox, cachedAt, cache, report, changes, disturbed>>,
           faults' \in faults .. MaxFaults, known' \subseteq Lines, aged' \in BOOLEAN, graph' \subseteq Lines
    PROVE  FeedInv'
<1>1. disturbed \in 0 .. faults' /\ faults' \in 0 .. MaxFaults
  BY BoundsAssumption DEF FeedInv, TypeOK
<1>2. TypeOK'
  BY <1>1 DEF FeedInv, TypeOK, report
<1>3. ReportsOK'
  BY ReportsSame DEF FeedInv
<1>4. RemoteOK' /\ StampsOK' /\ FeedOK'
  BY InvFeedParts, FeedSame
<1> QED BY <1>2, <1>3, <1>4 DEF FeedInv

LEMMA FaultsGrow == ASSUME FeedInv, Fault \/ UNCHANGED faults PROVE faults' \in faults .. MaxFaults
BY BoundsAssumption DEF FeedInv, TypeOK, Fault

LEMMA FetchKeeps == ASSUME FeedInv, NEW simulator \in BOOLEAN, Fetch(simulator) PROVE FeedInv'
<1>1. /\ Fault \/ UNCHANGED faults
      /\ known' = Fetched(simulator) /\ aged' = FALSE /\ graph' = known'
      /\ UNCHANGED <<local, plant, inbox, cachedAt, cache, report, changes, disturbed>>
  BY DEF Fetch, feed
<1>2. known' \subseteq Lines
  BY <1>1 DEF Fetched, GraphOf, Graph
<1> QED BY <1>1, <1>2, FaultsGrow, ReaderKeeps

LEMMA FetchFailsKeeps == ASSUME FeedInv, FetchFails PROVE FeedInv'
<1>1. /\ Fault /\ graph' = IF aged THEN {} ELSE known
      /\ UNCHANGED <<local, plant, inbox, cachedAt, cache, report, known, aged, changes, disturbed>>
  BY DEF FetchFails, feed
<1>2. known' \subseteq Lines /\ aged' \in BOOLEAN /\ graph' \subseteq Lines
  BY <1>1 DEF FeedInv, TypeOK
<1> QED BY <1>1, <1>2, FaultsGrow, ReaderKeeps

LEMMA AgesKeeps == ASSUME FeedInv, KnownAges PROVE FeedInv'
<1>1. /\ aged' = TRUE
      /\ UNCHANGED <<local, plant, inbox, cachedAt, cache, report, known, graph, changes, disturbed, faults>>
  BY DEF KnownAges, feed, limits
<1>2. known' \subseteq Lines /\ graph' \subseteq Lines
  BY <1>1 DEF FeedInv, TypeOK
<1> QED BY <1>1, <1>2, FaultsGrow, ReaderKeeps

-----------------------------------------------------------------------------
(* The invariant *)

LEMMA InvInit == Init => FeedInv
<1> SUFFICES ASSUME Init PROVE FeedInv
  OBVIOUS
<1>1. plant \in Plants
  BY PlantMade DEF Init, Positions, LineStatus
<1>2. TypeOK
  <2>1. <<>> \in Seq(Messages) /\ <<>> \in Seq(Reports) /\ Len(<<>>) = 0
    OBVIOUS
  <2> QED BY <1>1, <2>1, BoundsAssumption DEF Init, TypeOK
<1>3. ReportsOK
  BY DEF Init, ReportsOK
<1>4. RemoteOK /\ StampsOK
  BY DEF Init, RemoteOK, StampsOK
<1>5. FeedOK
  BY DEF Init, FeedOK, Fresh
<1> QED BY <1>2, <1>3, <1>4, <1>5 DEF FeedInv

LEMMA InvStutter == ASSUME FeedInv, UNCHANGED vars PROVE FeedInv'
<1>1. /\ UNCHANGED <<local, plant, inbox, cachedAt, cache, report, changes, disturbed, faults>>
      /\ UNCHANGED <<known, aged, graph>>
  BY DEF vars, feed, reader, limits
<1>2. known' \subseteq Lines /\ aged' \in BOOLEAN /\ graph' \subseteq Lines
  BY <1>1 DEF FeedInv, TypeOK
<1> QED BY <1>1, <1>2, FaultsGrow, ReaderKeeps

LEMMA InvNext == FeedInv /\ [Next]_vars => FeedInv'
<1> SUFFICES ASSUME FeedInv, [Next]_vars PROVE FeedInv'
  OBVIOUS
<1>1. CASE PlantStep
  <2>1. ASSUME NEW e \in Lines, NEW status \in {"NORMAL", "FAULT", "DELETED"}, LineChanges(e, status)
        PROVE  FeedInv'
    BY <2>1, LineKeeps DEF LineStatus
  <2> QED BY <1>1, <2>1, SwitchMovesKeeps, InterlockKeeps, SwitchReportsKeeps, FlowKeeps, SnapshotKeeps
          DEF PlantStep
<1>2. CASE SnapshotCached \/ StateMerged \/ \E s \in Switches : ReportArrives(s)
  BY <1>2, CachedKeeps, MergedKeeps, ArrivesKeeps
<1>3. CASE (\E simulator \in BOOLEAN : Fetch(simulator)) \/ FetchFails \/ KnownAges
  BY <1>3, FetchKeeps, FetchFailsKeeps, AgesKeeps
<1>4. CASE Trouble
  BY <1>4, LostKeeps, OvertakesKeeps, ExpiresKeeps, EventKeeps, ReportLostKeeps, StateExpiresKeeps DEF Trouble
<1>5. CASE UNCHANGED vars
  BY <1>5, InvStutter
<1> QED BY <1>1, <1>2, <1>3, <1>4, <1>5 DEF Next

LEMMA InvAlways == Spec => []FeedInv
BY InvInit, InvNext, PTL DEF Spec

(* Positions, messages, documents and reports have their types             *)
(* (mqtt_subscriber.py, api.py).                                           *)
THEOREM FeedTypeCorrect == Spec => []TypeOK
<1>1. FeedInv => TypeOK
  BY DEF FeedInv
<1> QED BY <1>1, InvAlways, PTL

-----------------------------------------------------------------------------
(* The answer *)

(* A settled switch is told by its state key as it is, or has none. *)
LEMMA SettledFacts ==
    ASSUME FeedInv, NEW s \in Switches, IsSettled(s)
    PROVE  /\ \/ state[s] = ReportOf(s) /\ state[s] # NoState /\ plant.position[s] # "DELETED"
              \/ state[s] = NoState /\ (local \/ s \notin DbSwitches)
           /\ plant.position[s] # "DELETED" =>
                 /\ plant.position[s] \in {"CLOSED", "OPEN"}
                 /\ IsShut(state, s, plant.position[s] = "CLOSED") = (plant.position[s] = "CLOSED")
                 /\ IsFree(state, s, s \notin plant.blocked) = (s \notin plant.blocked)
<1>1. ASSUME state[s] # NoState PROVE state[s] = ReportOf(s) /\ plant.position[s] # "DELETED"
  <2>1. telemetry[s] = <<>> /\ s \in sampled /\ state[s].position # "UNKNOWN"
    BY <1>1 DEF IsSettled
  <2>2. plant.position[s] # "DELETED" /\ state[s] \in {NoState, EventReport, ReportOf(s)}
    BY <2>1 DEF FeedInv, ReportsOK
  <2> QED BY <1>1, <2>1, <2>2, ReportFacts
<1>2. /\ \/ state[s] = ReportOf(s) /\ state[s] # NoState /\ plant.position[s] # "DELETED"
         \/ state[s] = NoState /\ (local \/ s \notin DbSwitches)
  BY <1>1 DEF IsSettled
<1>3. plant.position[s] \in Positions
  BY PlantFacts DEF FeedInv, TypeOK
<1>4. state[s] # NoState => /\ state[s].position = plant.position[s]
                            /\ state[s].blocked = (s \in plant.blocked)
  BY <1>1 DEF ReportOf
<1>5. /\ IsShut(state, s, plant.position[s] = "CLOSED") = (plant.position[s] = "CLOSED")
      /\ IsFree(state, s, s \notin plant.blocked) = (s \notin plant.blocked)
  BY <1>4 DEF IsShut, IsFree, Unreported
<1> QED BY <1>2, <1>3, <1>5 DEF Positions

LEMMA LineSwitches == ASSUME NEW e \in Lines PROVE SwitchesOf[e] \subseteq Switches
BY DEF Switches

(* When all messages have come through, the document is the plant. *)
LEMMA DocumentIsPlant == ASSUME FeedInv, DocumentSettled PROVE cache = plant
<1>1. inbox = <<>> /\ Len(inbox) = 0 /\ Fresh(0)
  BY DEF DocumentSettled, Fresh
<1>2. PICK docs \in [0 .. 0 -> Plants] : Documents(0, docs) /\ docs[0] = plant
  BY <1>1 DEF FeedInv, FeedOK
<1> QED BY <1>2 DEF Documents

LEMMA LocalAnswer ==
    ASSUME FeedInv, local, DocumentSettled, NEW e \in Lines, \A s \in SwitchesOf[e] : IsSettled(s)
    PROVE  e \in GraphOf(View(state, TRUE)) <=> Carries(e)
<1>1. cache = plant /\ plant # NoCache /\ plant \in Plants
  BY DocumentIsPlant, PlantFacts DEF FeedInv, TypeOK
<1>2. View(state, TRUE) = LocalView(state)
  BY <1>1 DEF View
<1> DEFINE listed  == {s \in Switches : plant.position[s] # "DELETED"}
           open(s) == IF Unreported(state, s) THEN plant.position[s] = "OPEN" ELSE state[s].position = "OPEN"
           conducts(s) == /\ IsShut(state, s, plant.position[s] = "CLOSED")
                          /\ IsFree(state, s, s \notin plant.blocked)
<1>3. /\ LocalView(state).normal = {l \in NormalLines(plant) : \A s \in SwitchesOf[l] \intersect listed : ~open(s)}
      /\ LocalView(state).conducting = {s \in Switches : s \in listed => conducts(s)}
  BY <1>1 DEF LocalView
<1>4. ASSUME NEW s \in SwitchesOf[e]
      PROVE  /\ s \in Switches /\ (s \in listed => conducts(s)) <=> s \in Conducting(plant)
             /\ s \in listed /\ s \in Conducting(plant) => ~open(s)
  <2>1. s \in Switches /\ IsSettled(s)
    BY <1>4, LineSwitches
  <2>2. CASE plant.position[s] = "DELETED"
    BY <2>1, <2>2 DEF Conducting
  <2>3. CASE plant.position[s] # "DELETED"
    <3>1. conducts(s) <=> plant.position[s] = "CLOSED" /\ s \notin plant.blocked
      BY <2>1, <2>3, SettledFacts
    <3>2. open(s) <=> plant.position[s] = "OPEN"
      <4>1. state[s] = NoState \/ (state[s] # NoState /\ state[s] = ReportOf(s))
        BY <2>1, SettledFacts
      <4>2. ReportOf(s).position = plant.position[s]
        BY DEF ReportOf
      <4> QED BY <4>1, <4>2 DEF Unreported
    <3> HIDE DEF conducts, open
    <3> QED BY <2>1, <2>3, <3>1, <3>2 DEF Conducting
  <2> QED BY <2>2, <2>3
<1> HIDE DEF listed, open, conducts
<1>5. e \in GraphOf(LocalView(state)) <=>
        /\ e \in NormalLines(plant) /\ \A s \in SwitchesOf[e] \intersect listed : ~open(s)
        /\ \A s \in SwitchesOf[e] : s \in Switches /\ (s \in listed => conducts(s))
  BY <1>3 DEF GraphOf, Graph, IsEnergized
<1>6. Carries(e) <=> e \in NormalLines(plant) /\ \A s \in SwitchesOf[e] : s \in Conducting(plant)
  BY DEF Carries, RealGraph, Graph, IsEnergized
<1> QED BY <1>2, <1>4, <1>5, <1>6

(* The answer of the tables and the simulator is taken apart. *)
LEMMA DatabaseParts ==
    ASSUME ~local, NEW e \in Lines
    PROVE  e \in GraphOf(View(state, TRUE)) <=>
             /\ e \in DatabaseLines(state) \/ e \in SimulatorLines(state)
             /\ \A s \in SwitchesOf[e] :
                   /\ s \in Switches
                   /\ s \in DbSwitches => IsShut(state, s, s \in DbClosed) /\ IsFree(state, s, TRUE)
                   /\ s \notin DbSwitches /\ (\E l \in Lines : plant.status[l] # "DELETED" /\ s \in SimulatorSwitch(l)) =>
                         /\ IsShut(state, s, plant.position[s] = "CLOSED")
                         /\ IsFree(state, s, s \notin plant.blocked)
<1> DEFINE added == (UNION {SimulatorSwitch(l) : l \in {k \in Lines : plant.status[k] # "DELETED"}}) \ DbSwitches
           conducts(s) == /\ s \in DbSwitches => IsShut(state, s, s \in DbClosed) /\ IsFree(state, s, TRUE)
                          /\ s \in added => /\ IsShut(state, s, plant.position[s] = "CLOSED")
                                            /\ IsFree(state, s, s \notin plant.blocked)
<1>1. View(state, TRUE) = DatabaseView(state, TRUE)
  BY DEF View
<1>2. /\ DatabaseView(state, TRUE).normal = DatabaseLines(state) \union SimulatorLines(state)
      /\ DatabaseView(state, TRUE).conducting = {s \in Switches : conducts(s)}
  BY DEF DatabaseView
<1>3. \A s : s \in added <=> s \notin DbSwitches
                             /\ \E l \in Lines : plant.status[l] # "DELETED" /\ s \in SimulatorSwitch(l)
  OBVIOUS
<1> HIDE DEF added
<1>4. e \in GraphOf(DatabaseView(state, TRUE)) <=>
        /\ e \in DatabaseLines(state) \union SimulatorLines(state)
        /\ \A s \in SwitchesOf[e] : s \in Switches /\ conducts(s)
  <2> HIDE DEF conducts
  <2> QED BY <1>2 DEF GraphOf, Graph, IsEnergized
<1> QED BY <1>1, <1>3, <1>4

LEMMA DatabaseAnswer ==
    ASSUME FeedInv, ~local, NEW e \in DbLines, SwitchesOf[e] # {},
           \A s \in SwitchesOf[e] : s \in DbSwitches /\ plant.position[s] # "DELETED" /\ IsSettled(s)
    PROVE  e \in GraphOf(View(state, TRUE)) <=> Carries(e)
<1>1. e \in Lines
  BY DatabaseAssumption
<1>2. ASSUME NEW s \in SwitchesOf[e]
      PROVE  /\ s \in Switches /\ s \in DbSwitches /\ state[s] # NoState
             /\ state[s].position = plant.position[s] /\ state[s].position # "UNKNOWN"
             /\ IsShut(state, s, s \in DbClosed) = (plant.position[s] = "CLOSED")
             /\ IsFree(state, s, TRUE) = (s \notin plant.blocked)
             /\ s \in Conducting(plant) <=> plant.position[s] = "CLOSED" /\ s \notin plant.blocked
  <2>1. s \in Switches /\ s \in DbSwitches /\ plant.position[s] # "DELETED" /\ IsSettled(s)
    BY <1>1, LineSwitches
  <2>2. state[s] = ReportOf(s) /\ state[s] # NoState /\ plant.position[s] \in {"CLOSED", "OPEN"}
    BY <2>1, SettledFacts
  <2>3. state[s].position = plant.position[s] /\ state[s].blocked = (s \in plant.blocked)
    BY <2>2 DEF ReportOf
  <2>4. /\ IsShut(state, s, s \in DbClosed) = (plant.position[s] = "CLOSED")
        /\ IsFree(state, s, TRUE) = (s \notin plant.blocked)
    BY <2>2, <2>3 DEF IsShut, IsFree, Unreported
  <2>5. s \in Conducting(plant) <=> plant.position[s] = "CLOSED" /\ s \notin plant.blocked
    BY <2>1 DEF Conducting
  <2> QED BY <2>1, <2>2, <2>3, <2>4, <2>5
<1>3. MainSwitch[e] \in SwitchesOf[e]
  BY <1>1, MainAssumption
<1>4. e \in DatabaseLines(state) <=> plant.position[MainSwitch[e]] = "CLOSED"
  <2>1. MainSwitch[e] \in SwitchesOf[e] \intersect DbSwitches
    BY <1>2, <1>3
  <2>2. e \in DatabaseLines(state) <=>
           IF Unreported(state, MainSwitch[e]) \/ state[MainSwitch[e]].position = "UNKNOWN" THEN MainSwitch[e] \in DbClosed
           ELSE state[MainSwitch[e]].position = "CLOSED"
    BY <2>1 DEF DatabaseLines
  <2> QED BY <1>2, <1>3, <2>2 DEF Unreported
<1>5. e \notin SimulatorLines(state)
  BY DEF SimulatorLines
<1>6. SimulatorSwitch(e) # {}
  BY <1>3 DEF SimulatorSwitch
<1>7. Carries(e) <=> \A s \in SwitchesOf[e] : s \in Conducting(plant)
  BY <1>6 DEF Carries
<1>8. e \in GraphOf(View(state, TRUE)) <=>
         /\ plant.position[MainSwitch[e]] = "CLOSED"
         /\ \A s \in SwitchesOf[e] : plant.position[s] = "CLOSED" /\ s \notin plant.blocked
  BY <1>1, <1>2, <1>4, <1>5, DatabaseParts
<1> QED BY <1>2, <1>3, <1>7, <1>8

LEMMA SimulatorAnswer ==
    ASSUME FeedInv, ~local, NEW e \in Lines, e \notin DbLines, SwitchesOf[e] \subseteq {MainSwitch[e]} \ DbSwitches,
           \A s \in SwitchesOf[e] : IsSettled(s)
    PROVE  e \in GraphOf(View(state, TRUE)) <=> Carries(e)
<1>1. e \notin DatabaseLines(state)
  BY DEF DatabaseLines
<1>2. \A s \in SwitchesOf[e] : s \in Switches /\ s \notin DbSwitches /\ s = MainSwitch[e]
  BY LineSwitches
<1>3. CASE SimulatorSwitch(e) = {}
  <2>1. \A s \in SwitchesOf[e] : plant.position[s] = "DELETED"
    BY <1>2, <1>3 DEF SimulatorSwitch
  <2>2. \A s \in SwitchesOf[e], l \in Lines : s \notin SimulatorSwitch(l)
    BY <2>1 DEF SimulatorSwitch
  <2>3. e \in GraphOf(View(state, TRUE)) <=> e \in SimulatorLines(state)
    BY <1>1, <1>2, <2>2, DatabaseParts
  <2>4. e \in SimulatorLines(state) <=> plant.status[e] = "NORMAL"
    BY <1>3 DEF SimulatorLines
  <2>5. Carries(e) <=> plant.status[e] = "NORMAL"
    BY <1>2, <1>3, <2>1 DEF Carries, RealGraph, Graph, IsEnergized, NormalLines, Conducting
  <2> QED BY <2>3, <2>4, <2>5
<1>4. CASE SimulatorSwitch(e) # {}
  <2>1. PICK s \in SimulatorSwitch(e) : TRUE
    BY <1>4
  <2>2. /\ s = MainSwitch[e] /\ s \in SwitchesOf[e] /\ plant.position[s] # "DELETED"
        /\ s \in Switches /\ s \notin DbSwitches
    BY <1>2, <2>1 DEF SimulatorSwitch
  <2>3. SwitchesOf[e] = {s} /\ SimulatorSwitch(e) = {s}
    BY <1>2, <2>1, <2>2 DEF SimulatorSwitch
  <2>4. /\ IsShut(state, s, plant.position[s] = "CLOSED") = (plant.position[s] = "CLOSED")
        /\ IsFree(state, s, s \notin plant.blocked) = (s \notin plant.blocked)
    BY <2>2, SettledFacts
  <2>5. e \in SimulatorLines(state) <=> plant.status[e] # "DELETED" /\ plant.position[s] = "CLOSED"
    BY <1>4, <2>3, <2>4 DEF SimulatorLines
  <2>6. e \in GraphOf(View(state, TRUE)) <=>
           plant.status[e] # "DELETED" /\ plant.position[s] = "CLOSED" /\ s \notin plant.blocked
    <3>1. plant.status[e] # "DELETED" => \E l \in Lines : plant.status[l] # "DELETED" /\ s \in SimulatorSwitch(l)
      BY <2>1
    <3>2. e \in GraphOf(View(state, TRUE)) <=>
             /\ e \in SimulatorLines(state)
             /\ (\E l \in Lines : plant.status[l] # "DELETED" /\ s \in SimulatorSwitch(l)) =>
                   plant.position[s] = "CLOSED" /\ s \notin plant.blocked
      <4> DEFINE told(t) == /\ t \in Switches
                            /\ t \in DbSwitches => IsShut(state, t, t \in DbClosed) /\ IsFree(state, t, TRUE)
                            /\ t \notin DbSwitches /\ (\E l \in Lines : plant.status[l] # "DELETED" /\ t \in SimulatorSwitch(l)) =>
                                  /\ IsShut(state, t, plant.position[t] = "CLOSED")
                                  /\ IsFree(state, t, t \notin plant.blocked)
      <4>1. e \in GraphOf(View(state, TRUE)) <=>
               (e \in DatabaseLines(state) \/ e \in SimulatorLines(state)) /\ \A t \in SwitchesOf[e] : told(t)
        BY DatabaseParts
      <4>2. told(s) <=> ((\E l \in Lines : plant.status[l] # "DELETED" /\ s \in SimulatorSwitch(l)) =>
                            plant.position[s] = "CLOSED" /\ s \notin plant.blocked)
        BY <2>2, <2>4
      <4> HIDE DEF told
      <4> QED BY <1>1, <2>3, <4>1, <4>2
    <3> QED BY <2>5, <3>1, <3>2
  <2>7. Carries(e) <=> s \in Conducting(plant) /\ plant.status[e] # "DELETED"
    BY <1>4, <2>3 DEF Carries
  <2>8. s \in Conducting(plant) <=> plant.position[s] = "CLOSED" /\ s \notin plant.blocked
    BY <2>2 DEF Conducting
  <2> QED BY <2>6, <2>7, <2>8
<1> QED BY <1>3, <1>4

(* Once the messages and the reports of the last change have come through, *)
(* and none was lost since the snapshot, control dispatches by the lines   *)
(* as they are, whichever of the two sources is in use                     *)
(* (mqtt_subscriber.py, _apply_topology_state; api.py,                     *)
(* PlantTopologyResource).                                                 *)
THEOREM AnswersFollowPlant == Spec => []AnswerIsPlant
<1>1. ASSUME FeedInv PROVE AnswerIsPlant
  <2> SUFFICES ASSUME local => DocumentSettled, NEW e \in Lines, IsTold(e),
                      \A s \in SwitchesOf[e] : IsSettled(s)
               PROVE  e \in GraphOf(View(state, TRUE)) <=> Carries(e)
    BY DEF AnswerIsPlant
  <2>1. CASE local
    BY <1>1, <2>1, LocalAnswer
  <2>2. CASE ~local /\ e \in DbLines
    BY <1>1, <2>2, DatabaseAnswer DEF IsTold
  <2>3. CASE ~local /\ e \notin DbLines
    BY <1>1, <2>3, SimulatorAnswer DEF IsTold
  <2> QED BY <2>1, <2>2, <2>3
<1> QED BY <1>1, InvAlways, PTL
=============================================================================
