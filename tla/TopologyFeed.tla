---------------------------- MODULE TopologyFeed ----------------------------
(***************************************************************************)
(* How a switch of the plant comes to be open or closed in the graph the   *)
(* control service dispatches by.  Two ways lead to the answer of          *)
(* GET /plants/<site>/topology: the topology messages, which the ingestion *)
(* service merges into one cached document, and the telemetry of the       *)
(* switches, which the state-processor keeps under their state keys.  The  *)
(* answer overlays the second on the first, or, without                    *)
(* LOCAL_SIM_TOPOLOGY_MQTT_ENABLED, on the tables of control_db and on     *)
(* what the simulator's own API lists.                                     *)
(*                                                                         *)
(* The plant is external: one publisher sends a snapshot now and then and  *)
(* a message for what changed, a switch samples its state by itself.  That *)
(* the reports of one device arrive in order is shown in Telemetry.        *)
(***************************************************************************)
EXTENDS Topology, Sequences

CONSTANTS
    DbLines,    \* lines in control_db
    DbSwitches, \* switches in control_db
    DbClosed,   \* those with is_closed
    MainSwitch, \* per line: its switch where an answer has only one, NoSwitch without
    MaxChanges, \* bound: changes of the plant, events of its switches and messages about a flow
    MaxInbox,   \* bound: topology messages under way
    MaxFaults   \* bound: messages lost or overtaken, keys expired, requests failed

ASSUME DatabaseAssumption == DbLines \subseteq Lines /\ DbClosed \subseteq DbSwitches /\ DbSwitches \subseteq Switches
ASSUME MainAssumption ==
    \A e \in Lines : /\ SwitchesOf[e] # {} => MainSwitch[e] \in SwitchesOf[e]
                     /\ SwitchesOf[e] \intersect DbSwitches # {} => MainSwitch[e] \in DbSwitches
ASSUME BoundsAssumption == {MaxChanges, MaxInbox, MaxFaults} \subseteq Nat

VARIABLES
    local,     \* LOCAL_SIM_TOPOLOGY_MQTT_ENABLED
    plant,     \* the plant: position and interlock of the switches, status of the lines
    inbox,     \* topology messages under way
    cache,     \* ems:topology:<site>, or NoCache
    cachedAt,  \* history: disturbances when the cached snapshot was sent
    telemetry, \* per switch: its reports under way
    sampled,   \* history: switches with a report taken since they changed last
    state,     \* per switch: its state key, or NoState
    known,     \* the lines that carry power by the answer control knows last
    aged,      \* there is none, or it is older than _STALE_AFTER_SEC
    graph,     \* the graph of the control cycle: lines that carry power
    changes,   \* changes and events so far
    disturbed, \* messages lost or overtaken so far
    faults     \* all faults so far

feed   == <<plant, inbox, cachedAt, cache>>
report == <<telemetry, sampled, state>>
reader == <<known, aged, graph>>
limits == <<changes, disturbed, faults>>
vars   == <<local, feed, report, reader, limits>>

NoCache  == [is |-> "none"]
NoState  == [is |-> "none"]

Positions == {"CLOSED", "OPEN", "DELETED"}
Plants    == [position : [Switches -> Positions], blocked : SUBSET Switches,
              status : [Lines -> {"NORMAL", "FAULT", "DELETED"}]]
Reports   == [position : {"CLOSED", "OPEN", "UNKNOWN"}, blocked : BOOLEAN]

(* A message has the fields of what changed, or all of them. *)
SwitchMessages == [kind : {"switch"}, id : Switches, fields : SUBSET {"position", "blocked"},
                   position : Positions, blocked : BOOLEAN]
LineMessages   == [kind : {"line"}, id : Lines, fields : SUBSET {"status"},
                   status : {"NORMAL", "FAULT", "DELETED"}]
Snapshots      == [kind : {"snapshot"}, plant : Plants, sent : 0 .. MaxFaults]
Messages       == SwitchMessages \union LineMessages \union Snapshots

Fault == faults < MaxFaults /\ faults' = faults + 1

(* What really conducts: a switch that is gone does not interrupt its line. *)
Conducting(p)  == {s \in Switches : p.position[s] = "DELETED" \/ (p.position[s] = "CLOSED" /\ s \notin p.blocked)}
NormalLines(p) == {e \in Lines : p.status[e] = "NORMAL"}

Init ==
    /\ local \in BOOLEAN
    /\ plant = [position |-> [s \in Switches |-> "CLOSED"], blocked |-> {},
                status |-> [e \in Lines |-> "NORMAL"]]
    /\ inbox = <<>>
    /\ cache = NoCache
    /\ cachedAt = 0
    /\ telemetry = [s \in Switches |-> <<>>]
    /\ sampled = {}
    /\ state = [s \in Switches |-> NoState]
    /\ known = {}
    /\ aged = TRUE
    /\ graph = {}
    /\ changes = 0
    /\ disturbed = 0
    /\ faults = 0

-----------------------------------------------------------------------------
(* The plant and its messages. *)

Publish(m) == /\ local
              /\ Len(inbox) < MaxInbox
              /\ inbox' = Append(inbox, m)

Changes == changes < MaxChanges /\ changes' = changes + 1

SwitchMessage(s, fields) ==
    [kind |-> "switch", id |-> s, fields |-> fields,
     position |-> plant'.position[s], blocked |-> s \in plant'.blocked]

Told(m) == Publish(m) \/ (~local /\ UNCHANGED inbox)

(* A switch that is put back is a new one: no interlock blocks it yet. *)
SwitchMoves(s, position) ==
    /\ Changes
    /\ plant.position[s] # position
    /\ plant' = [plant EXCEPT !.position[s] = position,
                             !.blocked = IF position = "DELETED" THEN @ \ {s} ELSE @]
    /\ sampled' = sampled \ {s}
    /\ \E fields \in {{"position"}, {"position", "blocked"}} : Told(SwitchMessage(s, fields))
    /\ UNCHANGED <<local, cache, cachedAt, telemetry, state, reader, disturbed, faults>>

InterlockChanges(s) ==
    /\ Changes
    /\ plant.position[s] # "DELETED"
    /\ plant' = [plant EXCEPT !.blocked = IF s \in @ THEN @ \ {s} ELSE @ \union {s}]
    /\ sampled' = sampled \ {s}
    /\ Told(SwitchMessage(s, {"blocked"}))
    /\ UNCHANGED <<local, cache, cachedAt, telemetry, state, reader, disturbed, faults>>

LineChanges(e, status) ==
    /\ Changes
    /\ plant.status[e] # status
    /\ plant' = [plant EXCEPT !.status[e] = status]
    /\ Told([kind |-> "line", id |-> e, fields |-> {"status"}, status |-> status])
    /\ UNCHANGED <<local, cache, cachedAt, report, reader, disturbed, faults>>

(* A message that only tells the power flow of a line. *)
FlowTold(e) ==
    /\ Changes
    /\ plant.status[e] # "DELETED"
    /\ Publish([kind |-> "line", id |-> e, fields |-> {}, status |-> plant.status[e]])
    /\ UNCHANGED <<local, plant, cache, cachedAt, report, reader, disturbed, faults>>

SnapshotSent ==
    /\ Publish([kind |-> "snapshot", plant |-> plant, sent |-> disturbed])
    /\ UNCHANGED <<local, plant, cache, cachedAt, report, reader, limits>>

(* QoS 0: a message may be lost, with the connection or the ingestion      *)
(* service, whose every failed Redis call also drops the message at hand;  *)
(* one topic may overtake another.                                         *)
Disturb == Fault /\ disturbed' = disturbed + 1

MessageLost ==
    /\ inbox # <<>>
    /\ Disturb
    /\ inbox' = Tail(inbox)
    /\ UNCHANGED <<local, plant, cache, cachedAt, report, reader, changes>>

MessageOvertakes ==
    /\ Len(inbox) > 1
    /\ inbox[1].kind # inbox[2].kind
    /\ Disturb
    /\ inbox' = <<inbox[2], inbox[1]>> \o SubSeq(inbox, 3, Len(inbox))
    /\ UNCHANGED <<local, plant, cache, cachedAt, report, reader, changes>>

-----------------------------------------------------------------------------
(* Ingestion. *)

(* _apply_topology_snapshot() *)
Cached(m) == m.plant

SnapshotCached ==
    /\ inbox # <<>> /\ Head(inbox).kind = "snapshot"
    /\ inbox' = Tail(inbox)
    /\ cache' = Cached(Head(inbox))
    /\ cachedAt' = Head(inbox).sent
    /\ UNCHANGED <<local, plant, report, reader, limits>>

(* A switch that is not in the document is added, with a default for what  *)
(* the message does not say.                                               *)
WithSwitch(topology, m) ==
    LET unknown == topology.position[m.id] = "DELETED"
        position == IF "position" \in m.fields THEN m.position
                    ELSE IF unknown THEN "CLOSED" ELSE topology.position[m.id]
        blocked == /\ position # "DELETED"
                   /\ IF "blocked" \in m.fields THEN m.blocked
                      ELSE ~unknown /\ m.id \in topology.blocked
    IN  [topology EXCEPT !.position[m.id] = position,
                         !.blocked = IF blocked THEN @ \union {m.id} ELSE @ \ {m.id}]

WithLine(topology, m) ==
    [topology EXCEPT !.status[m.id] = IF "status" \in m.fields THEN m.status
                                      ELSE IF @ = "DELETED" THEN "NORMAL" ELSE @]

(* Mutant: what is deleted stays in the document. *)
MergedWithoutDelete(topology, m) ==
    CASE m.kind = "switch" /\ m.position # "DELETED" -> WithSwitch(topology, m)
      [] m.kind = "line" /\ m.status # "DELETED" -> WithLine(topology, m)
      [] OTHER -> topology

Merged(topology, m) == IF m.kind = "switch" THEN WithSwitch(topology, m) ELSE WithLine(topology, m)

(* _apply_topology_state(): without a cached document it is dropped. *)
StateMerged ==
    /\ inbox # <<>> /\ Head(inbox).kind # "snapshot"
    /\ inbox' = Tail(inbox)
    /\ cache' = IF cache = NoCache THEN cache ELSE Merged(cache, Head(inbox))
    /\ UNCHANGED <<local, plant, cachedAt, report, reader, limits>>

(* No message for the time to live of the document. *)
CacheExpires ==
    /\ cache # NoCache
    /\ Fault
    /\ cache' = NoCache
    /\ UNCHANGED <<local, plant, inbox, cachedAt, report, reader, changes, disturbed>>

-----------------------------------------------------------------------------
(* The switches' own reports. *)

SwitchReports(s) ==
    /\ plant.position[s] # "DELETED"
    /\ telemetry[s] = <<>>
    /\ telemetry' = [telemetry EXCEPT ![s] =
           <<[position |-> plant.position[s], blocked |-> s \in plant.blocked]>>]
    /\ sampled' = sampled \union {s}
    /\ UNCHANGED <<local, feed, state, reader, limits>>

ReportArrives(s) ==
    /\ telemetry[s] # <<>>
    /\ state' = [state EXCEPT ![s] = Head(telemetry[s])]
    /\ telemetry' = [telemetry EXCEPT ![s] = Tail(@)]
    /\ UNCHANGED <<local, feed, sampled, reader, limits>>

(* Mutant: calculate() leaves open what is missing. *)
EventReportUnfilled == [position |-> "missing", blocked |-> FALSE]

(* An event of a switch goes the same way, past the coalescer; it has no   *)
(* status, and calculate() fills in the defaults.                          *)
EventReport == [position |-> "UNKNOWN", blocked |-> FALSE]

EventArrives(s) ==
    /\ Changes
    /\ plant.position[s] # "DELETED"
    /\ state' = [state EXCEPT ![s] = EventReport]
    /\ UNCHANGED <<local, feed, telemetry, sampled, reader, disturbed, faults>>

ReportLost(s) ==
    /\ telemetry[s] # <<>>
    /\ Fault
    /\ telemetry' = [telemetry EXCEPT ![s] = Tail(@)]
    /\ sampled' = sampled \ {s}
    /\ UNCHANGED <<local, feed, state, reader, changes, disturbed>>

(* _STATE_TTL_SEC without a report. *)
StateExpires(s) ==
    /\ state[s] # NoState
    /\ Fault
    /\ state' = [state EXCEPT ![s] = NoState]
    /\ UNCHANGED <<local, feed, telemetry, sampled, reader, changes, disturbed>>

-----------------------------------------------------------------------------
(* The answer of the state-processor. *)

Unreported(live, s) == live[s] = NoState

IsShut(live, s, otherwise) == IF Unreported(live, s) THEN otherwise ELSE live[s].position = "CLOSED"
IsFree(live, s, otherwise) == IF Unreported(live, s) THEN otherwise ELSE ~live[s].blocked

(* _apply_live_state_to_topology(): a line is OPEN when one of its         *)
(* switches is; a switch that is not in the document hinders nothing.      *)
LocalView(live) ==
    LET listed  == {s \in Switches : cache.position[s] # "DELETED"}
        open(s) == IF Unreported(live, s) THEN cache.position[s] = "OPEN" ELSE live[s].position = "OPEN"
        conducts(s) == /\ IsShut(live, s, cache.position[s] = "CLOSED")
                       /\ IsFree(live, s, s \notin cache.blocked)
    IN  [normal     |-> {e \in NormalLines(cache) : \A s \in SwitchesOf[e] \intersect listed : ~open(s)},
         conducting |-> {s \in Switches : s \in listed => conducts(s)}]

(* PlantTopologyResource.get() with control_db: the status of a line is    *)
(* that of one switch, and UNKNOWN when the database has none for it.      *)
DatabaseLines(live) ==
    {e \in DbLines : \E s \in SwitchesOf[e] \intersect DbSwitches :
        /\ s = MainSwitch[e]
        /\ IF Unreported(live, s) \/ live[s].position = "UNKNOWN" THEN s \in DbClosed
           ELSE live[s].position = "CLOSED"}

(* What only the simulator lists is added, when it answers in time; it     *)
(* lists one switch of a line.                                             *)
SimulatorSwitch(e) ==
    {s \in SwitchesOf[e] : s = MainSwitch[e] /\ plant.position[s] # "DELETED"}

SimulatorLines(live) ==
    {e \in Lines \ DbLines :
        /\ plant.status[e] # "DELETED"
        /\ SimulatorSwitch(e) = {} => plant.status[e] = "NORMAL"
        /\ \A s \in SimulatorSwitch(e) : IsShut(live, s, plant.position[s] = "CLOSED")}

DatabaseView(live, simulator) ==
    LET added == (UNION {SimulatorSwitch(e) : e \in {l \in Lines : plant.status[l] # "DELETED"}}) \ DbSwitches
    IN  [normal     |-> DatabaseLines(live) \union (IF simulator THEN SimulatorLines(live) ELSE {}),
         conducting |-> {s \in Switches :
             /\ s \in DbSwitches => IsShut(live, s, s \in DbClosed) /\ IsFree(live, s, TRUE)
             /\ simulator /\ s \in added =>
                    IsShut(live, s, plant.position[s] = "CLOSED") /\ IsFree(live, s, s \notin plant.blocked)}]

EmptyView == [normal |-> {}, conducting |-> {}]

View(live, simulator) ==
    IF ~local THEN DatabaseView(live, simulator)
    ELSE IF cache = NoCache THEN EmptyView
    ELSE LocalView(live)

-----------------------------------------------------------------------------
(* Control: TopologyReader asks in every cycle.  The answer reads the      *)
(* states and the document within milliseconds: one step.                  *)

GraphOf(view) == Graph(view.normal, view.conducting)

(* Mutant: an answer that has not aged is not asked for again. *)
FetchedWhenAged(simulator) == IF aged THEN GraphOf(View(state, simulator)) ELSE known

Fetched(simulator) == GraphOf(View(state, simulator))

Fetch(simulator) ==
    /\ IF simulator THEN UNCHANGED faults ELSE Fault
    /\ known' = Fetched(simulator)
    /\ aged' = FALSE
    /\ graph' = known'
    /\ UNCHANGED <<local, feed, report, changes, disturbed>>

FetchFails ==
    /\ Fault
    /\ graph' = IF aged THEN {} ELSE known
    /\ UNCHANGED <<local, feed, report, known, aged, changes, disturbed>>

(* _STALE_AFTER_SEC since the last answer. *)
KnownAges ==
    /\ ~aged
    /\ aged' = TRUE
    /\ UNCHANGED <<local, feed, report, known, graph, limits>>

-----------------------------------------------------------------------------
PlantStep ==
    \/ \E s \in Switches : \E position \in Positions : SwitchMoves(s, position)
    \/ \E s \in Switches : InterlockChanges(s) \/ SwitchReports(s)
    \/ \E e \in Lines : \E status \in {"NORMAL", "FAULT", "DELETED"} : LineChanges(e, status)
    \/ \E e \in Lines : FlowTold(e)
    \/ SnapshotSent

Trouble ==
    \/ MessageLost \/ MessageOvertakes \/ CacheExpires
    \/ \E s \in Switches : EventArrives(s) \/ ReportLost(s) \/ StateExpires(s)

Next ==
    \/ PlantStep
    \/ SnapshotCached \/ StateMerged
    \/ \E s \in Switches : ReportArrives(s)
    \/ \E simulator \in BOOLEAN : Fetch(simulator)
    \/ FetchFails \/ KnownAges
    \/ Trouble

Spec == Init /\ [][Next]_vars

(* The plant sends snapshots and the switches sample all the time, the     *)
(* services handle what has come, and the control loop asks in each cycle. *)
FairSpec ==
    /\ Spec
    /\ SF_vars(SnapshotSent)
    /\ WF_vars(SnapshotCached \/ StateMerged)
    /\ \A s \in Switches : WF_vars(SwitchReports(s)) /\ WF_vars(ReportArrives(s))
    /\ WF_vars(Fetch(TRUE))

-----------------------------------------------------------------------------
(* Properties *)

TypeOK ==
    /\ local \in BOOLEAN
    /\ plant \in Plants
    /\ inbox \in Seq(Messages) /\ Len(inbox) <= MaxInbox
    /\ cache \in Plants \union {NoCache}
    /\ cachedAt \in 0 .. disturbed
    /\ telemetry \in [Switches -> Seq(Reports)]
    /\ sampled \subseteq Switches
    /\ state \in [Switches -> Reports \union {NoState}]
    /\ known \subseteq Lines
    /\ aged \in BOOLEAN
    /\ graph \subseteq Lines
    /\ changes \in 0 .. MaxChanges /\ faults \in 0 .. MaxFaults /\ disturbed \in 0 .. faults

RealGraph == Graph(NormalLines(plant), Conducting(plant))

(* What can be told of a line: with control_db nothing of the status of a  *)
(* line that has a switch (a fault is not seen), nothing of a line in it   *)
(* without a switch (UNKNOWN, so never taken for one that carries power),  *)
(* and only of the switches that are listed.                               *)
IsTold(e) ==
    \/ local
    \/ e \in DbLines /\ SwitchesOf[e] # {} /\ \A s \in SwitchesOf[e] : s \in DbSwitches /\ plant.position[s] # "DELETED"
    \/ e \notin DbLines /\ SwitchesOf[e] \subseteq {MainSwitch[e]} \ DbSwitches

Carries(e) ==
    IF local \/ SimulatorSwitch(e) = {} THEN e \in RealGraph
    ELSE /\ SwitchesOf[e] \subseteq Conducting(plant)
         /\ e \in DbLines \/ plant.status[e] # "DELETED"

(* Nothing about the switch is under way, and what its key holds came by   *)
(* telemetry after its last change; or there is no key and somebody else   *)
(* knows.                                                                  *)
IsSettled(s) ==
    /\ telemetry[s] = <<>>
    /\ \/ s \in sampled /\ state[s] # NoState /\ state[s].position # "UNKNOWN"
       \/ state[s] = NoState /\ (local \/ s \notin DbSwitches)

DocumentSettled == inbox = <<>> /\ cache # NoCache /\ cachedAt = disturbed

(* When the messages and the reports of the last change have come through, *)
(* and none was lost since the snapshot, the answer shows the lines as     *)
(* they are: deletions, interlocks and two sources for one switch          *)
(* notwithstanding.                                                        *)
AnswerIsPlant ==
    (local => DocumentSettled) =>
        \A e \in Lines :
            IsTold(e) /\ (\A s \in SwitchesOf[e] : IsSettled(s)) =>
                (e \in GraphOf(View(state, TRUE)) <=> Carries(e))

(* Once the plant is left alone, the control loop comes to dispatch by the *)
(* lines as they are, whatever was lost, expired or reported by events on  *)
(* the way.                                                                *)
GraphFollowsPlant == <>[](\A e \in Lines : IsTold(e) => (e \in graph <=> Carries(e)))

-----------------------------------------------------------------------------
(* The inductive invariant *)

ReportOf(s) == [position |-> plant.position[s], blocked |-> s \in plant.blocked]

(* What a switch reported since its last change is how it is.              *)
ReportsOK ==
    \A s \in Switches :
        /\ Len(telemetry[s]) <= 1
        /\ plant.position[s] = "DELETED" => s \notin plant.blocked
        /\ s \in sampled =>
              /\ plant.position[s] # "DELETED"
              /\ telemetry[s] # <<>> => Head(telemetry[s]) = ReportOf(s)
              /\ telemetry[s] = <<>> => state[s] \in {NoState, EventReport, ReportOf(s)}

(* Without the topology messages there is no document.                     *)
RemoteOK == ~local => inbox = <<>> /\ cache = NoCache

(* A disturbance makes every snapshot stale that was sent before it.       *)
StampsOK ==
    /\ cachedAt <= disturbed
    /\ \A k \in DOMAIN inbox : inbox[k].kind = "snapshot" => inbox[k].sent <= disturbed

Applied(topology, m) == IF m.kind = "snapshot" THEN Cached(m) ELSE Merged(topology, m)

(* The document before the first message, and after each that is under way.*)
Fresh(k) == IF k = 0 THEN cache # NoCache /\ cachedAt = disturbed
            ELSE inbox[k].kind = "snapshot" /\ inbox[k].sent = disturbed

Documents(k, docs) ==
    /\ docs[k] = IF k = 0 THEN cache ELSE Cached(inbox[k])
    /\ \A i \in k + 1 .. Len(inbox) : docs[i] = Applied(docs[i - 1], inbox[i])

(* From a snapshot on that nothing disturbed, the messages make of the     *)
(* document what the plant is.                                             *)
FeedOK ==
    \A k \in 0 .. Len(inbox) :
        Fresh(k) => \E docs \in [k .. Len(inbox) -> Plants] :
                        Documents(k, docs) /\ docs[Len(inbox)] = plant

FeedInv == TypeOK /\ ReportsOK /\ RemoteOK /\ StampsOK /\ FeedOK
=============================================================================
