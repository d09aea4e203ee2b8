------------------------------ MODULE Dispatch ------------------------------
(***************************************************************************)
(* The rules for batteries (ess.py) and diesel engines (diesel.py) in a    *)
(* loop with the devices they drive: one load, one battery, one engine and *)
(* one solar plant on a small topology.                                    *)
(*                                                                         *)
(* Every cycle reads the devices' states as last reported and the topology *)
(* as last fetched, evaluates the rules, and sends at most one order per   *)
(* device; a device is left alone until its last order is answered or      *)
(* given up.  Orders are carried out late or never, the modes in Redis lag *)
(* behind the devices, operators move the devices, the control service     *)
(* restarts.  Powers and states of charge are small integers; the devices  *)
(* themselves are not in the repository and are modelled by what the rules *)
(* suppose of them.                                                        *)
(***************************************************************************)
EXTENDS Topology

CONSTANTS
    Demand,         \* power of the load
    Suns,           \* what the solar plant may produce
    EssLimit,       \* the battery's power limit
    MaxSoc,         \* a full battery
    SocLow,         \* policy SOC_LOW
    SocHigh,        \* policy SOC_HIGH
    SocMargin,      \* SOC_HYSTERESIS
    DieselStartSoc, \* policy DIESEL_START_SOC
    StartPower,     \* what an engine produces when it has started
    EngineRating,   \* the most it produces
    StopNet,        \* policy DIESEL_STOP_NET_POWER
    MinRun,         \* policy DIESEL_MIN_RUN_SECONDS
    FlipHold,       \* _ESS_MODE_FLIP_HOLD_SEC
    MaxChanges      \* bound: changes of sun, lines and devices, operators' actions, restarts

ASSUME DispatchAssumption ==
    /\ {"ess", "diesel", "solar", "load"} \subseteq Nodes
    /\ {Demand, EssLimit, MaxSoc, SocLow, SocHigh, SocMargin, DieselStartSoc, StartPower,
        EngineRating, StopNet, MinRun, FlipHold, MaxChanges} \subseteq Nat
    /\ Suns \subseteq Nat
    /\ SocLow < SocHigh /\ SocHigh <= MaxSoc

Devices == {"ess", "diesel"}
Modes   == {"standby", "charge", "discharge"}
Engines == {"off", "running", "fault"}
Powers  == Nat
None    == [command |-> "none"]
Never   == -1

VARIABLES
    sun,       \* what the solar plant produces
    soc,       \* the battery: its charge, mode and set-point
    ess,
    essKw,
    engine,    \* the engine: its state, set-point, and for how long it runs or ran
    engineKw,
    ran,
    fuel,      \* above DIESEL_FUEL_CRITICAL
    comms,     \* the battery's comms_health is ok and it has no fault
    conducting,\* the switches that conduct
    seen,      \* Redis: the modes the devices last reported
    runKey,    \* Redis: the age of ems:diesel:start, or Never
    known,     \* control: the topology last fetched
    order,     \* control: per device, the order not yet answered
    last,      \* control: the mode last sent to the battery and its age
    offSeen,   \* history: a cycle found the engine off since it last stopped
    changes    \* changes so far

plant   == <<sun, fuel, comms, conducting>>
battery == <<soc, ess, essKw>>
genset  == <<engine, engineKw, ran>>
redis   == <<seen, runKey>>
control == <<known, order, last>>
vars    == <<plant, battery, genset, redis, control, offSeen, changes>>

Normal    == Lines
Grid      == Graph(Normal, conducting)
NoMode    == [mode |-> "none", age |-> 0]
Least(a, b) == IF a < b THEN a ELSE b
Positive(a) == IF a > 0 THEN a ELSE 0

Init ==
    /\ sun \in Suns
    /\ soc \in 0 .. MaxSoc
    /\ ess = "standby"
    /\ essKw = 0
    /\ engine = "off"
    /\ engineKw = 0
    /\ ran = 0
    /\ fuel = TRUE
    /\ comms = TRUE
    /\ conducting = Switches
    /\ seen = [ess |-> "standby", diesel |-> "off"]
    /\ runKey = Never
    /\ known = {}
    /\ order = [d \in Devices |-> None]
    /\ last = NoMode
    /\ offSeen = FALSE
    /\ changes = 0

(* The powers the devices report. *)
EssPower    == IF ess = "discharge" /\ soc > 0 THEN essKw
               ELSE IF ess = "charge" /\ soc < MaxSoc THEN -essKw
               ELSE 0
DieselPower == IF engine = "running" THEN engineKw ELSE 0

-----------------------------------------------------------------------------
(* compute() and _compute_component_deficits(): only what feeds the load   *)
(* directly is its supply, and only what it produces.                      *)

Supply(feeds) == (IF "solar" \in feeds THEN sun ELSE 0)
               + (IF "ess" \in feeds THEN Positive(EssPower) ELSE 0)
               + (IF "diesel" \in feeds THEN DieselPower ELSE 0)

Flow(graph) ==
    [feeds        |-> DirectSupply("load", graph),
     supply       |-> Supply(DirectSupply("load", graph)),
     zone         |-> Reachable("load", graph),
     dispatchable |-> soc > SocLow /\ comms /\ IsConnectedToAnyLoad("ess", graph)]

Deficit(flow) == Positive(Demand - flow.supply)

-----------------------------------------------------------------------------
(* The rules: the order each asks for, or None. *)

(* _ess_zone_net(): what the load lacks or leaves without this battery. *)
ExternalNet(flow) ==
    (IF "ess" \in flow.feeds THEN Positive(flow.supply - Positive(EssPower)) ELSE flow.supply) - Demand

EssOrder(mode, kw) == [command |-> "ess_mode", mode |-> mode, kw |-> Least(kw, EssLimit)]

EssForDeficit(net) ==
    IF seen.ess = "discharge"
    THEN IF soc <= SocLow THEN EssOrder("standby", 0) ELSE None
    ELSE IF soc > SocLow + SocMargin THEN EssOrder("discharge", -net) ELSE None

EssForSurplus(net) ==
    IF seen.ess = "charge"
    THEN IF soc >= SocHigh THEN EssOrder("standby", 0) ELSE None
    ELSE IF soc < SocHigh - SocMargin THEN EssOrder("charge", net) ELSE None

EssRule(flow) ==
    IF ~flow.dispatchable \/ ExternalNet(flow) = 0 THEN None
    ELSE IF ExternalNet(flow) < 0 THEN EssForDeficit(ExternalNet(flow))
    ELSE EssForSurplus(ExternalNet(flow))

(* Mutant: the engine's own power counts as the supply of others. *)
ResidualDeficit(flow) == IF "diesel" \in flow.zone THEN Deficit(flow) ELSE 0

(* What the load lacks without the engine, and what it has with it. *)
ZoneDeficit(flow) == IF "diesel" \in flow.zone
                     THEN Positive(Demand - (flow.supply - DieselPower)) ELSE 0
ZoneNet(flow)     == IF "diesel" \in flow.feeds THEN flow.supply - Demand ELSE 0

EssCanDischarge(flow) == /\ "diesel" \in flow.zone
                         /\ Deficit(flow) > 0
                         /\ flow.dispatchable
                         /\ "ess" \in flow.feeds
                         /\ soc > DieselStartSoc

(* Mutant: the key of the last run stays. *)
RunKeyKept == IF seen.diesel = "running" /\ runKey = Never THEN 0 ELSE runKey

(* Mutant: the key is set again in every cycle. *)
RunKeyRenewed == IF seen.diesel = "running" THEN 0 ELSE Never

(* The start of the run is kept in Redis while the engine is seen running. *)
RunKey == CASE seen.diesel = "running" -> IF runKey = Never THEN 0 ELSE runKey
            [] seen.diesel = "off"     -> Never
            [] seen.diesel = "fault"   -> runKey

Stop(why)       == [command |-> "stop", why |-> why]
LoadControl(kw) == [command |-> "load_control", kw |-> kw]

DieselRule(flow) ==
    CASE seen.diesel = "fault" -> None
      [] seen.diesel = "off" ->
             IF ZoneDeficit(flow) > 0 /\ ~EssCanDischarge(flow) THEN [command |-> "start"] ELSE None
      [] seen.diesel = "running" /\ ~fuel -> Stop("fuel")
      [] seen.diesel = "running" /\ fuel ->
             IF ZoneDeficit(flow) > 0 THEN LoadControl(ZoneDeficit(flow))
             ELSE IF ZoneNet(flow) > StopNet /\ RunKey >= MinRun THEN Stop("surplus")
             ELSE None

(* _should_send(): no order while one is unanswered, nor a battery mode    *)
(* that reverses the one sent a moment ago.                                *)
IsHeld(cmd) == /\ cmd.command = "ess_mode"
               /\ last.mode \notin {"none", cmd.mode}
               /\ last.age < FlipHold

ShouldSend(d, cmd) == cmd # None /\ order[d] = None /\ ~IsHeld(cmd)

-----------------------------------------------------------------------------
Changes == /\ changes < MaxChanges
           /\ changes' = changes + 1

(* One cycle of the control loop with the topology it got. *)
Decide(graph) ==
    /\ \E flow \in {Flow(graph)} : \E wanted \in {[ess |-> EssRule(flow), diesel |-> DieselRule(flow)]} :
          /\ order' = [d \in Devices |-> IF ShouldSend(d, wanted[d]) THEN wanted[d] ELSE order[d]]
          /\ last' = IF ShouldSend("ess", wanted["ess"]) THEN [mode |-> wanted["ess"].mode, age |-> 0]
                     ELSE last
    /\ runKey' = RunKey
    /\ offSeen' = (offSeen \/ seen.diesel = "off")
    /\ UNCHANGED <<plant, battery, genset, seen>>

Cycle ==
    /\ \E graph \in {Grid} :
          /\ known' = graph
          /\ Decide(graph)
    /\ UNCHANGED changes

(* The topology service does not answer: the last topology it gave, or     *)
(* none when that is thirty seconds old.                                   *)
CycleWithoutTopology ==
    /\ \/ /\ Decide(known)
          /\ UNCHANGED known
       \/ /\ Decide({})
          /\ UNCHANGED known
    /\ Changes

-----------------------------------------------------------------------------
(* The devices carry out an order, which is answered with that. *)

Answered(d) == order' = [order EXCEPT ![d] = None]

EssObeys ==
    /\ order["ess"] # None
    /\ ess' = order["ess"].mode
    /\ essKw' = order["ess"].kw
    /\ Answered("ess")
    /\ UNCHANGED <<plant, soc, genset, redis, known, last, offSeen, changes>>

EngineStarts == /\ engine' = "running"
                /\ engineKw' = StartPower
                /\ ran' = 0
                /\ UNCHANGED offSeen

EngineStops(state) == /\ engine' = state
                      /\ engineKw' = 0
                      /\ offSeen' = FALSE
                      /\ UNCHANGED ran

EngineObeys ==
    /\ order["diesel"] # None
    /\ \/ /\ order["diesel"].command = "start"
          /\ engine = "off"
          /\ EngineStarts
       \/ /\ order["diesel"].command = "stop"
          /\ engine = "running"
          /\ EngineStops("off")
       \/ /\ order["diesel"].command = "load_control"
          /\ engine = "running"
          /\ engineKw' = Least(order["diesel"].kw, EngineRating)
          /\ UNCHANGED <<engine, ran, offSeen>>
    /\ Answered("diesel")
    /\ UNCHANGED <<plant, battery, redis, known, last, changes>>

(* The engine is no longer in a state in which the order means something. *)
EngineIgnores ==
    /\ order["diesel"] # None
    /\ order["diesel"].command = "start" <=> engine # "off"
    /\ Answered("diesel")
    /\ UNCHANGED <<plant, battery, genset, redis, known, last, offSeen, changes>>

(* No delivery succeeded; the commander has given the order up. *)
GivenUp(d) ==
    /\ order[d] # None
    /\ Answered(d)
    /\ Changes
    /\ UNCHANGED <<plant, battery, genset, redis, known, last, offSeen>>

Report ==
    /\ seen' = [ess |-> ess, diesel |-> engine]
    /\ seen # seen'
    /\ UNCHANGED <<plant, battery, genset, runKey, control, offSeen, changes>>

Tick ==
    /\ soc' = IF EssPower > 0 THEN soc - 1 ELSE IF EssPower < 0 THEN soc + 1 ELSE soc
    /\ ran' = IF engine = "running" THEN Least(ran + 1, MinRun) ELSE ran
    /\ runKey' = IF runKey = Never THEN Never ELSE Least(runKey + 1, MinRun)
    /\ last' = [last EXCEPT !.age = Least(@ + 1, FlipHold)]
    /\ UNCHANGED <<plant, ess, essKw, engine, engineKw, seen, known, order, offSeen, changes>>

-----------------------------------------------------------------------------
(* What happens to the plant, a bounded number of times. *)

SunChanges ==
    /\ sun' \in Suns \ {sun}
    /\ Changes
    /\ UNCHANGED <<fuel, comms, conducting, battery, genset, redis, control, offSeen>>

SwitchMoves(sw) ==
    /\ conducting' = IF sw \in conducting THEN conducting \ {sw} ELSE conducting \union {sw}
    /\ Changes
    /\ UNCHANGED <<sun, fuel, comms, battery, genset, redis, control, offSeen>>

CommsChange ==
    /\ comms' = ~comms
    /\ Changes
    /\ UNCHANGED <<sun, fuel, conducting, battery, genset, redis, control, offSeen>>

FuelChanges ==
    /\ fuel' = ~fuel
    /\ Changes
    /\ UNCHANGED <<sun, comms, conducting, battery, genset, redis, control, offSeen>>

(* An operator's order, an engine that fails, one that is repaired. *)
EssMoved(mode) ==
    /\ mode # ess
    /\ ess' = mode
    /\ essKw' = IF mode = "standby" THEN 0 ELSE EssLimit
    /\ Changes
    /\ UNCHANGED <<plant, soc, genset, redis, control, offSeen>>

EngineMoved ==
    /\ \/ engine = "off" /\ EngineStarts
       \/ engine = "running" /\ EngineStops("off")
       \/ engine = "running" /\ EngineStops("fault")
       \/ engine = "fault" /\ EngineStops("off")
    /\ Changes
    /\ UNCHANGED <<plant, battery, redis, control>>

(* The control service restarts: what it had sent is answered to nobody,   *)
(* what is in Redis stays.                                                 *)
Restart ==
    /\ known' = {}
    /\ order' = [d \in Devices |-> None]
    /\ last' = NoMode
    /\ Changes
    /\ UNCHANGED <<plant, battery, genset, redis, offSeen>>

Next ==
    \/ Cycle
    \/ CycleWithoutTopology
    \/ EssObeys
    \/ EngineObeys
    \/ EngineIgnores
    \/ \E d \in Devices : GivenUp(d)
    \/ Report
    \/ Tick
    \/ SunChanges
    \/ \E sw \in Switches : SwitchMoves(sw)
    \/ CommsChange
    \/ FuelChanges
    \/ \E mode \in Modes : EssMoved(mode)
    \/ EngineMoved
    \/ Restart

Spec == Init /\ [][Next]_vars

(* The loop runs on, time passes, devices report, and an order is answered *)
(* in the end, when it was not given up.                                   *)
FairSpec == /\ Spec
            /\ WF_vars(Cycle) /\ WF_vars(Tick) /\ WF_vars(Report)
            /\ WF_vars(EssObeys) /\ WF_vars(EngineObeys \/ EngineIgnores)

-----------------------------------------------------------------------------
Orders == [command : {"none", "start"}]
          \union [command : {"ess_mode"}, mode : Modes, kw : Powers]
          \union [command : {"stop"}, why : {"fuel", "surplus"}]
          \union [command : {"load_control"}, kw : Powers]

TypeOK ==
    /\ sun \in Suns
    /\ soc \in 0 .. MaxSoc
    /\ ess \in Modes
    /\ essKw \in Powers
    /\ engine \in Engines
    /\ engineKw \in Powers
    /\ ran \in 0 .. MinRun
    /\ fuel \in BOOLEAN
    /\ comms \in BOOLEAN
    /\ conducting \subseteq Switches
    /\ seen \in [ess : Modes, diesel : Engines]
    /\ runKey \in 0 .. MinRun \union {Never}
    /\ known \subseteq Lines
    /\ order \in [Devices -> Orders]
    /\ last \in [mode : Modes \union {"none"}, age : 0 .. FlipHold]
    /\ offSeen \in BOOLEAN
    /\ changes \in 0 .. MaxChanges

(* The rule never stops an engine, but for fuel, before it has run for the *)
(* minimum time, across restarts of the control service: diesel.py keeps   *)
(* the start of the run in Redis.  An engine that stopped and started      *)
(* again without a cycle having found it off is excepted: its key is the   *)
(* one of the earlier run.                                                 *)
RunsItsMinimum ==
    [][order["diesel"] = None /\ order'["diesel"] = Stop("surplus") /\ offSeen => ran >= MinRun]_vars

EngineUsable(flow) == fuel /\ engine # "fault" /\ "diesel" \in flow.feeds
Flows              == {Flow(graph) : graph \in {Grid}}
Supplied(flow)     == Deficit(flow) = 0 \/ ~EngineUsable(flow)

(* In the end the load is supplied, unless the engine cannot run or does   *)
(* not feed it, or a battery above DIESEL_START_SOC keeps the engine off:  *)
(* the rule asks for no more of it, though the battery may be at its       *)
(* limit, or in standby with a charge too small to start discharging.      *)
DeficitAnswered ==
    <>[](\E flow \in Flows : Supplied(flow) \/ EssCanDischarge(flow))

(* An engine does not run on beside a sun that suffices: however often its *)
(* start is seen anew, the minimum time passes and it is stopped.          *)
SurplusStopsEngine ==
    []<>(engine # "running" \/ sun <= Demand + StopNet \/ ~{"diesel", "solar"} \subseteq DirectSupply("load", Grid))

-----------------------------------------------------------------------------
(* The inductive invariant *)

EssOrders    == {None} \union [command : {"ess_mode"}, mode : Modes, kw : Powers]
DieselOrders == {None} \union [command : {"start"}] \union [command : {"stop"}, why : {"fuel", "surplus"}]
                \union [command : {"load_control"}, kw : Powers]

OrdersOK == order["ess"] \in EssOrders /\ order["diesel"] \in DieselOrders

(* Since a cycle found the engine off, what is reported running is, and    *)
(* the key in Redis is no older than the run.                              *)
RunIsCounted ==
    offSeen => /\ seen.diesel = "running" => engine = "running"
               /\ runKey # Never => engine = "running" /\ runKey <= ran

DispatchInv == TypeOK /\ OrdersOK /\ RunIsCounted
=============================================================================
