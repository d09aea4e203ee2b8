--------------------------- MODULE DispatchProofs ---------------------------
(***************************************************************************)
(* The diesel rule lets an engine run for its minimum time, for any        *)
(* topology, powers, policies and number of changes and restarts.          *)
(***************************************************************************)
EXTENDS Dispatch, TLAPS

-----------------------------------------------------------------------------
(* Powers and orders *)

LEMMA ConstantFacts ==
    /\ Demand \in Nat /\ EssLimit \in Nat /\ MaxSoc \in Nat /\ SocLow \in Nat /\ StartPower \in Nat
    /\ EngineRating \in Nat /\ MinRun \in Nat /\ FlipHold \in Nat /\ MaxChanges \in Nat
BY DispatchAssumption

LEMMA LeastNat == ASSUME NEW a \in Nat, NEW b \in Nat PROVE Least(a, b) \in Nat /\ Least(a, b) <= b /\ Least(a, b) <= a
BY DEF Least

LEMMA PowerFacts ==
    ASSUME TypeOK
    PROVE  EssPower \in Int /\ DieselPower \in Nat /\ sun \in Nat
<1>1. essKw \in Nat /\ engineKw \in Nat /\ sun \in Nat
  BY DispatchAssumption DEF TypeOK, Powers
<1>2. EssPower \in Int
  BY <1>1 DEF EssPower
<1>3. DieselPower \in Nat
  BY <1>1 DEF DieselPower
<1> QED BY <1>1, <1>2, <1>3

LEMMA FlowFacts ==
    ASSUME TypeOK, NEW graph
    PROVE  /\ Flow(graph).supply \in Nat
           /\ ExternalNet(Flow(graph)) \in Int
           /\ ZoneDeficit(Flow(graph)) \in Nat
<1>1. \A a \in Int : Positive(a) \in Nat
  BY DEF Positive
<1>2. \A feeds : Supply(feeds) \in Nat
  <2> TAKE feeds
  <2>1. /\ (IF "solar" \in feeds THEN sun ELSE 0) \in Nat
        /\ (IF "ess" \in feeds THEN Positive(EssPower) ELSE 0) \in Nat
        /\ (IF "diesel" \in feeds THEN DieselPower ELSE 0) \in Nat
    BY <1>1, PowerFacts
  <2> QED BY <2>1 DEF Supply
<1>3. PICK flow : flow = Flow(graph)
  OBVIOUS
<1>4. flow.supply \in Nat
  BY <1>2, <1>3 DEF Flow
<1>5. Positive(flow.supply - Positive(EssPower)) \in Nat
  BY <1>1, <1>4, PowerFacts
<1>6. ExternalNet(flow) \in Int
  BY <1>4, <1>5, ConstantFacts DEF ExternalNet
<1>7. ZoneDeficit(flow) \in Nat
  BY <1>1, <1>4, PowerFacts, ConstantFacts DEF ZoneDeficit
<1> QED BY <1>3, <1>4, <1>6, <1>7

LEMMA EssRuleFacts == ASSUME TypeOK, NEW graph PROVE EssRule(Flow(graph)) \in EssOrders
<1>1. \A mode \in Modes, kw \in Nat : EssOrder(mode, kw) \in EssOrders
  <2> TAKE mode \in Modes, kw \in Nat
  <2>1. Least(kw, EssLimit) \in Powers
    BY ConstantFacts, LeastNat DEF Powers
  <2> QED BY <2>1 DEF EssOrder, EssOrders
<1>2. None \in EssOrders
  BY DEF EssOrders
<1>3. "standby" \in Modes /\ "charge" \in Modes /\ "discharge" \in Modes
  BY DEF Modes
<1>4. ASSUME NEW net \in Int, net < 0 PROVE EssForDeficit(net) \in EssOrders
  <2>1. -net \in Nat
    BY <1>4
  <2> QED BY <1>1, <1>2, <1>3, <2>1 DEF EssForDeficit
<1>5. ASSUME NEW net \in Nat PROVE EssForSurplus(net) \in EssOrders
  BY <1>1, <1>2, <1>3, <1>5 DEF EssForSurplus
<1>6. ExternalNet(Flow(graph)) \in Int
  BY FlowFacts
<1> QED BY <1>2, <1>4, <1>5, <1>6 DEF EssRule

LEMMA DieselRuleFacts == ASSUME TypeOK, NEW graph PROVE DieselRule(Flow(graph)) \in DieselOrders
<1>1. /\ None \in DieselOrders /\ [command |-> "start"] \in DieselOrders
      /\ Stop("fuel") \in DieselOrders /\ Stop("surplus") \in DieselOrders
  BY DEF DieselOrders, Stop
<1>2. LoadControl(ZoneDeficit(Flow(graph))) \in DieselOrders
  BY FlowFacts DEF LoadControl, DieselOrders, Powers
<1>3. seen.diesel \in Engines
  BY DEF TypeOK
<1> QED BY <1>1, <1>2, <1>3 DEF DieselRule, Engines

(* Only an engine that is seen running for its minimum time is stopped for *)
(* a surplus.                                                              *)
LEMMA SurplusFacts ==
    ASSUME TypeOK, NEW flow, DieselRule(flow) = Stop("surplus")
    PROVE  seen.diesel = "running" /\ RunKey >= MinRun
<1>1. /\ Stop("surplus") # None /\ Stop("surplus") # [command |-> "start"] /\ Stop("surplus") # Stop("fuel")
      /\ \A kw : Stop("surplus") # LoadControl(kw)
  BY DEF Stop, None, LoadControl
<1>2. seen.diesel \in Engines
  BY DEF TypeOK
<1> QED BY <1>1, <1>2 DEF DieselRule, Engines

-----------------------------------------------------------------------------
(* The steps *)

LEMMA OrderParts ==
    ASSUME order \in [Devices -> Orders], OrdersOK
    PROVE  /\ None \in EssOrders /\ None \in DieselOrders
           /\ EssOrders \subseteq Orders /\ DieselOrders \subseteq Orders
           /\ \A d \in Devices : d = "ess" \/ d = "diesel"
           /\ order["ess"] # None => order["ess"].mode \in Modes /\ order["ess"].kw \in Powers
           /\ order["diesel"].command = "load_control" => order["diesel"].kw \in Powers
<1>1. None \in EssOrders /\ None \in DieselOrders
  BY DEF EssOrders, DieselOrders
<1>2. EssOrders \subseteq Orders
  BY DEF EssOrders, Orders, None
<1>3. DieselOrders \subseteq Orders
  <2>1. None \in Orders /\ [command : {"start"}] \subseteq Orders /\ [command : {"stop"}, why : {"fuel", "surplus"}] \subseteq Orders
        /\ [command : {"load_control"}, kw : Powers] \subseteq Orders
    BY DEF Orders, None
  <2> QED BY <2>1 DEF DieselOrders
<1>4. order["ess"] # None => order["ess"].mode \in Modes /\ order["ess"].kw \in Powers
  BY DEF OrdersOK, EssOrders
<1>5. order["diesel"].command = "load_control" => order["diesel"].kw \in Powers
  BY DEF OrdersOK, DieselOrders, None
<1> QED BY <1>1, <1>2, <1>3, <1>4, <1>5 DEF Devices

(* Answered, given up or forgotten: the order is gone. *)
LEMMA AnsweredFacts ==
    ASSUME order \in [Devices -> Orders], OrdersOK, NEW d \in Devices, order' = [order EXCEPT ![d] = None]
    PROVE  order' \in [Devices -> Orders] /\ OrdersOK'
<1>1. order' \in [Devices -> Orders]
  BY OrderParts
<1>2. order'["ess"] \in {None, order["ess"]} /\ order'["diesel"] \in {None, order["diesel"]}
  BY DEF Devices
<1> QED BY <1>1, <1>2, OrderParts DEF OrdersOK

LEMMA DecideKeeps ==
    ASSUME DispatchInv, NEW graph, Decide(graph), known' \subseteq Lines, changes' \in 0 .. MaxChanges
    PROVE  DispatchInv'
<1> DEFINE wanted == [ess |-> EssRule(Flow(graph)), diesel |-> DieselRule(Flow(graph))]
<1>1. /\ order' = [d \in Devices |-> IF ShouldSend(d, wanted[d]) THEN wanted[d] ELSE order[d]]
      /\ last' = IF ShouldSend("ess", wanted["ess"]) THEN [mode |-> wanted["ess"].mode, age |-> 0] ELSE last
      /\ runKey' = RunKey /\ offSeen' = (offSeen \/ seen.diesel = "off")
      /\ UNCHANGED <<sun, fuel, comms, conducting, soc, ess, essKw, engine, engineKw, ran, seen>>
  BY DEF Decide, plant, battery, genset
<1>2. wanted["ess"] \in EssOrders /\ wanted["diesel"] \in DieselOrders
  BY EssRuleFacts, DieselRuleFacts DEF DispatchInv
<1>3. order'["ess"] \in EssOrders /\ order'["diesel"] \in DieselOrders
  <2> HIDE DEF wanted
  <2> QED BY <1>1, <1>2 DEF DispatchInv, OrdersOK, Devices
<1>4. order' \in [Devices -> Orders]
  <2> HIDE DEF wanted
  <2>1. \A d \in Devices : order'[d] \in Orders
    BY <1>3, OrderParts DEF DispatchInv, TypeOK
  <2>2. order' = [d \in Devices |-> order'[d]]
    BY <1>1
  <2> QED BY <2>1, <2>2
<1>5. last' \in [mode : Modes \union {"none"}, age : 0 .. FlipHold]
  <2>1. CASE ShouldSend("ess", wanted["ess"])
    <3>1. wanted["ess"] # None
      BY <2>1 DEF ShouldSend
    <3>2. wanted["ess"].mode \in Modes
      <4> HIDE DEF wanted
      <4> QED BY <1>2, <3>1 DEF EssOrders
    <3> HIDE DEF wanted
    <3> QED BY <1>1, <2>1, <3>2, ConstantFacts
  <2>2. CASE ~ShouldSend("ess", wanted["ess"])
    <3> HIDE DEF wanted
    <3> QED BY <1>1, <2>2 DEF DispatchInv, TypeOK
  <2> QED BY <2>1, <2>2
<1>6. runKey' \in (0 .. MinRun) \union {Never} /\ offSeen' \in BOOLEAN
  <2>1. seen.diesel \in Engines /\ runKey \in (0 .. MinRun) \union {Never} /\ offSeen \in BOOLEAN
    BY DEF DispatchInv, TypeOK
  <2> QED BY <1>1, <2>1, ConstantFacts DEF RunKey, Engines
<1>7. TypeOK'
  BY <1>1, <1>4, <1>5, <1>6 DEF DispatchInv, TypeOK
<1>8. RunIsCounted'
  <2>1. seen.diesel \in Engines /\ ran \in Nat
    BY ConstantFacts DEF DispatchInv, TypeOK
  <2>2. CASE seen.diesel = "off"
    <3>1. runKey' = Never
      BY <1>1, <2>2 DEF RunKey
    <3> QED BY <1>1, <2>2, <3>1 DEF RunIsCounted
  <2>3. CASE seen.diesel = "running"
    <3>1. runKey' = IF runKey = Never THEN 0 ELSE runKey
      BY <1>1, <2>3 DEF RunKey
    <3>2. offSeen => engine = "running" /\ (runKey # Never => runKey <= ran)
      BY <2>3 DEF DispatchInv, RunIsCounted
    <3>3. offSeen' <=> offSeen
      BY <1>1, <2>3
    <3>4. ASSUME offSeen' PROVE engine' = "running" /\ runKey' <= ran'
      <4>1. runKey = Never => runKey' <= ran
        BY <2>1, <3>1
      <4>2. runKey # Never => runKey' <= ran
        BY <3>1, <3>2, <3>3, <3>4
      <4> QED BY <1>1, <3>2, <3>3, <3>4, <4>1, <4>2
    <3> QED BY <3>4 DEF RunIsCounted
  <2>4. CASE seen.diesel = "fault"
    <3>1. runKey' = runKey
      BY <1>1, <2>4 DEF RunKey
    <3> QED BY <1>1, <2>4, <3>1 DEF DispatchInv, RunIsCounted
  <2> QED BY <2>1, <2>2, <2>3, <2>4 DEF Engines
<1> QED BY <1>3, <1>7, <1>8 DEF DispatchInv, OrdersOK

LEMMA CycleKeeps == ASSUME DispatchInv, Cycle \/ CycleWithoutTopology PROVE DispatchInv'
<1>1. CASE Cycle
  <2>1. Grid \subseteq Lines
    BY DEF Grid, Graph
  <2>2. known' = Grid /\ Decide(Grid) /\ changes' = changes
    BY <1>1 DEF Cycle
  <2> QED BY <2>1, <2>2, DecideKeeps DEF DispatchInv, TypeOK
<1>2. CASE CycleWithoutTopology
  <2>1. known' = known /\ (Decide(known) \/ Decide({})) /\ changes < MaxChanges /\ changes' = changes + 1
    BY <1>2 DEF CycleWithoutTopology, Changes
  <2>2. known' \subseteq Lines /\ changes' \in 0 .. MaxChanges
    BY <2>1, ConstantFacts DEF DispatchInv, TypeOK
  <2> QED BY <2>1, <2>2, DecideKeeps
<1> QED BY <1>1, <1>2

(* What the engine does when it starts or stops. *)
LEMMA EngineFacts ==
    ASSUME DispatchInv, UNCHANGED <<seen, runKey>>,
           \/ engine = "off" /\ EngineStarts
           \/ engine = "running" /\ EngineStops("off")
           \/ engine = "running" /\ EngineStops("fault")
           \/ engine = "fault" /\ EngineStops("off")
    PROVE  /\ engine' \in Engines /\ engineKw' \in Powers /\ ran' \in 0 .. MinRun /\ offSeen' \in BOOLEAN
           /\ RunIsCounted'
<1>1. CASE engine = "off" /\ EngineStarts
  <2>1. engine' = "running" /\ engineKw' = StartPower /\ ran' = 0 /\ offSeen' = offSeen
    BY <1>1 DEF EngineStarts
  <2>2. offSeen => runKey = Never
    BY <1>1 DEF DispatchInv, RunIsCounted
  <2> QED BY <2>1, <2>2, ConstantFacts DEF DispatchInv, TypeOK, RunIsCounted, Engines, Powers
<1>2. ASSUME NEW mode \in {"off", "fault"}, EngineStops(mode)
      PROVE  /\ engine' \in Engines /\ engineKw' \in Powers /\ ran' \in 0 .. MinRun /\ offSeen' \in BOOLEAN
             /\ RunIsCounted'
  <2>1. engine' = mode /\ engineKw' = 0 /\ offSeen' = FALSE /\ ran' = ran
    BY <1>2 DEF EngineStops
  <2> QED BY <2>1 DEF DispatchInv, TypeOK, RunIsCounted, Engines, Powers
<1> QED BY <1>1, <1>2

LEMMA EngineObeysKeeps == ASSUME DispatchInv, EngineObeys PROVE DispatchInv'
<1>1. /\ UNCHANGED <<sun, fuel, comms, conducting, soc, ess, essKw, seen, runKey, known, last, changes>>
      /\ order' = [order EXCEPT !["diesel"] = None]
  BY DEF EngineObeys, Answered, plant, battery, redis
<1>2. order' \in [Devices -> Orders] /\ OrdersOK'
  BY <1>1, AnsweredFacts DEF DispatchInv, TypeOK, Devices
<1>3. /\ engine' \in Engines /\ engineKw' \in Powers /\ ran' \in 0 .. MinRun /\ offSeen' \in BOOLEAN
      /\ RunIsCounted'
  <2>1. CASE (engine = "off" /\ EngineStarts) \/ (engine = "running" /\ EngineStops("off"))
    BY <1>1, <2>1, EngineFacts
  <2>2. CASE /\ order["diesel"].command = "load_control"
             /\ engine = "running"
             /\ engineKw' = Least(order["diesel"].kw, EngineRating)
             /\ UNCHANGED <<engine, ran, offSeen>>
    <3>1. engineKw' \in Powers
      BY <2>2, OrderParts, ConstantFacts, LeastNat DEF DispatchInv, TypeOK, Powers
    <3> QED BY <1>1, <2>2, <3>1 DEF DispatchInv, TypeOK, RunIsCounted
  <2> QED BY <2>1, <2>2 DEF EngineObeys
<1>4. TypeOK'
  BY <1>1, <1>2, <1>3 DEF DispatchInv, TypeOK
<1> QED BY <1>2, <1>3, <1>4 DEF DispatchInv

LEMMA EngineMovedKeeps == ASSUME DispatchInv, EngineMoved PROVE DispatchInv'
<1>1. /\ UNCHANGED <<sun, fuel, comms, conducting, soc, ess, essKw, seen, runKey, known, order, last>>
      /\ changes < MaxChanges /\ changes' = changes + 1
  BY DEF EngineMoved, Changes, plant, battery, redis, control
<1>2. /\ engine' \in Engines /\ engineKw' \in Powers /\ ran' \in 0 .. MinRun /\ offSeen' \in BOOLEAN
      /\ RunIsCounted'
  BY <1>1, EngineFacts DEF EngineMoved
<1>3. TypeOK'
  BY <1>1, <1>2, ConstantFacts DEF DispatchInv, TypeOK
<1> QED BY <1>1, <1>2, <1>3 DEF DispatchInv, OrdersOK

LEMMA EssKeeps == ASSUME DispatchInv, EssObeys \/ \E mode \in Modes : EssMoved(mode) PROVE DispatchInv'
<1>1. /\ UNCHANGED <<sun, fuel, comms, conducting, soc, engine, engineKw, ran, seen, runKey, known, last, offSeen>>
      /\ changes' \in 0 .. MaxChanges
  BY ConstantFacts DEF DispatchInv, TypeOK, EssObeys, EssMoved, Changes, plant, genset, redis, control
<1>2. ess' \in Modes /\ essKw' \in Powers
  BY OrderParts, ConstantFacts DEF DispatchInv, TypeOK, EssObeys, EssMoved, Powers
<1>3. order' \in [Devices -> Orders] /\ OrdersOK'
  <2>1. CASE EssObeys
    BY <2>1, AnsweredFacts DEF EssObeys, Answered, DispatchInv, TypeOK, Devices
  <2>2. CASE \E mode \in Modes : EssMoved(mode)
    BY <2>2 DEF EssMoved, control, DispatchInv, TypeOK, OrdersOK
  <2> QED BY <2>1, <2>2
<1>4. TypeOK' /\ RunIsCounted'
  BY <1>1, <1>2, <1>3 DEF DispatchInv, TypeOK, RunIsCounted
<1> QED BY <1>3, <1>4 DEF DispatchInv

LEMMA OrderKeeps ==
    ASSUME DispatchInv, EngineIgnores \/ Restart \/ \E d \in Devices : GivenUp(d)
    PROVE  DispatchInv'
<1>1. /\ UNCHANGED <<sun, fuel, comms, conducting, soc, ess, essKw, engine, engineKw, ran, seen, runKey, offSeen>>
      /\ changes' \in 0 .. MaxChanges /\ known' \subseteq Lines
      /\ last' \in [mode : Modes \union {"none"}, age : 0 .. FlipHold]
  BY ConstantFacts DEF DispatchInv, TypeOK, EngineIgnores, Restart, GivenUp, Changes, plant, battery, genset, redis, NoMode
<1>2. order' \in [Devices -> Orders] /\ OrdersOK'
  <2>1. CASE EngineIgnores \/ \E d \in Devices : GivenUp(d)
    BY <2>1, AnsweredFacts DEF EngineIgnores, GivenUp, Answered, DispatchInv, TypeOK, Devices
  <2>2. CASE Restart
    BY <2>2, OrderParts DEF Restart, DispatchInv, TypeOK, OrdersOK, Devices
  <2> QED BY <2>1, <2>2
<1>3. TypeOK' /\ RunIsCounted'
  BY <1>1, <1>2 DEF DispatchInv, TypeOK, RunIsCounted
<1> QED BY <1>2, <1>3 DEF DispatchInv

LEMMA TickKeeps == ASSUME DispatchInv, Tick PROVE DispatchInv'
<1>1. /\ UNCHANGED <<sun, fuel, comms, conducting, ess, essKw, engine, engineKw, seen, known, order, offSeen, changes>>
      /\ soc' = IF EssPower > 0 THEN soc - 1 ELSE IF EssPower < 0 THEN soc + 1 ELSE soc
      /\ ran' = IF engine = "running" THEN Least(ran + 1, MinRun) ELSE ran
      /\ runKey' = IF runKey = Never THEN Never ELSE Least(runKey + 1, MinRun)
      /\ last' = [last EXCEPT !.age = Least(@ + 1, FlipHold)]
  BY DEF Tick, plant
<1>2. /\ soc \in 0 .. MaxSoc /\ essKw \in Nat /\ ran \in 0 .. MinRun /\ runKey \in (0 .. MinRun) \union {Never}
      /\ last \in [mode : Modes \union {"none"}, age : 0 .. FlipHold]
  BY DEF DispatchInv, TypeOK, Powers
<1>3. soc' \in 0 .. MaxSoc
  BY <1>1, <1>2, ConstantFacts DEF EssPower
<1>4. ran' \in 0 .. MinRun /\ runKey' \in (0 .. MinRun) \union {Never}
  BY <1>1, <1>2, ConstantFacts DEF Least
<1>5. last' \in [mode : Modes \union {"none"}, age : 0 .. FlipHold]
  <2>1. Least(last.age + 1, FlipHold) \in 0 .. FlipHold
    BY <1>2, ConstantFacts DEF Least
  <2> QED BY <1>1, <1>2, <2>1
<1>6. TypeOK'
  BY <1>1, <1>3, <1>4, <1>5 DEF DispatchInv, TypeOK
<1>7. RunIsCounted'
  BY <1>1, <1>2, ConstantFacts DEF DispatchInv, RunIsCounted, Least, Never
<1> QED BY <1>1, <1>6, <1>7 DEF DispatchInv, OrdersOK

LEMMA ReportKeeps == ASSUME DispatchInv, Report PROVE DispatchInv'
<1>1. /\ seen' = [ess |-> ess, diesel |-> engine]
      /\ UNCHANGED <<sun, fuel, comms, conducting, soc, ess, essKw, engine, engineKw, ran, runKey, known, order, last,
                     offSeen, changes>>
  BY DEF Report, plant, battery, genset, control
<1>2. TypeOK'
  BY <1>1 DEF DispatchInv, TypeOK
<1>3. RunIsCounted'
  BY <1>1 DEF DispatchInv, RunIsCounted
<1> QED BY <1>1, <1>2, <1>3 DEF DispatchInv, OrdersOK

LEMMA PlantKeeps ==
    ASSUME DispatchInv, SunChanges \/ CommsChange \/ FuelChanges \/ \E sw \in Switches : SwitchMoves(sw)
    PROVE  DispatchInv'
<1>1. /\ UNCHANGED <<soc, ess, essKw, engine, engineKw, ran, seen, runKey, known, order, last, offSeen>>
      /\ changes' \in 0 .. MaxChanges /\ sun' \in Suns /\ comms' \in BOOLEAN /\ fuel' \in BOOLEAN
      /\ conducting' \subseteq Switches
  <2>1. /\ UNCHANGED <<soc, ess, essKw, engine, engineKw, ran, seen, runKey, known, order, last, offSeen>>
        /\ changes < MaxChanges /\ changes' = changes + 1
    BY DEF SunChanges, CommsChange, FuelChanges, SwitchMoves, Changes, battery, genset, redis, control
  <2>2. changes' \in 0 .. MaxChanges
    BY <2>1, ConstantFacts DEF DispatchInv, TypeOK
  <2>3. sun' \in Suns /\ comms' \in BOOLEAN /\ fuel' \in BOOLEAN /\ conducting' \subseteq Switches
    <3>1. sun \in Suns /\ comms \in BOOLEAN /\ fuel \in BOOLEAN /\ conducting \subseteq Switches
      BY DEF DispatchInv, TypeOK
    <3> QED BY <3>1 DEF SunChanges, CommsChange, FuelChanges, SwitchMoves
  <2> QED BY <2>1, <2>2, <2>3
<1>2. TypeOK' /\ RunIsCounted' /\ OrdersOK'
  BY <1>1 DEF DispatchInv, TypeOK, RunIsCounted, OrdersOK
<1> QED BY <1>2 DEF DispatchInv

-----------------------------------------------------------------------------
(* The invariant and what follows from it *)

LEMMA InvInit == Init => DispatchInv
<1> SUFFICES ASSUME Init PROVE DispatchInv
  OBVIOUS
<1>1. None \in Orders /\ None \in EssOrders /\ None \in DieselOrders
  BY DEF Orders, EssOrders, DieselOrders, None
<1>2. /\ ess \in Modes /\ essKw \in Powers /\ engine \in Engines /\ engineKw \in Powers
      /\ seen \in [ess : Modes, diesel : Engines] /\ last \in [mode : Modes \union {"none"}, age : 0 .. FlipHold]
  BY ConstantFacts DEF Init, Modes, Engines, Powers, NoMode
<1>3. /\ sun \in Suns /\ soc \in 0 .. MaxSoc /\ ran \in 0 .. MinRun /\ fuel \in BOOLEAN /\ comms \in BOOLEAN
      /\ conducting \subseteq Switches /\ runKey \in 0 .. MinRun \union {Never} /\ known \subseteq Lines
      /\ offSeen \in BOOLEAN /\ changes \in 0 .. MaxChanges
  <2>1. sun \in Suns /\ soc \in 0 .. MaxSoc /\ ran \in 0 .. MinRun /\ changes \in 0 .. MaxChanges
    BY ConstantFacts DEF Init
  <2>2. /\ fuel \in BOOLEAN /\ comms \in BOOLEAN /\ offSeen \in BOOLEAN
        /\ conducting \subseteq Switches /\ known \subseteq Lines
    BY DEF Init
  <2>3. runKey \in 0 .. MinRun \union {Never}
    BY DEF Init
  <2> QED BY <2>1, <2>2, <2>3
<1>4. order \in [Devices -> Orders]
  BY <1>1 DEF Init
<1>5. TypeOK
  BY <1>2, <1>3, <1>4 DEF TypeOK
<1> QED BY <1>1, <1>5 DEF Init, DispatchInv, OrdersOK, RunIsCounted, Devices

LEMMA InvStutter == ASSUME DispatchInv, UNCHANGED vars PROVE DispatchInv'
<1>1. UNCHANGED <<sun, fuel, comms, conducting, soc, ess, essKw, engine, engineKw, ran, seen, runKey, known, order, last,
                  offSeen, changes>>
  BY DEF vars, plant, battery, genset, redis, control
<1> QED BY <1>1 DEF DispatchInv, TypeOK, OrdersOK, RunIsCounted

LEMMA InvNext == DispatchInv /\ [Next]_vars => DispatchInv'
<1> SUFFICES ASSUME DispatchInv, [Next]_vars PROVE DispatchInv'
  OBVIOUS
<1> QED BY CycleKeeps, EssKeeps, EngineObeysKeeps, OrderKeeps, ReportKeeps, TickKeeps, PlantKeeps, EngineMovedKeeps,
           InvStutter DEF Next

LEMMA InvAlways == Spec => []DispatchInv
BY InvInit, InvNext, PTL DEF Spec

(* Modes, powers, orders and the keys in Redis keep their types            *)
(* (ess.py, diesel.py).                                                    *)
THEOREM DispatchTypeCorrect == Spec => []TypeOK
<1>1. DispatchInv => TypeOK
  BY DEF DispatchInv
<1> QED BY <1>1, InvAlways, PTL

(* Only a cycle of the rules orders the engine to stop for a surplus. *)
LEMMA StopIsDecided ==
    ASSUME DispatchInv, Next, order["diesel"] = None, order'["diesel"] = Stop("surplus")
    PROVE  \E graph : Decide(graph)
<1>1. Stop("surplus") # None
  BY DEF Stop, None
<1>2. order \in [Devices -> Orders] /\ "diesel" \in Devices
  BY DEF DispatchInv, TypeOK, Devices
<1>3. order' # order
  BY <1>1
<1>4. \A d \in Devices : order' # [order EXCEPT ![d] = None]
  BY <1>1, <1>2
<1>5. order' # [d \in Devices |-> None]
  BY <1>1, <1>2
<1>6. CASE Cycle \/ CycleWithoutTopology
  BY <1>6 DEF Cycle, CycleWithoutTopology
<1>7. ~(EssObeys \/ EngineObeys \/ EngineIgnores \/ \E d \in Devices : GivenUp(d))
  BY <1>4 DEF EssObeys, EngineObeys, EngineIgnores, GivenUp, Answered, Devices
<1>8. ~(Report \/ Tick \/ SunChanges \/ CommsChange \/ FuelChanges \/ EngineMoved
        \/ (\E sw \in Switches : SwitchMoves(sw)) \/ \E mode \in Modes : EssMoved(mode))
  BY <1>3 DEF Report, Tick, SunChanges, CommsChange, FuelChanges, EngineMoved, SwitchMoves, EssMoved, control
<1>9. ~Restart
  BY <1>5 DEF Restart
<1> QED BY <1>6, <1>7, <1>8, <1>9 DEF Next

(* The rule never stops an engine for a surplus before the minimum time of *)
(* the run a cycle saw begin, whatever reports come late, orders get lost  *)
(* and restarts happen (diesel.py, _ENGINE_START_KEY).                     *)
THEOREM EnginesRunTheirMinimum == Spec => RunsItsMinimum
<1>1. ASSUME DispatchInv, [Next]_vars
      PROVE  [order["diesel"] = None /\ order'["diesel"] = Stop("surplus") /\ offSeen => ran >= MinRun]_vars
  <2> SUFFICES ASSUME Next, order["diesel"] = None, order'["diesel"] = Stop("surplus"), offSeen
               PROVE  ran >= MinRun
    BY <1>1
  <2>1. PICK graph : Decide(graph)
    BY <1>1, StopIsDecided
  <2> DEFINE wanted == [ess |-> EssRule(Flow(graph)), diesel |-> DieselRule(Flow(graph))]
  <2>2. order' = [d \in Devices |-> IF ShouldSend(d, wanted[d]) THEN wanted[d] ELSE order[d]]
    BY <2>1 DEF Decide
  <2>3. wanted["diesel"] = Stop("surplus")
    <3>1. Stop("surplus") # None
      BY DEF Stop, None
    <3> HIDE DEF wanted
    <3> QED BY <2>2, <3>1 DEF Devices
  <2>4. DieselRule(Flow(graph)) = Stop("surplus")
    BY <2>3
  <2>5. seen.diesel = "running" /\ RunKey >= MinRun
    BY <1>1, <2>4, SurplusFacts DEF DispatchInv
  <2>6. ran \in Nat /\ MinRun \in Nat /\ (runKey # Never => runKey <= ran /\ runKey \in Nat)
    BY <1>1, ConstantFacts DEF DispatchInv, TypeOK, RunIsCounted
  <2> QED BY <2>5, <2>6 DEF RunKey
<1> QED BY <1>1, InvAlways, PTL DEF Spec, RunsItsMinimum
=============================================================================
