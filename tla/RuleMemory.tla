----------------------------- MODULE RuleMemory -----------------------------
(***************************************************************************)
(* What the control rules remember from one cycle to the next: the alerts  *)
(* raised (safety.py keeps a key for each in Redis, the isolation rule an  *)
(* entry in memory), the count of cycles with a deep deficit, the loads    *)
(* whose shedding was recommended (load.py, in memory), the curtailment of *)
(* the solar plant (solar.py, in Redis).                                   *)
(*                                                                         *)
(* A cycle first evaluates the rules, which note all of that, then sends   *)
(* the commands, then publishes the events.  An exception on the way, from *)
(* Redis, the database or MQTT, ends the cycle there and drops the rest;   *)
(* what was noted stays noted.                                             *)
(***************************************************************************)
EXTENDS Integers, FiniteSets

CONSTANTS
    Alerts,         \* the alerts, one per device and event type
    InMemory,       \* those of the isolation rule
    LastingDeficit, \* the alert for a deficit that lasts, EVT-N-003
    Sheddable,      \* loads that may be shed
    Threshold,      \* _DEFICIT_THRESHOLD
    Hold,           \* cycles in LOAD_SHED_HOLD_SECONDS
    MaxWorldChanges, \* bound: changes of what the devices' states show
    MaxFailures     \* bound: exceptions, restarts, orders given up

ASSUME RuleMemoryAssumption ==
    /\ InMemory \subseteq Alerts
    /\ LastingDeficit \in Alerts \ InMemory
    /\ Alerts \intersect Sheddable = {}
    /\ {Threshold, Hold, MaxWorldChanges, MaxFailures} \subseteq Nat
    /\ Threshold > 0 /\ Hold > 0

VARIABLES
    bad,       \* alerts whose condition holds
    unjudged,  \* alerts whose rule does not look at the condition now
    surplus,   \* net_power > 0
    low,       \* loads to be shed at the batteries' charge
    short,     \* loads whose zone lacks power, no battery or engine able to help
    canCharge, \* a dispatchable battery is below SOC_HIGH
    phase,     \* of the cycle
    todo,      \* alerts the cycle has still to judge
    command,   \* the cycle's command for the solar plant
    events,    \* the cycle's events not yet published
    keys,      \* the alerts noted as raised: ems:alerted, _isolated_last_emitted
    count,     \* ems:safety:deficit_count
    shedAt,    \* _shed_recommended_at: per load, its age in cycles, or NotShed
    curtailed, \* ems:curtailed
    solarOrder, \* the order the solar plant has not answered
    limited,   \* the solar plant keeps to a limit
    told,      \* history: alerts and loads whose event was published and holds
    dropped,   \* history: alerts and loads that an exception or a restart got in the way of
    forgotten, \* history: the last clear_curtailment did not get through
    worldChanges, \* bounded by MaxWorldChanges
    failures   \* bounded by MaxFailures

world == <<bad, unjudged, surplus, low, short, canCharge>>
cycle == <<phase, todo, command, events>>
notes == <<keys, count, shedAt, curtailed>>
solarPlant == <<solarOrder, limited>>
story == <<told, dropped, forgotten>>
memoryVars == <<world, cycle, notes, solarPlant, story, worldChanges, failures>>

NotShed == -1
Capped(a, b) == IF a < b THEN a ELSE b

(* EVT-N-006 and the alerts raise a subject, EVT-N-007 is the end of it. *)
Raised(s) == <<s, "raised">>
Over(s)   == <<s, "over">>

MemoryInit ==
    /\ bad = {} /\ unjudged = {} /\ low = {} /\ short = {}
    /\ surplus = TRUE /\ canCharge = TRUE
    /\ phase = "idle" /\ todo = {} /\ command = "none" /\ events = {}
    /\ keys = {} /\ count = 0 /\ shedAt = [l \in Sheddable |-> NotShed] /\ curtailed = FALSE
    /\ solarOrder = "none" /\ limited = FALSE
    /\ told = {} /\ dropped = {} /\ forgotten = FALSE
    /\ worldChanges = 0 /\ failures = 0

(* What the next cycle will read; a cycle works on what it has read. *)
WorldChanges ==
    /\ phase = "idle"
    /\ worldChanges < MaxWorldChanges
    /\ worldChanges' = worldChanges + 1
    /\ \/ /\ \E a \in Alerts : bad' = IF a \in bad THEN bad \ {a} ELSE bad \union {a}
          /\ surplus' = (surplus /\ LastingDeficit \notin bad')
          /\ UNCHANGED <<unjudged, low, short, canCharge>>
       \/ /\ \E a \in Alerts \ (InMemory \union {LastingDeficit}) :
                unjudged' = IF a \in unjudged THEN unjudged \ {a} ELSE unjudged \union {a}
          /\ UNCHANGED <<bad, surplus, low, short, canCharge>>
       \/ /\ surplus' = ~surplus
          /\ bad' = bad \ {LastingDeficit}
          /\ UNCHANGED <<unjudged, low, short, canCharge>>
       \/ /\ \E l \in Sheddable : low' = IF l \in low THEN low \ {l} ELSE low \union {l}
          /\ UNCHANGED <<bad, unjudged, surplus, short, canCharge>>
       \/ /\ \E l \in Sheddable : short' = IF l \in short THEN short \ {l} ELSE short \union {l}
          /\ UNCHANGED <<bad, unjudged, surplus, low, canCharge>>
       \/ /\ canCharge' = ~canCharge
          /\ UNCHANGED <<bad, unjudged, surplus, low, short>>
    /\ UNCHANGED <<cycle, notes, solarPlant, story, failures>>

-----------------------------------------------------------------------------
Fails == /\ failures < MaxFailures
         /\ failures' = failures + 1

(* The cycle is over before it was through. *)
Abort(lost, unsent) ==
    /\ phase' = "idle"
    /\ todo' = {}
    /\ command' = "none"
    /\ events' = {}
    /\ dropped' = dropped \union lost
    /\ forgotten' = (forgotten \/ "clear_curtailment" \in unsent)
    /\ Fails

Subjects(evts) == {e[1] : e \in evts}

(* Mutant: a limit is not noted. *)
NoCurtailmentKey == FALSE

(* solar.py: the key is written and deleted before anything is sent. *)
CurtailmentKey == ~canCharge
SolarCommand == IF ~canCharge THEN "curtailment"
                ELSE IF curtailed THEN "clear_curtailment"
                ELSE "none"

(* load.py: the loads newly recommended for shedding and those to restore. *)
Noted         == {l \in Sheddable : shedAt[l] # NotShed}
Preventive    == low \ Noted
MayRestore    == surplus /\ Noted \union Preventive # {}
ToRestore     == IF MayRestore THEN {l \in Noted : shedAt[l] = Hold} ELSE {}

(* Mutant: a surplus ends the evaluation also when no load is noted. *)
ToShedWithoutSurplus == Preventive \union (IF surplus THEN {} ELSE short \ Noted)

ToShed        == IF MayRestore THEN Preventive ELSE Preventive \union (short \ Noted)

ShedTimes == [l \in Sheddable |-> IF l \in ToRestore \/ shedAt[l] = NotShed THEN
                                  (IF l \in ToShed THEN 0 ELSE NotShed)
                              ELSE Capped(shedAt[l] + 1, Hold)]

(* Mutant: what is noted is not looked up. *)
NeverAlerted(a) == FALSE

(* The isolation rule and the safety rule alike: an event when the         *)
(* condition holds and is not noted, the note goes with the condition.     *)
IsAlerted(a) == a \in keys
Raises(a)    == a \in bad /\ ~IsAlerted(a)

(* From the read of the states to the first await of the safety rule. *)
Begin ==
    /\ phase = "idle"
    /\ phase' = "judging"
    /\ todo' = Alerts \ (InMemory \union unjudged)
    /\ command' = SolarCommand
    /\ curtailed' = CurtailmentKey
    /\ shedAt' = ShedTimes
    /\ keys' = (keys \ InMemory) \union (bad \intersect InMemory)
    /\ events' = {Raised(s) : s \in ToShed \union {a \in InMemory : Raises(a)}}
                 \union {Over(l) : l \in ToRestore}
    /\ told' = told \ (InMemory \ bad)
    /\ dropped' = dropped \ (InMemory \ bad)
    /\ UNCHANGED <<world, count, solarPlant, forgotten, worldChanges, failures>>

(* Redis fails the solar rule, before or after it has changed the key. *)
BeginFails ==
    /\ phase = "idle"
    /\ curtailed' \in {curtailed, CurtailmentKey}
    /\ forgotten' = (forgotten \/ (curtailed # curtailed' /\ canCharge))
    /\ Fails
    /\ UNCHANGED <<world, cycle, keys, count, shedAt, solarPlant, told, dropped, worldChanges>>

(* Mutant: a cycle without a deficit takes one off the count. *)
CountedDown(a) == IF a # LastingDeficit THEN count
                  ELSE IF a \in bad THEN Capped(count + 1, Threshold)
                  ELSE count - 1

(* The deficit has to last for some cycles before it is an alert. *)
Counted(a) == IF a # LastingDeficit THEN count
              ELSE IF a \in bad THEN Capped(count + 1, Threshold)
              ELSE 0
Holds(a)   == a \in bad /\ (a = LastingDeficit => Counted(a) = Threshold)

(* Mutant: the events of one rule replace those of the others. *)
Overwrite(e) == {e}

Append(e) == events \union {e}

Judge(a) ==
    /\ phase = "judging"
    /\ a \in todo
    /\ todo' = todo \ {a}
    /\ count' = Counted(a)
    /\ IF Holds(a)
       THEN /\ keys' = keys \union {a}
            /\ events' = IF IsAlerted(a) THEN events ELSE Append(Raised(a))
            /\ UNCHANGED <<told, dropped>>
       ELSE /\ keys' = keys \ {a}
            /\ told' = told \ {a}
            /\ dropped' = dropped \ {a}
            /\ UNCHANGED events
    /\ UNCHANGED <<world, phase, command, shedAt, curtailed, solarPlant, forgotten, worldChanges, failures>>

(* Redis fails the safety rule, before or after it has set the key. *)
JudgeFails(a) ==
    /\ phase = "judging"
    /\ a \in todo
    /\ Abort(Subjects(events) \union {a}, {command})
    /\ count' \in {count, Counted(a)}
    /\ keys' \in {keys, IF Holds(a) THEN keys \union {a} ELSE keys \ {a}}
    /\ UNCHANGED <<world, shedAt, curtailed, solarPlant, told, worldChanges>>

(* The command goes out unless the plant has still to answer one: then it  *)
(* is skipped.                                                             *)
Send ==
    /\ phase = "judging"
    /\ todo = {}
    /\ phase' = "publishing"
    /\ command' = "none"
    /\ IF command # "none" /\ solarOrder = "none"
       THEN /\ solarOrder' = command
            /\ forgotten' = (forgotten /\ command # "clear_curtailment")
       ELSE /\ forgotten' = (forgotten \/ command = "clear_curtailment")
            /\ UNCHANGED solarOrder
    /\ UNCHANGED <<world, todo, events, notes, limited, told, dropped, worldChanges, failures>>

SendFails ==
    /\ phase = "judging"
    /\ todo = {}
    /\ Abort(Subjects(events), {command})
    /\ UNCHANGED <<world, notes, solarPlant, told, worldChanges>>

Published(e) == IF e[2] = "raised" THEN told \union {e[1]} ELSE told \ {e[1]}

Publish(e) ==
    /\ phase = "publishing"
    /\ e \in events
    /\ events' = events \ {e}
    /\ told' = Published(e)
    /\ dropped' = dropped \ {e[1]}
    /\ UNCHANGED <<world, phase, todo, command, notes, solarPlant, forgotten, worldChanges, failures>>

(* The XADD raises, done or not. *)
PublishFails(e) ==
    /\ phase = "publishing"
    /\ e \in events
    /\ told' \in {told, Published(e)}
    /\ Abort(Subjects(events), {command})
    /\ UNCHANGED <<world, notes, solarPlant, worldChanges>>

Finish ==
    /\ phase = "publishing"
    /\ events = {}
    /\ phase' = "idle"
    /\ UNCHANGED <<world, todo, command, events, notes, solarPlant, story, worldChanges, failures>>

(* Mutant: the keys have no lifetime. *)
KeyStays(a) == a \in keys /\ UNCHANGED memoryVars

(* The key of an alert lives an hour, the entry of an isolated resource    *)
(* counts for five minutes.                                                *)
KeyExpires(a) ==
    /\ phase = "idle"
    /\ a \in keys
    /\ keys' = keys \ {a}
    /\ told' = told \ {a}
    /\ dropped' = dropped \ {a}
    /\ UNCHANGED <<world, cycle, count, shedAt, curtailed, solarPlant, forgotten, worldChanges, failures>>

SolarObeys ==
    /\ solarOrder # "none"
    /\ limited' = (solarOrder = "curtailment")
    /\ solarOrder' = "none"
    /\ UNCHANGED <<world, cycle, notes, story, worldChanges, failures>>

SolarOrderGivenUp ==
    /\ solarOrder # "none"
    /\ solarOrder' = "none"
    /\ forgotten' = (forgotten \/ solarOrder = "clear_curtailment")
    /\ Fails
    /\ UNCHANGED <<world, cycle, notes, limited, told, dropped, worldChanges>>

(* The control service restarts: what it kept in memory is gone, nobody    *)
(* repeats an order that was not answered.                                 *)
RulesRestart ==
    /\ Abort(Subjects(events) \union (told \intersect Sheddable) \union InMemory, {command, solarOrder})
    /\ keys' = keys \ InMemory
    /\ shedAt' = [l \in Sheddable |-> NotShed]
    /\ solarOrder' = "none"
    /\ UNCHANGED <<world, count, curtailed, limited, told, worldChanges>>

RuleCycle ==
    \/ Begin
    \/ \E a \in Alerts : Judge(a)
    \/ Send
    \/ \E e \in events : Publish(e)
    \/ Finish

MemoryNext ==
    \/ WorldChanges
    \/ RuleCycle
    \/ BeginFails
    \/ \E a \in Alerts : JudgeFails(a) \/ KeyExpires(a)
    \/ SendFails
    \/ \E e \in events : PublishFails(e)
    \/ SolarObeys
    \/ SolarOrderGivenUp
    \/ RulesRestart

MemorySpec == MemoryInit /\ [][MemoryNext]_memoryVars

(* The loop runs on, keys expire, the plant answers in the end. *)
MemoryFairSpec ==
    /\ MemorySpec
    /\ WF_memoryVars(RuleCycle)
    /\ WF_memoryVars(SolarObeys)
    /\ \A a \in Alerts : SF_memoryVars(KeyExpires(a))

-----------------------------------------------------------------------------
Subject == Alerts \union Sheddable
Commands == {"none", "curtailment", "clear_curtailment"}

MemoryTypeOK ==
    /\ bad \subseteq Alerts
    /\ unjudged \subseteq Alerts
    /\ surplus \in BOOLEAN
    /\ low \subseteq Sheddable
    /\ short \subseteq Sheddable
    /\ canCharge \in BOOLEAN
    /\ phase \in {"idle", "judging", "publishing"}
    /\ todo \subseteq Alerts
    /\ command \in Commands
    /\ events \subseteq Subject \X {"raised", "over"}
    /\ keys \subseteq Alerts
    /\ count \in 0 .. Threshold
    /\ shedAt \in [Sheddable -> 0 .. Hold \union {NotShed}]
    /\ curtailed \in BOOLEAN
    /\ solarOrder \in Commands
    /\ limited \in BOOLEAN
    /\ told \subseteq Subject
    /\ dropped \subseteq Subject
    /\ forgotten \in BOOLEAN
    /\ worldChanges \in 0 .. MaxWorldChanges
    /\ failures \in 0 .. MaxFailures

(* An alert is published once while its condition holds and its key lives, *)
(* also across restarts (safety.py:6); the recommendations to shed a load  *)
(* and to restore it take turns.  Only after an exception or a restart may *)
(* one come twice, or an end without a beginning.                          *)
Timely(e)   == e[1] \in dropped \/ (e[2] = "raised" <=> e[1] \notin told)
PublishedOnce == [][\A e \in events : Publish(e) => Timely(e)]_memoryVars

(* Between two cycles, what is noted as raised has been published, unless  *)
(* an exception or a restart dropped it: the note is made first.           *)
NotedIsTold == phase = "idle" => keys \union Noted \subseteq told \union dropped

(* While the plant keeps to a limit its key says so, until the order that  *)
(* lifts it is on its way, or was skipped or lost: then nothing is left    *)
(* that would send it again.                                               *)
LimitIsKnown ==
    limited => curtailed \/ "clear_curtailment" \in {command, solarOrder} \/ forgotten

(* A condition that lasts is published in the end, also when its event was *)
(* dropped: its key expires and it is raised once more.                    *)
BadIsTold == \A a \in Alerts : []<>(a \notin bad \/ a \in unjudged \/ a \in told)

(* A load whose zone stays short is recommended for shedding in the end,   *)
(* unless there is a surplus elsewhere while other loads are noted: then   *)
(* evaluate() returns before it looks at the zones.                        *)
ShortIsShed == \A l \in Sheddable : []<>(l \notin short \/ l \in Noted \/ MayRestore)
-----------------------------------------------------------------------------
(* The inductive invariant behind the safety properties. *)

(* Between two cycles nothing is in hand; a command is sent before the     *)
(* events are published.                                                   *)
CycleOK ==
    /\ phase = "idle" => events = {}
    /\ phase # "judging" => command = "none" /\ todo = {}
    /\ todo \subseteq Alerts \ InMemory

(* Whatever is noted has been told, was dropped, or is about to be told;   *)
(* whatever was told is noted, was dropped, or is about to be called off.  *)
NotesAgree ==
    /\ keys \union Noted \subseteq told \union dropped \union {s \in Subject : Raised(s) \in events}
    /\ told \subseteq keys \union Noted \union dropped \union {s \in Subject : Over(s) \in events}

(* An event in hand is about a note made, or taken back, in this cycle,    *)
(* and it is time to publish it.                                           *)
EventsAgree ==
    /\ \A s \in Subject : Raised(s) \in events =>
          s \in keys \union Noted /\ s \notin todo /\ (s \notin told \/ s \in dropped)
    /\ \A s \in Subject : Over(s) \in events =>
          s \in Sheddable \ Noted /\ s \in told \union dropped

(* A limit the plant keeps to, or is about to, is known. *)
LimitAgrees ==
    /\ command = "curtailment" => curtailed
    /\ solarOrder = "curtailment" => curtailed \/ command = "clear_curtailment" \/ forgotten
    /\ LimitIsKnown

IInv == CycleOK /\ NotesAgree /\ EventsAgree /\ LimitAgrees
=============================================================================
