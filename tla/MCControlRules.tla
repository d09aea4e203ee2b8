--------------------------- MODULE MCControlRules ---------------------------
(***************************************************************************)
(* The rules in one run.  The two modules share no state, so a behaviour   *)
(* is one of either of them, and the other one rests in a state in which   *)
(* nothing is due.                                                         *)
(***************************************************************************)
EXTENDS Dispatch, RuleMemory

CONSTANTS s1, fault, deficit, isolated

\* Dispatch: one load fed directly by a battery and a solar plant; the engine
\* feeds it over a line with a switch and is also joined to the battery.
MCNodes      == {"ess", "diesel", "solar", "load"}
MCLoads      == {"load"}
MCLines      == {{"ess", "load"}, {"solar", "load"}, {"diesel", "load"}, {"diesel", "ess"}}
MCSwitchesOf == [e \in MCLines |-> IF e = {"diesel", "load"} THEN {s1} ELSE {}]
MCSuns       == {0, 3}

\* RuleMemory: an alert of the safety rule, the one for a deficit that lasts,
\* one of the isolation rule.
MCAlerts   == {fault, deficit, isolated}
MCInMemory == {isolated}

VARIABLE runs \* the module whose steps are taken

RulesInit ==
    /\ Init /\ MemoryInit
    /\ \/ runs = "dispatch"
       \/ runs = "memory" /\ sun = 3 /\ soc = MaxSoc

RulesNext ==
    \/ runs = "dispatch" /\ Next /\ UNCHANGED <<runs, memoryVars>>
    \/ runs = "memory" /\ MemoryNext /\ UNCHANGED <<runs, vars>>

\* The fairness of FairSpec and MemoryFairSpec.
RulesFairSpec ==
    /\ RulesInit /\ [][RulesNext]_<<runs, vars, memoryVars>>
    /\ WF_vars(runs = "dispatch" /\ Cycle)
    /\ WF_vars(runs = "dispatch" /\ Tick)
    /\ WF_vars(runs = "dispatch" /\ Report)
    /\ WF_vars(EssObeys) /\ WF_vars(EngineObeys \/ EngineIgnores)
    /\ WF_memoryVars(runs = "memory" /\ RuleCycle)
    /\ WF_memoryVars(SolarObeys)
    /\ \A a \in Alerts : SF_memoryVars(KeyExpires(a))
=============================================================================
