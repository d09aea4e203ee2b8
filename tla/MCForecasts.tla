----------------------------- MODULE MCForecasts -----------------------------
(***************************************************************************)
(* The forecasts in one run: three calls for one site, one for the live    *)
(* model, one of any kind without a horizon, one for the capacity-factor   *)
(* model; or the live prediction itself.  ForecastRuns takes from it only  *)
(* whether it answers, so a behaviour is one of either module.             *)
(***************************************************************************)
EXTENDS ForecastRuns, LiveForecast, TLC

CONSTANTS c1, c2, c3

MCCalls == {c1, c2, c3}
Live    == [horizon : {TRUE}, live : {TRUE}, anchored : {FALSE}]
Bundled == [horizon : {TRUE}, live : {FALSE}, anchored : BOOLEAN]
Plain   == [horizon : {FALSE}, live : {FALSE}, anchored : {FALSE}]
MCAsked == (c1 :> Live) @@ (c2 :> Plain) @@ (c3 :> Bundled)

VARIABLE runs \* what is done: the calls of the service or a live prediction

ForecastsInit ==
    /\ Init /\ LiveInit
    /\ \/ runs = "calls" /\ ~remote
       \/ runs = "live"

ForecastsNext ==
    \/ runs = "calls" /\ Next /\ UNCHANGED <<runs, liveVars>>
    \/ runs = "live" /\ LiveNext /\ UNCHANGED <<runs, vars>>

\* The fairness of FairSpec and LiveFairSpec.
ForecastsFairSpec ==
    /\ ForecastsInit /\ [][ForecastsNext]_<<runs, vars, liveVars>>
    /\ \A c \in Calls : WF_vars(runs = "calls" /\ Step(c))
    /\ WF_liveVars(runs = "live" /\ Client)
    /\ WF_liveVars(runs = "live" /\ ~remote /\ Job)
=============================================================================
