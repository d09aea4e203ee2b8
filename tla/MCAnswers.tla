------------------------------ MODULE MCAnswers ------------------------------
(***************************************************************************)
(* What those who ask are told, in one run: of the latest forecast, of the *)
(* measured values they posted, of the training they ordered, of the       *)
(* commands that were sent.  These share no state, so a behaviour is one   *)
(* of one kind and the rest of the state stays as it was in the beginning. *)
(***************************************************************************)
EXTENDS ForecastViews, TrainingJobs, CommandListing, TLC

CONSTANTS c1, c2, p1, p2

\* ForecastViews: two calls for one site, for the live model and without a
\* horizon; posts for the run created last or for that of the first call.
MCCalls  == {c1, c2}
MCPosts  == {p1, p2}
Live     == [horizon : {TRUE}, live : {TRUE}, anchored : {FALSE}]
Plain    == [horizon : {FALSE}, live : {FALSE}, anchored : {FALSE}]
MCAsked  == (c1 :> Live) @@ (c2 :> Plain)
Free     == [hours |-> Horizon, run |-> NoRun, has |-> {"solar", "load"}]
Asking   == [hours |-> Horizon, run |-> <<c1, "started">>, has |-> {"solar"}]
MCBodies == (p1 :> {Free}) @@ (p2 :> {Asking})

\* TrainingJobs: packages with and without the data of the site correction, a
\* stage that is not known, trainings of a server.
Solar == {<<"data", "train">>, <<"data", "val">>}
Site  == {<<"data", "siteTrain">>, <<"data", "siteVal">>}
Asks(package, stages) == [package |-> package, stages |-> stages, resume |-> FALSE]

MCOrders == {Asks(Solar, {"mlp", "lightgbm"}), Asks(Site, {"site_correction", "mlp"}),
             Asks({<<"data", "train">>}, {"lightgbm", "other"}),
             Asks({}, {"mlp"}), Asks({}, Stages), [Asks({}, {"mlp"}) EXCEPT !.resume = TRUE]}

\* CommandListing: a stop of a charge, which is stored as a standby, and the
\* orders of two rules, one of them none that an operator has.
MCOperators == {[device |-> "ess", by |-> "operator", action |-> "STOP_CHARGE"]}
MCRules     == {[device |-> "ess", by |-> "rule", action |-> "ESS_CHARGE"],
                [device |-> "solar", by |-> "rule", action |-> "SOLAR_LIMIT"]}

VARIABLE asks \* what is asked for

AnswersInit ==
    /\ asks \in {"latest", "actuals", "training", "commands"}
    /\ ViewInit /\ TrainingInit /\ ListInit
    /\ asks # "training" => machine = "runpod"

\* Bound: beside the posts no transaction of a call fails.
AnswersNext ==
    /\ UNCHANGED asks
    /\ \/ asks = "latest" /\ (CallSteps \/ Get) /\ UNCHANGED <<jobVars, listVars>>
       \/ /\ asks = "actuals"
          /\ CallSteps \/ \E p \in Posts : PostStep(p)
          /\ failures' = 0
          /\ UNCHANGED <<jobVars, listVars>>
       \/ asks = "training" /\ TrainingNext /\ UNCHANGED <<viewVars, listVars>>
       \/ asks = "commands" /\ ListNext /\ UNCHANGED <<viewVars, jobVars>>

AnswersSpec == AnswersInit /\ [][AnswersNext]_<<asks, viewVars, jobVars, listVars>>
=============================================================================
