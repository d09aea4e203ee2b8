------------------------------ MODULE SiteData ------------------------------
(***************************************************************************)
(* What the AI service knows of one site: the row of ai_site_metadata,     *)
(* which an operator saves and which every forecast refreshes from the     *)
(* panels the state API lists, and the row of ai_site_load_profile, which  *)
(* a language model structures from an operator's prompt.  Calls run on    *)
(* the gunicorn workers at the same time; each reads its row, leaves for   *)
(* an HTTP request, and writes the whole row in one statement.             *)
(*                                                                         *)
(* A row is told apart by the panels its capacity and centre were computed *)
(* from and by its kept fields; "dong" stands for dong_code, timezone and  *)
(* model_capacity_kw, which are kept alike.  A prompt's hash is the prompt.*)
(***************************************************************************)
EXTENDS Naturals, FiniteSets

CONSTANTS
    Panels,    \* solar resources of the site
    Rated,     \* those that report a capacity
    Located,   \* those that report a position
    Reports,   \* per panel and kept field: the value in its site_metadata, or Nil
    Nearest,   \* per set of panels: MODEL_REGION_CENTER nearest to their centre
    Chosen,    \* the kept fields an operator may save
    Prompts,   \* prompts, normalised
    Calls,     \* calls, each on a worker of its own
    Nil,       \* no value
    MaxSaves,  \* bound: rows saved by an operator
    MaxFaults  \* bound: requests and statements failed, workers killed

Kept   == {"region", "model", "dong"}
Values == (UNION {{s[f] : f \in Kept} : s \in Chosen}) \union {Reports[p][f] : p \in Panels, f \in Kept}
          \union {Nearest[S] : S \in SUBSET Panels} \union {Nil}

ASSUME PanelsAssumption == IsFiniteSet(Panels) /\ Rated \subseteq Panels /\ Located \subseteq Panels
ASSUME FieldsAssumption == /\ \A s \in Chosen : s = [f \in Kept |-> s[f]] /\ s["region"] # Nil
                           /\ \A S \in SUBSET Panels : Nearest[S] # Nil
                           /\ \A p \in Panels : DOMAIN Reports[p] = Kept
ASSUME SiteBoundsAssumption == {MaxSaves, MaxFaults} \subseteq Nat

VARIABLES
    row,      \* ai_site_metadata of the site, or NoRow
    profile,  \* ai_site_load_profile of the site, or NoProfile
    live,     \* panels whose state key has not expired
    at,       \* per call: where it is
    base,     \* per call: the metadata row it read, until it has merged it
    offer,    \* per call: the row it will write, or NoRow
    prompt,   \* per call: the prompt it was given, or Nil
    answer,   \* what the last call to end was answered
    choice,   \* history: the kept fields an operator saved last, Nil before
    overtook, \* history: calls that read their row before that save
    stale,    \* history: one of them wrote since
    saves,    \* rows saved so far
    faults    \* failures so far

metadata == <<row, base, offer, choice, overtook, stale, saves>>
vars     == <<metadata, profile, live, at, prompt, answer, faults>>

NoRow     == [is |-> "none"]
NoProfile == [is |-> "none"]
Manual    == {Nil}  \* an operator's capacity and position
Rows      == [kept : {k \in [Kept -> Values] : k["region"] # Nil}, panels : (SUBSET Panels) \union {Manual}]
Profiles  == [prompt : Prompts, hash : Prompts \union {Nil}, made : Prompts]
Is(a)     == [is |-> a]
Answers   == {Is(a) : a \in {"none", "raised", "stored", "warned", "fetched"}}
             \union [is : {"profile"}, asked : Prompts, made : Prompts]

TypeOK ==
    /\ row \in Rows \union {NoRow}
    /\ profile \in Profiles \union {NoProfile}
    /\ live \subseteq Panels
    /\ at \in [Calls -> {"idle", "syncing", "resolving", "storing", "structuring"}]
    /\ base \in [Calls -> Rows \union {NoRow}]
    /\ offer \in [Calls -> Rows \union {NoRow}]
    /\ prompt \in [Calls -> Prompts \union {Nil}]
    /\ answer \in Answers
    /\ choice \in Chosen \union {Nil}
    /\ overtook \subseteq Calls
    /\ stale \in BOOLEAN
    /\ saves \in 0..MaxSaves
    /\ faults \in 0..MaxFaults

\* A profile stored before the column prompt_hash was added has none.
Init ==
    /\ row = NoRow
    /\ profile \in {NoProfile} \union [prompt : Prompts, hash : {Nil}, made : Prompts]
    /\ profile # NoProfile => profile.made = profile.prompt
    /\ live = Panels
    /\ at = [c \in Calls |-> "idle"]
    /\ base = [c \in Calls |-> NoRow]
    /\ offer = [c \in Calls |-> NoRow]
    /\ prompt = [c \in Calls |-> Nil]
    /\ answer = Is("none")
    /\ choice = Nil
    /\ overtook = {}
    /\ stale = FALSE
    /\ saves = 0
    /\ faults = 0

\* The end of a call: its worker is free for the next.
Done(c, a) ==
    /\ at' = [at EXCEPT ![c] = "idle"]
    /\ base' = [base EXCEPT ![c] = NoRow]
    /\ offer' = [offer EXCEPT ![c] = NoRow]
    /\ prompt' = [prompt EXCEPT ![c] = Nil]
    /\ answer' = a
    /\ overtook' = overtook \ {c}

-----------------------------------------------------------------------------
(* The metadata of the site *)

\* An operator's row: one statement, whatever the row was.
Save ==
    \E s \in Chosen :
        /\ saves < MaxSaves
        /\ saves' = saves + 1
        /\ row' = [kept |-> s, panels |-> Manual]
        /\ choice' = s
        /\ overtook' = {c \in Calls : at[c] \in {"syncing", "resolving", "storing"}}
        /\ stale' = FALSE
        /\ UNCHANGED <<profile, live, at, base, offer, prompt, answer, faults>>

\* /site-metadata/sync, or a forecast's resolve: the stored row is read first.
Read(c) ==
    /\ at[c] = "idle"
    /\ \E kind \in {"syncing", "resolving"} : at' = [at EXCEPT ![c] = kind]
    /\ base' = [base EXCEPT ![c] = row]
    /\ UNCHANGED <<row, profile, live, offer, prompt, answer, choice, overtook, stale, saves, faults>>

Told(S, f) == {Reports[p][f] : p \in S} \ {Nil}

\* The value of a kept field: of the panel listed first that reports it, else
\* the stored one, else what it falls back to.
Merged(S, f, stored, fallback) ==
    IF Told(S, f) # {} THEN Told(S, f)
    ELSE {IF stored # NoRow /\ stored.kept[f] # Nil THEN stored.kept[f] ELSE fallback}

\* As a merge that starts from the panels alone would make it.
FetchedAfresh(S, stored) ==
    {[kept |-> [region |-> m, model |-> m, dong |-> Nil], panels |-> S] : m \in {Nearest[S]}}

\* The rows the panels that are up make of the stored one: none unless one of
\* them reports a capacity and one a position.
Fetched(S, stored) ==
    {[kept |-> [region |-> IF r = Nil THEN m ELSE r, model |-> m, dong |-> d], panels |-> S] :
        m \in Merged(S, "model", stored, Nearest[S]),
        r \in Merged(S, "region", stored, Nil),
        d \in Merged(S, "dong", stored, Nil)}

Complete(S) == S \intersect Rated # {} /\ S \intersect Located # {}

\* The state API answers: nothing to store, or a row.
Fetch(c) ==
    /\ at[c] \in {"syncing", "resolving"}
    /\ IF Complete(live)
       THEN /\ \E r \in Fetched(live, base[c]) : offer' = [offer EXCEPT ![c] = r]
            /\ at' = [at EXCEPT ![c] = "storing"]
            /\ base' = [base EXCEPT ![c] = NoRow]
            /\ UNCHANGED <<prompt, answer, overtook>>
       ELSE Done(c, Is("stored"))
    /\ UNCHANGED <<row, profile, live, choice, stale, saves, faults>>

\* It does not: a forecast goes on with the stored row and a warning, if there
\* is one; a sync raises.
FetchFails(c) ==
    /\ at[c] \in {"syncing", "resolving"}
    /\ faults < MaxFaults
    /\ faults' = faults + 1
    /\ Done(c, Is(IF at[c] = "resolving" /\ base[c] # NoRow THEN "warned" ELSE "raised"))
    /\ UNCHANGED <<row, profile, live, choice, stale, saves>>

\* As a row that is there would be kept.
StoreIfNew(c) ==
    /\ at[c] = "storing"
    /\ row' = IF row = NoRow THEN offer[c] ELSE row
    /\ stale' = (stale \/ c \in overtook)
    /\ Done(c, Is("fetched"))
    /\ UNCHANGED <<profile, live, choice, saves, faults>>

\* The whole row is written over whatever is stored by then.
Store(c) ==
    /\ at[c] = "storing"
    /\ row' = offer[c]
    /\ stale' = (stale \/ c \in overtook)
    /\ Done(c, Is("fetched"))
    /\ UNCHANGED <<profile, live, choice, saves, faults>>

-----------------------------------------------------------------------------
(* The load profile of the site *)

CurrentHash == IF profile.hash # Nil THEN profile.hash ELSE profile.prompt

\* save_prompt: nothing to do when the stored profile is of the same prompt.
Ask(c) ==
    \E p \in Prompts, force \in BOOLEAN :
        /\ at[c] = "idle"
        /\ IF profile # NoProfile /\ CurrentHash = p /\ ~force
           THEN /\ answer' = [is |-> "profile", asked |-> p, made |-> profile.made]
                /\ UNCHANGED <<at, prompt>>
           ELSE /\ at' = [at EXCEPT ![c] = "structuring"]
                /\ prompt' = [prompt EXCEPT ![c] = p]
                /\ UNCHANGED answer
        /\ UNCHANGED <<metadata, profile, live, faults>>

\* As it would be if the column added later were not among those updated.
UpsertedWithoutHash(c) ==
    [prompt |-> prompt[c], made |-> prompt[c],
     hash |-> IF profile = NoProfile THEN prompt[c] ELSE profile.hash]

\* What the statement leaves: every column is the call's.
Upserted(c) == [prompt |-> prompt[c], hash |-> prompt[c], made |-> prompt[c]]

\* structure() has made a profile: the one given, the language model's or the
\* rules'.
SaveProfile(c) ==
    /\ at[c] = "structuring"
    /\ profile' = Upserted(c)
    /\ Done(c, [is |-> "profile", asked |-> prompt[c], made |-> profile'.made])
    /\ UNCHANGED <<row, live, choice, stale, saves, faults>>

-----------------------------------------------------------------------------
(* Failures, and the site *)

\* The language model or a statement fails, the profile is not valid, or
\* gunicorn ends the worker after 60 s: nothing has been written.
Raises(c) ==
    /\ at[c] # "idle"
    /\ faults < MaxFaults
    /\ faults' = faults + 1
    /\ Done(c, Is("raised"))
    /\ UNCHANGED <<row, profile, live, choice, stale, saves>>

\* A panel's state key expires, or it reports again.
PanelChanges ==
    \E p \in Panels :
        /\ live' = IF p \in live THEN live \ {p} ELSE live \union {p}
        /\ UNCHANGED <<metadata, profile, at, prompt, answer, faults>>

Next ==
    \/ Save
    \/ PanelChanges
    \/ \E c \in Calls : \/ Read(c) \/ Fetch(c) \/ FetchFails(c) \/ Store(c)
                        \/ Ask(c) \/ SaveProfile(c) \/ Raises(c)

Spec == Init /\ [][Next]_vars

\* A worker goes on with its call, the requests have timeouts, and forecasts
\* keep being asked for.
FairSpec ==
    /\ Spec
    /\ \A c \in Calls : WF_vars(Fetch(c) \/ Store(c) \/ SaveProfile(c))
    /\ \A c \in Calls : SF_vars(Read(c))

-----------------------------------------------------------------------------
\* A field an operator chose and no panel reports is kept by every refresh,
\* unless a call that had read its row before the save wrote after it
\* (site_metadata_service.py:78 reads, 92 writes the whole row).
ChoiceKept ==
    choice # Nil /\ ~stale =>
        \A f \in Kept : choice[f] # Nil /\ Told(Panels, f) = {} => row.kept[f] = choice[f]

\* The stored profile was made from the stored prompt, and a call is answered,
\* as updated or as unchanged, with a profile made from a prompt of that hash,
\* also when calls overlap, fail half-way or find a row older than the column
\* prompt_hash (site_load_profile_service.py:33-84).
ProfileOfItsPrompt ==
    /\ profile # NoProfile => profile.made = profile.prompt
    /\ answer.is = "profile" => answer.made = answer.asked

\* Once the panels that report stay the same and make a row, the stored
\* capacity and centre come to be theirs and stay so
\* (site_metadata_service.py:105-118).
SettlesOnPanels ==
    \A S \in SUBSET Panels :
        Complete(S) => (<>[](live = S) => <>[](row # NoRow /\ row.panels = S))

-----------------------------------------------------------------------------
(* The inductive invariant *)

\* A row that was stored before the column prompt_hash was added has no hash.
HashOK == profile # NoProfile => profile.made = profile.prompt /\ profile.hash \in {Nil, profile.prompt}

AnswerOK == answer.is = "profile" => answer.made = answer.asked

PromptsOK == \A c \in Calls : at[c] = "structuring" => prompt[c] \in Prompts

Reading == {"syncing", "resolving"}

OvertookOK == overtook \subseteq {c \in Calls : at[c] \in Reading \union {"storing"}}

\* The row has the fields of the last save that no panel reports.
Keeps(r) == r # NoRow /\ \A f \in Kept : choice[f] # Nil /\ Told(Panels, f) = {} => r.kept[f] = choice[f]

\* So do the rows in the hands of the calls that read theirs after the save.
KeepOK ==
    choice # Nil /\ ~stale =>
        /\ Keeps(row)
        /\ \A c \in Calls \ overtook : /\ at[c] \in Reading => Keeps(base[c])
                                       /\ at[c] = "storing" => Keeps(offer[c])

OffersOK == \A c \in Calls : at[c] = "storing" => offer[c] # NoRow

SiteInv == TypeOK /\ HashOK /\ AnswerOK /\ PromptsOK /\ OvertookOK /\ OffersOK /\ KeepOK
=============================================================================
