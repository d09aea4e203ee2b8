--------------------------- MODULE SiteDataProofs ---------------------------
(***************************************************************************)
(* What the AI service keeps of a site stays true however calls overlap:   *)
(* the operator's fields, and the profile with the prompt it was made of;  *)
(* for any panels, prompts and calls.                                      *)
(*                                                                         *)
(* Then the list of commands an operator pages through: nothing is passed  *)
(* over, whatever is written or dropped between two pages.                 *)
(***************************************************************************)
EXTENDS SiteData, CommandListing, FiniteSetTheorems, WellFoundedInduction, TLAPS

-----------------------------------------------------------------------------
(* Facts about the rows *)

LEMMA RowIsRow == ASSUME NEW r \in Rows PROVE r # NoRow
<1>1. DOMAIN r = {"kept", "panels"}
  BY DEF Rows
<1>2. DOMAIN NoRow = {"is"}
  BY DEF NoRow
<1> QED BY <1>1, <1>2

LEMMA ProfileIsProfile == ASSUME NEW p \in Profiles PROVE p # NoProfile
<1>1. DOMAIN p = {"prompt", "hash", "made"}
  BY DEF Profiles
<1>2. DOMAIN NoProfile = {"is"}
  BY DEF NoProfile
<1> QED BY <1>1, <1>2

LEMMA ValueFacts ==
    /\ Nil \in Values
    /\ \A s \in Chosen, f \in Kept : s[f] \in Values
    /\ \A S \in SUBSET Panels : Nearest[S] \in Values \ {Nil}
    /\ \A S \in SUBSET Panels, f \in Kept : Told(S, f) \subseteq Values \ {Nil}
    /\ \A S \in SUBSET Panels, f \in Kept : Told(S, f) \subseteq Told(Panels, f)
<1>1. Nil \in Values
  BY DEF Values
<1>2. ASSUME NEW s \in Chosen, NEW f \in Kept PROVE s[f] \in Values
  <2>1. s[f] \in {s[g] : g \in Kept}
    OBVIOUS
  <2>2. {s[g] : g \in Kept} \in {{r[g] : g \in Kept} : r \in Chosen}
    OBVIOUS
  <2>3. s[f] \in UNION {{r[g] : g \in Kept} : r \in Chosen}
    BY <2>1, <2>2
  <2> QED BY <2>3 DEF Values
<1>3. ASSUME NEW S \in SUBSET Panels PROVE Nearest[S] \in Values \ {Nil}
  <2>1. Nearest[S] \in UNION {{Nearest[T]} : T \in SUBSET Panels}
    OBVIOUS
  <2> QED BY <2>1, FieldsAssumption DEF Values
<1>4. ASSUME NEW p \in Panels, NEW f \in Kept PROVE Reports[p][f] \in Values
  <2>1. Reports[p][f] \in {Reports[q][g] : q \in Panels, g \in Kept}
    OBVIOUS
  <2> QED BY <2>1 DEF Values
<1> QED BY <1>1, <1>2, <1>3, <1>4 DEF Told

(* An operator's fields make a row. *)
LEMMA ChosenIsRow == ASSUME NEW s \in Chosen PROVE [kept |-> s, panels |-> Manual] \in Rows
<1>1. s \in [Kept -> Values] /\ s["region"] # Nil
  BY FieldsAssumption, ValueFacts
<1>2. s \in {k \in [Kept -> Values] : k["region"] # Nil} /\ Manual \in (SUBSET Panels) \union {Manual}
  BY <1>1
<1> QED BY <1>2 DEF Rows

(* What a merge makes of a kept field. *)
LEMMA MergedFacts ==
    ASSUME NEW S \in SUBSET Panels, NEW f \in Kept, NEW stored \in Rows \union {NoRow},
           NEW fallback \in Values, NEW v \in Merged(S, f, stored, fallback)
    PROVE  /\ v \in Values
           /\ fallback # Nil => v # Nil
           /\ Told(Panels, f) = {} /\ stored # NoRow /\ stored.kept[f] # Nil => v = stored.kept[f]
<1>1. Told(S, f) \subseteq Values \ {Nil} /\ Told(S, f) \subseteq Told(Panels, f)
  BY ValueFacts
<1>2. stored # NoRow => stored.kept[f] \in Values
  BY DEF Rows
<1> QED BY <1>1, <1>2 DEF Merged

(* A refresh makes a row, and keeps a field no panel reports. *)
LEMMA FetchedFacts ==
    ASSUME NEW S \in SUBSET Panels, NEW stored \in Rows \union {NoRow}, NEW r \in Fetched(S, stored)
    PROVE  /\ r \in Rows
           /\ stored # NoRow => \A f \in Kept : Told(Panels, f) = {} /\ stored.kept[f] # Nil =>
                                    r.kept[f] = stored.kept[f]
<1>1. PICK m \in Merged(S, "model", stored, Nearest[S]),
           g \in Merged(S, "region", stored, Nil),
           d \in Merged(S, "dong", stored, Nil) :
           r = [kept |-> [region |-> IF g = Nil THEN m ELSE g, model |-> m, dong |-> d], panels |-> S]
  BY DEF Fetched
<1>2. /\ m \in Values /\ m # Nil
      /\ Told(Panels, "model") = {} /\ stored # NoRow /\ stored.kept["model"] # Nil => m = stored.kept["model"]
  BY MergedFacts, ValueFacts DEF Kept
<1>3. /\ g \in Values
      /\ Told(Panels, "region") = {} /\ stored # NoRow /\ stored.kept["region"] # Nil => g = stored.kept["region"]
  BY MergedFacts, ValueFacts DEF Kept
<1>4. /\ d \in Values
      /\ Told(Panels, "dong") = {} /\ stored # NoRow /\ stored.kept["dong"] # Nil => d = stored.kept["dong"]
  BY MergedFacts, ValueFacts DEF Kept
<1> DEFINE k == [region |-> IF g = Nil THEN m ELSE g, model |-> m, dong |-> d]
<1>5. /\ k["region"] = (IF g = Nil THEN m ELSE g) /\ k["model"] = m /\ k["dong"] = d
      /\ DOMAIN k = Kept
  BY DEF Kept
<1>6. r \in Rows /\ r.kept = k
  <2>1. k \in [Kept -> Values] /\ k["region"] # Nil
    <3>1. \A f \in Kept : k[f] \in Values
      BY <1>2, <1>3, <1>4, <1>5 DEF Kept
    <3>2. k = [f \in Kept |-> k[f]]
      BY <1>5
    <3> QED BY <3>1, <3>2, <1>2, <1>5
  <2>2. k \in {j \in [Kept -> Values] : j["region"] # Nil} /\ S \in (SUBSET Panels) \union {Manual}
    BY <2>1
  <2> HIDE DEF k
  <2> QED BY <1>1, <2>2 DEF Rows, k
<1> HIDE DEF k
<1> QED BY <1>2, <1>3, <1>4, <1>5, <1>6 DEF Kept

-----------------------------------------------------------------------------
(* Initial states, and the end of a call *)

LEMMA InvInit == Init => SiteInv
<1> SUFFICES ASSUME Init PROVE SiteInv
  OBVIOUS
<1>1. profile # NoProfile => profile \in Profiles /\ profile.made = profile.prompt /\ profile.hash = Nil
  BY DEF Init, Profiles
<1>2. TypeOK
  <2>1. /\ row \in Rows \union {NoRow} /\ profile \in Profiles \union {NoProfile}
        /\ answer \in Answers
    BY <1>1 DEF Init, Answers, Is
  <2>2. saves \in 0 .. MaxSaves /\ faults \in 0 .. MaxFaults
    BY SiteBoundsAssumption DEF Init
  <2>3. /\ live \subseteq Panels
        /\ at \in [Calls -> {"idle", "syncing", "resolving", "storing", "structuring"}]
        /\ base \in [Calls -> Rows \union {NoRow}]
        /\ offer \in [Calls -> Rows \union {NoRow}]
        /\ prompt \in [Calls -> Prompts \union {Nil}]
        /\ choice \in Chosen \union {Nil} /\ overtook \subseteq Calls /\ stale \in BOOLEAN
    BY DEF Init
  <2> QED BY <2>1, <2>2, <2>3 DEF TypeOK
<1> QED BY <1>1, <1>2 DEF Init, SiteInv, HashOK, AnswerOK, PromptsOK, OvertookOK, OffersOK, KeepOK, Is, Reading

(* Everything but the row is as it was for the other calls, and the answer *)
(* is one that may be given.                                               *)
Fine(a) == a \in Answers /\ (a.is = "profile" => a.made = a.asked)

LEMMA EndFacts ==
    ASSUME SiteInv, NEW c \in Calls, NEW a, Fine(a), Done(c, a)
    PROVE  /\ at' \in [Calls -> {"idle", "syncing", "resolving", "storing", "structuring"}]
           /\ base' \in [Calls -> Rows \union {NoRow}]
           /\ offer' \in [Calls -> Rows \union {NoRow}]
           /\ prompt' \in [Calls -> Prompts \union {Nil}]
           /\ answer' \in Answers /\ AnswerOK' /\ PromptsOK' /\ OvertookOK' /\ OffersOK'
           /\ at'[c] = "idle" /\ overtook' = overtook \ {c}
           /\ \A d \in Calls \ {c} : at'[d] = at[d] /\ base'[d] = base[d] /\ offer'[d] = offer[d]
<1> USE DEF Done, SiteInv, TypeOK
<1>1. /\ at' \in [Calls -> {"idle", "syncing", "resolving", "storing", "structuring"}]
      /\ base' \in [Calls -> Rows \union {NoRow}]
      /\ offer' \in [Calls -> Rows \union {NoRow}]
      /\ prompt' \in [Calls -> Prompts \union {Nil}]
      /\ at'[c] = "idle" /\ overtook' = overtook \ {c}
      /\ \A d \in Calls \ {c} : /\ at'[d] = at[d] /\ base'[d] = base[d] /\ offer'[d] = offer[d]
                                /\ prompt'[d] = prompt[d]
  OBVIOUS
<1>2. answer' \in Answers /\ AnswerOK'
  BY DEF Fine, AnswerOK
<1>3. PromptsOK' /\ OffersOK'
  BY <1>1 DEF PromptsOK, OffersOK
<1>4. OvertookOK'
  BY <1>1 DEF OvertookOK
<1> QED BY <1>1, <1>2, <1>3, <1>4

(* A call ends that writes nothing but its answer. *)
LEMMA InvEnds ==
    ASSUME SiteInv, NEW c \in Calls, NEW a, Fine(a), Done(c, a), faults' \in 0 .. MaxFaults,
           UNCHANGED <<row, profile, live, choice, stale, saves>>
    PROVE  SiteInv'
<1>1. TypeOK'
  BY EndFacts DEF TypeOK, SiteInv
<1>2. HashOK'
  BY DEF SiteInv, HashOK
<1>3. KeepOK'
  <2> SUFFICES ASSUME choice # Nil, ~stale
               PROVE  /\ Keeps(row)'
                      /\ \A d \in Calls \ overtook' : /\ at'[d] \in Reading => Keeps(base[d])'
                                                      /\ at'[d] = "storing" => Keeps(offer[d])'
    BY DEF KeepOK
  <2>1. Keeps(row)'
    BY DEF SiteInv, KeepOK, Keeps
  <2>2. ASSUME NEW d \in Calls \ overtook'
        PROVE  /\ at'[d] \in Reading => Keeps(base[d])'
               /\ at'[d] = "storing" => Keeps(offer[d])'
    <3>1. CASE d = c
      BY <3>1, EndFacts DEF Reading
    <3>2. CASE d # c
      BY <3>2, EndFacts DEF SiteInv, KeepOK, Keeps
    <3> QED BY <3>1, <3>2
  <2> QED BY <2>1, <2>2
<1> QED BY <1>1, <1>2, <1>3, EndFacts DEF SiteInv

-----------------------------------------------------------------------------
(* One lemma per action *)

LEMMA InvSave == ASSUME SiteInv, Save PROVE SiteInv'
<1>1. PICK s \in Chosen :
        /\ saves < MaxSaves
        /\ saves' = saves + 1
        /\ row' = [kept |-> s, panels |-> Manual]
        /\ choice' = s
        /\ overtook' = {c \in Calls : at[c] \in {"syncing", "resolving", "storing"}}
        /\ stale' = FALSE
        /\ UNCHANGED <<profile, live, at, base, offer, prompt, answer, faults>>
  BY DEF Save
<1>2. row' \in Rows /\ row'.kept = s
  BY <1>1, ChosenIsRow
<1>3. TypeOK'
  <2>1. saves' \in 0 .. MaxSaves
    BY <1>1, SiteBoundsAssumption DEF SiteInv, TypeOK
  <2>2. overtook' \subseteq Calls /\ stale' \in BOOLEAN /\ choice' \in Chosen \union {Nil}
    BY <1>1
  <2>3. /\ profile' \in Profiles \union {NoProfile} /\ live' \subseteq Panels
        /\ at' \in [Calls -> {"idle", "syncing", "resolving", "storing", "structuring"}]
        /\ base' \in [Calls -> Rows \union {NoRow}] /\ offer' \in [Calls -> Rows \union {NoRow}]
        /\ prompt' \in [Calls -> Prompts \union {Nil}]
        /\ answer' \in Answers /\ faults' \in 0 .. MaxFaults
    BY <1>1 DEF SiteInv, TypeOK
  <2> QED BY <1>2, <2>1, <2>2, <2>3 DEF TypeOK
<1>4. HashOK' /\ AnswerOK' /\ PromptsOK' /\ OffersOK'
  BY <1>1 DEF SiteInv, HashOK, AnswerOK, PromptsOK, OffersOK
<1>5. OvertookOK'
  BY <1>1 DEF OvertookOK, Reading
<1>6. KeepOK'
  BY <1>1, <1>2, RowIsRow DEF KeepOK, Keeps, Reading
<1> QED BY <1>3, <1>4, <1>5, <1>6 DEF SiteInv

LEMMA InvRead == ASSUME SiteInv, NEW c \in Calls, Read(c) PROVE SiteInv'
<1>1. PICK kind \in Reading : at' = [at EXCEPT ![c] = kind]
  BY DEF Read, Reading
<1>2. /\ at[c] = "idle" /\ base' = [base EXCEPT ![c] = row]
      /\ UNCHANGED <<row, profile, live, offer, prompt, answer, choice, overtook, stale, saves, faults>>
  BY DEF Read
<1>3. TypeOK'
  BY <1>1, <1>2 DEF SiteInv, TypeOK, Reading
<1>4. c \notin overtook
  BY <1>2 DEF SiteInv, OvertookOK, Reading
<1>5. /\ at'[c] = kind /\ base'[c] = row
      /\ \A d \in Calls \ {c} : at'[d] = at[d] /\ base'[d] = base[d]
  BY <1>1, <1>2 DEF SiteInv, TypeOK
<1>6. HashOK' /\ AnswerOK' /\ PromptsOK' /\ OffersOK'
  BY <1>2, <1>5 DEF SiteInv, HashOK, AnswerOK, PromptsOK, OffersOK, Reading
<1>7. OvertookOK'
  BY <1>2, <1>4, <1>5 DEF SiteInv, OvertookOK
<1>8. KeepOK'
  <2> SUFFICES ASSUME choice # Nil, ~stale
               PROVE  /\ Keeps(row)'
                      /\ \A d \in Calls \ overtook : /\ at'[d] \in Reading => Keeps(base[d])'
                                                     /\ at'[d] = "storing" => Keeps(offer[d])'
    BY <1>2 DEF KeepOK
  <2>1. Keeps(row)'
    BY <1>2 DEF SiteInv, KeepOK, Keeps
  <2>2. ASSUME NEW d \in Calls \ overtook
        PROVE  /\ at'[d] \in Reading => Keeps(base[d])'
               /\ at'[d] = "storing" => Keeps(offer[d])'
    <3>1. CASE d = c
      BY <3>1, <1>2, <1>5, <2>1 DEF Reading, Keeps
    <3>2. CASE d # c
      BY <3>2, <1>2, <1>5 DEF SiteInv, KeepOK, Keeps
    <3> QED BY <3>1, <3>2
  <2> QED BY <2>1, <2>2
<1> QED BY <1>3, <1>6, <1>7, <1>8 DEF SiteInv

LEMMA InvFetch == ASSUME SiteInv, NEW c \in Calls, Fetch(c) PROVE SiteInv'
<1>1. CASE ~Complete(live)
  <2>1. Fine(Is("stored"))
    BY DEF Fine, Is, Answers
  <2>2. Done(c, Is("stored")) /\ UNCHANGED <<row, profile, live, choice, stale, saves, faults>>
    BY <1>1 DEF Fetch
  <2> QED BY <2>1, <2>2, InvEnds DEF SiteInv, TypeOK
<1>2. CASE Complete(live)
  <2>1. PICK r \in Fetched(live, base[c]) : offer' = [offer EXCEPT ![c] = r]
    BY <1>2 DEF Fetch
  <2>2. /\ at[c] \in Reading /\ at' = [at EXCEPT ![c] = "storing"]
        /\ base' = [base EXCEPT ![c] = NoRow]
        /\ UNCHANGED <<row, profile, live, prompt, answer, choice, overtook, stale, saves, faults>>
    BY <1>2 DEF Fetch, Reading
  <2>3. /\ r \in Rows
        /\ base[c] # NoRow => \A f \in Kept : Told(Panels, f) = {} /\ base[c].kept[f] # Nil =>
                                  r.kept[f] = base[c].kept[f]
    <3>1. live \in SUBSET Panels /\ base[c] \in Rows \union {NoRow}
      BY DEF SiteInv, TypeOK
    <3> QED BY <3>1, FetchedFacts
  <2>4. TypeOK'
    BY <2>1, <2>2, <2>3 DEF SiteInv, TypeOK
  <2>5. /\ at'[c] = "storing" /\ offer'[c] = r
        /\ \A d \in Calls \ {c} : at'[d] = at[d] /\ base'[d] = base[d] /\ offer'[d] = offer[d]
    BY <2>1, <2>2 DEF SiteInv, TypeOK
  <2>6. HashOK' /\ AnswerOK' /\ PromptsOK'
    BY <2>2, <2>5 DEF SiteInv, HashOK, AnswerOK, PromptsOK
  <2>7. OffersOK' /\ OvertookOK'
    BY <2>2, <2>3, <2>5, RowIsRow DEF SiteInv, OffersOK, OvertookOK
  <2>8. KeepOK'
    <3> SUFFICES ASSUME choice # Nil, ~stale
                 PROVE  /\ Keeps(row)'
                        /\ \A d \in Calls \ overtook : /\ at'[d] \in Reading => Keeps(base[d])'
                                                       /\ at'[d] = "storing" => Keeps(offer[d])'
      BY <2>2 DEF KeepOK
    <3>1. Keeps(row)'
      BY <2>2 DEF SiteInv, KeepOK, Keeps
    <3>2. ASSUME NEW d \in Calls \ overtook
          PROVE  /\ at'[d] \in Reading => Keeps(base[d])'
                 /\ at'[d] = "storing" => Keeps(offer[d])'
      <4>1. CASE d = c
        <5>1. Keeps(base[c])
          BY <2>2, <4>1 DEF SiteInv, KeepOK
        <5>2. Keeps(r)'
          BY <5>1, <2>2, <2>3, RowIsRow DEF Keeps
        <5> QED BY <4>1, <2>5, <5>2 DEF Reading, Keeps
      <4>2. CASE d # c
        BY <4>2, <2>2, <2>5 DEF SiteInv, KeepOK, Keeps
      <4> QED BY <4>1, <4>2
    <3> QED BY <3>1, <3>2
  <2> QED BY <2>4, <2>6, <2>7, <2>8 DEF SiteInv
<1> QED BY <1>1, <1>2

LEMMA InvFetchFails == ASSUME SiteInv, NEW c \in Calls, FetchFails(c) PROVE SiteInv'
<1>1. Fine(Is("warned")) /\ Fine(Is("raised"))
  BY DEF Fine, Is, Answers
<1>2. faults' \in 0 .. MaxFaults
  BY SiteBoundsAssumption DEF FetchFails, SiteInv, TypeOK
<1>3. CASE at[c] = "resolving" /\ base[c] # NoRow
  <2>1. Done(c, Is("warned")) /\ UNCHANGED <<row, profile, live, choice, stale, saves>>
    BY <1>3 DEF FetchFails
  <2> QED BY <1>1, <1>2, <2>1, InvEnds
<1>4. CASE ~(at[c] = "resolving" /\ base[c] # NoRow)
  <2>1. Done(c, Is("raised")) /\ UNCHANGED <<row, profile, live, choice, stale, saves>>
    BY <1>4 DEF FetchFails
  <2> QED BY <1>1, <1>2, <2>1, InvEnds
<1> QED BY <1>3, <1>4

LEMMA InvRaises == ASSUME SiteInv, NEW c \in Calls, Raises(c) PROVE SiteInv'
<1>1. Fine(Is("raised"))
  BY DEF Fine, Is, Answers
<1>2. faults' \in 0 .. MaxFaults
  BY SiteBoundsAssumption DEF Raises, SiteInv, TypeOK
<1> QED BY <1>1, <1>2, InvEnds DEF Raises

(* A call that read its row before the save makes the rest void; another   *)
(* writes a row that keeps.                                                *)
LEMMA InvStore == ASSUME SiteInv, NEW c \in Calls, Store(c) PROVE SiteInv'
<1>1. Fine(Is("fetched"))
  BY DEF Fine, Is, Answers
<1>2. /\ at[c] = "storing" /\ row' = offer[c] /\ stale' = (stale \/ c \in overtook)
      /\ Done(c, Is("fetched"))
      /\ UNCHANGED <<profile, live, choice, saves, faults>>
  BY DEF Store
<1>3. TypeOK'
  BY <1>1, <1>2, EndFacts DEF SiteInv, TypeOK
<1>4. HashOK'
  BY <1>2 DEF SiteInv, HashOK
<1>5. KeepOK'
  <2> SUFFICES ASSUME choice # Nil, ~stale, c \notin overtook
               PROVE  /\ Keeps(row)'
                      /\ \A d \in Calls \ overtook' : /\ at'[d] \in Reading => Keeps(base[d])'
                                                      /\ at'[d] = "storing" => Keeps(offer[d])'
    BY <1>2 DEF KeepOK
  <2>1. Keeps(row)'
    <3>1. Keeps(offer[c])
      BY <1>2 DEF SiteInv, KeepOK
    <3> QED BY <3>1, <1>2 DEF Keeps
  <2>2. ASSUME NEW d \in Calls \ overtook'
        PROVE  /\ at'[d] \in Reading => Keeps(base[d])'
               /\ at'[d] = "storing" => Keeps(offer[d])'
    <3>1. CASE d = c
      BY <3>1, <1>1, <1>2, EndFacts DEF Reading
    <3>2. CASE d # c
      <4>1. at'[d] = at[d] /\ base'[d] = base[d] /\ offer'[d] = offer[d] /\ d \notin overtook
        BY <3>2, <1>1, <1>2, EndFacts
      <4> QED BY <4>1, <1>2 DEF SiteInv, KeepOK, Keeps
    <3> QED BY <3>1, <3>2
  <2> QED BY <2>1, <2>2
<1> QED BY <1>1, <1>2, <1>3, <1>4, <1>5, EndFacts DEF SiteInv

(* An unchanged prompt is one whose hash is stored: the profile is of it.  *)
LEMMA InvAsk == ASSUME SiteInv, NEW c \in Calls, Ask(c) PROVE SiteInv'
<1>1. PICK p \in Prompts, force \in BOOLEAN :
        /\ at[c] = "idle"
        /\ IF profile # NoProfile /\ CurrentHash = p /\ ~force
           THEN /\ answer' = [is |-> "profile", asked |-> p, made |-> profile.made]
                /\ UNCHANGED <<at, prompt>>
           ELSE /\ at' = [at EXCEPT ![c] = "structuring"]
                /\ prompt' = [prompt EXCEPT ![c] = p]
                /\ UNCHANGED answer
        /\ UNCHANGED <<metadata, profile, live, faults>>
  BY DEF Ask
<1>2. UNCHANGED <<row, base, offer, choice, overtook, stale, saves, profile, live, faults>>
  BY <1>1 DEF metadata
<1>3. HashOK'
  BY <1>2 DEF SiteInv, HashOK
<1>4. CASE profile # NoProfile /\ CurrentHash = p /\ ~force
  <2>1. answer' = [is |-> "profile", asked |-> p, made |-> profile.made] /\ UNCHANGED <<at, prompt>>
    BY <1>1, <1>4
  <2>2. profile.made = p /\ profile.made \in Prompts
    BY <1>4 DEF SiteInv, TypeOK, HashOK, CurrentHash, Profiles
  <2>3. answer' \in Answers /\ AnswerOK'
    BY <2>1, <2>2 DEF Answers, AnswerOK
  <2> QED BY <1>2, <1>3, <2>1, <2>3 DEF SiteInv, TypeOK, PromptsOK, OvertookOK, OffersOK, KeepOK, Keeps
<1>5. CASE ~(profile # NoProfile /\ CurrentHash = p /\ ~force)
  <2>1. /\ at' = [at EXCEPT ![c] = "structuring"]
        /\ prompt' = [prompt EXCEPT ![c] = p]
        /\ UNCHANGED answer
    BY <1>1, <1>5
  <2>2. TypeOK'
    BY <1>2, <2>1 DEF SiteInv, TypeOK
  <2>3. /\ at'[c] = "structuring" /\ prompt'[c] = p
        /\ \A d \in Calls \ {c} : at'[d] = at[d] /\ prompt'[d] = prompt[d]
    BY <2>1 DEF SiteInv, TypeOK
  <2>4. AnswerOK' /\ PromptsOK' /\ OffersOK'
    BY <1>2, <2>1, <2>3 DEF SiteInv, AnswerOK, PromptsOK, OffersOK
  <2>5. c \notin overtook
    BY <1>1 DEF SiteInv, OvertookOK, Reading
  <2>6. OvertookOK'
    BY <1>2, <2>3, <2>5 DEF SiteInv, OvertookOK
  <2>7. KeepOK'
    BY <1>2, <2>3 DEF SiteInv, KeepOK, Keeps, Reading
  <2> QED BY <1>3, <2>2, <2>4, <2>6, <2>7 DEF SiteInv
<1> QED BY <1>4, <1>5

LEMMA InvSaveProfile == ASSUME SiteInv, NEW c \in Calls, SaveProfile(c) PROVE SiteInv'
<1>1. /\ at[c] = "structuring" /\ profile' = Upserted(c)
      /\ Done(c, [is |-> "profile", asked |-> prompt[c], made |-> profile'.made])
      /\ UNCHANGED <<row, live, choice, stale, saves, faults>>
  BY DEF SaveProfile
<1>2. prompt[c] \in Prompts
  BY <1>1 DEF SiteInv, PromptsOK
<1>3. /\ profile' \in Profiles /\ profile'.made = prompt[c]
      /\ profile'.prompt = prompt[c] /\ profile'.hash = prompt[c]
  BY <1>1, <1>2 DEF Upserted, Profiles
<1>4. Fine([is |-> "profile", asked |-> prompt[c], made |-> profile'.made])
  BY <1>2, <1>3 DEF Fine, Answers
<1>5. HashOK'
  BY <1>3 DEF HashOK
<1>6. TypeOK'
  BY <1>1, <1>3, <1>4, EndFacts DEF SiteInv, TypeOK
<1>7. KeepOK'
  <2> SUFFICES ASSUME choice # Nil, ~stale
               PROVE  /\ Keeps(row)'
                      /\ \A d \in Calls \ overtook' : /\ at'[d] \in Reading => Keeps(base[d])'
                                                      /\ at'[d] = "storing" => Keeps(offer[d])'
    BY <1>1 DEF KeepOK
  <2>1. Keeps(row)'
    BY <1>1 DEF SiteInv, KeepOK, Keeps
  <2>2. ASSUME NEW d \in Calls \ overtook'
        PROVE  /\ at'[d] \in Reading => Keeps(base[d])'
               /\ at'[d] = "storing" => Keeps(offer[d])'
    <3>1. CASE d = c
      BY <3>1, <1>1, <1>4, EndFacts DEF Reading
    <3>2. CASE d # c
      <4>1. at'[d] = at[d] /\ base'[d] = base[d] /\ offer'[d] = offer[d] /\ d \notin overtook
        BY <3>2, <1>1, <1>4, EndFacts
      <4> QED BY <4>1, <1>1 DEF SiteInv, KeepOK, Keeps
    <3> QED BY <3>1, <3>2
  <2> QED BY <2>1, <2>2
<1> QED BY <1>1, <1>4, <1>5, <1>6, <1>7, EndFacts DEF SiteInv

LEMMA InvPanels == ASSUME SiteInv, PanelChanges PROVE SiteInv'
<1>1. live' \subseteq Panels
  BY DEF PanelChanges, SiteInv, TypeOK
<1>2. UNCHANGED <<row, base, offer, choice, overtook, stale, saves, profile, at, prompt, answer, faults>>
  BY DEF PanelChanges, metadata
<1> QED BY <1>1, <1>2 DEF SiteInv, TypeOK, HashOK, AnswerOK, PromptsOK, OvertookOK, OffersOK, KeepOK, Keeps

LEMMA InvNext == SiteInv /\ [Next]_vars => SiteInv'
<1> SUFFICES ASSUME SiteInv, [Next]_vars PROVE SiteInv'
  OBVIOUS
<1>1. CASE UNCHANGED vars
  BY <1>1 DEF vars, metadata, SiteInv, TypeOK, HashOK, AnswerOK, PromptsOK, OvertookOK, OffersOK, KeepOK, Keeps
<1>2. CASE Next
  BY <1>2, InvSave, InvPanels, InvRead, InvFetch, InvFetchFails, InvStore, InvAsk, InvSaveProfile, InvRaises
     DEF Next
<1> QED BY <1>1, <1>2

LEMMA InvAlways == Spec => []SiteInv
BY InvInit, InvNext, PTL DEF Spec

-----------------------------------------------------------------------------
(* The rows, profiles and answers keep their shape. *)
THEOREM SiteTypeCorrect == Spec => []TypeOK
<1>1. SiteInv => TypeOK
  BY DEF SiteInv
<1> QED BY <1>1, InvAlways, PTL

(* However syncs and forecasts overlap with an operator's save, a field    *)
(* the operator chose and no panel reports is lost only to a call that     *)
(* read its row before the save and wrote after it                         *)
(* (site_metadata_service.py:78 and 92).                                   *)
THEOREM OperatorsChoiceIsKept == Spec => []ChoiceKept
<1>1. SiteInv => ChoiceKept
  <2> SUFFICES ASSUME SiteInv, choice # Nil, ~stale, NEW f \in Kept,
                      choice[f] # Nil, Told(Panels, f) = {}
               PROVE  row.kept[f] = choice[f]
    BY DEF ChoiceKept
  <2> QED BY DEF SiteInv, KeepOK, Keeps
<1> QED BY <1>1, InvAlways, PTL

(* The stored profile is of the stored prompt, and a caller gets one of    *)
(* the prompt asked for, whatever calls overlap, fail or find a row        *)
(* without a hash (site_load_profile_service.py:33-84).                    *)
THEOREM ProfilesAreTrue == Spec => []ProfileOfItsPrompt
<1>1. SiteInv => ProfileOfItsPrompt
  BY DEF SiteInv, HashOK, AnswerOK, ProfileOfItsPrompt
<1> QED BY <1>1, InvAlways, PTL

-----------------------------------------------------------------------------
(* The pages of GET /api/control/commands *)

Requests == OperatorRequests \union RuleRequests

\* What a reader may be told.
Names == Actions \union {Upper[type] : type \in DOMAIN Upper}

ListTypeOK ==
    /\ asked \in [Commands -> Requests \union {NoRequest}]
    /\ count \in 0 .. MaxCommands
    /\ \A c \in 1 .. count : asked[c] \in Requests
    /\ dropped \in 0 .. count
    /\ kept \subseteq dropped + 1 .. count
    /\ reader \in [at : {"idle", "reading", "done"}, filter : Filters,
                   size : Nat \ {0}, page : Nat \ {0}]
    /\ start \subseteq 1 .. count
    /\ told \in [Commands -> Names \union {"none"}]

StillKept == {c \in start : c > dropped}

(* A row that matched and that no page has told has at least as many newer *)
(* ones before it as the pages so far skip: writing adds to them, dropping *)
(* takes older ones only.                                                  *)
ListInv ==
    /\ ListTypeOK
    /\ \A c \in Commands : told[c] # "none" => c <= count /\ told[c] = ToldAs(asked[c].action)
    /\ reader.at = "reading" => StillKept \subseteq Matching(reader.filter)
    /\ reader.at = "reading" =>
          \A c \in StillKept : told[c] = "none" =>
              Cardinality(Before(c, Matching(reader.filter))) >= Offset(reader.page, reader.size)
    /\ reader.at = "done" => \A c \in StillKept : told[c] # "none"

(* A non-empty set of numbers with a bound has a largest one. *)
LEMMA LargestExists ==
    ASSUME NEW n \in Nat, NEW S \in SUBSET (0 .. n), S # {}
    PROVE  \E m \in S : \A s \in S : s <= m
<1> DEFINE T == {k \in Nat : \A s \in S : s <= k}
<1>1. n \in T
  OBVIOUS
<1>2. PICK k \in T : \A j \in T : ~(<<j, k>> \in OpToRel(<, Nat))
  <2> HIDE DEF T
  <2> T \subseteq Nat
    BY DEF T
  <2> QED BY <1>1, WFMin, NatLessThanWellFounded
<1>3. \A j \in T : ~(j < k)
  BY <1>2 DEF OpToRel
<1>4. ASSUME k \notin S PROVE FALSE
  <2>1. \A s \in S : s < k
    BY <1>4
  <2>2. k > 0
    <3>1. PICK s \in S : TRUE
      OBVIOUS
    <3>2. s \in Nat
      BY <3>1
    <3>3. k \in Nat
      BY <1>2
    <3>4. s < k
      BY <3>1, <2>1
    <3> QED BY <3>2, <3>3, <3>4
  <2>3. k - 1 \in T
    BY <2>1, <2>2
  <2> QED BY <2>3, <1>3
<1> QED BY <1>4

LEMMA SmallestExists ==
    ASSUME NEW S \in SUBSET Nat, S # {}
    PROVE  \E m \in S : \A s \in S : m <= s
<1>1. PICK m \in S : \A s \in S : ~(<<s, m>> \in OpToRel(<, Nat))
  BY WFMin, NatLessThanWellFounded
<1>2. \A s \in S : ~(s < m)
  BY <1>1 DEF OpToRel
<1> QED BY <1>2

LEMMA CommandNumbers ==
    /\ Commands \subseteq 1 .. MaxCommands
    /\ \A c \in Commands : c \in Nat /\ c > 0
BY CommandsAssumption DEF Commands

LEMMA BeforeIsFinite ==
    ASSUME NEW S \in SUBSET Commands, NEW c
    PROVE  /\ IsFiniteSet(Before(c, S))
           /\ Cardinality(Before(c, S)) \in Nat
<1>1. IsFiniteSet(Commands)
  BY CommandsAssumption, FS_Interval DEF Commands
<1>2. Before(c, S) \in SUBSET Commands
  BY DEF Before
<1> QED BY <1>1, <1>2, FS_Subset, FS_CardinalityType

(* The rows before a row only become more with the table. *)
LEMMA BeforeGrows ==
    ASSUME NEW S \in SUBSET Commands, NEW T \in SUBSET S, NEW c
    PROVE  Cardinality(Before(c, T)) <= Cardinality(Before(c, S))
<1>1. Before(c, T) \in SUBSET Before(c, S)
  BY DEF Before
<1> QED BY <1>1, BeforeIsFinite, FS_Subset

(* When some row has enough rows before it, one has just that many. *)
LEMMA EachRankIsTaken ==
    ASSUME NEW S \in SUBSET Commands, NEW n \in Nat,
           NEW c \in S, Cardinality(Before(c, S)) >= n
    PROVE  \E d \in S : Cardinality(Before(d, S)) = n
<1> DEFINE T == {d \in S : Cardinality(Before(d, S)) >= n}
<1>1. PICK m \in T : \A d \in T : d <= m
  <2>1. T # {}
    OBVIOUS
  <2>2. S \subseteq 0 .. MaxCommands
    BY CommandsAssumption, CommandNumbers
  <2>3. T \in SUBSET (0 .. MaxCommands)
    BY <2>2
  <2> HIDE DEF T
  <2> QED BY <2>1, <2>3, LargestExists, CommandsAssumption
<1>2. ASSUME Cardinality(Before(m, S)) > n PROVE FALSE
  <2>1. Before(m, S) # {}
    BY <1>2, FS_EmptySet, BeforeIsFinite
  <2>2. PICK d \in Before(m, S) : \A s \in Before(m, S) : d <= s
    <3>1. Before(m, S) \in SUBSET Nat
      BY CommandNumbers DEF Before
    <3> QED BY <3>1, <2>1, SmallestExists
  <2>3. d \in S /\ d > m
    BY <2>2 DEF Before
  <2>4. Before(d, S) = Before(m, S) \ {d}
    <3>1. m \in Nat /\ d \in Nat /\ \A s \in S : s \in Nat
      BY <1>1, <2>3, CommandNumbers
    <3>2. ASSUME NEW s \in S PROVE s > d <=> (s > m /\ s # d)
      <4>1. s > m => d <= s
        BY <2>2 DEF Before
      <4> QED BY <4>1, <3>1, <2>3
    <3> QED BY <3>2 DEF Before
  <2>5. Cardinality(Before(d, S)) = Cardinality(Before(m, S)) - 1
    <3> DEFINE B == Before(m, S)
    <3>1. IsFiniteSet(B) /\ d \in B
      BY <2>2, BeforeIsFinite
    <3>2. Cardinality(B \ {d}) = Cardinality(B) - 1
      <4> HIDE DEF B
      <4> QED BY <3>1, FS_RemoveElement
    <3> QED BY <3>2, <2>4
  <2>6. Cardinality(Before(d, S)) >= n
    BY <2>5, <1>2, BeforeIsFinite
  <2>7. d \in T
    BY <2>3, <2>6
  <2> QED BY <2>7, <2>3, <1>1 DEF Commands
<1>3. Cardinality(Before(m, S)) >= n
  BY <1>1
<1>4. Cardinality(Before(m, S)) = n
  BY <1>2, <1>3, BeforeIsFinite
<1> QED BY <1>1, <1>4

LEMMA LimitIsPositive == ASSUME NEW size \in Nat \ {0} PROVE Limit(size) \in Nat \ {0}
BY SizesAssumption DEF Limit

LEMMA OffsetsFollow ==
    ASSUME NEW page \in Nat \ {0}, NEW size \in Nat \ {0}
    PROVE  /\ Offset(page, size) \in Nat
           /\ Offset(1, size) = 0
           /\ Offset(page + 1, size) = Offset(page, size) + Limit(size)
<1>1. PICK l \in Nat : l = Limit(size)
  BY LimitIsPositive
<1>2. PICK p \in Nat : page = p + 1
  <2>1. page - 1 \in Nat /\ page = (page - 1) + 1
    OBVIOUS
  <2> QED BY <2>1
<1>3. page - 1 = p /\ (page + 1) - 1 = p + 1 /\ 1 - 1 = 0
  BY <1>2
<1>4. p * l \in Nat /\ 0 * l = 0 /\ (p + 1) * l = p * l + l
  OBVIOUS
<1> QED BY <1>1, <1>3, <1>4 DEF Offset

LEMMA MatchingAreRows ==
    ASSUME ListTypeOK, NEW f
    PROVE  /\ Matching(f) \subseteq kept
           /\ Matching(f) \in SUBSET Commands
<1>1. kept \subseteq Commands
  <2>1. count \in Nat /\ dropped \in Nat /\ count <= MaxCommands
    BY CommandsAssumption DEF ListTypeOK
  <2> QED BY <2>1, CommandsAssumption DEF ListTypeOK, Commands
<1> QED BY <1>1 DEF Matching

(* A page is empty only when no row has enough before it to be on it or on *)
(* a later one.                                                            *)
LEMMA EmptyPageIsLast ==
    ASSUME ListTypeOK, NEW f, NEW page \in Nat \ {0}, NEW size \in Nat \ {0},
           NEW c \in Matching(f),
           Cardinality(Before(c, Matching(f))) >= Offset(page, size)
    PROVE  Page(f, page, size) # {}
<1>1. PICK d \in Matching(f) : Cardinality(Before(d, Matching(f))) = Offset(page, size)
  BY EachRankIsTaken, MatchingAreRows, OffsetsFollow
<1>2. Offset(page, size) < Offset(page, size) + Limit(size)
  BY OffsetsFollow, LimitIsPositive
<1>3. d \in Page(f, page, size)
  BY <1>1, <1>2, OffsetsFollow DEF Page
<1> QED BY <1>3

(* What an operator asked for and what a rule sent is told as ToldAs says, *)
(* by the way over command_type and payload.                               *)
LEMMA OperatorsAreTold ==
    ASSUME NEW a \in Actions
    PROVE  /\ ActionFromDb(StoredAs[a][1], StoredAs[a][2]) = ToldAs(a)
           /\ ToldAs(a) \in Names
           /\ ToldAs(a) # "none"
<1>1. Actions = {"START_CHARGE", "STOP_CHARGE", "START_DISCHARGE", "STOP_DISCHARGE", "STANDBY",
                 "START_GENERATOR", "STOP_GENERATOR", "SHED_LOAD", "RESTORE_LOAD",
                 "OPEN_SWITCH", "CLOSE_SWITCH", "SET_POWER_LIMIT"}
  BY DEF Actions, StoredAs
<1>2. ActionFromDb(StoredAs[a][1], StoredAs[a][2]) = ToldAs(a) /\ ToldAs(a) # "none"
  BY <1>1 DEF StoredAs, ActionFromDb, ToldAs
<1>3. ToldAs(a) \in Names
  BY <1>1 DEF ToldAs, Names
<1> QED BY <1>2, <1>3

LEMMA RulesAreTold ==
    ASSUME NEW a \in DOMAIN RuleOrders
    PROVE  /\ a \notin Actions
           /\ ActionFromDb(RuleOrders[a][1], RuleOrders[a][2]) = ToldAs(a)
           /\ ToldAs(a) \in Names
           /\ ToldAs(a) # "none"
<1>1. DOMAIN RuleOrders = {"ESS_CHARGE", "ESS_DISCHARGE", "ESS_STANDBY", "DIESEL_START",
                           "DIESEL_STOP", "DIESEL_LOAD", "SOLAR_LIMIT", "SOLAR_CLEAR"}
  BY DEF RuleOrders
<1>2. Actions = {"START_CHARGE", "STOP_CHARGE", "START_DISCHARGE", "STOP_DISCHARGE", "STANDBY",
                 "START_GENERATOR", "STOP_GENERATOR", "SHED_LOAD", "RESTORE_LOAD",
                 "OPEN_SWITCH", "CLOSE_SWITCH", "SET_POWER_LIMIT"}
  BY DEF Actions, StoredAs
<1>3. DOMAIN Upper = {"ess_mode", "load_control", "curtailment", "clear_curtailment"}
  BY DEF Upper
<1>4. a \notin Actions
  BY <1>1, <1>2
<1>5. ActionFromDb(RuleOrders[a][1], RuleOrders[a][2]) = ToldAs(a) /\ ToldAs(a) # "none"
  BY <1>1 DEF RuleOrders, ActionFromDb, ToldAs, Upper
<1>6. ToldAs(a) \in Names
  BY <1>1, <1>2, <1>3 DEF ToldAs, Names, Upper
<1> QED BY <1>4, <1>5, <1>6

LEMMA ActionsAreTold ==
    ASSUME NEW r \in Requests
    PROVE  LET s == StoredOrder(r.action) IN
           /\ ActionFromDb(s[1], s[2]) = ToldAs(r.action)
           /\ ToldAs(r.action) \in Names
           /\ ToldAs(r.action) # "none"
<1>1. r.action \in Actions \/ r.action \in DOMAIN RuleOrders
  BY RequestsAssumption DEF Requests
<1> QED BY <1>1, OperatorsAreTold, RulesAreTold DEF StoredOrder

-----------------------------------------------------------------------------
(* Each step *)

LEMMA CountFacts ==
    ASSUME ListTypeOK
    PROVE  /\ count \in Nat /\ dropped \in Nat /\ count <= MaxCommands /\ dropped <= count
           /\ 1 .. count \subseteq Commands
           /\ kept \subseteq 1 .. count
           /\ \A c \in kept : c > dropped
<1>1. count \in Nat /\ dropped \in Nat /\ count <= MaxCommands /\ dropped <= count
  BY CommandsAssumption DEF ListTypeOK
<1> QED BY <1>1, CommandsAssumption DEF ListTypeOK, Commands

(* A command that is stamped changes nothing of the earlier ones. *)
LEMMA StampAdds ==
    ASSUME ListTypeOK, NEW r \in Requests, Stamp(r)
    PROVE  /\ count' = count + 1 /\ count + 1 \in Commands /\ count \in Nat
           /\ asked' \in [Commands -> Requests \union {NoRequest}]
           /\ \A c \in 1 .. count' : asked'[c] \in Requests
           /\ \A c \in 1 .. count : c # count + 1 /\ c \in 1 .. count' /\ asked'[c] = asked[c]
           /\ UNCHANGED <<dropped, reader, start, told>>
<1>1. /\ count' = count + 1 /\ count + 1 \in Commands /\ count \in Nat
      /\ \A c \in 1 .. count : c # count + 1 /\ c \in Commands /\ c \in 1 .. count + 1
      /\ \A c \in 1 .. count + 1 : c \in Commands /\ (c \in 1 .. count \/ c = count + 1)
  BY CountFacts, CommandsAssumption DEF Stamp, ListTypeOK, Commands
<1>2. asked' = [asked EXCEPT ![count + 1] = r] /\ UNCHANGED <<dropped, reader, start, told>>
  BY DEF Stamp
<1>3. \A c \in 1 .. count' : asked'[c] \in Requests
  BY <1>1, <1>2 DEF ListTypeOK
<1> QED BY <1>1, <1>2, <1>3 DEF ListTypeOK

(* What was told is of commands stamped before. *)
LEMMA ToldStaysTrue ==
    ASSUME ListInv, NEW r \in Requests, Stamp(r)
    PROVE  \A c \in Commands : told'[c] # "none" => c <= count' /\ told'[c] = ToldAs(asked'[c].action)
<1> SUFFICES ASSUME NEW c \in Commands, told[c] # "none"
             PROVE  c <= count' /\ told[c] = ToldAs(asked'[c].action)
  BY StampAdds DEF ListInv
<1>1. ListTypeOK /\ c <= count /\ told[c] = ToldAs(asked[c].action)
  BY DEF ListInv
<1>2. c \in 1 .. count
  BY <1>1, CountFacts, CommandNumbers
<1> QED BY <1>1, <1>2, StampAdds, CountFacts, CommandNumbers

LEMMA IssueKeeps == ASSUME ListInv, NEW r \in OperatorRequests, Issue(r) PROVE ListInv'
<1>1. ListTypeOK /\ r \in Requests /\ Stamp(r) /\ kept' = kept
  BY DEF ListInv, Issue, Requests
<1>2. ListTypeOK'
  <2>1. count' \in 0 .. MaxCommands /\ dropped' \in 0 .. count' /\ 1 .. count \subseteq 1 .. count'
        /\ kept' \subseteq dropped' + 1 .. count'
    BY <1>1, StampAdds, CountFacts, CommandsAssumption DEF ListTypeOK, Commands
  <2> QED BY <1>1, <2>1, StampAdds DEF ListTypeOK
<1>3. \A f : Matching(f)' = Matching(f)
  BY <1>1, StampAdds, CountFacts DEF Matching
<1> QED BY <1>1, <1>2, <1>3, StampAdds, ToldStaysTrue DEF ListInv, StillKept, Before, Offset, Limit

(* With more rows, no row has fewer newer ones before it. *)
LEMMA MoreBefore ==
    ASSUME ListInv, reader.at = "reading", reader' = reader, ListTypeOK',
           \A f : Matching(f) \subseteq Matching(f)',
           NEW d \in StillKept, told[d] = "none"
    PROVE  Cardinality(Before(d, Matching(reader.filter)')) >= Offset(reader.page, reader.size)
<1>1. ListTypeOK /\ kept' \subseteq Commands
  <2>1. ListTypeOK
    BY DEF ListInv
  <2>2. count' \in 0 .. MaxCommands /\ dropped' \in 0 .. count'
        /\ kept' \subseteq dropped' + 1 .. count'
    BY DEF ListTypeOK
  <2>3. \A n \in 0 .. MaxCommands : \A m \in 0 .. n : m + 1 .. n \subseteq 1 .. MaxCommands
    BY CommandsAssumption
  <2> QED BY <2>1, <2>2, <2>3 DEF Commands
<1>2. \A f : Matching(f)' \in SUBSET Commands
  BY <1>1 DEF Matching
<1>3. Cardinality(Before(d, Matching(reader.filter)))
        <= Cardinality(Before(d, Matching(reader.filter)'))
  BY <1>2, BeforeGrows
<1>4. Cardinality(Before(d, Matching(reader.filter))) >= Offset(reader.page, reader.size)
  BY DEF ListInv
<1>5. /\ Cardinality(Before(d, Matching(reader.filter))) \in Nat
      /\ Cardinality(Before(d, Matching(reader.filter)')) \in Nat
      /\ Offset(reader.page, reader.size) \in Nat
  <2>1. reader.page \in Nat \ {0} /\ reader.size \in Nat \ {0}
    BY <1>1 DEF ListTypeOK
  <2> QED BY <2>1, <1>1, <1>2, MatchingAreRows, BeforeIsFinite, OffsetsFollow
<1> QED BY <1>3, <1>4, <1>5

LEMMA InsertRuleKeeps ==
    ASSUME ListInv, NEW r \in RuleRequests, InsertRuleCommand(r) PROVE ListInv'
<1>1. ListTypeOK /\ r \in Requests /\ Stamp(r) /\ kept' = kept \union {count + 1}
  BY DEF ListInv, InsertRuleCommand, Requests
<1>2. ListTypeOK'
  <2>1. /\ count' \in 0 .. MaxCommands /\ dropped' \in 0 .. count' /\ 1 .. count \subseteq 1 .. count'
        /\ kept' \subseteq dropped' + 1 .. count'
    BY <1>1, StampAdds, CountFacts, CommandsAssumption DEF ListTypeOK, Commands
  <2> QED BY <1>1, <2>1, StampAdds DEF ListTypeOK
<1>3. \A f : Matching(f) \subseteq Matching(f)'
  BY <1>1, StampAdds, CountFacts DEF Matching
<1>4. ASSUME reader.at = "reading", NEW d \in StillKept, told[d] = "none"
      PROVE  Cardinality(Before(d, Matching(reader.filter)')) >= Offset(reader.page, reader.size)
  BY <1>1, <1>2, <1>3, <1>4, StampAdds, MoreBefore
<1> QED BY <1>1, <1>2, <1>3, <1>4, StampAdds, ToldStaysTrue
        DEF ListInv, StillKept, Before, Offset, Limit

LEMMA WriteKeeps == ASSUME ListInv, NEW c \in Commands, Write(c) PROVE ListInv'
<1> USE DEF Write
<1>1. ListTypeOK
  BY DEF ListInv
<1>2. ListTypeOK'
  BY <1>1 DEF ListTypeOK
<1>3. \A f : Matching(f) \subseteq Matching(f)'
  BY DEF Matching
<1>4. ASSUME reader.at = "reading", NEW d \in StillKept, told[d] = "none"
      PROVE  Cardinality(Before(d, Matching(reader.filter)')) >= Offset(reader.page, reader.size)
  BY <1>2, <1>3, <1>4, MoreBefore
<1> QED BY <1>2, <1>3, <1>4 DEF ListInv, StillKept, Before, Offset, Limit

LEMMA DropKeeps == ASSUME ListInv, NEW c \in Commands, Drop(c) PROVE ListInv'
<1> USE DEF Drop
<1>1. ListTypeOK
  BY DEF ListInv
<1>2. c \in Nat /\ c > dropped /\ c <= count
  BY <1>1, CountFacts, CommandNumbers DEF ListTypeOK
<1>3. ListTypeOK'
  <2>1. dropped' \in 0 .. count' /\ kept' \subseteq dropped' + 1 .. count'
    BY <1>1, <1>2, CountFacts
  <2> QED BY <1>1, <2>1 DEF ListTypeOK
<1>4. StillKept' \subseteq StillKept /\ \A d \in StillKept' : d > c
  <2>1. dropped \in Nat /\ \A d \in start : d \in Nat
    BY <1>1, CountFacts DEF ListTypeOK
  <2>2. StillKept' = {d \in start : d > c}
    BY DEF StillKept
  <2>3. \A d \in start : d > c => d > dropped
    BY <2>1, <1>2
  <2> QED BY <2>2, <2>3 DEF StillKept
<1>5. \A f : \A d \in StillKept' : d \in Matching(f) => d \in Matching(f)'
  BY <1>4 DEF Matching
<1>6. \A f : \A d \in StillKept' : Before(d, Matching(f)') = Before(d, Matching(f))
  <2> SUFFICES ASSUME NEW f, NEW d \in StillKept' PROVE Before(d, Matching(f)') = Before(d, Matching(f))
    OBVIOUS
  <2>1. d > c /\ d \in Nat
    BY <1>1, <1>4, CountFacts DEF StillKept, ListTypeOK
  <2>2. \A e \in kept : e \in Nat /\ (e > d => e > c)
    BY <2>1, <1>1, <1>2, CountFacts
  <2> QED BY <2>2 DEF Before, Matching
<1> HIDE DEF Drop
<1>7. UNCHANGED <<asked, count, reader, start, told>>
  BY DEF Drop
<1> QED BY <1>3, <1>4, <1>5, <1>6, <1>7 DEF ListInv, Before, Offset, Limit

LEMMA StartKeeps ==
    ASSUME ListInv, NEW f \in Filters, NEW size \in PageSizes, StartListing(f, size)
    PROVE  ListInv'
<1> USE DEF StartListing
<1>1. ListTypeOK
  BY DEF ListInv
<1>2. size \in Nat \ {0}
  BY SizesAssumption
<1>3. ListTypeOK'
  <2>1. start' \subseteq 1 .. count
    BY <1>1, MatchingAreRows, CountFacts
  <2> QED BY <1>1, <1>2, <2>1 DEF ListTypeOK
<1>4. Matching(f)' = Matching(f)
  BY DEF Matching
<1>5. \A d : Cardinality(Before(d, Matching(f)')) >= Offset(1, size)
  BY <1>1, <1>2, <1>4, MatchingAreRows, BeforeIsFinite, OffsetsFollow
<1>6. StillKept' \subseteq Matching(f)
  BY DEF StillKept
<1> QED BY <1>3, <1>4, <1>5, <1>6 DEF ListInv, Before, Offset, Limit

LEMMA GetPageKeeps == ASSUME ListInv, GetPage PROVE ListInv'
<1> DEFINE f == reader.filter
           page == RequestedPage
<1>1. /\ ListTypeOK /\ reader.at = "reading"
      /\ told' = [c \in Commands |-> IF c \in page THEN ListedAction(c) ELSE told[c]]
      /\ reader' = IF page = {} THEN [reader EXCEPT !.at = "done"] ELSE [reader EXCEPT !.page = @ + 1]
      /\ UNCHANGED <<asked, count, kept, dropped, start>>
  BY DEF ListInv, GetPage
<1>2. /\ reader.page \in Nat \ {0} /\ reader.size \in Nat \ {0}
  BY <1>1, SizesAssumption DEF ListTypeOK
<1>3. page \subseteq Matching(f)
  BY DEF RequestedPage, Page
<1>4. \A c \in page : /\ c \in Commands /\ c <= count /\ ListedAction(c) = ToldAs(asked[c].action)
                      /\ ListedAction(c) \in Names /\ ListedAction(c) # "none"
  <2> SUFFICES ASSUME NEW c \in page
               PROVE  /\ c \in Commands /\ c <= count /\ ListedAction(c) = ToldAs(asked[c].action)
                      /\ ListedAction(c) \in Names /\ ListedAction(c) # "none"
    OBVIOUS
  <2>1. c \in 1 .. count /\ c \in Commands
    BY <1>1, <1>3, MatchingAreRows, CountFacts
  <2>2. asked[c] \in Requests
    BY <2>1, <1>1 DEF ListTypeOK
  <2> QED BY <2>1, <2>2, <1>1, CountFacts, ActionsAreTold DEF ListedAction
<1> HIDE DEF page
<1>5. ListTypeOK'
  <2>1. told' \in [Commands -> Names \union {"none"}]
    BY <1>1, <1>4 DEF ListTypeOK
  <2>2. reader' \in [at : {"idle", "reading", "done"}, filter : Filters, size : Nat \ {0}, page : Nat \ {0}]
    BY <1>1, <1>2 DEF ListTypeOK
  <2> QED BY <1>1, <2>1, <2>2 DEF ListTypeOK
<1>6. \A c \in Commands : told'[c] # "none" => c <= count' /\ told'[c] = ToldAs(asked'[c].action)
  BY <1>1, <1>4 DEF ListInv
<1>7. StillKept' = StillKept /\ StillKept \subseteq Matching(f) /\ StillKept \subseteq Commands
      /\ \A g : Matching(g)' = Matching(g)
  <2>1. StillKept \subseteq Matching(f)
    BY <1>1 DEF ListInv
  <2> QED BY <2>1, <1>1, MatchingAreRows DEF StillKept, Matching
<1>8. \A c \in StillKept : told'[c] = "none" => told[c] = "none" /\ c \notin page
  BY <1>1, <1>4, <1>7
<1>9. CASE page = {}
  <2>1. ASSUME NEW c \in StillKept, told[c] = "none" PROVE FALSE
    <3>1. c \in Matching(f)
      BY <2>1, <1>7
    <3>2. Cardinality(Before(c, Matching(f))) >= Offset(reader.page, reader.size)
      BY <1>1, <2>1 DEF ListInv
    <3> QED BY <1>1, <1>2, <1>9, <3>1, <3>2, EmptyPageIsLast DEF page, RequestedPage
  <2>2. reader'.at = "done"
    BY <1>1, <1>9 DEF ListTypeOK
  <2> QED BY <2>1, <2>2, <1>5, <1>6, <1>7, <1>8 DEF ListInv
<1>10. CASE page # {}
  <2>1. reader'.at = "reading" /\ reader'.filter = f /\ reader'.size = reader.size
        /\ reader'.page = reader.page + 1
    BY <1>1, <1>10 DEF ListTypeOK
  <2>2. ASSUME NEW c \in StillKept, told'[c] = "none"
        PROVE  Cardinality(Before(c, Matching(f))) >= Offset(reader.page + 1, reader.size)
    <3>1. c \in Matching(f) /\ told[c] = "none" /\ c \notin Page(f, reader.page, reader.size)
      BY <1>7, <1>8, <2>2 DEF page, RequestedPage
    <3>2. Cardinality(Before(c, Matching(f))) >= Offset(reader.page, reader.size)
      BY <1>1, <2>2, <3>1 DEF ListInv
    <3>3. ~(Cardinality(Before(c, Matching(f))) < Offset(reader.page, reader.size) + Limit(reader.size))
      BY <3>1, <3>2 DEF Page
    <3>4. /\ Cardinality(Before(c, Matching(f))) \in Nat
          /\ Offset(reader.page, reader.size) \in Nat /\ Limit(reader.size) \in Nat
          /\ Offset(reader.page + 1, reader.size) = Offset(reader.page, reader.size) + Limit(reader.size)
      BY <1>1, <1>2, MatchingAreRows, BeforeIsFinite, OffsetsFollow, LimitIsPositive
    <3> QED BY <3>3, <3>4
  <2> QED BY <2>1, <2>2, <1>5, <1>6, <1>7 DEF ListInv, Before, Offset, Limit
<1> QED BY <1>9, <1>10

LEMMA ListInitially == ListInit => ListInv
<1> SUFFICES ASSUME ListInit PROVE ListInv
  OBVIOUS
<1>1. ListTypeOK
  BY CommandsAssumption DEF ListInit, ListTypeOK, Filters
<1> QED BY <1>1 DEF ListInit, ListInv

(* The list keeps, in every run and for any page sizes, the inductive      *)
(* invariant that the next page begins where the last one ended, however   *)
(* rows come and go between them.                                          *)
THEOREM ListInvariant == ListSpec => []ListInv
<1>1. ListInit => ListInv
  BY ListInitially
<1>2. ListInv /\ [ListNext]_listVars => ListInv'
  <2> SUFFICES ASSUME ListInv, [ListNext]_listVars PROVE ListInv'
    OBVIOUS
  <2>1. CASE UNCHANGED listVars
    BY <2>1 DEF listVars, ListInv, ListTypeOK, StillKept, Matching, Before, Offset, Limit
  <2>2. CASE \E r \in OperatorRequests : Issue(r)
    BY <2>2, IssueKeeps
  <2>6. CASE \E r \in RuleRequests : InsertRuleCommand(r)
    BY <2>6, InsertRuleKeeps
  <2>3. CASE \E c \in Commands : Write(c) \/ Drop(c)
    BY <2>3, WriteKeeps, DropKeeps
  <2>4. CASE \E f \in Filters, size \in PageSizes : StartListing(f, size)
    BY <2>4, StartKeeps
  <2>5. CASE GetPage
    BY <2>5, GetPageKeeps
  <2> QED BY <2>1, <2>2, <2>3, <2>4, <2>5, <2>6 DEF ListNext
<1> QED BY <1>1, <1>2, PTL DEF ListSpec

(* A reader who came to an empty page was told of all commands, of         *)
(* operators and of rules, that matched when it began and are kept, each   *)
(* by the name ToldAs gives it.                                            *)
THEOREM ListingsAreWhole == ListSpec => []ListingIsWhole
<1>1. ListInv => ListingIsWhole
  <2> SUFFICES ASSUME ListInv, reader.at = "done", NEW c \in start, c > dropped
               PROVE  told[c] = ToldAs(asked[c].action)
    BY DEF ListingIsWhole
  <2>1. c \in Commands
    BY CountFacts DEF ListInv, ListTypeOK
  <2> QED BY <2>1 DEF ListInv, StillKept
<1> QED BY <1>1, ListInvariant, PTL

(* A page goes on where the last one ended: what the pages so far skip has *)
(* been told.                                                              *)
THEOREM NumberedPagesGoOn == ListSpec => []PagesGoOn
<1>1. ListInv => PagesGoOn
  <2> SUFFICES ASSUME ListInv, reader.at = "reading", NEW c \in start \intersect kept, told[c] = "none"
               PROVE  ~(Cardinality(Before(c, Matching(reader.filter))) < Offset(reader.page, reader.size))
    BY DEF PagesGoOn
  <2>1. c \in StillKept
    BY CountFacts DEF ListInv, StillKept
  <2>2. Cardinality(Before(c, Matching(reader.filter))) >= Offset(reader.page, reader.size)
    BY <2>1 DEF ListInv
  <2>3. /\ Cardinality(Before(c, Matching(reader.filter))) \in Nat
        /\ Offset(reader.page, reader.size) \in Nat
    <3>1. ListTypeOK
      BY DEF ListInv
    <3>2. reader.page \in Nat \ {0} /\ reader.size \in Nat \ {0}
      BY <3>1 DEF ListTypeOK
    <3> QED BY <3>1, <3>2, MatchingAreRows, BeforeIsFinite, OffsetsFollow
  <2> QED BY <2>2, <2>3
<1> QED BY <1>1, ListInvariant, PTL
=============================================================================
