-------------------------- MODULE RuleMemoryProofs --------------------------
(***************************************************************************)
(* What the control rules remember agrees with what was told: the          *)
(* inductive invariant of RuleMemory, and the properties it carries.       *)
(***************************************************************************)
EXTENDS RuleMemory, TLAPS

-----------------------------------------------------------------------------
(* Types *)

(* What the assumption on the constants says in the form the steps use. *)
LEMMA ConstantFacts ==
    /\ InMemory \subseteq Alerts /\ LastingDeficit \in Alerts /\ LastingDeficit \notin InMemory
    /\ \A s \in Alerts : s \notin Sheddable
    /\ Threshold \in Nat /\ Hold \in Nat /\ MaxWorldChanges \in Nat /\ MaxFailures \in Nat
    /\ Threshold > 0 /\ Hold > 0
BY RuleMemoryAssumption

(* A counter with a bound stays within it, whatever it counts. *)
LEMMA CountTyped ==
    ASSUME MemoryTypeOK, NEW a \in Alerts
    PROVE  Counted(a) \in 0 .. Threshold
BY ConstantFacts DEF MemoryTypeOK, Counted, Capped

LEMMA ShedTimesTyped == MemoryTypeOK => ShedTimes \in [Sheddable -> 0 .. Hold \union {NotShed}]
<1> SUFFICES ASSUME MemoryTypeOK, NEW l \in Sheddable
             PROVE  (IF l \in ToRestore \/ shedAt[l] = NotShed THEN (IF l \in ToShed THEN 0 ELSE NotShed)
                     ELSE Capped(shedAt[l] + 1, Hold)) \in 0 .. Hold \union {NotShed}
  BY DEF ShedTimes
<1>1. shedAt[l] \in 0 .. Hold \union {NotShed}
  BY DEF MemoryTypeOK
<1> QED BY <1>1, ConstantFacts DEF Capped, NotShed

(* An exception ends the cycle and counts as a failure. *)
LEMMA AbortTyped ==
    ASSUME MemoryTypeOK, NEW lost \in SUBSET Subject, NEW unsent, Abort(lost, unsent)
    PROVE  /\ phase' \in {"idle", "judging", "publishing"} /\ todo' \subseteq Alerts
           /\ command' \in Commands /\ events' \subseteq Subject \X {"raised", "over"}
           /\ dropped' \subseteq Subject /\ forgotten' \in BOOLEAN
           /\ failures' \in 0 .. MaxFailures
<1>1. failures' \in 0 .. MaxFailures
  BY ConstantFacts DEF MemoryTypeOK, Abort, Fails
<1>2. forgotten' \in BOOLEAN
  BY DEF MemoryTypeOK, Abort
<1> QED BY <1>1, <1>2 DEF MemoryTypeOK, Abort, Commands

LEMMA SubjectsTyped == MemoryTypeOK => Subjects(events) \subseteq Subject
BY DEF MemoryTypeOK, Subjects

LEMMA PublishedTyped == ASSUME MemoryTypeOK, NEW e \in events PROVE Published(e) \subseteq Subject
BY DEF MemoryTypeOK, Published

LEMMA TypeInit == MemoryInit => MemoryTypeOK
<1> SUFFICES ASSUME MemoryInit PROVE MemoryTypeOK
  OBVIOUS
<1>1. shedAt \in [Sheddable -> 0 .. Hold \union {NotShed}]
  BY DEF MemoryInit
<1>2. events \subseteq Subject \X {"raised", "over"}
  BY DEF MemoryInit
<1>3. /\ count \in 0 .. Threshold /\ worldChanges \in 0 .. MaxWorldChanges /\ failures \in 0 .. MaxFailures
  BY ConstantFacts DEF MemoryInit
<1> QED BY <1>1, <1>2, <1>3 DEF MemoryInit, MemoryTypeOK, Commands

LEMMA TypeCycle == ASSUME MemoryTypeOK, RuleCycle PROVE MemoryTypeOK'
<1>1. CASE Begin
  <2>1. events' \subseteq Subject \X {"raised", "over"}
    BY <1>1, ConstantFacts DEF MemoryTypeOK, Begin, Raised, Over, Subject, ToShed, ToRestore,
                               Preventive, Noted, Raises
  <2>2. command' \in Commands
    BY <1>1 DEF Begin, SolarCommand, Commands
  <2> QED BY <1>1, <2>1, <2>2, ShedTimesTyped, ConstantFacts
          DEF MemoryTypeOK, Begin, CurtailmentKey, world, solarPlant
<1>2. ASSUME NEW a \in Alerts, Judge(a) PROVE MemoryTypeOK'
  <2>1. events' \subseteq Subject \X {"raised", "over"}
    BY <1>2 DEF MemoryTypeOK, Judge, Append, Raised, Subject
  <2> QED BY <1>2, <2>1, CountTyped DEF MemoryTypeOK, Judge, world, solarPlant
<1>3. CASE Send
  BY <1>3 DEF MemoryTypeOK, Send, world, notes, Commands
<1>4. ASSUME NEW e \in events, Publish(e) PROVE MemoryTypeOK'
  BY <1>4, PublishedTyped DEF MemoryTypeOK, Publish, world, notes, solarPlant
<1>5. CASE Finish
  BY <1>5 DEF MemoryTypeOK, Finish, world, notes, solarPlant, story
<1> QED BY <1>1, <1>2, <1>3, <1>4, <1>5 DEF RuleCycle

LEMMA TypeNext == MemoryTypeOK /\ [MemoryNext]_memoryVars => MemoryTypeOK'
<1> SUFFICES ASSUME MemoryTypeOK, [MemoryNext]_memoryVars PROVE MemoryTypeOK'
  OBVIOUS
<1>1. CASE WorldChanges
  <2>1. /\ bad' \subseteq Alerts /\ unjudged' \subseteq Alerts
        /\ surplus' \in BOOLEAN /\ canCharge' \in BOOLEAN
        /\ low' \subseteq Sheddable /\ short' \subseteq Sheddable
    BY <1>1, ConstantFacts DEF MemoryTypeOK, WorldChanges
  <2>2. worldChanges' \in 0 .. MaxWorldChanges
    BY <1>1, ConstantFacts DEF MemoryTypeOK, WorldChanges
  <2> QED BY <1>1, <2>1, <2>2 DEF MemoryTypeOK, WorldChanges, cycle, notes, solarPlant, story
<1>2. CASE RuleCycle
  BY <1>2, TypeCycle
<1>3. CASE BeginFails
  <2>1. failures' \in 0 .. MaxFailures
    BY <1>3, ConstantFacts DEF MemoryTypeOK, BeginFails, Fails
  <2>2. forgotten' \in BOOLEAN /\ curtailed' \in BOOLEAN
    BY <1>3 DEF MemoryTypeOK, BeginFails, CurtailmentKey
  <2> QED BY <1>3, <2>1, <2>2 DEF MemoryTypeOK, BeginFails, world, cycle, solarPlant
<1>4. ASSUME NEW a \in Alerts, JudgeFails(a) PROVE MemoryTypeOK'
  <2>1. Subjects(events) \union {a} \subseteq Subject
    BY SubjectsTyped DEF Subject
  <2>2. count' \in 0 .. Threshold /\ keys' \subseteq Alerts
    BY <1>4, CountTyped DEF MemoryTypeOK, JudgeFails
  <2> QED BY <1>4, <2>1, <2>2, AbortTyped DEF MemoryTypeOK, JudgeFails, world, solarPlant
<1>5. ASSUME NEW a \in Alerts, KeyExpires(a) PROVE MemoryTypeOK'
  BY <1>5 DEF MemoryTypeOK, KeyExpires, world, cycle, solarPlant
<1>6. CASE SendFails
  BY <1>6, SubjectsTyped, AbortTyped DEF MemoryTypeOK, SendFails, world, notes, solarPlant
<1>7. ASSUME NEW e \in events, PublishFails(e) PROVE MemoryTypeOK'
  BY <1>7, SubjectsTyped, PublishedTyped, AbortTyped DEF MemoryTypeOK, PublishFails, world, notes, solarPlant
<1>8. CASE SolarObeys
  BY <1>8 DEF MemoryTypeOK, SolarObeys, world, cycle, notes, story, Commands
<1>9. CASE SolarOrderGivenUp
  <2>1. failures' \in 0 .. MaxFailures
    BY <1>9, ConstantFacts DEF MemoryTypeOK, SolarOrderGivenUp, Fails
  <2> QED BY <1>9, <2>1 DEF MemoryTypeOK, SolarOrderGivenUp, world, cycle, notes, Commands
<1>10. CASE RulesRestart
  <2>1. Subjects(events) \union (told \intersect Sheddable) \union InMemory \subseteq Subject
    BY SubjectsTyped, ConstantFacts DEF Subject
  <2>2. shedAt' \in [Sheddable -> 0 .. Hold \union {NotShed}]
    BY <1>10 DEF RulesRestart
  <2> QED BY <1>10, <2>1, <2>2, AbortTyped DEF MemoryTypeOK, RulesRestart, world, Commands
<1>11. CASE UNCHANGED memoryVars
  BY <1>11 DEF MemoryTypeOK, memoryVars, world, cycle, notes, solarPlant, story
<1> QED BY <1>1, <1>2, <1>3, <1>4, <1>5, <1>6, <1>7, <1>8, <1>9, <1>10, <1>11 DEF MemoryNext

(* Types are kept. *)
THEOREM TypeCorrect == MemorySpec => []MemoryTypeOK
<1> QED BY TypeInit, TypeNext, PTL DEF MemorySpec

-----------------------------------------------------------------------------
(* Safety *)

LEMMA IInvInit == MemoryInit => IInv
BY ConstantFacts DEF MemoryInit, IInv, CycleOK, NotesAgree, EventsAgree, LimitAgrees, LimitIsKnown, Noted, NotShed

(* The loads newly noted, and those no longer noted, at the start of a     *)
(* cycle.                                                                  *)
LEMMA NotedAtBegin ==
    ASSUME MemoryTypeOK, shedAt' = ShedTimes
    PROVE  /\ ToShed \subseteq Sheddable \ Noted /\ ToRestore \subseteq Noted
           /\ Noted' = (Noted \union ToShed) \ ToRestore
<1>1. ToShed \subseteq Sheddable \ Noted
  BY DEF MemoryTypeOK, ToShed, Preventive
<1>2. ToRestore \subseteq Noted
  BY DEF ToRestore
<1>3. ASSUME NEW l \in Sheddable PROVE l \in Noted' <=> l \in (Noted \union ToShed) \ ToRestore
  <2>1. shedAt[l] \in 0 .. Hold \union {NotShed}
    BY DEF MemoryTypeOK
  <2>2. shedAt'[l] = IF l \in ToRestore \/ shedAt[l] = NotShed
                     THEN (IF l \in ToShed THEN 0 ELSE NotShed) ELSE Capped(shedAt[l] + 1, Hold)
    BY DEF ShedTimes
  <2> QED BY <1>1, <1>2, <2>1, <2>2, ConstantFacts DEF Noted, Capped, NotShed
<1> QED BY <1>1, <1>2, <1>3 DEF Noted

LEMMA IInvBegin == ASSUME MemoryTypeOK, IInv, Begin PROVE IInv'
<1>1. /\ phase = "idle" /\ events = {} /\ command = "none"
  BY DEF Begin, IInv, CycleOK
<1>2. /\ ToShed \subseteq Sheddable \ Noted /\ ToRestore \subseteq Noted
      /\ Noted' = (Noted \union ToShed) \ ToRestore /\ Noted \subseteq Sheddable
  BY NotedAtBegin DEF Begin, Noted
<1>3. /\ \A s \in Subject : Raised(s) \in events' <=> s \in ToShed \/ (s \in InMemory /\ Raises(s))
      /\ \A s \in Subject : Over(s) \in events' <=> s \in ToRestore
  BY DEF Begin, Raised, Over
<1>4. /\ keys \union Noted \subseteq told \union dropped
      /\ told \subseteq keys \union Noted \union dropped
  BY <1>1 DEF IInv, NotesAgree
<1>5. CycleOK'
  BY <1>1, ConstantFacts DEF Begin, CycleOK
<1>6. NotesAgree'
  BY <1>2, <1>3, <1>4, ConstantFacts DEF Begin, NotesAgree, Raises, IsAlerted, Subject, MemoryTypeOK
<1>7. EventsAgree'
  BY <1>2, <1>3, <1>4, ConstantFacts DEF Begin, EventsAgree, Raises, IsAlerted, Subject, MemoryTypeOK
<1>8. LimitAgrees'
  BY <1>1 DEF Begin, IInv, LimitAgrees, LimitIsKnown, SolarCommand, CurtailmentKey, solarPlant
<1> QED BY <1>5, <1>6, <1>7, <1>8 DEF IInv

LEMMA IInvJudge == ASSUME MemoryTypeOK, IInv, NEW a \in Alerts, Judge(a) PROVE IInv'
<1>1. /\ phase = "judging" /\ a \in todo /\ a \notin InMemory /\ a \in Subject /\ a \notin Sheddable
      /\ todo' = todo \ {a}
  BY ConstantFacts DEF Judge, IInv, CycleOK, Subject
<1>2. Noted' = Noted /\ Noted \subseteq Sheddable
  BY DEF Judge, Noted
<1>3. /\ \A s \in Subject : Raised(s) \in events' <=>
            Raised(s) \in events \/ (s = a /\ Holds(a) /\ a \notin keys)
      /\ \A s \in Subject : Over(s) \in events' <=> Over(s) \in events
  BY DEF Judge, Raised, Over, Append, IsAlerted
<1>4. Raised(a) \notin events /\ Over(a) \notin events
  BY <1>1 DEF IInv, EventsAgree
<1>5. CycleOK'
  BY <1>1 DEF Judge, IInv, CycleOK
<1>6. NotesAgree'
  BY <1>1, <1>2, <1>3, <1>4 DEF Judge, IInv, NotesAgree
<1>7. EventsAgree'
  BY <1>1, <1>2, <1>3, <1>4 DEF Judge, IInv, EventsAgree, NotesAgree
<1>8. LimitAgrees'
  BY DEF Judge, IInv, LimitAgrees, LimitIsKnown, solarPlant
<1> QED BY <1>5, <1>6, <1>7, <1>8 DEF IInv

LEMMA IInvSend == ASSUME MemoryTypeOK, IInv, Send PROVE IInv'
<1>1. Noted' = Noted
  BY DEF Send, notes, Noted
<1>2. CycleOK'
  BY DEF Send, IInv, CycleOK
<1>3. NotesAgree'
  BY <1>1 DEF Send, IInv, NotesAgree, notes
<1>4. EventsAgree'
  BY <1>1 DEF Send, IInv, EventsAgree, notes
<1>5. LimitAgrees'
  BY DEF Send, IInv, LimitAgrees, LimitIsKnown, notes, MemoryTypeOK, Commands
<1> QED BY <1>2, <1>3, <1>4, <1>5 DEF IInv

LEMMA IInvPublish == ASSUME MemoryTypeOK, IInv, NEW e \in events, Publish(e) PROVE IInv'
<1>1. PICK s \in Subject : e = Raised(s) \/ e = Over(s)
  BY DEF MemoryTypeOK, Raised, Over
<1>2. /\ phase = "publishing" /\ command = "none" /\ e[1] = s
      /\ e = Raised(s) => told' = told \union {s}
      /\ e = Over(s) => told' = told \ {s}
  BY <1>1 DEF Publish, Published, Raised, Over, IInv, CycleOK
<1>3. Noted' = Noted
  BY DEF Publish, notes, Noted
<1>4. /\ \A r \in Subject : Raised(r) \in events' <=> Raised(r) \in events /\ e # Raised(r)
      /\ \A r \in Subject : Over(r) \in events' <=> Over(r) \in events /\ e # Over(r)
      /\ \A r \in Subject : r # s => e # Raised(r) /\ e # Over(r)
  BY <1>1 DEF Publish, Raised, Over
<1>5. /\ e = Raised(s) => s \in keys \union Noted /\ Over(s) \notin events
      /\ e = Over(s) => s \in Sheddable \ Noted /\ s \notin keys /\ Raised(s) \notin events
  BY <1>1, ConstantFacts DEF IInv, EventsAgree, MemoryTypeOK, Noted
<1>6. CycleOK'
  BY DEF Publish, IInv, CycleOK
<1>7. NotesAgree'
  BY <1>1, <1>2, <1>3, <1>4, <1>5 DEF Publish, IInv, NotesAgree, notes
<1>8. EventsAgree'
  BY <1>1, <1>2, <1>3, <1>4, <1>5 DEF Publish, IInv, EventsAgree, notes
<1>9. LimitAgrees'
  BY DEF Publish, IInv, LimitAgrees, LimitIsKnown, notes, solarPlant
<1> QED BY <1>6, <1>7, <1>8, <1>9 DEF IInv

(* What was in hand when an exception came counts as dropped: what is      *)
(* noted and what was told need no event any more.                         *)
LEMMA IInvAbort ==
    ASSUME MemoryTypeOK, IInv, NEW lost, NEW unsent, Abort(lost, unsent),
           Subjects(events) \subseteq lost,
           keys' \union Noted' \subseteq keys \union Noted \union lost,
           told \ told' \subseteq lost, told' \subseteq told \union lost,
           keys \ keys' \subseteq lost, Noted \ Noted' \subseteq lost \union (Sheddable \ told),
           curtailed' = curtailed, limited' = limited,
           command \in unsent,
           solarOrder' = solarOrder \/ (solarOrder' = "none" /\ solarOrder \in unsent)
    PROVE  IInv'
<1>1. \A s \in Subject : Raised(s) \in events \/ Over(s) \in events => s \in lost
  BY DEF Subjects, Raised, Over
<1>2. events' = {} /\ todo' = {} /\ command' = "none" /\ phase' = "idle" /\ dropped' = dropped \union lost
  BY DEF Abort
<1>3. CycleOK'
  BY <1>2 DEF CycleOK
<1>4. NotesAgree'
  BY <1>1, <1>2 DEF IInv, NotesAgree
<1>5. EventsAgree'
  BY <1>2 DEF EventsAgree
<1>6. LimitAgrees'
  BY <1>2 DEF Abort, IInv, LimitAgrees, LimitIsKnown
<1> QED BY <1>3, <1>4, <1>5, <1>6 DEF IInv

LEMMA IInvNext == MemoryTypeOK /\ IInv /\ [MemoryNext]_memoryVars => IInv'
<1> SUFFICES ASSUME MemoryTypeOK, IInv, [MemoryNext]_memoryVars PROVE IInv'
  OBVIOUS
<1>1. CASE WorldChanges
  BY <1>1 DEF WorldChanges, cycle, notes, solarPlant, story, IInv, CycleOK, NotesAgree, EventsAgree,
              LimitAgrees, LimitIsKnown, Noted
<1>2. CASE RuleCycle
  <2>1. CASE Finish
    <3>1. Noted' = Noted
      BY <2>1 DEF Finish, notes, Noted
    <3>2. CycleOK' /\ LimitAgrees'
      BY <2>1 DEF Finish, notes, solarPlant, story, IInv, CycleOK, LimitAgrees, LimitIsKnown
    <3>3. NotesAgree' /\ EventsAgree'
      BY <2>1, <3>1 DEF Finish, notes, story, IInv, NotesAgree, EventsAgree
    <3> QED BY <3>2, <3>3 DEF IInv
  <2> QED BY <1>2, <2>1, IInvBegin, IInvJudge, IInvSend, IInvPublish DEF RuleCycle
<1>3. CASE BeginFails
  <2>1. Noted' = Noted /\ command = "none"
    BY <1>3 DEF BeginFails, Noted, IInv, CycleOK
  <2>2. CycleOK' /\ NotesAgree' /\ EventsAgree'
    BY <1>3, <2>1 DEF BeginFails, cycle, IInv, CycleOK, NotesAgree, EventsAgree
  <2>3. LimitAgrees'
    BY <1>3, <2>1 DEF BeginFails, cycle, solarPlant, CurtailmentKey, IInv, LimitAgrees, LimitIsKnown, MemoryTypeOK
  <2> QED BY <2>2, <2>3 DEF IInv
<1>4. ASSUME NEW a \in Alerts, JudgeFails(a) PROVE IInv'
  <2>1. Noted' = Noted
    BY <1>4 DEF JudgeFails, Noted
  <2>2. keys' \subseteq keys \union {a} /\ keys \ keys' \subseteq {a}
    BY <1>4 DEF JudgeFails
  <2> QED BY <1>4, <2>1, <2>2, IInvAbort DEF JudgeFails, solarPlant
<1>5. ASSUME NEW a \in Alerts, KeyExpires(a) PROVE IInv'
  <2>1. events = {} /\ Noted' = Noted /\ a \notin Noted
    BY <1>5, ConstantFacts DEF KeyExpires, Noted, IInv, CycleOK
  <2>2. CycleOK' /\ LimitAgrees'
    BY <1>5 DEF KeyExpires, cycle, solarPlant, IInv, CycleOK, LimitAgrees, LimitIsKnown
  <2>3. NotesAgree'
    BY <1>5, <2>1 DEF KeyExpires, cycle, IInv, NotesAgree
  <2>4. EventsAgree'
    BY <1>5, <2>1 DEF KeyExpires, cycle, EventsAgree
  <2> QED BY <2>2, <2>3, <2>4 DEF IInv
<1>6. CASE SendFails
  <2>1. Noted' = Noted
    BY <1>6 DEF SendFails, notes, Noted
  <2> QED BY <1>6, <2>1, IInvAbort DEF SendFails, notes, solarPlant
<1>7. ASSUME NEW e \in events, PublishFails(e) PROVE IInv'
  <2>1. Noted' = Noted
    BY <1>7 DEF PublishFails, notes, Noted
  <2>2. e[1] \in Subjects(events)
    BY DEF Subjects
  <2>3. told' \subseteq told \union Subjects(events) /\ told \ told' \subseteq Subjects(events)
    BY <1>7, <2>2 DEF PublishFails, Published
  <2> QED BY <1>7, <2>1, <2>3, IInvAbort DEF PublishFails, notes, solarPlant
<1>8. CASE SolarObeys
  <2>1. Noted' = Noted
    BY <1>8 DEF SolarObeys, notes, Noted
  <2>2. CycleOK'
    BY <1>8 DEF SolarObeys, cycle, IInv, CycleOK
  <2>3. NotesAgree' /\ EventsAgree'
    BY <1>8, <2>1 DEF SolarObeys, cycle, notes, story, IInv, NotesAgree, EventsAgree
  <2>4. LimitAgrees'
    BY <1>8 DEF SolarObeys, cycle, notes, story, IInv, LimitAgrees, LimitIsKnown, MemoryTypeOK, Commands
  <2> QED BY <2>2, <2>3, <2>4 DEF IInv
<1>9. CASE SolarOrderGivenUp
  <2>1. Noted' = Noted
    BY <1>9 DEF SolarOrderGivenUp, notes, Noted
  <2>2. CycleOK' /\ NotesAgree' /\ EventsAgree'
    BY <1>9, <2>1 DEF SolarOrderGivenUp, cycle, notes, IInv, CycleOK, NotesAgree, EventsAgree
  <2>3. LimitAgrees'
    BY <1>9 DEF SolarOrderGivenUp, cycle, notes, IInv, LimitAgrees, LimitIsKnown
  <2> QED BY <2>2, <2>3 DEF IInv
<1>10. CASE RulesRestart
  <2>1. Noted' = {}
    BY <1>10 DEF RulesRestart, Noted
  <2>2. Noted \subseteq Sheddable
    BY DEF Noted
  <2> QED BY <1>10, <2>1, <2>2, IInvAbort DEF RulesRestart
<1>11. CASE UNCHANGED memoryVars
  BY <1>11 DEF memoryVars, cycle, notes, solarPlant, story, IInv, CycleOK, NotesAgree, EventsAgree,
               LimitAgrees, LimitIsKnown, Noted
<1> QED BY <1>1, <1>2, <1>3, <1>4, <1>5, <1>6, <1>7, <1>8, <1>9, <1>10, <1>11 DEF MemoryNext

LEMMA IInvAlways == MemorySpec => []IInv
<1> QED BY IInvInit, IInvNext, TypeCorrect, PTL DEF MemorySpec

(* Between two cycles whatever is noted as raised was published, or is of  *)
(* the events that an exception or a restart dropped: nothing else loses   *)
(* one.                                                                    *)
THEOREM NotesAreTold == MemorySpec => []NotedIsTold
<1>1. MemoryTypeOK /\ IInv => NotedIsTold
  BY DEF IInv, CycleOK, NotesAgree, NotedIsTold
<1> QED BY <1>1, TypeCorrect, IInvAlways, PTL

(* A limit of the solar plant is never forgotten silently. *)
THEOREM LimitsAreKnown == MemorySpec => []LimitIsKnown
<1>1. IInv => LimitIsKnown
  BY DEF IInv, LimitAgrees
<1> QED BY <1>1, IInvAlways, PTL

(* Alerts, and the two recommendations about a load, take turns: an event  *)
(* is published once unless something was dropped before.                  *)
THEOREM PublicationsTakeTurns == MemorySpec => PublishedOnce
<1>1. MemoryTypeOK /\ IInv => \A e \in events : Timely(e)
  <2> SUFFICES ASSUME MemoryTypeOK, IInv, NEW e \in events PROVE Timely(e)
    OBVIOUS
  <2>1. PICK s \in Subject : e = Raised(s) \/ e = Over(s)
    BY DEF MemoryTypeOK, Raised, Over
  <2> QED BY <2>1 DEF Timely, IInv, EventsAgree, Raised, Over
<1>2. MemoryTypeOK /\ IInv /\ [MemoryNext]_memoryVars => [\A e \in events : Publish(e) => Timely(e)]_memoryVars
  BY <1>1
<1> QED BY <1>2, TypeCorrect, IInvAlways, PTL DEF MemorySpec, PublishedOnce
=============================================================================
