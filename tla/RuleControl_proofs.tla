-------------------------- MODULE RuleControl_proofs --------------------------
(***************************************************************************)
(* Proofs about RuleControl and the RuleEngine it extends, for every set   *)
(* of things, whatever their rules mention and their expressions compute,  *)
(* and all debounce times.                                                 *)
(***************************************************************************)
EXTENDS RuleControl, TLAPS

-----------------------------------------------------------------------------
(* A site update.                                                          *)

(* A strategy is stepped only as it answered, and then it knows which of   *)
(* its questions was the last one: PowerManager looks for no step up once  *)
(* somebody steps down.                                                    *)
LEMMA StepsWereAsked ==
  ASSUME NEW since, NEW down, NEW up, NEW o \in Outcomes(since, down, up)
  PROVE  /\ o.step = "Down" => down /\ o.askedDown /\ ~o.askedUp
         /\ o.step = "Up" => ~down /\ up /\ o.askedDown /\ o.askedUp
         /\ o.step \in {"Down", "Up", "Keep"}
BY DEF Outcomes, Outcome

-----------------------------------------------------------------------------
(* The subscriptions.                                                      *)

(* The things that the rules of present things mention.                    *)
Mentioned == UNION {Mentions[t] : t \in present \cap WithStrategy}

(* Every symbol of a rule is in the symbol table.                          *)
SymbolsAreKnown == \A t \in present : Mentions[t] \subseteq known

(* A thing with a strategy is subscribed to in the step in which it joins. *)
StrategiesAreHeard == present \cap WithStrategy \subseteq heard

(* What a rule mentions is subscribed to or waited for, but for what left. *)
MentionedAreWaitedFor == Mentioned \ left \subseteq heard \cup dependent

EngineInv ==
  /\ present \subseteq Things
  /\ SetsTellSubscriptions
  /\ SymbolsAreKnown
  /\ StrategiesAreHeard
  /\ MentionedAreWaitedFor

(* The engine starts with no thing and no subscription.                    *)
LEMMA InitEngineInv == EngineInit => EngineInv
BY DEF EngineInit, EngineInv, SetsTellSubscriptions, SymbolsAreKnown,
       StrategiesAreHeard, MentionedAreWaitedFor, Mentioned

(* What subscribeDependencies leaves behind when t has joined: every thing *)
(* that it waited for and that is there is subscribed to, and if t has a   *)
(* strategy, so is every thing with a symbol, or it is waited for.         *)
LEMMA SubscribeEffect ==
  ASSUME EngineInv, NEW t \in Things, ThingAdded(t)
  PROVE  /\ heard' = subscribed'
         /\ heard \subseteq heard' /\ heard' \subseteq present'
         /\ dependent' \cap present' = {}
         /\ dependent \subseteq heard' \cup dependent'
         /\ t \in WithStrategy => /\ t \in heard'
                                  /\ known' \subseteq heard' \cup dependent'
<1>. DEFINE first == dependent \cap present'
            waiting == (dependent \ first)
                         \cup (IF t \in WithStrategy
                               THEN NewDependencies(t, known', subscribed \cup first)
                               ELSE {})
            second == IF t \in WithStrategy THEN waiting \cap present' ELSE {}
<1>1. /\ dependent' = waiting \ second
      /\ subscribed' = subscribed \cup first \cup second
      /\ heard' = heard \cup ((first \cup second) \ subscribed)
  BY DEF ThingAdded, Subscribe
<1>2. /\ heard = subscribed /\ heard \subseteq present
      /\ dependent \cap present = {}
      /\ present' = present \cup {t}
  BY DEF EngineInv, SetsTellSubscriptions, ThingAdded
<1>3. first \subseteq present'
  OBVIOUS
<1>4. second \subseteq present'
  OBVIOUS
<1>5. CASE t \in WithStrategy
  <2>1. waiting = (dependent \ first) \cup ((known' \cup {t}) \ (subscribed \cup first))
    BY <1>5 DEF NewDependencies
  <2>2. second = waiting \cap present'
    BY <1>5
  <2>. HIDE DEF waiting, second, first
  <2>3. first = dependent \cap present'
    BY DEF first
  <2>. QED
    BY <1>1, <1>2, <2>1, <2>2, <2>3
<1>6. CASE t \notin WithStrategy
  <2>1. waiting = dependent \ first /\ second = {}
    BY <1>6
  <2>. HIDE DEF waiting, second, first
  <2>2. first = dependent \cap present'
    BY DEF first
  <2>. QED
    BY <1>1, <1>2, <2>1, <2>2, <1>6
<1>. QED
  BY <1>5, <1>6

(* RuleEngine's handler of thingAdded preserves the invariant.             *)
LEMMA ThingAddedEngineInv ==
  ASSUME EngineInv, NEW t \in Things, ThingAdded(t)
  PROVE  EngineInv'
<1>1. /\ present' = present \cup {t}
      /\ known' = known \cup Mentions[t]
      /\ left' = IF t \in WithStrategy THEN {} ELSE left
  BY DEF ThingAdded
<1>2. /\ heard' = subscribed'
      /\ heard \subseteq heard' /\ heard' \subseteq present'
      /\ dependent' \cap present' = {}
      /\ dependent \subseteq heard' \cup dependent'
      /\ t \in WithStrategy => /\ t \in heard'
                               /\ known' \subseteq heard' \cup dependent'
  BY SubscribeEffect
<1>3. SetsTellSubscriptions' /\ present' \subseteq Things
  BY <1>1, <1>2 DEF SetsTellSubscriptions, EngineInv
<1>4. SymbolsAreKnown'
  BY <1>1 DEF SymbolsAreKnown, EngineInv
<1>5. StrategiesAreHeard'
  BY <1>1, <1>2 DEF StrategiesAreHeard, EngineInv
<1>6. MentionedAreWaitedFor'
  <2>1. CASE t \in WithStrategy
    <3>1. Mentioned' \subseteq known'
      BY <1>4 DEF Mentioned, SymbolsAreKnown
    <3>. QED
      BY <2>1, <3>1, <1>2 DEF MentionedAreWaitedFor
  <2>2. CASE t \notin WithStrategy
    <3>1. Mentioned' = Mentioned /\ left' = left
      BY <2>2, <1>1 DEF Mentioned
    <3>2. Mentioned \ left \subseteq heard \cup dependent
      BY DEF EngineInv, MentionedAreWaitedFor
    <3>. QED
      BY <3>1, <3>2, <1>2 DEF MentionedAreWaitedFor
  <2>. QED
    BY <2>1, <2>2
<1>. QED
  BY <1>3, <1>4, <1>5, <1>6 DEF EngineInv

(* RuleEngine's handler of thingRemoved preserves the invariant.           *)
LEMMA ThingRemovedEngineInv ==
  ASSUME EngineInv, NEW t \in Things, ThingRemoved(t)
  PROVE  EngineInv'
<1>1. /\ present' = present \ {t}
      /\ subscribed' = subscribed \ {t} /\ heard' = heard \ {t}
      /\ left' = left \cup {t}
      /\ dependent' = dependent /\ known' = known
  BY DEF ThingRemoved
<1>2. SetsTellSubscriptions' /\ present' \subseteq Things
  BY <1>1 DEF SetsTellSubscriptions, EngineInv
<1>3. SymbolsAreKnown'
  BY <1>1 DEF SymbolsAreKnown, EngineInv
<1>4. StrategiesAreHeard'
  BY <1>1 DEF StrategiesAreHeard, EngineInv
<1>5. MentionedAreWaitedFor'
  <2>1. Mentioned' \subseteq Mentioned
    BY <1>1 DEF Mentioned
  <2>2. Mentioned \ left \subseteq heard \cup dependent
    BY DEF EngineInv, MentionedAreWaitedFor
  <2>. QED
    BY <1>1, <2>1, <2>2 DEF MentionedAreWaitedFor
<1>. QED
  BY <1>2, <1>3, <1>4, <1>5 DEF EngineInv

(* What a thing publishes disturbs no subscription.                        *)
LEMMA PublishEngineInv ==
  ASSUME EngineInv, NEW t \in Things, NEW v \in Values, Publish(t, v)
  PROVE  EngineInv'
<1>1. /\ present' = present /\ subscribed' = subscribed /\ heard' = heard
      /\ dependent' = dependent /\ left' = left
      /\ known \subseteq known'
  BY DEF Publish
<1>2. SetsTellSubscriptions' /\ present' \subseteq Things
  BY <1>1 DEF SetsTellSubscriptions, EngineInv
<1>3. SymbolsAreKnown'
  BY <1>1 DEF SymbolsAreKnown, EngineInv
<1>4. StrategiesAreHeard'
  BY <1>1 DEF StrategiesAreHeard, EngineInv
<1>5. MentionedAreWaitedFor'
  BY <1>1 DEF MentionedAreWaitedFor, Mentioned, EngineInv
<1>. QED
  BY <1>2, <1>3, <1>4, <1>5 DEF EngineInv

(* Steps that leave the engine alone.                                      *)
LEMMA UnchangedEngineInv ==
  ASSUME EngineInv, UNCHANGED engineVars
  PROVE  EngineInv'
BY DEF engineVars, EngineInv, SetsTellSubscriptions, SymbolsAreKnown,
       StrategiesAreHeard, MentionedAreWaitedFor, Mentioned

(* The inductive invariant of the engine.                                  *)
THEOREM EngineInvariant == Spec => []EngineInv
<1>1. Init => EngineInv
  BY InitEngineInv DEF Init
<1>2. EngineInv /\ [Next]_vars => EngineInv'
  <2>. SUFFICES ASSUME EngineInv, [Next]_vars
                PROVE  EngineInv'
    OBVIOUS
  <2>1. CASE SiteUpdates
    BY <2>1, UnchangedEngineInv DEF SiteUpdates, SiteUpdate
  <2>2. CASE \E t \in Things : Join(t)
    BY <2>2, ThingAddedEngineInv DEF Join
  <2>3. CASE \E t \in Things : Leave(t)
    BY <2>3, ThingRemovedEngineInv DEF Leave
  <2>4. CASE \E t \in Things : \E v \in Values : Report(t, v)
    BY <2>4, PublishEngineInv DEF Report
  <2>5. CASE UNCHANGED vars
    BY <2>5, UnchangedEngineInv DEF vars
  <2>. QED
    BY <2>1, <2>2, <2>3, <2>4, <2>5 DEF Next
<1>. QED
  BY <1>1, <1>2, PTL DEF Spec

(* RuleEngine's two sets tell its subscriptions, whatever joins, leaves    *)
(* and publishes, in whatever order.                                       *)
THEOREM SetsAreTruthful == Spec => []SetsTellSubscriptions
<1>1. EngineInv => SetsTellSubscriptions
  BY DEF EngineInv
<1>. QED
  BY <1>1, EngineInvariant, PTL

(* RuleEngine listens to all that is needed, up to what left and returned. *)
THEOREM NeededThingsAreHeard == Spec => []NeededAreHeardUntilTheyLeave
<1>1. EngineInv => NeededAreHeardUntilTheyLeave
  <2>. SUFFICES ASSUME EngineInv,
                       NEW t \in Needed, t \in present, t \notin left
                PROVE  t \in heard
    BY DEF NeededAreHeardUntilTheyLeave
  <2>1. CASE t \in WithStrategy
    BY <2>1 DEF EngineInv, StrategiesAreHeard
  <2>2. CASE t \notin WithStrategy
    <3>1. t \in Mentioned
      BY <2>2 DEF Needed, Mentioned
    <3>2. t \in heard \cup dependent
      BY <3>1 DEF EngineInv, MentionedAreWaitedFor
    <3>. QED
      BY <3>2 DEF EngineInv, SetsTellSubscriptions
  <2>. QED
    BY <2>1, <2>2
<1>. QED
  BY <1>1, EngineInvariant, PTL

-----------------------------------------------------------------------------
(* The latch.                                                              *)

(* RuleActuationStrategy: a thing is switched as the last request asks,    *)
(* for all expressions.                                                    *)
THEOREM SwitchingFollowsTheLatch == Spec => SwitchedAsAsked
<1>1. [Next]_vars => [state' # state /\ Plug \in present' => state' = nextState']_vars
  <2>. SUFFICES ASSUME Next, state' # state, Plug \in present'
                PROVE  state' = nextState'
    BY DEF vars
  <2>1. CASE SiteUpdates
    <3>1. PICK g \in GridPowers : \E o \in AnyOutcome(g) : SiteUpdate(g, o)
      BY <2>1 DEF SiteUpdates
    <3>2. PICK o \in AnyOutcome(g) : SiteUpdate(g, o)
      BY <3>1
    <3>3. Plug \in present
      BY <3>2 DEF SiteUpdate
    <3>4. o \in Outcomes(Elapsed, WantsToStepDown(g), WantsToStepUp(g))
      BY <3>2, <3>3 DEF AnyOutcome
    <3>5. /\ o.step = "Down" => WantsToStepDown(g) /\ o.askedDown /\ ~o.askedUp
          /\ o.step = "Up" => /\ WantsToStepUp(g) /\ o.askedDown /\ o.askedUp
          /\ o.step \in {"Down", "Up", "Keep"}
      BY <3>4, StepsWereAsked
    <3>6. /\ nextState' = AfterUp(AfterDown(o.askedDown, g), o.askedUp, g)
          /\ state' = Stepped(o)
      BY <3>2, <3>3 DEF SiteUpdate
    <3>7. CASE o.step = "Down"
      BY <3>5, <3>6, <3>7 DEF WantsToStepDown, Stepped, AfterUp, AfterDown
    <3>8. CASE o.step = "Up"
      BY <3>5, <3>6, <3>8 DEF WantsToStepUp, Stepped, AfterUp, AfterDown
    <3>9. CASE o.step = "Keep"
      BY <3>6, <3>9 DEF Stepped
    <3>. QED
      BY <3>5, <3>7, <3>8, <3>9
  <2>2. CASE \E t \in Things : Join(t)
    BY <2>2 DEF Join
  <2>3. CASE \E t \in Things : Leave(t)
    BY <2>3 DEF Leave, ThingRemoved
  <2>4. CASE \E t \in Things : \E v \in Values : Report(t, v)
    BY <2>4 DEF Report
  <2>. QED
    BY <2>1, <2>2, <2>3, <2>4 DEF Next
<1>. QED
  BY <1>1, PTL DEF Spec, SwitchedAsAsked

-----------------------------------------------------------------------------
(* Types.                                                                  *)

(* When a thing joins, the sets of the engine stay sets of things.         *)
LEMMA ThingAddedTypes ==
  ASSUME EngineTypeOK, NEW t \in Things, ThingAdded(t)
  PROVE  EngineTypeOK'
<1>1. /\ present' = present \cup {t} /\ known' = known \cup Mentions[t]
      /\ left' = IF t \in WithStrategy THEN {} ELSE left
      /\ reading' = reading /\ symbol' = symbol
  BY DEF ThingAdded
<1>2. Mentions[t] \subseteq Things
  BY RulesAssumption
<1>3. present' \subseteq Things /\ known' \subseteq Things /\ left' \subseteq Things
  BY <1>1, <1>2 DEF EngineTypeOK
<1>4. /\ dependent' \subseteq dependent \cup known' \cup {t}
      /\ subscribed' \subseteq subscribed \cup present'
      /\ heard' \subseteq heard \cup present'
  BY DEF ThingAdded, Subscribe, NewDependencies
<1>. QED
  BY <1>1, <1>3, <1>4 DEF EngineTypeOK

(* The types of what the engine keeps.                                     *)
LEMMA EngineTypes ==
  ASSUME EngineTypeOK, [Next]_vars
  PROVE  EngineTypeOK'
<1>1. CASE UNCHANGED engineVars
  BY <1>1 DEF engineVars, EngineTypeOK
<1>2. ASSUME NEW t \in Things, ThingRemoved(t) PROVE EngineTypeOK'
  BY <1>2 DEF ThingRemoved, EngineTypeOK
<1>3. ASSUME NEW t \in Things, NEW v \in Values, Publish(t, v) PROVE EngineTypeOK'
  <2>1. reading' \in [Things -> Values] /\ symbol' \in [Things -> Values]
    BY <1>3 DEF Publish, EngineTypeOK
  <2>. QED
    BY <1>3, <2>1 DEF Publish, EngineTypeOK
<1>4. CASE SiteUpdates
  BY <1>1, <1>4 DEF SiteUpdates, SiteUpdate
<1>5. CASE \E t \in Things : Join(t)
  BY <1>5, ThingAddedTypes DEF Join
<1>6. CASE \E t \in Things : Leave(t)
  BY <1>2, <1>6 DEF Leave
<1>7. CASE \E t \in Things : \E v \in Values : Report(t, v)
  BY <1>3, <1>7 DEF Report
<1>8. CASE UNCHANGED vars
  BY <1>1, <1>8 DEF vars
<1>. QED
  BY <1>4, <1>5, <1>6, <1>7, <1>8 DEF Next

(* The types of the plug's strategy and of the clock.                      *)
LatchTypeOK ==
  /\ grid \in GridPowers \cup {0}
  /\ state \in BOOLEAN \cup {Unset}
  /\ nextState \in BOOLEAN \cup {Unset}
  /\ beat \in BOOLEAN

(* A step or a request is a Boolean, none is Unset.                        *)
LEMMA LatchTypes ==
  ASSUME LatchTypeOK, [Next]_vars
  PROVE  LatchTypeOK'
<1>1. CASE SiteUpdates
  <2>1. PICK g \in GridPowers : \E o \in AnyOutcome(g) : SiteUpdate(g, o)
    BY <1>1 DEF SiteUpdates
  <2>2. PICK o \in AnyOutcome(g) : SiteUpdate(g, o)
    BY <2>1
  <2>3. grid' \in GridPowers \cup {0} /\ beat' \in BOOLEAN
    BY <2>2 DEF SiteUpdate
  <2>4. CASE Plug \in present
    <3>1. o.step \in {"Down", "Up", "Keep"}
      BY <2>2, <2>4, StepsWereAsked DEF AnyOutcome
    <3>2. Stepped(o) \in {TRUE, FALSE, state}
      BY <3>1 DEF Stepped
    <3>3. AfterUp(AfterDown(o.askedDown, g), o.askedUp, g) \in {TRUE, FALSE, nextState}
      BY DEF AfterUp, AfterDown
    <3>4. state' = Stepped(o) /\ nextState' = AfterUp(AfterDown(o.askedDown, g), o.askedUp, g)
      BY <2>2, <2>4 DEF SiteUpdate
    <3>. QED
      BY <2>3, <3>2, <3>3, <3>4 DEF LatchTypeOK
  <2>5. CASE Plug \notin present
    BY <2>2, <2>3, <2>5 DEF SiteUpdate, LatchTypeOK
  <2>. QED
    BY <2>4, <2>5
<1>2. CASE \E t \in Things : Join(t)
  BY <1>2 DEF Join, LatchTypeOK
<1>3. CASE \E t \in Things : Leave(t)
  BY <1>3 DEF Leave, LatchTypeOK
<1>4. CASE \E t \in Things : \E v \in Values : Report(t, v)
  BY <1>4 DEF Report, LatchTypeOK
<1>5. CASE UNCHANGED vars
  BY <1>5 DEF vars, LatchTypeOK
<1>. QED
  BY <1>1, <1>2, <1>3, <1>4, <1>5 DEF Next

(* The clock saturates at the longer debounce time.                        *)
LEMMA ClockTypes ==
  ASSUME sinceStep \in 0 .. StepUpDebounce, [Next]_vars
  PROVE  sinceStep' \in 0 .. StepUpDebounce
<1>1. Elapsed \in 0 .. StepUpDebounce /\ 0 \in 0 .. StepUpDebounce
  BY DebounceAssumption DEF Elapsed
<1>2. sinceStep' \in {0, Elapsed, sinceStep}
  BY DEF Next, SiteUpdates, SiteUpdate, Join, Leave, Report, vars
<1>. QED
  BY <1>1, <1>2

(* The type invariant of RuleControl.                                      *)
THEOREM RuleTypesCorrect == Spec => []TypeOK
<1>1. Init => TypeOK
  <2>. SUFFICES ASSUME Init PROVE TypeOK
    OBVIOUS
  <2>1. EngineTypeOK
    BY RulesAssumption DEF Init, EngineInit, EngineTypeOK
  <2>2. LatchTypeOK
    BY DEF Init, LatchTypeOK
  <2>3. sinceStep \in 0 .. StepUpDebounce
    BY DebounceAssumption DEF Init
  <2>. QED
    BY <2>1, <2>2, <2>3 DEF TypeOK, LatchTypeOK
<1>2. TypeOK /\ [Next]_vars => TypeOK'
  <2>. SUFFICES ASSUME TypeOK, [Next]_vars PROVE TypeOK'
    OBVIOUS
  <2>1. EngineTypeOK'
    BY EngineTypes DEF TypeOK
  <2>2. LatchTypeOK'
    BY LatchTypes DEF TypeOK, LatchTypeOK
  <2>3. sinceStep' \in 0 .. StepUpDebounce
    BY ClockTypes DEF TypeOK
  <2>. QED
    BY <2>1, <2>2, <2>3 DEF TypeOK, LatchTypeOK
<1>. QED
  BY <1>1, <1>2, PTL DEF Spec
=============================================================================
