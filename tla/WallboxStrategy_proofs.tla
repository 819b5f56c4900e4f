----------------------- MODULE WallboxStrategy_proofs ------------------------
(***************************************************************************)
(* Proofs about WallboxStrategy, for all powers, voltages, offsets,        *)
(* hystereses and debounce times that satisfy its assumptions.             *)
(***************************************************************************)
EXTENDS WallboxStrategy, TLAPS

-----------------------------------------------------------------------------
(* A site update.                                                          *)

(* A strategy is stepped only as it answered, and then it knows which of   *)
(* its questions was the last one: PowerManager looks for no step up once  *)
(* somebody steps down.                                                    *)
LEMMA StepsWereAsked ==
  ASSUME NEW since, NEW down, NEW up, NEW o \in Outcomes(since, down, up)
  PROVE  /\ o.step = "Down" => down /\ o.askedDown /\ ~o.askedUp
         /\ o.step = "Up" => ~down /\ up /\ o.askedDown /\ o.askedUp
         /\ o.step \in {"Down", "Up", "Keep"}
BY DEF Outcomes, Outcome

-----------------------------------------------------------------------------
(* Arithmetic.                                                             *)

(* What is at least m times a divisor gives a quotient of at least m.      *)
LEMMA QuotientAtLeast ==
  ASSUME NEW a \in Nat, NEW b \in Nat \ {0}, NEW m \in Nat, a >= m * b
  PROVE  a \div b >= m
<1>. DEFINE q == a \div b
<1>1. q \in Int /\ a < b * (q + 1)
  BY SMT
<1>. HIDE DEF q
<1>2. SUFFICES ASSUME q < m PROVE FALSE
  BY <1>1 DEF q
<1>3. q + 1 <= m
  BY <1>1, <1>2
<1>4. b * (q + 1) <= b * m
  BY <1>1, <1>3, SMT
<1>5. b * m = m * b
  BY SMT
<1>. QED
  BY <1>1, <1>4, <1>5

(* A larger factor gives a larger product.                                 *)
LEMMA ProductMonotonic ==
  ASSUME NEW m \in Nat, NEW a \in Nat, NEW b \in Nat, a <= b
  PROVE  m * a <= m * b
BY SMT

(* A double is cast to an integer: the result is one.                      *)
LEMMA TruncatedInt ==
  ASSUME NEW a \in Int, NEW b \in Nat \ {0}
  PROVE  Truncated(a, b) \in Int
<1>1. CASE a >= 0
  BY <1>1 DEF Truncated
<1>2. CASE ~(a >= 0)
  <2>1. -a \in Int
    OBVIOUS
  <2>2. (-a) \div b \in Int
    BY <2>1
  <2>. QED
    BY <1>2, <2>2 DEF Truncated
<1>. QED
  BY <1>1, <1>2

-----------------------------------------------------------------------------
(* The thresholds.                                                         *)

(* The sums and products that the questions compare are integers.          *)
LEMMA NumbersOK ==
  ASSUME TypeOK
  PROVE  /\ powerOffset \in Int /\ powerMeasured \in Nat
         /\ voltages[1] \in Nat \ {0} /\ Total \in Nat \ {0}
         /\ voltages[1] <= Total
         /\ MinCurrent \in Nat
         /\ MinCurrent * Total \in Nat /\ MinCurrent * voltages[1] \in Nat
         /\ OnePhaseHysteresis \in Nat /\ ThreePhaseHysteresis \in Nat
         /\ \A g \in GridPowers \cup ShortPowers : g \in Int /\ Available(g) \in Int
<1>1. /\ powerOffset \in Int /\ powerMeasured \in Nat
      /\ MinCurrent \in Nat
      /\ OnePhaseHysteresis \in Nat /\ ThreePhaseHysteresis \in Nat
      /\ \A g \in GridPowers \cup ShortPowers : g \in Int
  BY PowerAssumption, OffsetAssumption DEF TypeOK
<1>2. voltages \in [1 .. 3 -> Nat \ {0}]
  BY PowerAssumption DEF TypeOK
<1>3. /\ voltages[1] \in Nat \ {0} /\ voltages[2] \in Nat \ {0}
      /\ voltages[3] \in Nat \ {0}
  BY <1>2
<1>4. Total \in Nat \ {0} /\ voltages[1] <= Total
  BY <1>3 DEF Total
<1>5. MinCurrent * Total \in Nat /\ MinCurrent * voltages[1] \in Nat
  BY <1>1, <1>3, <1>4
<1>6. \A g \in GridPowers \cup ShortPowers : Available(g) \in Int
  BY <1>1 DEF Available, NonNegative
<1>. QED
  BY <1>1, <1>3, <1>4, <1>5, <1>6

(* Nobody is charged on two phases.                                        *)
LEMMA PhasesOK ==
  ASSUME NEW a, NEW h, NEW k
  PROVE  ComputePhases(a, h, k) \in PhaseCounts
BY DEF ComputePhases, PhaseCounts

(* The hysteresis and a negative offset only ever count against a step up: *)
(* what the strategy would step up to is no more than what it would keep.  *)
LEMMA UpWithinDown ==
  ASSUME TypeOK, NEW g \in GridPowers
  PROVE  UpPhases(g) <= DownPhases(g)
<1>. DEFINE a == powerOffset + powerMeasured - g
            T == MinCurrent * Total
            V == MinCurrent * voltages[1]
<1>1. /\ powerOffset \in Int /\ powerMeasured \in Nat /\ g \in Int
      /\ T \in Nat /\ V \in Nat
      /\ OnePhaseHysteresis \in Nat /\ ThreePhaseHysteresis \in Nat
      /\ Available(g) \in Int
  BY NumbersOK
<1>2. a \in Int /\ a <= Available(g)
  BY <1>1 DEF Available, NonNegative
<1>3. UpPhases(g) = IF a - ThreePhaseHysteresis > T THEN 3
                    ELSE IF a - OnePhaseHysteresis > V THEN 1 ELSE 0
  BY DEF UpPhases, ComputePhases
<1>4. CASE powerOffset = Off
  <2>1. a <= 0
    BY <1>4, OffAssumption DEF TypeOK
  <2>. HIDE DEF a, T, V
  <2>2. UpPhases(g) = 0
    BY <1>1, <1>2, <1>3, <2>1
  <2>3. DownPhases(g) = 0
    BY <1>4 DEF DownPhases
  <2>. QED
    BY <2>2, <2>3
<1>5. CASE powerOffset # Off
  <2>1. DownPhases(g) = IF Available(g) - 0 > T THEN 3
                        ELSE IF Available(g) - 0 > V THEN 1 ELSE 0
    BY <1>5 DEF DownPhases, ComputePhases
  <2>. HIDE DEF a, T, V
  <2>. QED
    BY <1>1, <1>2, <1>3, <2>1
<1>. QED
  BY <1>4, <1>5

(* What the two questions may find.                                        *)
LEMMA QuestionTypes ==
  /\ \A g : DownPhases(g) \in PhaseCounts /\ UpPhases(g) \in PhaseCounts
  /\ PhaseCounts \subseteq Nat
BY PhasesOK DEF DownPhases, UpPhases, PhaseCounts

-----------------------------------------------------------------------------
(* Types.                                                                  *)

(* The numbers of phases stay what a contactor can do.                     *)
LEMMA UpdatePhases ==
  ASSUME TypeOK, NEW g \in GridPowers, NEW short \in ShortPowers,
         NEW o, SiteUpdate(g, short, o)
  PROVE  nextPhases' \in PhaseCounts /\ phases' \in PhaseCounts
<1>1. nextPhases' \in PhaseCounts
  BY QuestionTypes DEF SiteUpdate, NextPhases, TypeOK
<1>. QED
  BY <1>1 DEF SiteUpdate, TypeOK

(* A site update preserves the type invariant.                             *)
LEMMA UpdateTypes ==
  ASSUME TypeOK, NEW g \in GridPowers, NEW short \in ShortPowers,
         NEW o, SiteUpdate(g, short, o)
  PROVE  TypeOK'
<1>1. nextPhases' \in PhaseCounts /\ phases' \in PhaseCounts
  BY UpdatePhases
<1>2. current' \in Int
  <2>1. voltages[1] \in Nat \ {0} /\ Total \in Nat \ {0} /\ Available(short) \in Int
    BY NumbersOK
  <2>2. /\ Truncated(Available(short), voltages[1]) \in Int
        /\ Truncated(Available(short), Total) \in Int
    BY <2>1, TruncatedInt
  <2>3. ComputeCurrent(phases', Available(short)) \in Int
    BY <2>2 DEF ComputeCurrent
  <2>. QED
    BY <2>3 DEF SiteUpdate
<1>3. sinceStep' \in 0 .. StepUpDebounce
  <2>1. sinceStep \in 0 .. StepUpDebounce
    BY DEF TypeOK
  <2>2. sinceStep' = IF o.stepped # "nobody" THEN 0
                     ELSE IF sinceStep < StepUpDebounce THEN sinceStep + 1
                     ELSE sinceStep
    BY DEF SiteUpdate
  <2>. QED
    BY <2>1, <2>2, DebounceAssumption
<1>4. beat' \in BOOLEAN
  BY DEF SiteUpdate
<1>5. grid' \in GridPowers /\ UNCHANGED readings
  BY DEF SiteUpdate
<1>. QED
  BY <1>1, <1>2, <1>3, <1>4, <1>5 DEF TypeOK, readings

(* The type invariant of WallboxStrategy.                                  *)
THEOREM WallboxTypesCorrect == Spec => []TypeOK
<1>1. Init => TypeOK
  <2>. SUFFICES ASSUME Init PROVE TypeOK
    OBVIOUS
  <2>1. beat \in BOOLEAN
    BY DEF Init
  <2>2. phases \in PhaseCounts /\ nextPhases \in PhaseCounts /\ current \in Int
    BY DEF Init, PhaseCounts
  <2>. QED
    BY <2>1, <2>2 DEF Init, TypeOK, Statuses
<1>2. TypeOK /\ [Next]_vars => TypeOK'
  <2>. SUFFICES ASSUME TypeOK, [Next]_vars PROVE TypeOK'
    OBVIOUS
  <2>1. CASE SiteUpdates
    <3>1. PICK g \in GridPowers :
            \E short \in ShortPowers : \E o \in AnyOutcome(g) : SiteUpdate(g, short, o)
      BY <2>1 DEF SiteUpdates
    <3>2. PICK short \in ShortPowers : \E o \in AnyOutcome(g) : SiteUpdate(g, short, o)
      BY <3>1
    <3>. QED
      BY <3>2, UpdateTypes
  <2>2. ASSUME NEW p \in Powers, NEW v \in Voltages, NEW s \in Statuses, Report(p, v, s)
        PROVE  TypeOK'
    BY <2>2 DEF Report, TypeOK
  <2>3. ASSUME NEW x \in Offsets, ChooseOffset(x) PROVE TypeOK'
    BY <2>3 DEF ChooseOffset, TypeOK
  <2>4. CASE UNCHANGED vars
    BY <2>4 DEF vars, readings, TypeOK
  <2>. QED
    BY <2>1, <2>2, <2>3, <2>4 DEF Next
<1>. QED
  BY <1>1, <1>2, PTL DEF Spec

-----------------------------------------------------------------------------
(* The questions and the hysteresis fit together.                          *)

(* The strategy never wants to step in both directions.                    *)
THEOREM NeverWantsBoth == Spec => []NeverBoth
<1>1. TypeOK => NeverBoth
  <2>. SUFFICES ASSUME TypeOK, WantsToStepDown(grid), WantsToStepUp(grid)
                PROVE  FALSE
    BY DEF NeverBoth, WantsNow
  <2>1. grid \in GridPowers /\ phases \in Nat
    BY QuestionTypes DEF TypeOK
  <2>2. UpPhases(grid) <= DownPhases(grid)
    BY <2>1, UpWithinDown
  <2>3. DownPhases(grid) < phases /\ UpPhases(grid) > phases
    BY DEF WantsToStepDown, WantsToStepUp
  <2>4. DownPhases(grid) \in Nat /\ UpPhases(grid) \in Nat
    BY QuestionTypes
  <2>. QED
    BY <2>1, <2>2, <2>3, <2>4
<1>. QED
  BY <1>1, WallboxTypesCorrect, PTL

(* The power that keeps a number of phases gives each of them the current  *)
(* that a car needs, and so does any smaller grid power: the thresholds of *)
(* computePhases fit computeCurrent.                                       *)
LEMMA KeptPhasesGetEnough ==
  ASSUME TypeOK, NEW g \in GridPowers, NEW short \in ShortPowers, short <= g,
         NEW n \in {1, 3}, n <= DownPhases(g)
  PROVE  ComputeCurrent(n, Available(short)) >= MinCurrent
<1>. DEFINE a == Available(g)
            b == Available(short)
            T == MinCurrent * Total
            V == MinCurrent * voltages[1]
<1>1. /\ MinCurrent \in Nat /\ a \in Int /\ b \in Int /\ T \in Nat /\ V \in Nat
      /\ voltages[1] \in Nat \ {0} /\ Total \in Nat \ {0}
      /\ voltages[1] <= Total
  BY NumbersOK
<1>2. a <= b
  BY NumbersOK DEF Available, NonNegative
<1>3. DownPhases(g) = IF a - 0 > T THEN 3 ELSE IF a - 0 > V THEN 1 ELSE 0
  <2>1. powerOffset # Off
    BY DEF DownPhases
  <2>. QED
    BY <2>1 DEF DownPhases, ComputePhases
<1>4. V <= T
  BY <1>1, ProductMonotonic
<1>5. CASE n = 3
  <2>. HIDE DEF a, b, T, V
  <2>1. b \in Nat /\ b >= T
    BY <1>1, <1>2, <1>3, <1>5
  <2>2. b \div Total >= MinCurrent
    BY <1>1, <2>1, QuotientAtLeast DEF T
  <2>3. ComputeCurrent(n, b) = b \div Total
    BY <1>5, <2>1 DEF ComputeCurrent, Truncated
  <2>. QED
    BY <2>2, <2>3 DEF b
<1>6. CASE n = 1
  <2>. HIDE DEF a, b, T, V
  <2>1. b \in Nat /\ b >= V
    BY <1>1, <1>2, <1>3, <1>4, <1>6
  <2>2. b \div voltages[1] >= MinCurrent
    BY <1>1, <2>1, QuotientAtLeast DEF V
  <2>3. ComputeCurrent(n, b) = b \div voltages[1]
    BY <1>6, <2>1 DEF ComputeCurrent, Truncated
  <2>. QED
    BY <2>2, <2>3 DEF b
<1>. QED
  BY <1>5, <1>6

(* The current that adjust sets is less than a car needs only if the site  *)
(* draws more in the short term than in the long term, or if the strategy  *)
(* wants to step down on the readings of the update.                       *)
THEOREM PhasesGetEnough == Spec => EnoughCurrent
<1>1. TypeOK /\ TypeOK'
        => [phases' # 0 /\ current' < MinCurrent /\ ~WantsNow.down'
              => \A short \in ShortPowers : \A o \in AnyOutcome(grid') :
                   SiteUpdate(grid', short, o) => short > grid']_vars
  <2>. SUFFICES ASSUME TypeOK, TypeOK',
                       phases' # 0, current' < MinCurrent, ~WantsNow.down',
                       NEW short \in ShortPowers, NEW o,
                       SiteUpdate(grid', short, o)
                PROVE  short > grid'
    OBVIOUS
  <2>1. /\ UNCHANGED readings
        /\ current' = ComputeCurrent(phases', Available(short))
    BY DEF SiteUpdate
  <2>2. /\ grid' \in GridPowers /\ grid' \in Int /\ short \in Int
        /\ phases' \in {1, 3} /\ DownPhases(grid') \in Nat
    BY PowerAssumption, QuestionTypes DEF TypeOK, PhaseCounts
  <2>3. ~(DownPhases(grid') < phases')
    BY <2>1 DEF WantsNow, WantsToStepDown, DownPhases, ComputePhases, Available,
                NonNegative, Total, readings
  <2>. SUFFICES ASSUME short <= grid' PROVE FALSE
    BY <2>2
  <2>4. phases' <= DownPhases(grid')
    BY <2>2, <2>3
  <2>5. ComputeCurrent(phases', Available(short)) >= MinCurrent
    BY <2>2, <2>4, KeptPhasesGetEnough
  <2>6. current' \in Int /\ MinCurrent \in Nat
    BY PowerAssumption DEF TypeOK
  <2>. QED
    BY <2>1, <2>5, <2>6
<1>. QED
  BY <1>1, WallboxTypesCorrect, PTL DEF EnoughCurrent

(* The only steps that change the phases: one down to what is left, on the *)
(* answer of wantsToStepDown, one up on the answer of wantsToStepUp.       *)
LEMMA PhaseChange ==
  ASSUME TypeOK, [Next]_vars, phases' # phases
  PROVE  /\ grid' \in GridPowers /\ UNCHANGED readings
         /\ \/ phases' = DownPhases(grid') /\ WantsToStepDown(grid')
            \/ phases' = UpPhases(grid') /\ WantsToStepUp(grid')
<1>1. SiteUpdates
  BY DEF Next, Report, ChooseOffset, vars
<1>2. PICK g \in GridPowers :
        \E short \in ShortPowers : \E o \in AnyOutcome(g) : SiteUpdate(g, short, o)
  BY <1>1 DEF SiteUpdates
<1>3. PICK short \in ShortPowers : \E o \in AnyOutcome(g) : SiteUpdate(g, short, o)
  BY <1>2
<1>4. PICK o \in AnyOutcome(g) : SiteUpdate(g, short, o)
  BY <1>3
<1>5. /\ grid' = g /\ UNCHANGED readings
      /\ nextPhases' = NextPhases(g, o)
      /\ phases' = IF o.step = "Keep" THEN phases ELSE nextPhases'
  BY <1>4 DEF SiteUpdate
<1>6. /\ o.step = "Down" => WantsToStepDown(g) /\ o.askedDown /\ ~o.askedUp
      /\ o.step = "Up" => WantsToStepUp(g) /\ o.askedDown /\ o.askedUp
      /\ o.step \in {"Down", "Up", "Keep"}
  BY StepsWereAsked, Zenon DEF AnyOutcome
<1>7. CASE o.step = "Down"
  <2>1. phases' = DownPhases(g)
    BY <1>5, <1>6, <1>7 DEF NextPhases
  <2>. QED
    BY <1>5, <1>6, <1>7, <2>1
<1>8. CASE o.step = "Up"
  <2>1. phases' = UpPhases(g)
    BY <1>5, <1>6, <1>8 DEF NextPhases, WantsToStepUp
  <2>. QED
    BY <1>5, <1>6, <1>8, <2>1
<1>. QED
  BY <1>5, <1>6, <1>7, <1>8

(* Phases change in the direction of the step that was granted.            *)
THEOREM StepsKeepDirection == Spec => StepDirection
<1>1. TypeOK /\ TypeOK' /\ [Next]_vars
        => [/\ phases' < phases => WantsToStepDown(grid')
            /\ phases' > phases => WantsToStepUp(grid')]_vars
  <2>. SUFFICES ASSUME TypeOK, TypeOK', [Next]_vars
                PROVE  /\ phases' < phases => WantsToStepDown(grid')
                       /\ phases' > phases => WantsToStepUp(grid')
    OBVIOUS
  <2>1. phases \in Nat /\ phases' \in Nat
    BY QuestionTypes DEF TypeOK
  <2>2. CASE phases' = phases
    BY <2>1, <2>2
  <2>3. CASE phases' # phases
    <3>1. /\ grid' \in GridPowers
          /\ \/ phases' = DownPhases(grid') /\ WantsToStepDown(grid')
             \/ phases' = UpPhases(grid') /\ WantsToStepUp(grid')
      BY <2>3, PhaseChange
    <3>2. WantsToStepDown(grid') => DownPhases(grid') < phases
      BY DEF WantsToStepDown
    <3>3. WantsToStepUp(grid') => UpPhases(grid') > phases
      BY DEF WantsToStepUp
    <3>. QED
      BY <2>1, <3>1, <3>2, <3>3
  <2>. QED
    BY <2>2, <2>3
<1>. QED
  BY <1>1, WallboxTypesCorrect, PTL DEF Spec, StepDirection

(* A step is not taken back on the readings that led to it: the hysteresis *)
(* is no smaller than the band between the two questions.                  *)
THEOREM StepsAreNotTakenBack == Spec => NotTakenBack
<1>1. TypeOK /\ TypeOK' /\ [Next]_vars
        => [/\ phases' < phases => ~WantsNow.up'
            /\ phases' > phases => ~WantsNow.down']_vars
  <2>. SUFFICES ASSUME TypeOK, TypeOK', [Next]_vars
                PROVE  /\ phases' < phases => ~WantsNow.up'
                       /\ phases' > phases => ~WantsNow.down'
    OBVIOUS
  <2>1. /\ phases \in Nat
        /\ DownPhases(grid') \in Nat /\ UpPhases(grid') \in Nat
    BY QuestionTypes DEF TypeOK
  <2>2. CASE phases' = phases
    BY <2>1, <2>2
  <2>3. CASE phases' # phases
    <3>1. /\ grid' \in GridPowers /\ UNCHANGED readings
          /\ \/ phases' = DownPhases(grid') /\ WantsToStepDown(grid')
             \/ phases' = UpPhases(grid') /\ WantsToStepUp(grid')
      BY <2>3, PhaseChange
    <3>2. UpPhases(grid') <= DownPhases(grid')
      BY <3>1, UpWithinDown
    <3>3. WantsNow.up' => UpPhases(grid') > phases'
      BY <3>1 DEF WantsNow, WantsToStepUp, UpPhases, ComputePhases, Total, readings
    <3>4. WantsNow.down' => DownPhases(grid') < phases'
      BY <3>1 DEF WantsNow, WantsToStepDown, DownPhases, ComputePhases, Available,
                  NonNegative, Total, readings
    <3>5. /\ WantsToStepDown(grid') => DownPhases(grid') < phases
          /\ WantsToStepUp(grid') => UpPhases(grid') > phases
      BY DEF WantsToStepDown, WantsToStepUp
    <3>. QED
      BY <2>1, <3>1, <3>2, <3>3, <3>4, <3>5
  <2>. QED
    BY <2>2, <2>3
<1>. QED
  BY <1>1, WallboxTypesCorrect, PTL DEF Spec, NotTakenBack
=============================================================================
