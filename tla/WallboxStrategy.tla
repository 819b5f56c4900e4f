--------------------------- MODULE WallboxStrategy ---------------------------
(***************************************************************************)
(* The controller of a wallbox: it decides on how many phases, and with    *)
(* which current, a car is charged, from the power that the wallbox draws  *)
(* and the power that the site exchanges with the grid.                    *)
(*                                                                         *)
(* The answer to "do you want to step" is remembered in _nextPhases, which *)
(* the following adjust makes the number of phases if it is a step.  Every *)
(* adjust publishes both numbers and the current.                          *)
(***************************************************************************)
EXTENDS StrategyUpdate

CONSTANTS
  MinCurrent,            \* what a car needs on a phase, 6 A
  Offsets,               \* the entries of offsetTable the user may choose
  Off,                   \* its first one
  OnePhaseHysteresis,    \* _onePhaseHysteresis
  ThreePhaseHysteresis,  \* _threePhaseHysteresis
  Powers,                \* what the smoothed _powerMeasured may be
  Voltages,              \* what the three phases' _voltages may be
  GridPowers,            \* the site's long term grid powers
  ShortPowers            \* its short term grid powers

ASSUME OffsetAssumption ==
  /\ Off \in Int
  /\ Offsets \subseteq Int

ASSUME PowerAssumption ==
  /\ MinCurrent \in Nat
  /\ OnePhaseHysteresis \in Nat /\ ThreePhaseHysteresis \in Nat
  /\ Powers \subseteq Nat
  /\ GridPowers \subseteq Int /\ ShortPowers \subseteq Int
  /\ Voltages \subseteq [1 .. 3 -> Nat \ {0}]

(* Off is -32768 W: no site feeds so much in that it would still charge.   *)
ASSUME OffAssumption ==
  \A p \in Powers \cup {0} : \A g \in GridPowers : Off + p - g <= 0

VARIABLES
  powerOffset,    \* _powerOffset
  powerMeasured,  \* _powerMeasured, ema of the reported powers
  voltages,       \* _voltages
  status,         \* _status; "other" stands for all but two
  phases,         \* _phases
  current,        \* _current
  nextPhases,     \* _nextPhases
  sinceStep,      \* siteProperties.ts - PowerManager::_lastStepTs, saturating
  grid,           \* the long term grid power of the last update
  beat            \* whether the number of updates is odd

readings == <<powerOffset, powerMeasured, voltages, status>>

(* Fairness of updates counts those that change nothing but beat.          *)
vars == <<readings, phases, current, nextPhases, sinceStep, grid, beat>>

Statuses == {"waiting", "charging", "other"}

PhaseCounts == {0, 1, 3}

TypeOK ==
  /\ powerOffset \in Offsets
  /\ powerMeasured \in Powers \cup {0}
  /\ voltages \in Voltages
  /\ status \in Statuses
  /\ phases \in PhaseCounts
  /\ current \in Int
  /\ nextPhases \in PhaseCounts
  /\ sinceStep \in 0 .. StepUpDebounce
  /\ grid \in GridPowers
  /\ beat \in BOOLEAN

(* A wallbox joins at any time, with the offset that the user chose in the *)
(* past.  _voltages is not initialized: until it reports, it is anything.  *)
Init ==
  /\ powerOffset \in Offsets
  /\ powerMeasured = 0
  /\ voltages \in Voltages
  /\ status = "other"
  /\ phases = 0 /\ current = 0 /\ nextPhases = 0
  /\ sinceStep \in 0 .. StepUpDebounce
  /\ grid \in GridPowers
  /\ beat = FALSE

-----------------------------------------------------------------------------
(* computePhases and computeCurrent.                                       *)

Total == voltages[1] + voltages[2] + voltages[3]

(* A double is cast to an integer towards zero.                            *)
Truncated(a, b) == IF a >= 0 THEN a \div b ELSE -((-a) \div b)

ComputePhases(available, oneHysteresis, threeHysteresis) ==
  IF available - threeHysteresis > MinCurrent * Total THEN 3
  ELSE IF available - oneHysteresis > MinCurrent * voltages[1] THEN 1
  ELSE 0

ComputeCurrent(n, available) ==
  CASE n = 1 -> Truncated(available, voltages[1])
    [] n = 3 -> Truncated(available, Total)
    [] OTHER -> 0

-----------------------------------------------------------------------------
(* What it wants.  A negative offset counts only against stepping up.      *)

NonNegative(x) == IF x > 0 THEN x ELSE 0

Available(g) == NonNegative(powerOffset) + powerMeasured - g

(* Mutants of DownPhases: a hysteresis on top of it, which the current     *)
(* knows nothing of, or the first entry of offsetTable taken as a number.  *)
DownPhasesSpared(g) ==
  IF powerOffset = Off THEN 0
  ELSE ComputePhases(Available(g), -OnePhaseHysteresis, -ThreePhaseHysteresis)

DownPhasesNoOff(g) == ComputePhases(Available(g), 0, 0)

DownPhases(g) ==
  IF powerOffset = Off THEN 0 ELSE ComputePhases(Available(g), 0, 0)

WantsToStepDown(g) == DownPhases(g) < phases

Ready == status \in {"waiting", "charging"}

(* Mutants of UpPhases: the hysteresis with the wrong sign, a negative      *)
(* offset that counts as none, or a third threshold out of reach.          *)
UpPhasesEager(g) ==
  ComputePhases(powerOffset + powerMeasured - g,
                -OnePhaseHysteresis, -ThreePhaseHysteresis)

UpPhasesWhenOff(g) ==
  ComputePhases(NonNegative(powerOffset) + powerMeasured - g,
                OnePhaseHysteresis, ThreePhaseHysteresis)

UpPhasesNever3(g) ==
  ComputePhases(powerOffset + powerMeasured - g,
                OnePhaseHysteresis, 1000 + ThreePhaseHysteresis)

UpPhases(g) ==
  ComputePhases(powerOffset + powerMeasured - g,
                OnePhaseHysteresis, ThreePhaseHysteresis)

WantsToStepUp(g) == Ready /\ UpPhases(g) > phases

(* _nextPhases after the questions of an update.                           *)
NextPhasesOfUp(g, o) ==  \* mutant: the answer of one question is not recorded
  IF o.askedUp /\ Ready THEN UpPhases(g) ELSE nextPhases

NextPhases(g, o) ==
  IF o.askedUp /\ Ready THEN UpPhases(g)
  ELSE IF o.askedDown THEN DownPhases(g)
  ELSE nextPhases

-----------------------------------------------------------------------------

(* A site update, with the long and the short term grid power: adjust.     *)
AnyOutcome(g) ==
  LET elapsed == IF sinceStep < StepUpDebounce THEN sinceStep + 1 ELSE sinceStep
  IN  Outcomes(elapsed, WantsToStepDown(g), WantsToStepUp(g))

SiteUpdate(g, short, o) ==
  /\ nextPhases' = NextPhases(g, o)
  /\ phases' = IF o.step = "Keep" THEN phases ELSE nextPhases'
  /\ current' = ComputeCurrent(phases', Available(short))
  /\ sinceStep' = IF o.stepped # "nobody" THEN 0
                  ELSE IF sinceStep < StepUpDebounce THEN sinceStep + 1
                  ELSE sinceStep
  /\ grid' = g
  /\ beat' = ~beat
  /\ UNCHANGED readings

SiteUpdates ==
  \E g \in GridPowers : \E short \in ShortPowers : \E o \in AnyOutcome(g) :
    SiteUpdate(g, short, o)

(* The wallbox reports; the new power is smoothed into _powerMeasured.     *)
Report(p, v, s) ==
  /\ powerMeasured' = p
  /\ voltages' = v
  /\ status' = s
  /\ UNCHANGED <<powerOffset, phases, current, nextPhases, sinceStep, grid, beat>>

(* The user chooses an offset in the web app.                              *)
ChooseOffset(x) ==
  /\ powerOffset' = x
  /\ UNCHANGED <<powerMeasured, voltages, status, phases, current, nextPhases,
                 sinceStep, grid, beat>>

Next ==
  \/ SiteUpdates
  \/ \E p \in Powers : \E v \in Voltages : \E s \in Statuses : Report(p, v, s)
  \/ \E x \in Offsets : ChooseOffset(x)

Spec == Init /\ [][Next]_vars

FairSpec == Spec /\ WF_vars(SiteUpdates)

-----------------------------------------------------------------------------
(* Properties.                                                             *)

(* The number of phases changes in the direction of the step that was made *)
(* although _nextPhases is written by both questions, by the last one that *)
(* was asked.                                                              *)
StepDirection ==
  [][/\ phases' < phases => WantsToStepDown(grid')
     /\ phases' > phases => WantsToStepUp(grid')]_vars

(* The hysteresis: after a step, on the same readings, the strategy does   *)
(* not want to take it back.                                               *)
WantsNow == [down |-> WantsToStepDown(grid), up |-> WantsToStepUp(grid)]

NotTakenBack ==
  [][/\ phases' < phases => ~WantsNow.up'
     /\ phases' > phases => ~WantsNow.down']_vars

(* PowerManager asks both questions and serves the first: the strategy     *)
(* never answers yes to both.                                              *)
NeverBoth == ~(WantsNow.down /\ WantsNow.up)

(* The current that adjust sets, from the short term power, is less than   *)
(* what a car needs only if the site draws more at the moment than in the  *)
(* long term, or if the strategy wants to step down by then: the phases    *)
(* come from the long term power, and the thresholds of computePhases fit  *)
(* computeCurrent.                                                         *)
EnoughCurrent ==
  [][phases' # 0 /\ current' < MinCurrent /\ ~WantsNow.down'
       => \A short \in ShortPowers : \A o \in AnyOutcome(grid') :
            SiteUpdate(grid', short, o) => short > grid']_vars


OtherStep ==
  \E g \in GridPowers : \E short \in ShortPowers : \E o \in AnyOutcome(g) :
    o.stepped = "other" /\ SiteUpdate(g, short, o)

OthersRest == <>[][~OtherStep]_vars

(* Once the other strategies rest, a wallbox that the user has switched    *)
(* off stops charging and stays off, whatever the surplus.                 *)
OffStaysOff ==
  OthersRest /\ <>[](powerOffset = Off) => <>[](phases = 0)

Plenty ==
  powerOffset + powerMeasured - grid > MinCurrent * Total + ThreePhaseHysteresis

(* Once the other strategies rest, a car that is ready is charged on three *)
(* phases if the surplus stays large enough for them.                      *)
SurplusCharges ==
  OthersRest /\ <>[](Ready /\ Plenty) => <>[](phases = 3)
=============================================================================
