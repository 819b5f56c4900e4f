------------------------- MODULE MultiPhaseStrategy --------------------------
(***************************************************************************)
(* The controller of a heater whose phases hang on the switches of a       *)
(* relay.  It switches one phase per step, round robin, so that the phases *)
(* wear evenly; when the inputs of the phases fall (the heater is hot) it  *)
(* lowers a limit on the number of phases, which recovers over time.       *)
(*                                                                         *)
(* Time is the site's: sinceStep, limitAge and age are differences between *)
(* the present and PowerManager's _lastStepTs, _phaseLimitTimepoint and    *)
(* _timestamps.  They saturate where no comparison tells them apart;       *)
(* MaxAge and MaxEnergy bound the quantities that only add up.             *)
(***************************************************************************)
EXTENDS ShellyGen2Thing, FiniteSets, FiniteSetsExt

CONSTANTS
  PowerThreshold,      \* ConfigRepository::Key::power_thresholds
  Hysteresis,          \* ConfigRepository::hysteresisFor each of them
  PhaseLimitDuration,  \* ConfigRepository::phaseLimitDuration
  DayLength,           \* updates in a day
  EnergyUnit,          \* Ws in the unit of the published energy
  MaxAge, MaxEnergy    \* bounds of the model

ASSUME MultiPhaseAssumption ==
  /\ PowerThreshold \in [Phases -> Nat]
  /\ Hysteresis \in [Phases -> Nat]
  /\ PhaseLimitDuration \in Nat
  /\ DayLength \in Nat \ {0}
  /\ EnergyUnit \in Nat \ {0}
  /\ MaxAge \in Nat /\ MaxEnergy \in Nat

VARIABLES
  isInputActive,  \* _isInputActive
  phaseLimit,     \* _phaseLimit
  limitAge,       \* now - _phaseLimitTimepoint, saturating
  currentStates,  \* _currentStates
  nextUp,         \* _nextStepUpPhase
  nextDown,       \* _nextStepDownPhase
  clock,          \* siteProperties.ts modulo a day
  age,            \* siteProperties.ts - _timestamps, saturating at MaxAge
  delivered,      \* _deliveredEnergy, saturating at MaxEnergy
  energy          \* the published property energy

strategyVars == <<isInputActive, phaseLimit, limitAge, currentStates, nextUp,
                  nextDown, clock, age, delivered, energy>>

On(f) == {p \in DOMAIN f : f[p]}

AtMost(bound, x) == IF x <= bound THEN x ELSE bound

StrategyTypeOK ==
  /\ isInputActive \in BOOLEAN
  /\ phaseLimit \in 0 .. N
  /\ limitAge \in 0 .. PhaseLimitDuration
  /\ currentStates \in [Phases -> BOOLEAN]
  /\ nextUp \in Phases /\ nextDown \in Phases
  /\ clock \in 0 .. DayLength - 1
  /\ age \in [Phases -> 0 .. MaxAge]
  /\ delivered \in 0 .. MaxEnergy
  /\ energy \in 0 .. MaxEnergy

(* The timestamps start at the epoch, long ago.                            *)
StrategyInit ==
  /\ isInputActive = FALSE
  /\ phaseLimit = N
  /\ limitAge = PhaseLimitDuration
  /\ currentStates = [p \in Phases |-> FALSE]
  /\ nextUp = 0 /\ nextDown = 0
  /\ clock = 0
  /\ age = [p \in Phases |-> MaxAge]
  /\ delivered = 0 /\ energy = 0

-----------------------------------------------------------------------------
(* The subscription to the thing's inputs.                                 *)

(* decrementPhaseLimit, on a falling edge of "all inputs are true", which  *)
(* an empty vector is too.                                                 *)
InputEvent(in) ==
  LET allTrue == \A p \in DOMAIN in : in[p]
      falling == isInputActive /\ ~allTrue /\ phaseLimit # 0
  IN  /\ isInputActive' = allTrue
      /\ phaseLimit' = IF falling THEN phaseLimit - 1 ELSE phaseLimit
      /\ limitAge' = IF falling THEN 0 ELSE limitAge
      /\ UNCHANGED <<currentStates, nextUp, nextDown, clock, age, delivered,
                     energy>>

-----------------------------------------------------------------------------
(* What it wants, given the long term grid power (positive is import).     *)

Reported == DOMAIN inputs = Phases /\ DOMAIN states = Phases

(* Mutants of it: the phase's own input alone, or import alone, counts.    *)
WantsToStepDownOwnInput(grid) ==
  Reported /\ states[nextDown] /\ (~inputs[nextDown] \/ grid > 0)

WantsToStepDownImport(grid) ==
  Reported /\ states[nextDown] /\ grid > 0

WantsToStepDown(grid) ==
  /\ Reported
  /\ states[nextDown]
  /\ ~isInputActive \/ grid > 0

(* The checks before the limit is looked at.                               *)
MayStepUp == Reported /\ ~states[nextUp] /\ inputs[nextUp]

(* incrementPhaseLimit, the side effect of asking.                         *)
LimitRecoversUncapped(now) == now >= PhaseLimitDuration  \* mutant

LimitRecovers(now) == phaseLimit < N /\ now >= PhaseLimitDuration

LimitWhenAsked(now) ==
  IF MayStepUp /\ LimitRecovers(now) THEN phaseLimit + 1 ELSE phaseLimit

WantsToStepUpBeyondLimit(grid, now) ==  \* mutant
  /\ MayStepUp
  /\ Cardinality(On(states)) <= LimitWhenAsked(now)
  /\ grid < -PowerThreshold[nextUp] - Hysteresis[nextUp]

WantsToStepUp(grid, now) ==
  /\ MayStepUp
  /\ Cardinality(On(states)) < LimitWhenAsked(now)
  /\ grid < -PowerThreshold[nextUp] - Hysteresis[nextUp]

AskedRestartsTime(now) ==  \* mutant
  phaseLimit' = LimitWhenAsked(now) /\ limitAge' = 0

(* wantsToStepUp was called, or it was not.                                *)
Asked(now) ==
  /\ phaseLimit' = LimitWhenAsked(now)
  /\ limitAge' = IF LimitWhenAsked(now) # phaseLimit THEN 0 ELSE now

NotAsked(now) == phaseLimit' = phaseLimit /\ limitAge' = now

-----------------------------------------------------------------------------
(* adjust.                                                                 *)

Work(p) == age'[p] * PowerThreshold[p]

(* What every adjust publishes, once the step is made.                     *)
Publish ==
  energy' = AtMost(MaxEnergy, delivered' + MapThenSumSet(Work, On(currentStates')))
              \div EnergyUnit

(* _deliveredEnergy starts again when the day changes; the timestamps of   *)
(* the phases that are on do not.                                          *)
Tick == clock' = (clock + 1) % DayLength

DeliveredToday == IF clock' = 0 THEN 0 ELSE delivered

Older(p) == AtMost(MaxAge, age[p] + 1)

Keep ==
  /\ Tick
  /\ age' = [p \in Phases |-> Older(p)]
  /\ delivered' = DeliveredToday
  /\ UNCHANGED <<currentStates, nextUp, nextDown>>
  /\ Publish

(* Mutants of Down: the cursor stays, the newest phase is switched off, or *)
(* its energy is forgotten.                                                *)
DownCursorStays ==
  /\ Tick
  /\ age' = [p \in Phases |-> Older(p)]
  /\ delivered' = AtMost(MaxEnergy, DeliveredToday + Work(nextDown))
  /\ currentStates' = [currentStates EXCEPT ![nextDown] = FALSE]
  /\ UNCHANGED <<nextUp, nextDown>>
  /\ Publish

DownNewest ==
  LET p == (nextUp + N - 1) % N
  IN  /\ Tick
      /\ age' = [q \in Phases |-> Older(q)]
      /\ delivered' = AtMost(MaxEnergy, DeliveredToday + Work(p))
      /\ currentStates' = [currentStates EXCEPT ![p] = FALSE]
      /\ nextUp' = p
      /\ UNCHANGED nextDown
      /\ Publish

DownForgetsEnergy ==
  /\ Tick
  /\ age' = [p \in Phases |-> Older(p)]
  /\ delivered' = DeliveredToday
  /\ currentStates' = [currentStates EXCEPT ![nextDown] = FALSE]
  /\ nextDown' = (nextDown + 1) % N
  /\ UNCHANGED nextUp
  /\ Publish

Down ==
  /\ Tick
  /\ age' = [p \in Phases |-> Older(p)]
  /\ delivered' = AtMost(MaxEnergy, DeliveredToday + Work(nextDown))
  /\ currentStates' = [currentStates EXCEPT ![nextDown] = FALSE]
  /\ nextDown' = (nextDown + 1) % N
  /\ UNCHANGED nextUp
  /\ Publish

Up ==
  /\ Tick
  /\ age' = [p \in Phases |-> IF p = nextUp THEN 0 ELSE Older(p)]
  /\ delivered' = DeliveredToday
  /\ currentStates' = [currentStates EXCEPT ![nextUp] = TRUE]
  /\ nextUp' = (nextUp + 1) % N
  /\ UNCHANGED nextDown
  /\ Publish
=============================================================================
