---------------------------- MODULE RelayControl -----------------------------
(***************************************************************************)
(* MultiPhaseStrategy and its ShellyGen2Thing under PowerManager.          *)
(*                                                                         *)
(* A unit of time is the interval between two site updates.  The relay     *)
(* answers a set request, or fails to, before the next update, and reports *)
(* its status at any time.                                                 *)
(***************************************************************************)
EXTENDS MultiPhaseStrategy, StrategyUpdate

CONSTANTS
  GridPowers,        \* long term grid powers
  InputReports,      \* what the relay may report of its inputs
  MaxLost            \* requests that may be lost after a step

(* Between two steps the relay is sent every switch at least once.         *)
ASSUME ControlAssumption ==
  /\ GridPowers \subseteq Int
  /\ InputReports \subseteq [Phases -> BOOLEAN]
  /\ MaxLost \in Nat
  /\ N * (1 + MaxLost) <= StepDownDebounce

VARIABLES
  sinceStep,  \* siteProperties.ts - PowerManager::_lastStepTs, saturating
  grid,       \* the long term grid power of the last update
  lost        \* requests lost since the last step of this strategy

controlVars == <<sinceStep, grid, lost>>

vars == <<thingVars, strategyVars, controlVars>>

TypeOK ==
  /\ ThingTypeOK
  /\ StrategyTypeOK
  /\ sinceStep \in 0 .. StepUpDebounce
  /\ grid \in GridPowers \cup {0}
  /\ lost \in 0 .. MaxLost

Init ==
  /\ ThingInit
  /\ StrategyInit
  /\ sinceStep = StepUpDebounce
  /\ grid = 0
  /\ lost = 0

-----------------------------------------------------------------------------
(* The site update, as it reaches this strategy.                           *)

Elapsed == AtMost(StepUpDebounce, sinceStep + 1)

Now == AtMost(PhaseLimitDuration, limitAge + 1)

AnyOutcome(g) == Outcomes(Elapsed, WantsToStepDown(g), WantsToStepUp(g, Now))

SiteUpdate(g, o) ==
  /\ request = NoRequest
  /\ IF o.askedUp THEN Asked(Now) ELSE NotAsked(Now)
  /\ \/ o.step = "Down" /\ Down
     \/ o.step = "Up" /\ Up
     \/ o.step = "Keep" /\ Keep
  /\ SetStates(currentStates')
  /\ sinceStep' = IF o.stepped = "nobody" THEN Elapsed ELSE 0
  /\ lost' = IF o.stepped = "this" THEN 0 ELSE lost
  /\ grid' = g
  /\ UNCHANGED isInputActive

SiteUpdates == \E g \in GridPowers : \E o \in AnyOutcome(g) : SiteUpdate(g, o)

-----------------------------------------------------------------------------
(* The relay.                                                              *)

Execute == RequestExecuted /\ UNCHANGED <<strategyVars, controlVars>>

Lose ==
  /\ lost < MaxLost
  /\ RequestLost
  /\ lost' = lost + 1
  /\ UNCHANGED <<strategyVars, sinceStep, grid>>

Report(in) ==
  /\ StatusReport(in)
  /\ InputEvent(in)
  /\ UNCHANGED controlVars

Garbled ==
  /\ BadReport
  /\ InputEvent(Empty)
  /\ UNCHANGED controlVars

Next ==
  \/ SiteUpdates
  \/ Execute
  \/ Lose
  \/ \E in \in InputReports : Report(in)
  \/ Garbled

Spec == Init /\ [][Next]_vars

(* A report of unchanged inputs, or the first one after none.              *)
Refresh == \E in \in InputReports : inputs \in {in, Empty} /\ Report(in)

(* The site is polled on a timer, and so is the relay; a request is        *)
(* answered unless it is lost.  Nothing makes the grid power, the inputs   *)
(* or the other strategies change.                                         *)
FairSpec ==
  Spec /\ WF_vars(SiteUpdates) /\ WF_vars(Execute) /\ WF_vars(Refresh)

-----------------------------------------------------------------------------
(* Properties.                                                             *)

(* The phase that is k switches after nextDown.                            *)
RingPosition(p) == (p - nextDown + N) % N

(* MultiPhaseStrategy keeps two cursors and a vector; they agree: the      *)
(* commanded phases are those from _nextStepDownPhase up to, not           *)
(* including, _nextStepUpPhase.                                            *)
OnPhasesAreARing ==
  /\ On(currentStates)
       = {p \in Phases : RingPosition(p) < Cardinality(On(currentStates))}
  /\ RingPosition(nextUp) = Cardinality(On(currentStates)) % N

(* Phases wear evenly: a step down always switches off a phase that is on, *)
(* and none has been on for longer.                                        *)
OldestOffFirst ==
  [][\A p \in Phases :
       currentStates[p] /\ ~currentStates'[p] =>
         \A q \in On(currentStates) : age[q] <= age[p]]_vars

(* A step up stays within the phase limit, though it counts the phases     *)
(* that are reported, and asking may just have raised the limit.           *)
LimitRespected ==
  [][Cardinality(On(currentStates')) > Cardinality(On(currentStates))
       => Cardinality(On(currentStates')) <= phaseLimit']_vars

(* The comment in wantsToStepDown says "If digital input is not active, we *)
(* want to step down": with an inactive input, once the relay has followed *)
(* its commands and reported so, a phase that is on is given up.           *)
InactiveInputStepsDown ==
  (~isInputActive /\ Reported /\ states = currentStates
     /\ switches = currentStates /\ On(switches) # {})
    => WantsToStepDown(0)

(* The energy published for a day never falls before the day is over,      *)
(* whichever phases are switched in between.                               *)
EnergyNeverFalls ==
  [][clock' = 0 \/ energy <= energy']_vars

(* Once the other strategies rest, phases whose inputs all stay inactive   *)
(* end up switched off, in spite of lost requests and stale reports.  (It  *)
(* takes all of them: with one input active the strategy steps its phase   *)
(* up, and down again because not all are active, for ever.)               *)
OtherStep ==
  \E g \in GridPowers : \E o \in AnyOutcome(g) :
    o.stepped = "other" /\ SiteUpdate(g, o)

OthersRest == <>[][~OtherStep]_vars

InactiveInputSwitchesOff ==
  OthersRest /\ <>[](Reported /\ On(inputs) = {}) => <>[](On(switches) = {})

(* Once the other strategies rest, a surplus that stays and inputs that    *)
(* stay active switch all phases on: a lowered limit recovers.             *)
Surplus ==
  \A p \in Phases : grid < -PowerThreshold[p] - Hysteresis[p]

SurplusSwitchesOn ==
  OthersRest /\ <>[](On(inputs) = Phases /\ Surplus)
    => <>[](On(switches) = Phases)
=============================================================================
