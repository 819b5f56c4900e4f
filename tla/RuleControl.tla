----------------------------- MODULE RuleControl -----------------------------
(***************************************************************************)
(* A thing that is switched by a rule: RuleActuationStrategy of Plug, the  *)
(* symbols of RuleEngine, and the site updates of PowerManager.            *)
(*                                                                         *)
(* The strategy latches what its expressions ask for in _nextState when it *)
(* is asked, and steps later, when PowerManager lets it.                   *)
(***************************************************************************)
EXTENDS RuleEngine, StrategyUpdate

CONSTANTS
  Plug,                 \* the thing with the rule
  GridPowers,           \* long term grid powers
  OnExpression(_, _),   \* of the symbols of things and the grid power
  OffExpression(_, _),
  Unset                 \* an empty std::optional

ASSUME PlugAssumption ==
  /\ Plug \in WithStrategy
  /\ Unset \notin BOOLEAN

VARIABLES
  grid,       \* the symbol long_term_grid_power
  state,      \* RuleActuationStrategy::_state
  nextState,  \* RuleActuationStrategy::_nextState
  sinceStep,  \* siteProperties.ts - PowerManager::_lastStepTs, saturating
  beat        \* whether the number of updates is odd

(* Fairness of updates counts those that change nothing but beat.          *)
vars == <<engineVars, grid, state, nextState, sinceStep, beat>>

TypeOK ==
  /\ EngineTypeOK
  /\ grid \in GridPowers \cup {0}
  /\ state \in BOOLEAN \cup {Unset}
  /\ nextState \in BOOLEAN \cup {Unset}
  /\ sinceStep \in 0 .. StepUpDebounce
  /\ beat \in BOOLEAN

Init ==
  /\ EngineInit
  /\ grid = 0
  /\ state = Unset /\ nextState = Unset
  /\ sinceStep = StepUpDebounce
  /\ beat = FALSE

-----------------------------------------------------------------------------
(* RuleActuationStrategy.                                                  *)

On(g) == OnExpression(symbol, g)

Off(g) == OffExpression(symbol, g)

(* _nextState once it was asked to step down, or was not.                  *)
AfterDown(asked, g) == IF asked /\ Off(g) THEN FALSE ELSE nextState

AfterUp(next, asked, g) == IF asked /\ On(g) THEN TRUE ELSE next

(* Mutants: a latched on counts too, or only the expression counts.        *)
WantsToStepDownAny(g) ==
  AfterDown(TRUE, g) # Unset /\ state # AfterDown(TRUE, g)

WantsToStepDownNow(g) == Off(g) /\ state # FALSE

WantsToStepDown(g) == AfterDown(TRUE, g) = FALSE /\ state # FALSE

(* Its own expression was evaluated after the other one's.                 *)
WantsToStepUp(g) == AfterUp(AfterDown(TRUE, g), TRUE, g) = TRUE /\ state # TRUE

Stepped(o) ==
  CASE o.step = "Down" -> FALSE
    [] o.step = "Up"   -> TRUE
    [] o.step = "Keep" -> state

-----------------------------------------------------------------------------

Elapsed == IF sinceStep < StepUpDebounce THEN sinceStep + 1 ELSE sinceStep

(* Without the plug the update is for others.                              *)
AnyOutcome(g) ==
  IF Plug \in present
  THEN Outcomes(Elapsed, WantsToStepDown(g), WantsToStepUp(g))
  ELSE Outcomes(Elapsed, FALSE, FALSE)

(* PowerManager sets the symbols of the site before it asks anybody.       *)
SiteUpdate(g, o) ==
  /\ grid' = g
  /\ IF Plug \in present
     THEN /\ nextState' = AfterUp(AfterDown(o.askedDown, g), o.askedUp, g)
          /\ state' = Stepped(o)
     ELSE UNCHANGED <<state, nextState>>
  /\ sinceStep' = IF o.stepped = "nobody" THEN Elapsed ELSE 0
  /\ beat' = ~beat
  /\ UNCHANGED engineVars

SiteUpdates == \E g \in GridPowers : \E o \in AnyOutcome(g) : SiteUpdate(g, o)

(* The strategy comes and goes with its thing.                             *)
Join(t) ==
  /\ ThingAdded(t)
  /\ UNCHANGED <<grid, state, nextState, sinceStep, beat>>

Leave(t) ==
  /\ ThingRemoved(t)
  /\ state' = IF t = Plug THEN Unset ELSE state
  /\ nextState' = IF t = Plug THEN Unset ELSE nextState
  /\ UNCHANGED <<grid, sinceStep, beat>>

Report(t, v) ==
  /\ Publish(t, v)
  /\ UNCHANGED <<grid, state, nextState, sinceStep, beat>>

Next ==
  \/ SiteUpdates
  \/ \E t \in Things : Join(t)
  \/ \E t \in Things : Leave(t)
  \/ \E t \in Things : \E v \in Values : Report(t, v)

Spec == Init /\ [][Next]_vars

(* A thing that is there is polled, and reports what it reported.          *)
Polled(t) == Report(t, reading[t])

(* The site and the things are polled on a timer.  Things need not join or *)
(* leave, what they report need not change.                                *)
FairSpec ==
  Spec /\ WF_vars(SiteUpdates) /\ \A t \in Things : WF_vars(Polled(t))

-----------------------------------------------------------------------------
(* Properties.                                                             *)

(* A thing is switched only as the last request asks, although a request   *)
(* may be latched long before the step, and both questions of an update    *)
(* may latch one.                                                          *)
SwitchedAsAsked ==
  [][state' # state /\ Plug \in present' => state' = nextState']_vars

OtherStep ==
  \E g \in GridPowers : \E o \in AnyOutcome(g) :
    o.stepped = "other" /\ SiteUpdate(g, o)

OthersRest == <>[][~OtherStep]_vars

PlugStays == <>[](Plug \in present)

(* Once the other strategies rest, a request that was latched while its    *)
(* expression held is served after both expressions have fallen silent.    *)
LatchIsServed ==
  OthersRest /\ PlugStays /\ <>[](~On(grid) /\ ~Off(grid))
    => <>[](nextState = Unset \/ state = nextState)

(* From the thing to the plug: if what the things report asks to switch it *)
(* off for good, and on no more, the plug ends up off; unless one of them  *)
(* left and returned.                                                      *)
OffReachesPlug ==
  (/\ OthersRest /\ PlugStays
   /\ <>[](Mentions[Plug] \subseteq present \ left)
   /\ <>[](OffExpression(reading, grid) /\ ~OnExpression(reading, grid)))
    => <>[](state = FALSE)
=============================================================================
