---------------------------- MODULE PowerManager ----------------------------
(***************************************************************************)
(* The control loop of the daemon: PowerManager evaluates the strategies   *)
(* of StrategyRepository on every update of the site's power readings.     *)
(*                                                                         *)
(* A strategy is one thing's controller.  What it wants is an input of     *)
(* this module: D and U are the strategies that answer true if they are    *)
(* asked to step down or up in this update.  The modules of the            *)
(* strategies say when they do.                                            *)
(*                                                                         *)
(* Time is counted in a unit of the model.  The code keeps _lastStepTs and *)
(* compares siteProperties.ts with _lastStepTs plus a debounce time; here  *)
(* sinceStep is their difference, saturating at the longer debounce time,  *)
(* above which no comparison can tell two values apart.  Time passes       *)
(* between the updates, or several updates share a unit of time.           *)
(***************************************************************************)
EXTENDS Integers, Sequences, SequencesExt

CONSTANTS
  Things,            \* the ids of the things that may have a strategy
  Priority,          \* the configured priority of each thing's strategy
  NoThing,           \* "no strategy was stepped"
  StepDownDebounce,  \* ConfigRepository::stepDownDebounceSeconds
  StepUpDebounce     \* ConfigRepository::stepUpDebounceSeconds

ASSUME PriorityAssumption == Priority \in [Things -> Int]

ASSUME NoThingAssumption == NoThing \notin Things

(* The debounce times are compile-time constants, 120 and 180 seconds.     *)
ASSUME DebounceAssumption ==
  /\ StepDownDebounce \in Nat
  /\ StepUpDebounce \in Nat \ {0}
  /\ StepDownDebounce <= StepUpDebounce

VARIABLES
  strategies,  \* StrategyRepository::_strategies, front first
  sinceStep,   \* the time since _lastStepTs, saturating
  wantsDown,   \* the strategies that wanted to step down in the last update
  wantsUp,     \* the strategies that wanted to step up in the last update
  stepDown,    \* the strategy the last update stepped down, or NoThing
  stepUp,      \* the strategy the last update stepped up, or NoThing
  kept,        \* the strategies the last update adjusted with Step::Keep
  beat         \* whether the number of updates is odd

(* Without beat, an update that is like the one before would be a stutter, *)
(* and fairness of updates would demand that something else happens.       *)
vars == <<strategies, sinceStep, wantsDown, wantsUp, stepDown, stepUp, kept, beat>>

lastUpdate == <<wantsDown, wantsUp, stepDown, stepUp, kept, beat>>

-----------------------------------------------------------------------------

Registered == ToSet(strategies)

(* The position in the list of the last, or the first, of a set of         *)
(* strategies; 0 if there is none.                                         *)
LastOf(list, S) == SelectLastInSeq(list, LAMBDA t : t \in S)

FirstOf(list, S) == SelectInSeq(list, LAMBDA t : t \in S)

-----------------------------------------------------------------------------
(* StrategyRepository.                                                     *)

(* addStrategy appends the strategy and sorts the list by priority.  The   *)
(* sort is stable and the list was sorted before, so the new strategy ends *)
(* up behind the last one whose priority is not lower.                     *)
SortedInsert(list, s) ==
  InsertAt(list, 1 + LastOf(list, {t \in Things : Priority[t] >= Priority[s]}), s)

(* A thing with a strategy joins: RuleEngine creates its strategy.         *)
AddStrategy(s) ==
  /\ s \notin Registered
  /\ strategies' = SortedInsert(strategies, s)
  /\ UNCHANGED <<sinceStep, lastUpdate>>

(* The thing is removed, and its strategy with it.                         *)
ThingRemoved(s) ==
  /\ s \in Registered
  /\ strategies' = RemoveAt(strategies, LastOf(strategies, {s}))
  /\ UNCHANGED <<sinceStep, lastUpdate>>

-----------------------------------------------------------------------------
(* PowerManager.                                                           *)

(* Mutants of DownPass: the loop runs from the front, the clock or the     *)
(* list is left as it was, or every request restarts the clock.            *)
DownPassFromFront(list, D, since) ==
  LET i == FirstOf(list, D)
  IN  IF i # 0 /\ since >= StepDownDebounce
      THEN [thing |-> list[i], rest |-> RemoveAt(list, i), since |-> 0]
      ELSE [thing |-> NoThing, rest |-> list, since |-> since]

DownPassClockRuns(list, D, since) ==
  LET i == LastOf(list, D)
  IN  IF i # 0 /\ since >= StepDownDebounce
      THEN [thing |-> list[i], rest |-> RemoveAt(list, i), since |-> since]
      ELSE [thing |-> NoThing, rest |-> list, since |-> since]

DownPassNoErase(list, D, since) ==
  LET i == LastOf(list, D)
  IN  IF i # 0 /\ since >= StepDownDebounce
      THEN [thing |-> list[i], rest |-> list, since |-> 0]
      ELSE [thing |-> NoThing, rest |-> list, since |-> since]

DownPassRestarts(list, D, since) ==
  LET i == LastOf(list, D)
  IN  IF i # 0 /\ since >= StepDownDebounce
      THEN [thing |-> list[i], rest |-> RemoveAt(list, i), since |-> 0]
      ELSE [thing |-> NoThing, rest |-> list,
            since |-> IF i # 0 THEN 0 ELSE since]

(* The first loop goes through a copy of the list from its back.  The      *)
(* first strategy that wants to step down, if its debounce time is over,   *)
(* is stepped and leaves the copy.                                         *)
DownPass(list, D, since) ==
  LET i == LastOf(list, D)
  IN  IF i # 0 /\ since >= StepDownDebounce
      THEN [thing |-> list[i], rest |-> RemoveAt(list, i), since |-> 0]
      ELSE [thing |-> NoThing, rest |-> list, since |-> since]

(* Mutants of UpPass: the shorter debounce time, or every request restarts *)
(* the clock.                                                              *)
UpPassEarly(list, U, since) ==
  LET i == FirstOf(list, U)
  IN  IF i # 0 /\ since >= StepDownDebounce
      THEN [thing |-> list[i], rest |-> RemoveAt(list, i), since |-> 0]
      ELSE [thing |-> NoThing, rest |-> list, since |-> since]

UpPassRestarts(list, U, since) ==
  LET i == FirstOf(list, U)
  IN  IF i # 0 /\ since >= StepUpDebounce
      THEN [thing |-> list[i], rest |-> RemoveAt(list, i), since |-> 0]
      ELSE [thing |-> NoThing, rest |-> list,
            since |-> IF i # 0 THEN 0 ELSE since]

(* The second loop goes through what is left from its front.               *)
UpPass(list, U, since) ==
  LET i == FirstOf(list, U)
  IN  IF i # 0 /\ since >= StepUpDebounce
      THEN [thing |-> list[i], rest |-> RemoveAt(list, i), since |-> 0]
      ELSE [thing |-> NoThing, rest |-> list, since |-> since]

(* One update of the site: both loops, then Step::Keep for whoever is left *)
(* in the copy.                                                            *)
SiteUpdate(D, U) ==
  LET down == DownPass(strategies, D, sinceStep)
      up   == UpPass(down.rest, U, down.since)
  IN  /\ wantsDown' = D
      /\ wantsUp'   = U
      /\ stepDown'  = down.thing
      /\ stepUp'    = up.thing
      /\ kept'      = up.rest
      /\ sinceStep' = up.since
      /\ beat'      = ~beat
      /\ UNCHANGED strategies

(* Every strategy may answer anything.                                     *)
AnyUpdate ==
  \E D \in SUBSET Registered : \E U \in SUBSET Registered : SiteUpdate(D, U)

TimePasses ==
  /\ sinceStep' = Min({sinceStep + 1, StepUpDebounce})
  /\ UNCHANGED <<strategies, lastUpdate>>

-----------------------------------------------------------------------------

(* _lastStepTs starts at 0, the epoch: every debounce time is over.        *)
Init ==
  /\ strategies = <<>>
  /\ sinceStep = StepUpDebounce
  /\ wantsDown = {} /\ wantsUp = {}
  /\ stepDown = NoThing /\ stepUp = NoThing
  /\ kept = <<>>
  /\ beat = FALSE

Next ==
  \/ \E s \in Things : AddStrategy(s)
  \/ \E s \in Things : ThingRemoved(s)
  \/ AnyUpdate
  \/ TimePasses

Spec == Init /\ [][Next]_vars

(* The site keeps publishing and the clock keeps advancing, because things *)
(* are polled on a timer.  Things need not join or leave, and strategies   *)
(* may want anything.                                                      *)
FairSpec == Spec /\ WF_vars(AnyUpdate) /\ WF_vars(TimePasses)

-----------------------------------------------------------------------------
(* Properties.                                                             *)

TypeOK ==
  /\ strategies \in Seq(Things)
  /\ sinceStep \in 0 .. StepUpDebounce
  /\ wantsDown \subseteq Things
  /\ wantsUp \subseteq Things
  /\ stepDown \in Things \cup {NoThing}
  /\ stepUp \in Things \cup {NoThing}
  /\ kept \in Seq(Things)
  /\ beat \in BOOLEAN

(* StrategyRepository: whatever joins and leaves, in whatever order, the   *)
(* list holds every strategy once and is sorted by descending priority;    *)
(* both loops of PowerManager rely on it.                                  *)
SortedList ==
  \A i, j \in DOMAIN strategies :
    i < j => /\ strategies[i] # strategies[j]
             /\ Priority[strategies[i]] >= Priority[strategies[j]]

(* PowerManager: a step down hits the least important strategy that asked  *)
(* for it, a step up the most important one.                               *)
StepsByPriority ==
  /\ stepDown # NoThing =>
       \A t \in wantsDown : Priority[t] >= Priority[stepDown]
  /\ stepUp # NoThing =>
       \A t \in wantsUp : Priority[t] <= Priority[stepUp]

(* PowerManager: power is handed to a new consumer only in an update in    *)
(* which no strategy asked to give any back.  The two loops and the two    *)
(* debounce times produce this together: had one asked, its debounce time  *)
(* would be over too, and its step would have restarted the clock.         *)
UpOnlyWhenNobodyWantsDown ==
  stepUp # NoThing => wantsDown = {}

(* PowerManager: an update reaches every registered strategy exactly once, *)
(* with a step or with Keep, whatever joined or left before it.            *)
Adjusted(s) ==
  {<<"Keep", i>> : i \in {j \in DOMAIN kept : kept[j] = s}}
    \cup {<<"Step", x>> : x \in {y \in {"Down", "Up"} :
                 (y = "Down" /\ stepDown = s) \/ (y = "Up" /\ stepUp = s)}}

EachAdjustedOnce ==
  [][AnyUpdate =>
       \A s \in Things : IF s \in Registered
                         THEN \E x \in Adjusted(s)' : Adjusted(s)' = {x}
                         ELSE Adjusted(s)' = {}]_vars

(* The abstract promise: one step per update, and the debounce times.      *)
Promise ==
  INSTANCE DebouncedSteps WITH
    quiet <- sinceStep,
    steps <- {<<s, "Down">> : s \in {stepDown} \ {NoThing}}
               \cup {<<s, "Up">> : s \in {stepUp} \ {NoThing}}

KeepsPromise == Promise!Spec

(* What the update was for one strategy.  The first loop asked it unless   *)
(* one behind it in the list was stepped down; the second loop asked it    *)
(* unless it was stepped down, or one before it was stepped up.            *)
View ==
  INSTANCE StrategyUpdate

Position(s) == LastOf(strategies, {s})

OutcomeFor(s) ==
  View!Outcome(
    stepDown \notin Things \/ Position(stepDown) <= Position(s),
    stepDown # s /\ (stepUp \notin Things \/ Position(s) <= Position(stepUp)),
    IF stepDown = s THEN "Down" ELSE IF stepUp = s THEN "Up" ELSE "Keep",
    IF s \in {stepDown, stepUp} THEN "this"
    ELSE IF {stepDown, stepUp} = {NoThing} THEN "nobody" ELSE "other")

(* PowerManager: every strategy sees the update as the modules of the      *)
(* single strategies assume it.                                            *)
EachSeesAnOutcome ==
  [][AnyUpdate =>
       \A s \in Registered :
         OutcomeFor(s)' \in View!Outcomes(sinceStep, s \in wantsDown',
                                         s \in wantsUp')]_vars

(* A strategy that keeps asking to step down, and is the least important   *)
(* one that does, is stepped down again and again.                         *)
NextDown(s) ==
  s \in wantsDown /\ \A t \in wantsDown \ {s} : Priority[t] > Priority[s]

DownIsServed ==
  \A s \in Things : <>[]NextDown(s) => []<>(stepDown = s)

(* A strategy that keeps asking to step up, and is the most important one  *)
(* that does, is stepped up again and again, unless others keep asking to  *)
(* step down.                                                              *)
NextUp(s) ==
  s \in wantsUp /\ \A t \in wantsUp \ {s} : Priority[t] < Priority[s]

UpIsServed ==
  \A s \in Things :
    <>[](NextUp(s) /\ wantsDown = {}) => []<>(stepUp = s)
=============================================================================
