--------------------------- MODULE DebouncedSteps ---------------------------
(***************************************************************************)
(* What the power manager promises to the household, whatever the          *)
(* strategies ask for: in one site update at most one strategy is stepped, *)
(* a step down comes at least StepDownDebounce after the previous step of  *)
(* any strategy, and a step up at least StepUpDebounce after it; nothing   *)
(* but a step restarts the clock.                                          *)
(***************************************************************************)
EXTENDS Integers, FiniteSetsExt

CONSTANTS
  Things,            \* the ids of the things that may have a strategy
  StepDownDebounce,  \* ConfigRepository::stepDownDebounceSeconds
  StepUpDebounce     \* ConfigRepository::stepUpDebounceSeconds

VARIABLES
  quiet,   \* time since the last step, saturating at StepUpDebounce
  steps    \* the steps of the last site update, as pairs <<thing, direction>>

vars == <<quiet, steps>>

Init ==
  /\ quiet = StepUpDebounce
  /\ steps = {}

TimePasses ==
  /\ quiet' = Min({quiet + 1, StepUpDebounce})
  /\ UNCHANGED steps

(* A site update in which nobody is stepped.                               *)
NoStep ==
  /\ steps' = {}
  /\ UNCHANGED quiet

(* A site update in which exactly one thing is stepped, after its debounce *)
(* time.                                                                   *)
StepDown(s) ==
  /\ quiet >= StepDownDebounce
  /\ steps' = {<<s, "Down">>}
  /\ quiet' = 0

StepUp(s) ==
  /\ quiet >= StepUpDebounce
  /\ steps' = {<<s, "Up">>}
  /\ quiet' = 0

Next ==
  \/ TimePasses
  \/ NoStep
  \/ \E s \in Things : StepDown(s) \/ StepUp(s)

Spec == Init /\ [][Next]_vars
=============================================================================
