--------------------------- MODULE StrategyUpdate ----------------------------
(***************************************************************************)
(* A site update as one strategy sees it: whether PowerManager asked it if *)
(* it wants to step down or up (asking has side effects), which step it    *)
(* was adjusted with, and whether anybody's step restarted the clock.  The *)
(* other strategies are an environment that may step whenever PowerManager *)
(* would let them.  PowerManager has the property that every strategy sees *)
(* one of these outcomes in every update.                                  *)
(***************************************************************************)
EXTENDS Integers

CONSTANTS
  StepDownDebounce,  \* ConfigRepository::stepDownDebounceSeconds
  StepUpDebounce     \* ConfigRepository::stepUpDebounceSeconds

ASSUME DebounceAssumption ==
  /\ StepDownDebounce \in Nat
  /\ StepUpDebounce \in Nat \ {0}
  /\ StepDownDebounce <= StepUpDebounce

Outcome(askedDown, askedUp, step, stepped) ==
  [askedDown |-> askedDown, askedUp |-> askedUp, step |-> step,
   stepped |-> stepped]

(* since is the time since the last step of any strategy; wantsDown and    *)
(* wantsUp are what this one answers if it is asked.                       *)
Outcomes(since, wantsDown, wantsUp) ==
  LET downDue == since >= StepDownDebounce
      upDue   == since >= StepUpDebounce
  IN  {o \in {Outcome(TRUE, FALSE, "Down", "this")} : downDue /\ wantsDown}
      \cup
      {o \in {Outcome(TRUE, TRUE, "Up", "this")} :
         upDue /\ ~wantsDown /\ wantsUp}
      \cup
      (* nobody steps *)
      {o \in {Outcome(TRUE, TRUE, "Keep", "nobody")} :
         ~(downDue /\ wantsDown) /\ ~(upDue /\ wantsUp)}
      \cup
      (* another one steps down, before or after this one is asked *)
      {o \in {Outcome(FALSE, TRUE, "Keep", "other")} : downDue}
      \cup
      {o \in {Outcome(TRUE, TRUE, "Keep", "other")} : downDue /\ ~wantsDown}
      \cup
      (* another one steps up, before or after this one is asked *)
      {o \in {Outcome(TRUE, FALSE, "Keep", "other")} : upDue /\ ~wantsDown}
=============================================================================
