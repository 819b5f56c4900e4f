--------------------------- MODULE ThingsManager ----------------------------
(***************************************************************************)
(* The timer that polls all things: it fires every 100 ms or somewhat      *)
(* later, rounds the time of day to 100 ms and polls if that is a multiple *)
(* of the interval.  The delays add up, so that a multiple may be jumped   *)
(* over.  Time is counted in fractions of a tick.  A clock that is set, or *)
(* made slower or faster, is not modelled.                                 *)
(***************************************************************************)
EXTENDS Integers

CONSTANTS
  Tick,      \* 100 ms
  Second,    \* one second
  Interval,  \* ConfigRepository::thingInterval, in seconds
  Drift,     \* how late a tick is at most
  MaxTime    \* bound: when the model ends

ASSUME TimerAssumption ==
  /\ {Tick, Second, Interval} \subseteq Nat \ {0}
  /\ Drift \in 0 .. Tick - 1 /\ MaxTime \in Nat
  /\ Second % Tick = 0

VARIABLES
  now,    \* the time of day when the timer fired last
  asked,  \* an answer of the thing to a poll is under way
  polled  \* history: the rounded time of the last poll

timerVars == <<now, asked, polled>>

TimerInit == now = 0 /\ asked = FALSE /\ polled = 0

(* The time without rounding.  *)
Unrounded(t) == t

Rounded(t) == ((2 * t + Tick) \div (2 * Tick)) * Tick

Due(t) == Rounded(t) % (Interval * Second) = 0

onTimer ==
  /\ now' \in (now + Tick) .. (now + Tick + Drift)
  /\ now' <= MaxTime
  /\ IF Due(now') THEN asked' = TRUE /\ polled' = Rounded(now')
                  ELSE UNCHANGED <<asked, polled>>

(* While the delays add up to less than a tick per interval, no two polls  *)
(* in a row are missed.                                                    *)
NeverTwoMissed ==
  Interval * Second * Drift < Tick * Tick =>
    now - polled < 2 * Interval * Second + Tick
=============================================================================
