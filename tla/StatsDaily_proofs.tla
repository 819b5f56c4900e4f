-------------------------- MODULE StatsDaily_proofs -------------------------
(***************************************************************************)
(* Proofs about StatsDaily and the timer of ThingsManager, for all powers, *)
(* delays, intervals and lengths of a day.                                 *)
(***************************************************************************)
EXTENDS StatsDaily, TLAPS

-----------------------------------------------------------------------------
(* Arithmetic.                                                             *)

(* The quotient, as the multiples it lies between.                         *)
LEMMA Quotient ==
  ASSUME NEW a \in Nat, NEW n \in Nat \ {0}
  PROVE  /\ a \div n \in Nat
         /\ n * (a \div n) <= a /\ a < n * (a \div n) + n
BY SMT

(* Division keeps the order.                                               *)
LEMMA QuotientGrows ==
  ASSUME NEW a \in Nat, NEW b \in Nat, NEW n \in Nat \ {0}, a <= b
  PROVE  a \div n <= b \div n
<1>. DEFINE p == a \div n
            q == b \div n
<1>1. /\ p \in Nat /\ n * p <= a
      /\ q \in Nat /\ b < n * q + n
  BY Quotient
<1>. HIDE DEF p, q
<1>2. ASSUME q + 1 <= p PROVE FALSE
  <2>1. n * (q + 1) <= n * p
    BY <1>1, <1>2, SMT
  <2>2. n * (q + 1) = n * q + n
    BY <1>1, SMT
  <2>3. n * q \in Nat /\ n * p \in Nat
    BY <1>1, SMT
  <2>. QED
    BY <1>1, <2>1, <2>2, <2>3
<1>3. p <= q
  BY <1>1, <1>2
<1>. QED
  BY <1>3 DEF p, q

(* Two times of a day are less than a day apart.                           *)
LEMMA SameQuotient ==
  ASSUME NEW a \in Nat, NEW b \in Nat, NEW n \in Nat \ {0}, a \div n = b \div n
  PROVE  b - a < n
<1>. DEFINE q == a \div n
            m == n * q
<1>1. q \in Nat /\ m <= a /\ b < m + n
  BY Quotient
<1>2. m \in Nat
  BY <1>1, SMT
<1>. HIDE DEF m, q
<1>. QED
  BY <1>1, <1>2

(* Products: with a sum, with a greater factor, with nothing.              *)
LEMMA TimesNat == ASSUME NEW x \in Nat, NEW s \in Nat PROVE x * s \in Nat
BY SMT

LEMMA TimesSum ==
  ASSUME NEW x \in Nat, NEW s \in Nat, NEW t \in Nat
  PROVE  x * (s + t) = x * s + x * t
BY SMT

LEMMA TimesGrows ==
  ASSUME NEW x \in Nat, NEW y \in Nat, NEW s \in Nat, x <= y
  PROVE  x * s <= y * s
BY SMT

LEMMA TimesZero == ASSUME NEW x \in Nat PROVE x * 0 = 0
BY SMT

-----------------------------------------------------------------------------
(* The invariant.                                                          *)

StatsTypeOK ==
  /\ now \in Nat
  /\ stats \in [currentDay : Nat, timestamp : Nat, energyDelivered : Nat]
  /\ first \in Nat /\ low \in Nat /\ high \in Nat

(* All reports of the sum are of its day, the first and the last, too.     *)
ReportsOfTheDay ==
  /\ first <= stats.timestamp /\ stats.timestamp <= Seconds
  /\ first \div Day = stats.currentDay
  /\ stats.timestamp \div Day = stats.currentDay

SumIsWithin ==
  /\ low * (stats.timestamp - first) <= stats.energyDelivered
  /\ stats.energyDelivered <= high * (stats.timestamp - first)

StatsInv ==
  /\ StatsTypeOK
  /\ dcEnergy = stats.energyDelivered \div KiloWattMinute
  /\ IF stats.currentDay = 0 THEN stats.energyDelivered = 0
                             ELSE ReportsOfTheDay /\ SumIsWithin

(* The clock shows a second of day 1 or later.                             *)
LEMMA SecondsType ==
  ASSUME now \in Nat
  PROVE  Seconds \in Nat /\ Seconds \div Day \in Nat \ {0}
<1>1. now \div Second \in Nat /\ Day \in Nat \ {0}
  BY Quotient, TimerAssumption, StatsAssumption
<1>2. Seconds \in Nat /\ Day <= Seconds
  BY <1>1 DEF Seconds
<1>3. Day \div Day = 1
  BY <1>1, SMT
<1>4. 1 <= Seconds \div Day
  BY <1>1, <1>2, <1>3, QuotientGrows
<1>5. Seconds \div Day \in Nat
  BY <1>1, <1>2, Quotient
<1>. QED
  BY <1>2, <1>4, <1>5

LEMMA InitStatsInv == Init => StatsInv
<1>1. 0 \div KiloWattMinute = 0
  BY StatsAssumption, SMT
<1>. QED
  BY <1>1 DEF Init, TimerInit, NoStats, StatsInv, StatsTypeOK

(* The timer lets time pass.                                               *)
LEMMA FireKeeps ==
  ASSUME StatsInv, Fire
  PROVE  StatsInv'
<1>1. now' \in Nat /\ now <= now'
  BY TimerAssumption DEF Fire, onTimer, StatsInv, StatsTypeOK
<1>2. Seconds <= Seconds'
  <2>1. now \in Nat /\ Second \in Nat \ {0} /\ Day \in Nat
    BY TimerAssumption, StatsAssumption DEF StatsInv, StatsTypeOK
  <2>2. /\ now \div Second <= now' \div Second
        /\ now \div Second \in Nat /\ now' \div Second \in Nat
    BY <1>1, <2>1, QuotientGrows, Quotient
  <2>. QED
    BY <2>1, <2>2 DEF Seconds
<1>3. Seconds \in Nat /\ Seconds' \in Nat
  <2>1. now \in Nat /\ Second \in Nat \ {0} /\ Day \in Nat
    BY TimerAssumption, StatsAssumption DEF StatsInv, StatsTypeOK
  <2>2. now \div Second \in Nat /\ now' \div Second \in Nat
    BY <1>1, <2>1, Quotient
  <2>. QED
    BY <2>1, <2>2 DEF Seconds
<1>4. UNCHANGED <<stats, dcEnergy, first, low, high>>
  BY DEF Fire, statsVars
<1>. QED
  BY <1>1, <1>2, <1>3, <1>4 DEF StatsInv, StatsTypeOK, ReportsOfTheDay, SumIsWithin

(* What a report adds, to a sum that has begun or begins with it.          *)
LEMMA ReportKeeps ==
  ASSUME StatsInv, NEW value \in Powers, DcPower(value), now' = now
  PROVE  /\ StatsInv'
         /\ stats'.currentDay = stats.currentDay =>
              stats.energyDelivered <= stats'.energyDelivered
<1>. DEFINE day == Seconds \div Day
            s == StartOfDay(stats)
<1>1. /\ value \in Nat /\ Day \in Nat \ {0} /\ KiloWattMinute \in Nat \ {0}
      /\ Seconds \in Nat /\ day \in Nat \ {0} /\ Seconds' = Seconds
  BY SecondsType, StatsAssumption DEF StatsInv, StatsTypeOK, Seconds
<1>2. /\ stats' = [s EXCEPT !.timestamp = Seconds, !.energyDelivered = Added(s, value)]
      /\ dcEnergy' = stats'.energyDelivered \div KiloWattMinute
      /\ first' = IF day # stats.currentDay THEN Seconds ELSE first
      /\ low' = IF day # stats.currentDay \/ value < low THEN value ELSE low
      /\ high' = IF day # stats.currentDay \/ value > high THEN value ELSE high
  BY DEF DcPower
<1>3. /\ s \in [currentDay : Nat, timestamp : Nat, energyDelivered : Nat]
      /\ s.currentDay = day
      /\ s.timestamp <= Seconds
      /\ day = stats.currentDay => s = stats
      /\ day # stats.currentDay => s.energyDelivered = 0 /\ s.timestamp = Seconds
  BY <1>1 DEF StartOfDay, StatsInv, StatsTypeOK, ReportsOfTheDay
<1>. HIDE DEF s, day
<1>4. PICK passed \in Nat : passed = Seconds - s.timestamp
  BY <1>1, <1>3
<1>4a. PICK gain \in Nat : gain = value * passed
  BY <1>1, TimesNat
<1>5. Added(s, value) = s.energyDelivered + gain
  BY <1>4, <1>4a DEF Added
<1>6. /\ stats' \in [currentDay : Nat, timestamp : Nat, energyDelivered : Nat]
      /\ stats'.currentDay = day /\ stats'.timestamp = Seconds
      /\ stats'.energyDelivered = s.energyDelivered + gain
  <2>1. s.energyDelivered + gain \in Nat /\ Seconds \in Nat
    BY <1>1, <1>3
  <2>. DEFINE sum == s.energyDelivered + gain
  <2>2. stats' = [s EXCEPT !.timestamp = Seconds, !.energyDelivered = sum] /\ sum \in Nat
    BY <1>2, <1>5, <2>1
  <2>. HIDE DEF sum
  <2>3. stats' \in [currentDay : Nat, timestamp : Nat, energyDelivered : Nat]
        /\ stats'.currentDay = day /\ stats'.timestamp = Seconds
        /\ stats'.energyDelivered = sum
    BY <1>3, <2>1, <2>2
  <2>. QED
    BY <2>3 DEF sum
<1>7. StatsTypeOK'
  BY <1>1, <1>2, <1>6 DEF StatsInv, StatsTypeOK
<1>7a. low' \in Nat /\ high' \in Nat
  BY <1>7 DEF StatsTypeOK
<1>8. (ReportsOfTheDay /\ SumIsWithin)'
  <2>1. CASE day # stats.currentDay
    <3>1. first' = Seconds /\ stats'.timestamp = Seconds /\ stats'.timestamp - first' = 0
      BY <1>1, <1>2, <1>6, <2>1
    <3>2. passed = 0
      BY <1>1, <1>3, <1>4, <2>1
    <3>3. gain = 0
      BY <1>1, <1>4a, <3>2, TimesZero
    <3>4. stats'.energyDelivered = 0
      BY <1>3, <1>6, <2>1, <3>3
    <3>5. low' * 0 = 0 /\ high' * 0 = 0
      BY <1>7a, TimesZero
    <3>6. SumIsWithin'
      BY <3>1, <3>4, <3>5 DEF SumIsWithin
    <3>. QED
      BY <1>1, <1>6, <3>1, <3>6 DEF ReportsOfTheDay, day
  <2>2. CASE day = stats.currentDay
    <3>1. /\ ReportsOfTheDay /\ SumIsWithin /\ s = stats
          /\ low \in Nat /\ high \in Nat /\ first \in Nat /\ stats.timestamp \in Nat
          /\ stats.energyDelivered \in Nat
      BY <1>1, <1>3, <2>2 DEF StatsInv, StatsTypeOK
    <3>2. PICK counted \in Nat : counted = stats.timestamp - first
      BY <3>1 DEF ReportsOfTheDay
    <3>3. stats'.timestamp - first' = counted + passed /\ first' = first
      BY <1>1, <1>2, <1>3, <1>4, <1>6, <2>2, <3>1, <3>2
    <3>4. PICK lo \in Nat : lo = low' /\ lo <= low /\ lo <= value
      BY <1>1, <1>2, <2>2, <3>1
    <3>4a. PICK hi \in Nat : hi = high' /\ high <= hi /\ value <= hi
      BY <1>1, <1>2, <2>2, <3>1
    <3>5. /\ lo * (counted + passed) = lo * counted + lo * passed
          /\ lo * counted <= low * counted /\ lo * passed <= gain
          /\ lo * counted \in Nat /\ lo * passed \in Nat /\ low * counted \in Nat
      <4>1. lo * (counted + passed) = lo * counted + lo * passed
        BY TimesSum
      <4>2. lo * counted <= low * counted
        BY <3>1, <3>4, TimesGrows
      <4>3. lo * passed <= value * passed
        BY <1>1, <3>4, TimesGrows
      <4>4. lo * counted \in Nat /\ lo * passed \in Nat /\ low * counted \in Nat
        BY <3>1, TimesNat
      <4>. QED
        BY <1>4a, <4>1, <4>2, <4>3, <4>4
    <3>6. /\ hi * (counted + passed) = hi * counted + hi * passed
          /\ high * counted <= hi * counted /\ gain <= hi * passed
          /\ hi * counted \in Nat /\ hi * passed \in Nat /\ high * counted \in Nat
      <4>1. hi * (counted + passed) = hi * counted + hi * passed
        BY TimesSum
      <4>2. high * counted <= hi * counted
        BY <3>1, <3>4a, TimesGrows
      <4>3. value * passed <= hi * passed
        BY <1>1, <3>4a, TimesGrows
      <4>4. hi * counted \in Nat /\ hi * passed \in Nat /\ high * counted \in Nat
        BY <3>1, TimesNat
      <4>. QED
        BY <1>4a, <4>1, <4>2, <4>3, <4>4
    <3>7. low * counted <= stats.energyDelivered /\ stats.energyDelivered <= high * counted
      BY <3>1, <3>2 DEF SumIsWithin
    <3>8. /\ lo * (counted + passed) <= stats'.energyDelivered
          /\ stats'.energyDelivered <= hi * (counted + passed)
      BY <1>6, <3>1, <3>5, <3>6, <3>7
    <3>9. SumIsWithin'
      BY <3>3, <3>4, <3>4a, <3>8 DEF SumIsWithin
    <3>. QED
      BY <1>1, <1>3, <1>6, <2>2, <3>1, <3>3, <3>9 DEF ReportsOfTheDay, day
  <2>. QED
    BY <2>1, <2>2
<1>9. stats'.currentDay = stats.currentDay => stats.energyDelivered <= stats'.energyDelivered
  BY <1>3, <1>6
<1>. QED
  BY <1>1, <1>2, <1>6, <1>7, <1>8, <1>9 DEF StatsInv

(* The sums are lost with the daemon.                                      *)
LEMMA RestartKeeps ==
  ASSUME StatsInv, Restart
  PROVE  StatsInv'
<1>1. 0 \div KiloWattMinute = 0
  BY StatsAssumption, SMT
<1>. QED
  BY <1>1 DEF Restart, NoStats, StatsInv, StatsTypeOK

LEMMA StatsStep == StatsInv /\ [Next]_vars => StatsInv'
<1>. SUFFICES ASSUME StatsInv, [Next]_vars PROVE StatsInv'
  OBVIOUS
<1>1. CASE Fire
  BY <1>1, FireKeeps
<1>2. CASE Report
  <2>1. PICK value \in Powers : DcPower(value)
    BY <1>2 DEF Report
  <2>. QED
    BY <1>2, <2>1, ReportKeeps DEF Report
<1>3. CASE Restart
  BY <1>3, RestartKeeps
<1>4. CASE UNCHANGED vars
  BY <1>4 DEF vars, timerVars, statsVars, StatsInv, StatsTypeOK, ReportsOfTheDay,
              SumIsWithin, Seconds
<1>. QED
  BY <1>1, <1>2, <1>3, <1>4 DEF Next

LEMMA StatsAlways == Spec => []StatsInv
BY InitStatsInv, StatsStep, PTL DEF Spec

(* The daily energy counts the time since its first report exactly once.   *)
THEOREM EnergyStaysWithin == Spec => []EnergyIsWithin
<1>1. ASSUME StatsInv PROVE EnergyIsWithin
  <2>. SUFFICES ASSUME stats.currentDay # 0
                PROVE  /\ low * (stats.timestamp - first) <= stats.energyDelivered
                       /\ stats.energyDelivered <= high * (stats.timestamp - first)
                       /\ stats.timestamp - first < Day
    BY DEF EnergyIsWithin
  <2>1. ReportsOfTheDay /\ SumIsWithin /\ StatsTypeOK
    BY <1>1 DEF StatsInv
  <2>2. stats.timestamp - first < Day
    BY <2>1, SameQuotient, StatsAssumption DEF ReportsOfTheDay, StatsTypeOK
  <2>. QED
    BY <2>1, <2>2 DEF SumIsWithin
<1>. QED
  BY <1>1, StatsAlways, PTL

(* The published energy falls only when a day or the daemon starts.        *)
THEOREM EnergyNeverFallsInADay == Spec => NeverFalls
<1>. DEFINE A == stats'.currentDay = stats.currentDay => dcEnergy' >= dcEnergy
<1>1. ASSUME StatsInv, StatsInv', [Next]_vars PROVE [A]_vars
  <2>. SUFFICES ASSUME Next, stats'.currentDay = stats.currentDay
                PROVE  dcEnergy' >= dcEnergy
    BY <1>1
  <2>1. /\ stats.energyDelivered \in Nat /\ stats'.energyDelivered \in Nat
        /\ KiloWattMinute \in Nat \ {0}
        /\ dcEnergy = stats.energyDelivered \div KiloWattMinute
        /\ dcEnergy' = stats'.energyDelivered \div KiloWattMinute
    BY <1>1, StatsAssumption DEF StatsInv, StatsTypeOK
  <2>2. stats.energyDelivered <= stats'.energyDelivered
    <3>1. CASE Fire
      BY <2>1, <3>1 DEF Fire, statsVars
    <3>2. CASE Report
      BY <1>1, <3>2, ReportKeeps DEF Report
    <3>3. CASE Restart
      BY <1>1, <3>3 DEF Restart, NoStats, StatsInv
    <3>. QED
      BY <3>1, <3>2, <3>3 DEF Next
  <2>3. dcEnergy <= dcEnergy' /\ dcEnergy \in Nat /\ dcEnergy' \in Nat
    BY <2>1, <2>2, Quotient, QuotientGrows
  <2>. QED
    BY <2>3
<1>. QED
  BY <1>1, StatsAlways, PTL DEF Spec, NeverFalls

-----------------------------------------------------------------------------
(* The timer.  A poll interval is a number of ticks.                       *)

Ticks == (Interval * Second) \div Tick

(* The interval divides into ticks.                                        *)
LEMMA IntervalIsTicks ==
  /\ Ticks \in Nat \ {0} /\ Tick \in Nat \ {0} /\ Drift \in Nat
  /\ Interval * Second = Tick * Ticks
  /\ Interval * Second \in Nat \ {0}
<1>1. /\ Tick \in Nat \ {0} /\ Second \in Nat \ {0} /\ Interval \in Nat \ {0}
      /\ Drift \in Nat /\ Second % Tick = 0
  BY TimerAssumption
<1>. DEFINE k == Second \div Tick
<1>2. k \in Nat /\ Second = Tick * k
  BY <1>1, SMT
<1>. HIDE DEF k
<1>3. k # 0
  BY <1>1, <1>2, SMT
<1>. DEFINE m == Interval * k
<1>4. m \in Nat \ {0}
  BY <1>1, <1>2, <1>3, SMT
<1>5. Interval * Second = Tick * m
  BY <1>1, <1>2, SMT
<1>. HIDE DEF m
<1>6. (Tick * m) \div Tick = m
  BY <1>1, <1>4, SMT
<1>7. Tick * m \in Nat \ {0}
  BY <1>1, <1>4, SMT
<1>. QED
  BY <1>1, <1>4, <1>5, <1>6, <1>7 DEF Ticks

(* A quotient is known by the multiples its dividend lies between.         *)
LEMMA QuotientIs ==
  ASSUME NEW n \in Nat \ {0}, NEW q \in Nat, NEW r \in 0 .. n - 1
  PROVE  (n * q + r) \div n = q
<1>. DEFINE a == n * q + r
            p == a \div n
<1>0. n * q \in Nat
  BY SMT
<1>1. a \in Nat
  BY <1>0
<1>2. p \in Nat /\ n * p <= a /\ a < n * p + n
  BY <1>1, Quotient
<1>. HIDE DEF p, a
<1>3. ASSUME q + 1 <= p PROVE FALSE
  <2>1. n * (q + 1) <= n * p
    BY <1>2, <1>3, SMT
  <2>2. n * (q + 1) = n * q + n
    BY SMT
  <2>. QED
    BY <1>0, <1>2, <2>1, <2>2, TimesNat DEF a
<1>4. ASSUME p + 1 <= q PROVE FALSE
  <2>1. n * (p + 1) <= n * q
    BY <1>2, <1>4, SMT
  <2>2. n * (p + 1) = n * p + n
    BY <1>2, SMT
  <2>. QED
    BY <1>0, <1>2, <2>1, <2>2, TimesNat DEF a
<1>5. p = q
  BY <1>2, <1>3, <1>4
<1>. QED
  BY <1>5 DEF p, a

(* Twice how long ago the last poll was due, and half a tick more: as the  *)
(* time is rounded, that many double ticks were counted since.             *)
SincePoll == 2 * (now - polled) + Tick

(* The delays of an interval add up to less than a tick.                   *)
Punctual == Interval * Second * Drift < Tick * Tick

(* After so many firings, late of which was not by whole ticks: no tick    *)
(* has been skipped, or one has before the poll would have been due, or    *)
(* the one of the poll was, and there is no time to skip another one.      *)
OnBeat(fired, late) ==
  \/ fired <= Ticks - 1 /\ late < 2 * Tick
  \/ /\ fired <= Ticks - 2
     /\ 2 * Tick <= late /\ late < 2 * Tick + 2 * (Drift * fired)
  \/ /\ Ticks <= fired /\ fired <= 2 * Ticks - 2
     /\ 2 * Tick <= late /\ late < 2 * Tick + 2 * (Drift * (fired - Ticks + 1))

TimerInv ==
  /\ now \in Nat
  /\ \E k \in Nat : polled = (Tick * Ticks) * k
  /\ Punctual =>
       \E fired, late \in Nat :
         SincePoll = 2 * (Tick * fired) + late /\ OnBeat(fired, late)

(* A firing at which no multiple of the interval is due keeps the beat.    *)
LEMMA BeatGoesOn ==
  ASSUME Ticks * Drift < Tick,
         NEW fired \in Nat, NEW late \in Nat, OnBeat(fired, late),
         NEW delay \in 0 .. Drift
  PROVE  \/ OnBeat(fired + 1, late + 2 * delay)
         \/ \E c \in {Ticks, 2 * Ticks}, r \in 0 .. 2 * Tick - 1 :
              2 * (Tick * (fired + 1)) + (late + 2 * delay) = 2 * (Tick * c) + r
<1>. DEFINE n == fired + 1
            g == late + 2 * delay
            Due1 == \E r \in 0 .. 2 * Tick - 1 :
                      2 * (Tick * n) + g = 2 * (Tick * Ticks) + r
            Due2 == \E r \in 0 .. 2 * Tick - 1 :
                      2 * (Tick * n) + g = 2 * (Tick * (2 * Ticks)) + r
<1>1. Ticks \in Nat \ {0} /\ Tick \in Nat \ {0} /\ Drift \in Nat
  BY IntervalIsTicks
<1>2. n \in Nat /\ n >= 1 /\ g \in Nat /\ g <= late + 2 * Drift /\ fired = n - 1
  BY <1>1
<1>3. Tick * n \in Nat
  BY <1>1, TimesNat
<1>. HIDE DEF n, g
<1>4. ASSUME n = Ticks, g < 2 * Tick PROVE Due1
  BY <1>1, <1>2, <1>3, <1>4
<1>5. ASSUME n = Ticks - 1, 2 * Tick <= g, g < 4 * Tick PROVE Due1
  <2>1. Tick * Ticks = Tick * n + Tick
    <3>1. Ticks = n + 1 /\ Tick * 1 = Tick
      BY <1>1, <1>2, <1>5
    <3>. QED
      BY <3>1, <1>1, <1>2, TimesSum
  <2>2. g - 2 * Tick \in 0 .. 2 * Tick - 1
    BY <1>1, <1>2, <1>5
  <2>3. 2 * (Tick * n) + g = 2 * (Tick * Ticks) + (g - 2 * Tick)
    BY <1>1, <1>2, <1>3, <2>1
  <2>. QED
    BY <2>2, <2>3
<1>6. ASSUME n = 2 * Ticks - 1, 2 * Tick <= g, g < 4 * Tick PROVE Due2
  <2>1. Tick * (2 * Ticks) = Tick * n + Tick
    <3>1. 2 * Ticks = n + 1 /\ Tick * 1 = Tick
      BY <1>1, <1>2, <1>6
    <3>. QED
      BY <3>1, <1>1, <1>2, TimesSum
  <2>2. g - 2 * Tick \in 0 .. 2 * Tick - 1
    BY <1>1, <1>2, <1>6
  <2>3. 2 * (Tick * n) + g = 2 * (Tick * (2 * Ticks)) + (g - 2 * Tick)
    BY <1>1, <1>2, <1>3, <2>1
  <2>. QED
    BY <2>2, <2>3
<1>7. Drift <= Ticks * Drift /\ Ticks * Drift = Drift * Ticks
      /\ Drift * Ticks \in Nat
  BY <1>1, SMT
<1>8. \A x \in Nat : Drift * (x + 1) = Drift * x + Drift /\ Drift * x \in Nat
  BY <1>1, SMT
<1>9. \A x \in Nat : x <= Ticks => Drift * x <= Drift * Ticks
  BY <1>1, SMT
<1>10. CASE fired <= Ticks - 1 /\ late < 2 * Tick
  <2>1. g < 2 * Tick + 2 * Drift /\ Drift < Tick /\ n <= Ticks
    BY <1>1, <1>2, <1>7, <1>10
  <2>2. CASE g < 2 * Tick /\ n <= Ticks - 1
    BY <2>2 DEF OnBeat, n, g
  <2>3. CASE g < 2 * Tick /\ n = Ticks
    BY <2>3, <1>4 DEF n, g
  <2>4. CASE 2 * Tick <= g /\ n <= Ticks - 2
    <3>1. Drift <= Drift * n
      BY <1>1, <1>2, SMT
    <3>2. OnBeat(n, g)
      BY <2>1, <2>4, <3>1, <1>1, <1>2, <1>7 DEF OnBeat
    <3>. QED
      BY <3>2 DEF n, g
  <2>5. CASE 2 * Tick <= g /\ n = Ticks - 1
    <3>1. g < 4 * Tick
      BY <2>1, <1>1, <1>2
    <3>. QED
      BY <2>5, <3>1, <1>5 DEF n, g
  <2>6. CASE 2 * Tick <= g /\ n = Ticks
    <3>1. CASE Ticks = 1
      BY <2>1, <2>6, <3>1, <1>1, <1>2, <1>6 DEF n, g
    <3>2. CASE Ticks >= 2
      <4>1. n - Ticks + 1 = 1 /\ Drift * 1 = Drift
        BY <2>6, <1>1, <1>2
      <4>2. OnBeat(n, g)
        BY <2>1, <2>6, <3>2, <4>1, <1>1, <1>2 DEF OnBeat
      <4>. QED
        BY <4>2 DEF n, g
    <3>. QED
      BY <3>1, <3>2, <1>1
  <2>. QED
    BY <2>1, <2>2, <2>3, <2>4, <2>5, <2>6, <1>1, <1>2
<1>11. CASE /\ fired <= Ticks - 2
            /\ 2 * Tick <= late /\ late < 2 * Tick + 2 * (Drift * fired)
  <2>1. Drift * n = Drift * fired + Drift /\ Drift * fired \in Nat
    BY <1>8 DEF n
  <2>2. n <= Ticks - 1 /\ 2 * Tick <= g /\ g < 2 * Tick + 2 * (Drift * n)
    BY <1>1, <1>2, <1>11, <2>1 DEF n, g
  <2>3. CASE n <= Ticks - 2
    BY <2>2, <2>3 DEF OnBeat, n, g
  <2>4. CASE n = Ticks - 1
    <3>1. Drift * n <= Drift * Ticks
      BY <1>1, <1>2, <1>9, <2>2
    <3>2. g < 4 * Tick
      BY <1>1, <1>2, <1>7, <2>1, <2>2, <3>1
    <3>. QED
      BY <2>2, <2>4, <3>2, <1>5 DEF n, g
  <2>. QED
    BY <1>1, <1>2, <2>2, <2>3, <2>4
<1>12. CASE /\ Ticks <= fired /\ fired <= 2 * Ticks - 2
            /\ 2 * Tick <= late
            /\ late < 2 * Tick + 2 * (Drift * (fired - Ticks + 1))
  <2>. DEFINE x == fired - Ticks + 1
  <2>1. x \in Nat /\ x + 1 = n - Ticks + 1 /\ x + 1 <= Ticks
    BY <1>1, <1>2, <1>12 DEF n
  <2>2. Drift * (x + 1) = Drift * x + Drift /\ Drift * x \in Nat
        /\ Drift * (x + 1) <= Drift * Ticks
    BY <2>1, <1>8, <1>9
  <2>3. /\ Ticks <= n /\ n <= 2 * Ticks - 1
        /\ 2 * Tick <= g /\ g < 2 * Tick + 2 * (Drift * (n - Ticks + 1))
    <3>. HIDE DEF x
    <3>1. late < 2 * Tick + 2 * (Drift * x)
      BY <1>12 DEF x
    <3>2. /\ Ticks <= fired /\ fired <= 2 * Ticks - 2 /\ 2 * Tick <= late
      BY <1>12
    <3>3. /\ Ticks <= n /\ n <= 2 * Ticks - 1 /\ 2 * Tick <= g
      BY <1>1, <3>2 DEF n, g
    <3>4. g < 2 * Tick + 2 * (Drift * (x + 1))
      BY <1>1, <1>2, <2>2, <3>1
    <3>. QED
      BY <2>1, <3>3, <3>4
  <2>4. CASE n <= 2 * Ticks - 2
    BY <2>3, <2>4 DEF OnBeat, n, g
  <2>5. CASE n = 2 * Ticks - 1
    <3>. HIDE DEF x
    <3>1. g < 4 * Tick
      BY <1>1, <1>2, <1>7, <2>1, <2>2, <2>3
    <3>. QED
      BY <2>3, <2>5, <3>1, <1>6 DEF n, g
  <2>. QED
    BY <1>1, <1>2, <2>3, <2>4, <2>5
<1>. QED
  BY <1>10, <1>11, <1>12 DEF OnBeat

(* Twice the product, for the rounding to multiples.                       *)
LEMMA TimesTwice ==
  ASSUME NEW x \in Nat, NEW y \in Nat
  PROVE  (2 * x) * y = 2 * (x * y) /\ y * x = x * y
BY SMT

(* Rounding, as the multiple of a tick and what is left.                   *)
LEMMA RoundedIs ==
  ASSUME NEW t \in Nat
  PROVE  \E q \in Nat, r \in 0 .. 2 * Tick - 1 :
           /\ 2 * t + Tick = 2 * (Tick * q) + r
           /\ Rounded(t) = Tick * q
<1>1. Tick \in Nat \ {0} /\ 2 * Tick \in Nat \ {0} /\ 2 * t + Tick \in Nat
  BY IntervalIsTicks
<1>. DEFINE a == 2 * t + Tick
            n == 2 * Tick
            q == a \div n
<1>2. q \in Nat /\ n * q <= a /\ a < n * q + n
  BY <1>1, Quotient
<1>3. n * q = 2 * (Tick * q) /\ q * Tick = Tick * q
  BY <1>1, <1>2, TimesTwice
<1>4. Rounded(t) = q * Tick
  BY DEF Rounded
<1>5. Tick * q \in Nat
  BY <1>1, <1>2, TimesNat
<1>. HIDE DEF q
<1>6. a - 2 * (Tick * q) \in 0 .. 2 * Tick - 1
  BY <1>1, <1>2, <1>3, <1>5
<1>7. a = 2 * (Tick * q) + (a - 2 * (Tick * q))
  BY <1>1, <1>5
<1>. QED
  BY <1>2, <1>3, <1>4, <1>6, <1>7

(* The same for a known multiple.                                          *)
LEMMA RoundedTo ==
  ASSUME NEW t \in Nat, NEW q \in Nat, NEW r \in 0 .. 2 * Tick - 1,
         2 * t + Tick = 2 * (Tick * q) + r
  PROVE  Rounded(t) = Tick * q
<1>1. Tick \in Nat \ {0} /\ 2 * Tick \in Nat \ {0}
  BY IntervalIsTicks
<1>2. 2 * (Tick * q) = (2 * Tick) * q /\ q * Tick = Tick * q
  BY <1>1, SMT
<1>3. ((2 * Tick) * q + r) \div (2 * Tick) = q
  BY <1>1, QuotientIs
<1>. QED
  BY <1>2, <1>3 DEF Rounded

(* A multiple of the interval is due.                                      *)
LEMMA DueMultiples ==
  ASSUME NEW t \in Nat, NEW k \in Nat
  PROVE  /\ Rounded(t) = (Tick * Ticks) * k => Due(t)
         /\ Due(t) => \E j \in Nat : Rounded(t) = (Tick * Ticks) * j
<1>. DEFINE p == Interval * Second
<1>1. p \in Nat \ {0} /\ p = Tick * Ticks
  BY IntervalIsTicks
<1>2. Rounded(t) \in Nat
  BY RoundedIs, IntervalIsTicks, TimesNat
<1>. HIDE DEF p
<1>3. (p * k) % p = 0
  BY <1>1, SMT
<1>4. \A x \in Nat : x % p = 0 => x = p * (x \div p) /\ x \div p \in Nat
  BY <1>1, SMT
<1>. QED
  BY <1>1, <1>2, <1>3, <1>4 DEF Due, p

(* The model begins with a poll.                                           *)
LEMMA InitTimerInv == Init => TimerInv
<1>. SUFFICES ASSUME Init PROVE TimerInv
  OBVIOUS
<1>1. Ticks \in Nat \ {0} /\ Tick \in Nat \ {0} /\ Tick * Ticks \in Nat
  BY IntervalIsTicks, TimesNat
<1>2. now = 0 /\ polled = 0
  BY DEF Init, TimerInit
<1>3. polled = (Tick * Ticks) * 0 /\ Tick * 0 = 0
  BY <1>1, <1>2, TimesZero
<1>4. SincePoll = 2 * (Tick * 0) + Tick
  BY <1>1, <1>2, <1>3 DEF SincePoll
<1>5. OnBeat(0, Tick)
  BY <1>1 DEF OnBeat
<1>. QED
  BY <1>1, <1>2, <1>3, <1>4, <1>5 DEF TimerInv

(* How late a firing was.                                                  *)
LEMMA LateBy ==
  ASSUME NEW s \in Nat, NEW x \in Nat, NEW d \in Nat,
         NEW t \in (s + x) .. (s + x + d)
  PROVE  t \in Nat /\ t - s - x \in 0 .. d /\ t - s - x \in Nat
OBVIOUS

(* The timer fires: a poll starts the count again, and no other firing     *)
(* passes a multiple of the interval for the second time.                  *)
LEMMA FireKeepsBeat ==
  ASSUME TimerInv, onTimer
  PROVE  TimerInv'
<1>1. /\ Ticks \in Nat \ {0} /\ Tick \in Nat \ {0} /\ Drift \in Nat
      /\ Interval * Second = Tick * Ticks /\ Tick * Ticks \in Nat
  BY IntervalIsTicks, TimesNat
<1>0. Tick \in Nat /\ Drift \in Nat
  BY IntervalIsTicks
<1>2. /\ now \in Nat /\ now' \in Nat
      /\ now' - now - Tick \in 0 .. Drift /\ now' - now - Tick \in Nat
  <2>1. now' \in (now + Tick) .. (now + Tick + Drift) /\ now \in Nat
    BY DEF TimerInv, onTimer
  <2>. QED
    BY <1>0, <2>1, LateBy
<1>3. CASE Due(now')
  <2>1. polled' = Rounded(now')
    BY <1>3 DEF onTimer
  <2>0. PICK n \in Nat : n = now'
    BY <1>2
  <2>2. PICK q \in Nat, r \in 0 .. 2 * Tick - 1 :
          2 * n + Tick = 2 * (Tick * q) + r /\ Rounded(n) = Tick * q
    BY RoundedIs
  <2>3. Tick * q \in Nat /\ Tick * 0 = 0
    BY <1>1, TimesNat, TimesZero
  <2>4. SincePoll' = 2 * (Tick * 0) + r /\ r \in Nat
    <3>. DEFINE p == Tick * q
    <3>1. SincePoll' = 2 * (n - p) + Tick
      BY <2>0, <2>1, <2>2 DEF SincePoll
    <3>2. p \in Nat /\ 2 * n + Tick = 2 * p + r /\ r \in Nat
      BY <1>0, <2>2, <2>3
    <3>. HIDE DEF p
    <3>3. SincePoll' = r
      BY <3>1, <3>2, <1>0
    <3>. QED
      BY <2>3, <3>2, <3>3
  <2>5. OnBeat(0, r)
    BY <1>1, <2>2 DEF OnBeat
  <2>6. \E k \in Nat : polled' = (Tick * Ticks) * k
    BY <1>2, <1>3, <2>1, DueMultiples
  <2>. QED
    BY <1>2, <2>4, <2>5, <2>6 DEF TimerInv
<1>4. CASE ~ Due(now')
  <2>1. polled' = polled
    BY <1>4 DEF onTimer
  <2>2. PICK k \in Nat : polled = (Tick * Ticks) * k
    BY DEF TimerInv
  <2>3. ASSUME Punctual
        PROVE  \E fired, late \in Nat :
                 SincePoll' = 2 * (Tick * fired) + late /\ OnBeat(fired, late)
    <3>1. PICK fired \in Nat, late \in Nat :
            SincePoll = 2 * (Tick * fired) + late /\ OnBeat(fired, late)
      BY <2>3 DEF TimerInv
    <3>2. Ticks * Drift < Tick
      <4>1. (Tick * Ticks) * Drift = Tick * (Ticks * Drift)
        BY <1>1, SMT
      <4>2. Ticks * Drift \in Nat
        BY <1>1, TimesNat
      <4>3. Tick * (Ticks * Drift) < Tick * Tick
        BY <1>1, <2>3, <4>1 DEF Punctual
      <4>4. \A x \in Nat : Tick * x < Tick * Tick => x < Tick
        BY <1>1, SMT
      <4>. QED
        BY <4>2, <4>3, <4>4
    <3>. DEFINE delay == now' - now - Tick
                f == fired + 1
                g == late + 2 * delay
    <3>3. /\ f \in Nat /\ g \in Nat /\ delay \in 0 .. Drift
          /\ Tick * f = Tick * fired + Tick
          /\ Tick * f \in Nat /\ Tick * fired \in Nat /\ polled \in Nat
      <4>1. Tick * f = Tick * fired + Tick * 1 /\ Tick * 1 = Tick
        BY <1>1, TimesSum
      <4>2. Tick * f \in Nat /\ Tick * fired \in Nat /\ polled \in Nat
        BY <1>1, <2>2, TimesNat
      <4>3. delay \in 0 .. Drift /\ delay \in Nat
        BY <1>2
      <4>. QED
        BY <4>1, <4>2, <4>3
    <3>4. SincePoll' = 2 * (Tick * f) + g
      <4>1. SincePoll' = 2 * (now' - polled) + Tick
        BY <2>1 DEF SincePoll
      <4>2. 2 * (now - polled) + Tick = 2 * (Tick * fired) + late
        BY <3>1 DEF SincePoll
      <4>. HIDE DEF f
      <4>. QED
        BY <4>1, <4>2, <3>3, <1>1, <1>2
    <3>5. ASSUME NEW c \in {Ticks, 2 * Ticks}, NEW r \in 0 .. 2 * Tick - 1,
                 2 * (Tick * f) + g = 2 * (Tick * c) + r
          PROVE  FALSE
      <4>1. PICK m \in Nat : c = Ticks * m
        <5>1. Ticks = Ticks * 1 /\ 2 * Ticks = Ticks * 2
          BY <1>1
        <5>. QED
          BY <5>1
      <4>. DEFINE q == Ticks * (k + m)
      <4>2. /\ q \in Nat /\ k + m \in Nat
            /\ Tick * q = (Tick * Ticks) * (k + m)
            /\ Tick * q = polled + Tick * c
            /\ Tick * c \in Nat
        <5>1. Tick * q = (Tick * Ticks) * (k + m)
          BY <1>1, SMT
        <5>2. (Tick * Ticks) * (k + m) = (Tick * Ticks) * k + (Tick * Ticks) * m
          BY <1>1, TimesSum
        <5>3. (Tick * Ticks) * m = Tick * c
          BY <1>1, <4>1, SMT
        <5>4. Tick * c \in Nat
          BY <1>1, TimesNat
        <5>. QED
          BY <1>1, <2>2, <5>1, <5>2, <5>3, <5>4, TimesNat
      <4>. HIDE DEF q, f, g
      <4>3. 2 * now' + Tick = 2 * (Tick * q) + r
        <5>1. 2 * (now' - polled) + Tick = 2 * (Tick * c) + r
          BY <3>4, <3>5, <2>1 DEF SincePoll
        <5>2. /\ Tick * q = polled + Tick * c
              /\ Tick * c \in Nat /\ polled \in Nat /\ r \in Nat
          BY <4>2, <3>3, <1>1
        <5>. QED
          BY <5>1, <5>2, <1>0, <1>2
      <4>4. Rounded(now') = (Tick * Ticks) * (k + m)
        BY <4>2, <4>3, <1>2, RoundedTo
      <4>. QED
        BY <4>2, <4>4, <1>2, <1>4, DueMultiples
    <3>6. OnBeat(f, g)
      BY <3>1, <3>2, <3>3, <3>5, BeatGoesOn
    <3>. QED
      BY <3>3, <3>4, <3>6
  <2>. QED
    BY <1>2, <2>1, <2>2, <2>3 DEF TimerInv, Punctual
<1>. QED
  BY <1>3, <1>4

LEMMA TimerStep == TimerInv /\ [Next]_vars => TimerInv'
<1>. SUFFICES ASSUME TimerInv, [Next]_vars PROVE TimerInv'
  OBVIOUS
<1>1. CASE Fire
  BY <1>1, FireKeepsBeat DEF Fire
<1>2. CASE UNCHANGED <<now, polled>>
  BY <1>2 DEF TimerInv, SincePoll
<1>. QED
  BY <1>1, <1>2 DEF Next, Report, Restart, vars, timerVars

(* ThingsManager: however the delays add up, the rounding never jumps over *)
(* two polls in a row, as long as they are less than a tick per interval.  *)
THEOREM PollsAreNotMissedTwice == Spec => []NeverTwoMissed
<1>1. ASSUME TimerInv PROVE NeverTwoMissed
  <2>1. /\ Ticks \in Nat \ {0} /\ Tick \in Nat \ {0} /\ Drift \in Nat
        /\ Interval * Second = Tick * Ticks /\ Tick * Ticks \in Nat
    BY IntervalIsTicks, TimesNat
  <2>2. SUFFICES ASSUME Punctual
                 PROVE  now - polled < 2 * Interval * Second + Tick
    BY DEF NeverTwoMissed, Punctual
  <2>3. PICK fired \in Nat, late \in Nat :
          SincePoll = 2 * (Tick * fired) + late /\ OnBeat(fired, late)
    BY <1>1, <2>2 DEF TimerInv
  <2>4. now \in Nat /\ polled \in Nat
    BY <1>1, <2>1, TimesNat DEF TimerInv
  <2>5. /\ Tick * fired \in Nat /\ Tick * fired <= (2 * Ticks - 1) * Tick
        /\ late < 4 * Tick
    <3>1. fired <= 2 * Ticks - 2 \/ fired <= Ticks - 1
      BY <2>1, <2>3 DEF OnBeat
    <3>2. fired <= 2 * Ticks - 1
      BY <2>1, <3>1
    <3>3. fired * Tick <= (2 * Ticks - 1) * Tick
      BY <2>1, <3>2, TimesGrows
    <3>4. fired * Tick = Tick * fired
      BY <2>1
    <3>5. late < 4 * Tick
      <4>1. \A x \in Nat : x <= Ticks => Drift * x <= Ticks * Drift
        BY <2>1, SMT
      <4>2. Ticks * Drift < Tick
        <5>1. (Tick * Ticks) * Drift = Tick * (Ticks * Drift)
          BY <2>1, SMT
        <5>2. Ticks * Drift \in Nat
          BY <2>1, TimesNat
        <5>3. Tick * (Ticks * Drift) < Tick * Tick
          BY <2>1, <2>2, <5>1 DEF Punctual
        <5>4. \A x \in Nat : Tick * x < Tick * Tick => x < Tick
          BY <2>1, SMT
        <5>. QED
          BY <5>2, <5>3, <5>4
      <4>3. \A x \in Nat : x <= Ticks => Drift * x < Tick /\ Drift * x \in Nat
        BY <2>1, <4>1, <4>2, TimesNat
      <4>4. CASE late < 2 * Tick
        BY <2>1, <4>4
      <4>5. CASE fired <= Ticks - 2 /\ late < 2 * Tick + 2 * (Drift * fired)
        <5>1. Drift * fired < Tick /\ Drift * fired \in Nat
          BY <2>1, <4>3, <4>5
        <5>. QED
          BY <2>1, <4>5, <5>1
      <4>6. CASE /\ Ticks <= fired /\ fired <= 2 * Ticks - 2
                 /\ late < 2 * Tick + 2 * (Drift * (fired - Ticks + 1))
        <5>. DEFINE x == fired - Ticks + 1
        <5>1. Drift * x < Tick /\ Drift * x \in Nat
          BY <2>1, <4>3, <4>6
        <5>. HIDE DEF x
        <5>2. late < 2 * Tick + 2 * (Drift * x)
          BY <4>6 DEF x
        <5>. QED
          BY <2>1, <5>1, <5>2
      <4>. QED
        BY <2>3, <4>4, <4>5, <4>6 DEF OnBeat
    <3>. QED
      BY <2>1, <3>3, <3>4, <3>5, TimesNat
  <2>6. (2 * Ticks - 1) * Tick = 2 * (Tick * Ticks) - Tick
    BY <2>1, SMT
  <2>7. 2 * Interval * Second = 2 * (Tick * Ticks)
    BY <2>1, TimerAssumption, SMT
  <2>8. 2 * (now - polled) + Tick = 2 * (Tick * fired) + late
    BY <2>3 DEF SincePoll
  <2>. QED
    BY <2>1, <2>4, <2>5, <2>6, <2>7, <2>8
<1>. QED
  BY <1>1, InitTimerInv, TimerStep, PTL DEF Spec

=============================================================================
