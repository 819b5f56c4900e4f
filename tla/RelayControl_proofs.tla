------------------------ MODULE RelayControl_proofs -------------------------
(***************************************************************************)
(* Proofs about RelayControl, for any number of phases, debounce times and *)
(* lost requests that satisfy its assumptions: the types, and, if the      *)
(* relay is off when the daemon starts, the ring of the phases, the limit  *)
(* on their number and the energy that is published.                       *)
(***************************************************************************)
EXTENDS RelayControl, FiniteSetTheorems, TLAPS

-----------------------------------------------------------------------------
(* A site update.                                                          *)

(* A strategy is stepped only as it answered, and then it knows which of   *)
(* its questions was the last one: PowerManager looks for no step up once  *)
(* somebody steps down.                                                    *)
LEMMA StepsWereAsked ==
  ASSUME NEW since, NEW down, NEW up, NEW o \in Outcomes(since, down, up)
  PROVE  /\ o.step = "Down" => down /\ o.askedDown /\ ~o.askedUp
         /\ o.step = "Up" => ~down /\ up /\ o.askedDown /\ o.askedUp
         /\ o.step \in {"Down", "Up", "Keep"}
BY DEF Outcomes, Outcome

-----------------------------------------------------------------------------
(* Arithmetic of the ring, without remainders.                             *)

(* A remainder of what goes around at most once.                           *)
LEMMA Remainder ==
  ASSUME NEW a \in Nat, a < 2 * N
  PROVE  a % N = IF a < N THEN a ELSE a - N
<1>1. N \in Nat \ {0}
  BY NAssumption
<1>. QED
  BY <1>1, SMT

Following(p) == IF p = N - 1 THEN 0 ELSE p + 1

Preceding(p) == IF p = 0 THEN N - 1 ELSE p - 1

(* How many switches q is after p.                                         *)
Distance(p, q) == IF p <= q THEN q - p ELSE q - p + N

LEMMA Product == ASSUME NEW a \in Nat, NEW b \in Nat PROVE a * b \in Nat
BY SMT

LEMMA Wraps ==
  ASSUME NEW p \in Phases
  PROVE  (p + 1) % N = Following(p) /\ Following(p) \in Phases
<1>1. N \in Nat \ {0} /\ p \in Nat /\ p < N
  BY NAssumption DEF Phases
<1>2. (p + 1) % N = IF p + 1 < N THEN p + 1 ELSE p + 1 - N
  BY <1>1, Remainder
<1>. QED
  BY <1>1, <1>2 DEF Following, Phases

LEMMA PositionIsDistance ==
  ASSUME nextDown \in Phases, NEW p \in Phases
  PROVE  RingPosition(p) = Distance(nextDown, p)
<1>1. N \in Nat \ {0} /\ p \in Nat /\ p < N /\ nextDown \in Nat /\ nextDown < N
  BY NAssumption DEF Phases
<1>2. PICK a \in Nat : a = p - nextDown + N /\ a < 2 * N
  BY <1>1
<1>3. a % N = IF a < N THEN a ELSE a - N
  BY <1>2, Remainder
<1>. QED
  BY <1>1, <1>2, <1>3 DEF RingPosition, Distance

(* The phases that are less than k after p are k.                          *)
LEMMA ArcSize ==
  ASSUME NEW d \in Phases, NEW k \in 0 .. N
  PROVE  Cardinality({p \in Phases : Distance(d, p) < k}) = k
<1>. DEFINE Arc == {p \in Phases : Distance(d, p) < k}
            f == [i \in 0 .. k - 1 |-> IF d + i < N THEN d + i ELSE d + i - N]
<1>1. N \in Nat \ {0} /\ d \in Nat /\ d < N /\ k \in Nat /\ k <= N
  BY NAssumption DEF Phases
<1>2. IsFiniteSet(0 .. k - 1) /\ Cardinality(0 .. k - 1) = k
  BY <1>1, FS_Interval
<1>3. f \in [0 .. k - 1 -> Arc]
  BY <1>1 DEF Phases, Distance
<1>4. \A i, j \in 0 .. k - 1 : f[i] = f[j] => i = j
  BY <1>1
<1>5. \A p \in Arc : \E i \in 0 .. k - 1 : f[i] = p
  <2>. SUFFICES ASSUME NEW p \in Arc PROVE \E i \in 0 .. k - 1 : f[i] = p
    OBVIOUS
  <2>1. Distance(d, p) \in 0 .. k - 1 /\ f[Distance(d, p)] = p
    BY <1>1 DEF Phases, Distance
  <2>. QED
    BY <2>1
<1>. HIDE DEF f, Arc
<1>6. f \in Bijection(0 .. k - 1, Arc)
  <2>1. IsInjective(f)
    BY <1>3, <1>4 DEF IsInjective
  <2>. QED
    BY <1>3, <1>5, <2>1 DEF Bijection, Injection, Surjection
<1>7. ExistsBijection(0 .. k - 1, Arc)
  BY <1>6 DEF ExistsBijection
<1>. QED
  BY <1>2, <1>7, FS_Bijection DEF Arc

-----------------------------------------------------------------------------
(* The invariant.                                                          *)

RingTypeOK ==
  /\ switches \in [Phases -> BOOLEAN]
  /\ currentStates \in [Phases -> BOOLEAN]
  /\ states \in [Phases -> BOOLEAN] \cup {Empty}
  /\ phaseToSet \in Phases
  /\ nextUp \in Phases /\ nextDown \in Phases
  /\ sinceStep \in Nat /\ lost \in 0 .. MaxLost

(* A request is the latest one of its phase.                               *)
RequestIsCurrent ==
  request # NoRequest =>
    /\ request.phase = Preceding(phaseToSet)
    /\ request.on = currentStates[request.phase]

(* The k commanded phases lie between the cursors.                         *)
RingOf(k) ==
  /\ \A p \in Phases : currentStates[p] <=> Distance(nextDown, p) < k
  /\ IF k = N THEN nextUp = nextDown ELSE Distance(nextDown, nextUp) = k

Ring == \E k \in 0 .. N : RingOf(k)

(* The relay does not do, or the cache does not show, what is commanded.   *)
Behind(p) == switches[p] # currentStates[p]

Stale(p) == states # Empty /\ states[p] # currentStates[p]

(* It can only be the phase that was switched last.                        *)
SwitchedLast(p) ==
  p = IF currentStates[p] THEN Preceding(nextUp) ELSE Preceding(nextDown)

OnlyTheLast == \A p \in Phases : Behind(p) \/ Stale(p) => SwitchedLast(p)

(* How long ago the phase was sent, and whether it is on its way.          *)
Ago(p) == Distance(p, Preceding(phaseToSet))

Pending(p) == request # NoRequest /\ request.phase = p

(* A phase is behind after a step only until it is sent, and again after   *)
(* each request that is lost.                                              *)
BehindForAWhile ==
  \A p \in Phases : Behind(p) =>
    sinceStep + 1 <= Ago(p) + N * lost + (IF Pending(p) THEN N ELSE 0)

RingInv ==
  /\ RingTypeOK
  /\ RequestIsCurrent
  /\ Ring
  /\ OnlyTheLast
  /\ BehindForAWhile

RelayIsOff == RelayAtStart \subseteq {[p \in Phases |-> FALSE]}

LEMMA InitRingInv ==
  ASSUME RelayIsOff
  PROVE  Init => RingInv
<1>. SUFFICES ASSUME Init PROVE RingInv
  OBVIOUS
<1>1. N \in Nat \ {0} /\ MaxLost \in Nat /\ StepUpDebounce \in Nat
  BY NAssumption, ControlAssumption, DebounceAssumption
<1>2. /\ switches = [p \in Phases |-> FALSE] /\ currentStates = switches
      /\ states = Empty /\ request = NoRequest
      /\ phaseToSet = 0 /\ nextUp = 0 /\ nextDown = 0
      /\ sinceStep = StepUpDebounce /\ lost = 0
  BY DEF RelayIsOff, Init, ThingInit, StrategyInit
<1>3. \A p \in Phases : ~Behind(p) /\ ~Stale(p)
  BY <1>2 DEF Behind, Stale
<1>4. RingOf(0)
  BY <1>1, <1>2 DEF RingOf, Distance, Phases
<1>5. Ring
  BY <1>1, <1>4 DEF Ring
<1>6. RingTypeOK
  BY <1>1, <1>2 DEF RingTypeOK, Phases
<1>. QED
  BY <1>2, <1>3, <1>5, <1>6 DEF RingInv, RequestIsCurrent, OnlyTheLast, BehindForAWhile

-----------------------------------------------------------------------------
(* The relay.                                                              *)

LEMMA ExecuteKeeps ==
  ASSUME RingInv, Execute
  PROVE  RingInv'
<1>1. /\ request # NoRequest /\ request' = NoRequest
      /\ switches' = [switches EXCEPT ![request.phase] = request.on]
      /\ UNCHANGED <<phaseToSet, states, currentStates, nextUp, nextDown, sinceStep, lost>>
  BY DEF Execute, RequestExecuted, strategyVars, controlVars
<1>2. /\ request.phase \in Phases /\ request.on = currentStates[request.phase]
      /\ switches \in [Phases -> BOOLEAN] /\ currentStates \in [Phases -> BOOLEAN]
  BY <1>1, NAssumption DEF RingInv, RingTypeOK, RequestIsCurrent, Preceding, Phases
<1>3. switches' \in [Phases -> BOOLEAN]
  BY <1>1, <1>2
<1>4. \A p \in Phases : Behind(p)' => Behind(p) /\ p # request.phase
  BY <1>1, <1>2 DEF Behind
<1>5. \A p \in Phases : Stale(p)' = Stale(p) /\ SwitchedLast(p)' = SwitchedLast(p)
  BY <1>1 DEF Stale, SwitchedLast
<1>6. Ring'
  BY <1>1 DEF RingInv, Ring, RingOf
<1>7. BehindForAWhile'
  <2>. SUFFICES ASSUME NEW p \in Phases, Behind(p)'
                PROVE  (sinceStep + 1 <= Ago(p) + N * lost + (IF Pending(p) THEN N ELSE 0))'
    BY DEF BehindForAWhile
  <2>1. ~Pending(p) /\ ~Pending(p)' /\ Ago(p)' = Ago(p)
    BY <1>1, <1>4 DEF Pending, Ago
  <2>2. sinceStep + 1 <= Ago(p) + N * lost + (IF Pending(p) THEN N ELSE 0)
    BY <1>4 DEF RingInv, BehindForAWhile
  <2>. QED
    BY <1>1, <2>1, <2>2
<1>8. OnlyTheLast'
  BY <1>4, <1>5 DEF RingInv, OnlyTheLast
<1>. QED
  BY <1>1, <1>3, <1>6, <1>7, <1>8 DEF RingInv, RingTypeOK, RequestIsCurrent

LEMMA LoseKeeps ==
  ASSUME RingInv, Lose
  PROVE  RingInv'
<1>1. /\ request # NoRequest /\ request' = NoRequest
      /\ lost < MaxLost /\ lost' = lost + 1
      /\ UNCHANGED <<switches, phaseToSet, states, currentStates, nextUp, nextDown, sinceStep>>
  BY DEF Lose, RequestLost, strategyVars
<1>2. /\ N \in Nat /\ MaxLost \in Nat /\ lost \in Nat /\ sinceStep \in Nat
      /\ lost' \in 0 .. MaxLost
  BY <1>1, NAssumption, ControlAssumption DEF RingInv, RingTypeOK
<1>3. N * lost' = N * lost + N /\ N * lost \in Nat
  BY <1>1, <1>2, SMT
<1>4. BehindForAWhile'
  <2>. SUFFICES ASSUME NEW p \in Phases, Behind(p)'
                PROVE  (sinceStep + 1 <= Ago(p) + N * lost + (IF Pending(p) THEN N ELSE 0))'
    BY DEF BehindForAWhile
  <2>1. Behind(p) /\ ~Pending(p)' /\ Ago(p)' = Ago(p)
    BY <1>1 DEF Behind, Pending, Ago
  <2>2. sinceStep + 1 <= Ago(p) + N * lost + (IF Pending(p) THEN N ELSE 0)
    BY <2>1 DEF RingInv, BehindForAWhile
  <2>3. Ago(p) \in Int
    BY <1>2 DEF RingInv, RingTypeOK, Ago, Distance, Preceding, Phases
  <2>. QED
    BY <1>1, <1>2, <1>3, <2>1, <2>2, <2>3
<1>5. OnlyTheLast' /\ Ring'
  BY <1>1 DEF RingInv, OnlyTheLast, Behind, Stale, SwitchedLast, Ring, RingOf
<1>. QED
  BY <1>1, <1>2, <1>4, <1>5 DEF RingInv, RingTypeOK, RequestIsCurrent

(* A report shows what is behind, if the body parses.                      *)
LEMMA ReportKeeps ==
  ASSUME RingInv, states' \in {switches, Empty},
         UNCHANGED <<switches, request, phaseToSet, currentStates, nextUp, nextDown,
                     sinceStep, lost>>
  PROVE  RingInv'
<1>1. \A p \in Phases : Behind(p)' = Behind(p) /\ SwitchedLast(p)' = SwitchedLast(p)
  BY DEF Behind, SwitchedLast
<1>2. \A p \in Phases : Stale(p)' => Behind(p)
  BY DEF Stale, Behind
<1>3. OnlyTheLast'
  BY <1>1, <1>2 DEF RingInv, OnlyTheLast
<1>4. RingTypeOK' /\ RequestIsCurrent' /\ Ring'
  BY DEF RingInv, RingTypeOK, RequestIsCurrent, Ring, RingOf
<1>5. BehindForAWhile'
  BY <1>1 DEF RingInv, BehindForAWhile, Ago, Pending
<1>. QED
  BY <1>3, <1>4, <1>5 DEF RingInv

-----------------------------------------------------------------------------
(* The site update.                                                        *)

(* When PowerManager lets somebody step, the relay has caught up.          *)
LEMMA CaughtUp ==
  ASSUME RingInv, request = NoRequest, Elapsed >= StepDownDebounce, NEW p \in Phases
  PROVE  ~Behind(p)
<1>. SUFFICES ASSUME Behind(p) PROVE FALSE
  OBVIOUS
<1>1. /\ N \in Nat \ {0} /\ MaxLost \in Nat /\ lost \in 0 .. MaxLost /\ sinceStep \in Nat
      /\ StepDownDebounce \in Nat /\ StepUpDebounce \in Nat
      /\ N * (1 + MaxLost) <= StepDownDebounce
  BY NAssumption, ControlAssumption, DebounceAssumption DEF RingInv, RingTypeOK
<1>2. /\ N * (1 + MaxLost) = N + N * MaxLost
      /\ N * lost <= N * MaxLost /\ N * lost \in Nat /\ N * MaxLost \in Nat
  BY <1>1, SMT
<1>3. Ago(p) \in Int /\ Ago(p) < N
  BY <1>1 DEF RingInv, RingTypeOK, Ago, Distance, Preceding, Phases
<1>4. sinceStep + 1 <= Ago(p) + N * lost
  BY <1>1, <1>2, <1>3 DEF RingInv, BehindForAWhile, Pending
<1>5. sinceStep + 1 >= StepDownDebounce
  BY <1>1 DEF Elapsed, AtMost
<1>. QED
  BY <1>1, <1>2, <1>3, <1>4, <1>5

(* The step that this strategy makes, if any.                              *)
LEMMA RingAfterUp ==
  ASSUME RingInv, currentStates' = [currentStates EXCEPT ![nextUp] = TRUE],
         nextUp' = (nextUp + 1) % N, nextDown' = nextDown,
         ~currentStates[nextUp] \/ N = 1
  PROVE  Ring' /\ nextUp' = Following(nextUp) /\ nextUp' \in Phases
<1>1. /\ N \in Nat \ {0} /\ nextUp \in Phases /\ nextDown \in Phases
      /\ currentStates \in [Phases -> BOOLEAN]
  BY NAssumption DEF RingInv, RingTypeOK
<1>2. nextUp' = Following(nextUp) /\ nextUp' \in Phases
  BY <1>1, Wraps
<1>3. PICK k \in 0 .. N : RingOf(k)
  BY DEF RingInv, Ring
<1>4. CASE k = N
  <2>1. currentStates[nextUp]
    BY <1>1, <1>3, <1>4 DEF RingOf, Distance, Phases
  <2>2. currentStates' = currentStates /\ N = 1
    BY <1>1, <2>1
  <2>3. nextUp' = nextUp
    BY <1>1, <1>2, <2>2 DEF Phases
  <2>. QED
    BY <1>2, <1>3, <2>2, <2>3 DEF Ring, RingOf
<1>5. CASE k # N
  <2>1. Distance(nextDown, nextUp) = k
    BY <1>3, <1>5 DEF RingOf
  <2>2. \A p \in Phases : Distance(nextDown, p) < k + 1
                            <=> Distance(nextDown, p) < k \/ p = nextUp
    BY <1>1, <2>1 DEF Distance, Phases
  <2>3. \A p \in Phases : currentStates'[p] <=> currentStates[p] \/ p = nextUp
    BY <1>1
  <2>4. \A p \in Phases : currentStates'[p] <=> Distance(nextDown, p) < k + 1
    BY <1>3, <2>2, <2>3 DEF RingOf
  <2>5. IF k + 1 = N THEN nextUp' = nextDown ELSE Distance(nextDown, nextUp') = k + 1
    BY <1>1, <1>2, <1>5, <2>1 DEF Distance, Following, Phases
  <2>6. k + 1 \in 0 .. N
    BY <1>1, <1>5
  <2>7. RingOf(k + 1)'
    BY <2>4, <2>5 DEF RingOf
  <2>. QED
    BY <1>2, <2>6, <2>7 DEF Ring
<1>. QED
  BY <1>4, <1>5

LEMMA RingAfterDown ==
  ASSUME RingInv, currentStates' = [currentStates EXCEPT ![nextDown] = FALSE],
         nextDown' = (nextDown + 1) % N, nextUp' = nextUp,
         currentStates[nextDown] \/ N = 1
  PROVE  Ring' /\ nextDown' = Following(nextDown) /\ nextDown' \in Phases
<1>1. /\ N \in Nat \ {0} /\ nextUp \in Phases /\ nextDown \in Phases
      /\ currentStates \in [Phases -> BOOLEAN]
  BY NAssumption DEF RingInv, RingTypeOK
<1>2. nextDown' = Following(nextDown) /\ nextDown' \in Phases
  BY <1>1, Wraps
<1>3. PICK k \in 0 .. N : RingOf(k)
  BY DEF RingInv, Ring
<1>4. CASE k = 0
  <2>1. ~currentStates[nextDown]
    BY <1>1, <1>3, <1>4 DEF RingOf, Distance, Phases
  <2>2. currentStates' = currentStates /\ N = 1
    BY <1>1, <2>1
  <2>3. nextDown' = nextDown
    BY <1>1, <1>2, <2>2 DEF Phases
  <2>. QED
    BY <1>2, <1>3, <2>2, <2>3 DEF Ring, RingOf
<1>5. CASE k # 0
  <2>1. \A p \in Phases : Distance(nextDown', p) < k - 1
                            <=> Distance(nextDown, p) < k /\ p # nextDown
    BY <1>1, <1>2, <1>5 DEF Distance, Following, Phases
  <2>2. \A p \in Phases : currentStates'[p] <=> currentStates[p] /\ p # nextDown
    BY <1>1
  <2>3. \A p \in Phases : currentStates'[p] <=> Distance(nextDown', p) < k - 1
    BY <1>3, <2>1, <2>2 DEF RingOf
  <2>4. Distance(nextDown', nextUp) = k - 1
    BY <1>1, <1>2, <1>3, <1>5 DEF RingOf, Distance, Following, Phases
  <2>5. k - 1 \in 0 .. N /\ k - 1 # N
    BY <1>1, <1>5
  <2>6. RingOf(k - 1)'
    BY <2>3, <2>4, <2>5 DEF RingOf
  <2>. QED
    BY <1>2, <2>5, <2>6 DEF Ring
<1>. QED
  BY <1>4, <1>5

(* What an outcome says of who stepped, and when.                          *)
LEMMA OutcomeOfStep ==
  ASSUME NEW since \in Nat, NEW down, NEW up, NEW o \in Outcomes(since, down, up)
  PROVE  /\ o.step \in {"Down", "Up"} =>
              since >= StepDownDebounce /\ o.stepped = "this"
         /\ o.stepped = "nobody" => o.step = "Keep"
BY DebounceAssumption DEF Outcomes, Outcome

(* A step up is of a phase that is off, unless there is one phase only: a  *)
(* phase whose report is stale was switched last.                          *)
LEMMA UpIsOff ==
  ASSUME RingInv, NEW g, WantsToStepUp(g, Now)
  PROVE  ~currentStates[nextUp] \/ N = 1
<1>. SUFFICES ASSUME currentStates[nextUp] PROVE N = 1
  OBVIOUS
<1>1. N \in Nat \ {0} /\ nextUp \in Phases
  BY NAssumption DEF RingInv, RingTypeOK
<1>2. DOMAIN states = Phases /\ ~states[nextUp]
  BY DEF WantsToStepUp, MayStepUp, Reported
<1>3. states # Empty
  BY <1>1, <1>2 DEF Empty
<1>4. states[nextUp] # currentStates[nextUp]
  BY <1>2
<1>5. SwitchedLast(nextUp)
  BY <1>1, <1>3, <1>4 DEF RingInv, OnlyTheLast, Stale
<1>. QED
  BY <1>1, <1>5 DEF SwitchedLast, Preceding, Phases

LEMMA DownIsOn ==
  ASSUME RingInv, NEW g, WantsToStepDown(g)
  PROVE  currentStates[nextDown] \/ N = 1
<1>. SUFFICES ASSUME ~currentStates[nextDown] PROVE N = 1
  OBVIOUS
<1>1. N \in Nat \ {0} /\ nextDown \in Phases
  BY NAssumption DEF RingInv, RingTypeOK
<1>2. DOMAIN states = Phases /\ states[nextDown]
  BY DEF WantsToStepDown, Reported
<1>3. states # Empty
  BY <1>1, <1>2 DEF Empty
<1>4. states[nextDown] # currentStates[nextDown]
  BY <1>2
<1>5. SwitchedLast(nextDown)
  BY <1>1, <1>3, <1>4 DEF RingInv, OnlyTheLast, Stale
<1>. QED
  BY <1>1, <1>5 DEF SwitchedLast, Preceding, Phases

LEMMA SiteUpdateKeeps ==
  ASSUME RingInv, NEW g \in GridPowers, NEW o \in AnyOutcome(g), SiteUpdate(g, o)
  PROVE  RingInv'
<1>1. /\ request = NoRequest
      /\ states' = currentStates' /\ switches' = switches
      /\ request' = [phase |-> phaseToSet, on |-> currentStates'[phaseToSet]]
      /\ phaseToSet' = (phaseToSet + 1) % N
      /\ sinceStep' = IF o.stepped = "nobody" THEN Elapsed ELSE 0
      /\ lost' = IF o.stepped = "this" THEN 0 ELSE lost
  BY DEF SiteUpdate, SetStates
<1>2. /\ N \in Nat \ {0} /\ MaxLost \in Nat /\ lost \in 0 .. MaxLost /\ sinceStep \in Nat
      /\ phaseToSet \in Phases /\ nextUp \in Phases /\ nextDown \in Phases
      /\ StepUpDebounce \in Nat
      /\ switches \in [Phases -> BOOLEAN] /\ currentStates \in [Phases -> BOOLEAN]
  BY NAssumption, ControlAssumption, DebounceAssumption DEF RingInv, RingTypeOK
<1>3. Elapsed \in Nat /\ Elapsed <= sinceStep + 1
  BY <1>2 DEF Elapsed, AtMost
<1>4. /\ o.step \in {"Down", "Up", "Keep"}
      /\ o.step = "Down" => WantsToStepDown(g)
      /\ o.step = "Up" => WantsToStepUp(g, Now)
  BY StepsWereAsked DEF AnyOutcome
<1>5. /\ o.step \in {"Down", "Up"} => Elapsed >= StepDownDebounce /\ o.stepped = "this"
      /\ o.stepped = "nobody" => o.step = "Keep"
  BY <1>3, OutcomeOfStep DEF AnyOutcome
<1>6. phaseToSet' = Following(phaseToSet) /\ phaseToSet' \in Phases
  BY <1>1, <1>2, Wraps
<1>7. /\ Ring' /\ OnlyTheLast'
      /\ currentStates' \in [Phases -> BOOLEAN] /\ nextUp' \in Phases /\ nextDown' \in Phases
      /\ o.step = "Keep" => currentStates' = currentStates
  <2>1. \A p \in Phases : ~Stale(p)'
    BY <1>1 DEF Stale
  <2>2. CASE o.step = "Keep"
    <3>1. UNCHANGED <<currentStates, nextUp, nextDown, switches>>
      BY <1>1, <2>2 DEF SiteUpdate, Keep
    <3>2. Ring'
      BY <3>1 DEF RingInv, Ring, RingOf
    <3>3. \A p \in Phases : Behind(p)' = Behind(p) /\ SwitchedLast(p)' = SwitchedLast(p)
      BY <3>1 DEF Behind, SwitchedLast
    <3>4. OnlyTheLast'
      BY <2>1, <3>3 DEF RingInv, OnlyTheLast
    <3>. QED
      BY <1>2, <3>1, <3>2, <3>4
  <2>3. ASSUME o.step \in {"Down", "Up"} PROVE \A p \in Phases : switches[p] = currentStates[p]
    BY <1>1, <1>5, <2>3, CaughtUp DEF Behind
  <2>4. CASE o.step = "Up"
    <3>1. /\ currentStates' = [currentStates EXCEPT ![nextUp] = TRUE]
          /\ nextUp' = (nextUp + 1) % N /\ nextDown' = nextDown
      BY <2>4 DEF SiteUpdate, Up
    <3>2. Ring' /\ nextUp' = Following(nextUp) /\ nextUp' \in Phases
      BY <1>4, <2>4, <3>1, UpIsOff, RingAfterUp
    <3>3. Preceding(nextUp') = nextUp
      BY <1>2, <3>2 DEF Following, Preceding, Phases
    <3>4. ASSUME NEW p \in Phases, Behind(p)' PROVE SwitchedLast(p)'
      <4>1. p = nextUp /\ currentStates'[p]
        BY <1>1, <1>2, <2>3, <2>4, <3>1, <3>4 DEF Behind
      <4>. QED
        BY <3>3, <4>1 DEF SwitchedLast
    <3>5. OnlyTheLast'
      BY <2>1, <3>4 DEF OnlyTheLast
    <3>. QED
      BY <1>2, <2>4, <3>1, <3>2, <3>5
  <2>5. CASE o.step = "Down"
    <3>1. /\ currentStates' = [currentStates EXCEPT ![nextDown] = FALSE]
          /\ nextDown' = (nextDown + 1) % N /\ nextUp' = nextUp
      BY <2>5 DEF SiteUpdate, Down
    <3>2. Ring' /\ nextDown' = Following(nextDown) /\ nextDown' \in Phases
      BY <1>4, <2>5, <3>1, DownIsOn, RingAfterDown
    <3>3. Preceding(nextDown') = nextDown
      BY <1>2, <3>2 DEF Following, Preceding, Phases
    <3>4. ASSUME NEW p \in Phases, Behind(p)' PROVE SwitchedLast(p)'
      <4>1. p = nextDown /\ ~currentStates'[p]
        BY <1>1, <1>2, <2>3, <2>5, <3>1, <3>4 DEF Behind
      <4>. QED
        BY <3>3, <4>1 DEF SwitchedLast
    <3>5. OnlyTheLast'
      BY <2>1, <3>4 DEF OnlyTheLast
    <3>. QED
      BY <1>2, <2>5, <3>1, <3>2, <3>5
  <2>. QED
    BY <1>4, <2>2, <2>4, <2>5
<1>8. request' # NoRequest /\ request'.phase = phaseToSet
      /\ request'.on = currentStates'[phaseToSet]
  <2>1. request' \in [phase : Phases, on : BOOLEAN]
    BY <1>1, <1>2, <1>7
  <2>. QED
    BY <1>1, <2>1, RelayAssumption
<1>9. RequestIsCurrent'
  <2>1. Preceding(phaseToSet') = phaseToSet
    BY <1>2, <1>6 DEF Following, Preceding, Phases
  <2>. QED
    BY <1>8, <2>1 DEF RequestIsCurrent
<1>10. BehindForAWhile'
  <2>. SUFFICES ASSUME NEW p \in Phases, Behind(p)'
                PROVE  (sinceStep + 1 <= Ago(p) + N * lost + (IF Pending(p) THEN N ELSE 0))'
    BY DEF BehindForAWhile
  <2>1. Pending(p)' <=> p = phaseToSet
    BY <1>8 DEF Pending
  <2>2. /\ Ago(p)' = IF p = phaseToSet THEN 0 ELSE Ago(p) + 1
        /\ Ago(p) \in Nat /\ Ago(p)' \in Nat
        /\ p = phaseToSet => Ago(p) = N - 1
    BY <1>2, <1>6 DEF Ago, Distance, Following, Preceding, Phases
  <2>3. PICK missed \in Nat : missed = N * lost
    BY <1>2, SMT
  <2>4. PICK missed1 \in Nat : missed1 = N * lost' /\ (lost' = lost => missed1 = missed)
    <3>1. lost' \in Nat
      BY <1>1, <1>2
    <3>2. N * lost' \in Nat
      BY <1>2, <3>1, Product
    <3>. QED
      BY <2>3, <3>2
  <2>5. CASE o.stepped = "nobody"
    <3>1. currentStates' = currentStates /\ sinceStep' = Elapsed /\ lost' = lost
      BY <1>1, <1>5, <1>7, <2>5
    <3>2. sinceStep + 1 <= Ago(p) + missed
      <4>1. Behind(p) /\ ~Pending(p)
        BY <1>1, <3>1 DEF Behind, Pending
      <4>2. sinceStep + 1 <= Ago(p) + N * lost + 0
        BY <4>1 DEF RingInv, BehindForAWhile
      <4>. QED
        BY <2>2, <2>3, <4>2
    <3>3. Elapsed + 1 <= Ago(p)' + missed + (IF p = phaseToSet THEN N ELSE 0)
      BY <1>2, <1>3, <2>2, <3>2
    <3>. QED
      BY <2>1, <2>4, <3>1, <3>3
  <2>6. CASE o.stepped # "nobody"
    <3>1. sinceStep' = 0
      BY <1>1, <2>6
    <3>2. 1 <= Ago(p)' + missed1 + (IF p = phaseToSet THEN N ELSE 0)
      BY <1>2, <2>2
    <3>. QED
      BY <2>1, <2>4, <3>1, <3>2
  <2>. QED
    BY <2>5, <2>6
<1>11. RingTypeOK'
  <2>1. sinceStep' \in Nat /\ lost' \in 0 .. MaxLost
    BY <1>1, <1>2, <1>3
  <2>. QED
    BY <1>1, <1>2, <1>6, <1>7, <2>1 DEF RingTypeOK
<1>. QED
  BY <1>7, <1>9, <1>10, <1>11 DEF RingInv

-----------------------------------------------------------------------------
(* The theorems.                                                           *)

LEMMA RingStep == RingInv /\ [Next]_vars => RingInv'
<1>. SUFFICES ASSUME RingInv, [Next]_vars PROVE RingInv'
  OBVIOUS
<1>1. CASE SiteUpdates
  BY <1>1, SiteUpdateKeeps DEF SiteUpdates
<1>2. CASE Execute
  BY <1>2, ExecuteKeeps
<1>3. CASE Lose
  BY <1>3, LoseKeeps
<1>4. CASE \E in \in InputReports : Report(in)
  BY <1>4, ReportKeeps DEF Report, StatusReport, InputEvent, controlVars
<1>5. CASE Garbled
  BY <1>5, ReportKeeps DEF Garbled, BadReport, InputEvent, controlVars
<1>6. CASE UNCHANGED vars
  BY <1>6 DEF vars, thingVars, strategyVars, controlVars, RingInv, RingTypeOK,
              RequestIsCurrent, Ring, RingOf, OnlyTheLast, Behind, Stale, SwitchedLast,
              BehindForAWhile, Ago, Pending
<1>. QED
  BY <1>1, <1>2, <1>3, <1>4, <1>5, <1>6 DEF Next

LEMMA RingAlways ==
  ASSUME RelayIsOff
  PROVE  Spec => []RingInv
BY InitRingInv, RingStep, PTL DEF Spec

(* The size of the ring, as the property has it.                           *)
LEMMA RingCounts ==
  ASSUME RingInv, NEW k \in 0 .. N, RingOf(k)
  PROVE  /\ Cardinality(On(currentStates)) = k
         /\ On(currentStates) = {p \in Phases : Distance(nextDown, p) < k}
<1>1. nextDown \in Phases /\ DOMAIN currentStates = Phases
  BY DEF RingInv, RingTypeOK
<1>2. On(currentStates) = {p \in Phases : Distance(nextDown, p) < k}
  BY <1>1 DEF RingOf, On
<1>. QED
  BY <1>1, <1>2, ArcSize

(* The two cursors of MultiPhaseStrategy and its vector agree, however the *)
(* relay lags behind and whichever requests are lost.                      *)
THEOREM CursorsAgree ==
  ASSUME RelayIsOff
  PROVE  Spec => []OnPhasesAreARing
<1>1. ASSUME RingInv PROVE OnPhasesAreARing
  <2>1. N \in Nat \ {0} /\ nextDown \in Phases /\ nextUp \in Phases
    BY <1>1, NAssumption DEF RingInv, RingTypeOK
  <2>2. PICK k \in 0 .. N : RingOf(k)
    BY <1>1 DEF RingInv, Ring
  <2>3. /\ Cardinality(On(currentStates)) = k
        /\ On(currentStates) = {p \in Phases : Distance(nextDown, p) < k}
    BY <1>1, <2>2, RingCounts
  <2>4. \A p \in Phases : RingPosition(p) = Distance(nextDown, p)
    BY <2>1, PositionIsDistance
  <2>5. k % N = IF k < N THEN k ELSE k - N
    BY <2>1, Remainder
  <2>6. RingPosition(nextUp) = k % N
    BY <2>1, <2>2, <2>4, <2>5 DEF RingOf, Distance, Phases
  <2>. QED
    BY <2>3, <2>4, <2>6 DEF OnPhasesAreARing
<1>. QED
  BY <1>1, RingAlways, PTL

(* With inactive inputs a phase that is on is given up.                    *)
THEOREM InactiveInputAlwaysStepsDown ==
  ASSUME RelayIsOff
  PROVE  Spec => []InactiveInputStepsDown
<1>1. ASSUME RingInv PROVE InactiveInputStepsDown
  <2>. SUFFICES ASSUME ~isInputActive, Reported, states = currentStates,
                       switches = currentStates, On(switches) # {}
                PROVE  WantsToStepDown(0)
    BY DEF InactiveInputStepsDown
  <2>1. PICK k \in 0 .. N : RingOf(k)
    BY <1>1 DEF RingInv, Ring
  <2>2. N \in Nat \ {0} /\ nextDown \in Phases /\ DOMAIN currentStates = Phases
    BY <1>1, NAssumption DEF RingInv, RingTypeOK
  <2>3. PICK p \in Phases : currentStates[p]
    BY <2>2 DEF On
  <2>4. currentStates[nextDown]
    BY <2>1, <2>2, <2>3 DEF RingOf, Distance, Phases
  <2>. QED
    BY <2>4 DEF WantsToStepDown
<1>. QED
  BY <1>1, RingAlways, PTL

-----------------------------------------------------------------------------
(* Wear.                                                                   *)

(* The nearer to the end of the ring, the longer a phase has been on.      *)
OlderFirst ==
  /\ age \in [Phases -> 0 .. MaxAge]
  /\ \A p, q \in Phases :
       currentStates[p] /\ currentStates[q] /\ Distance(nextDown, p) <= Distance(nextDown, q)
         => age[q] <= age[p]

LEMMA OlderIsMonotone ==
  ASSUME age \in [Phases -> 0 .. MaxAge], NEW p \in Phases, NEW q \in Phases
  PROVE  /\ Older(p) \in 0 .. MaxAge
         /\ age[q] <= age[p] => Older(q) <= Older(p)
<1>1. age[p] \in 0 .. MaxAge /\ age[q] \in 0 .. MaxAge /\ MaxAge \in Nat
  BY MultiPhaseAssumption
<1>. QED
  BY <1>1 DEF Older, AtMost

(* A site update ages the phases, but for the one that is stepped up.      *)
LEMMA UpdateKeepsAges ==
  ASSUME RingInv, OlderFirst,
         NEW g \in GridPowers, NEW o \in AnyOutcome(g), SiteUpdate(g, o)
  PROVE  OlderFirst'
<1>1. /\ N \in Nat \ {0} /\ nextUp \in Phases /\ nextDown \in Phases
      /\ currentStates \in [Phases -> BOOLEAN] /\ MaxAge \in Nat
      /\ age \in [Phases -> 0 .. MaxAge]
  BY NAssumption, MultiPhaseAssumption DEF RingInv, RingTypeOK, OlderFirst
<1>2. \A p, q \in Phases : /\ Older(p) \in 0 .. MaxAge
                           /\ age[q] <= age[p] => Older(q) <= Older(p)
  BY <1>1, OlderIsMonotone
<1>3. PICK k \in 0 .. N : RingOf(k)
  BY DEF RingInv, Ring
<1>4. CASE o.step = "Keep"
  <2>1. age' = [p \in Phases |-> Older(p)] /\ UNCHANGED <<currentStates, nextDown>>
    BY <1>4 DEF SiteUpdate, Keep
  <2>2. age' \in [Phases -> 0 .. MaxAge] /\ \A p \in Phases : age'[p] = Older(p)
    BY <1>2, <2>1
  <2>. QED
    BY <1>2, <2>1, <2>2 DEF OlderFirst
<1>5. CASE o.step = "Down"
  <2>1. /\ age' = [p \in Phases |-> Older(p)]
        /\ currentStates' = [currentStates EXCEPT ![nextDown] = FALSE]
        /\ nextDown' = (nextDown + 1) % N
    BY <1>5 DEF SiteUpdate, Down
  <2>2. age' \in [Phases -> 0 .. MaxAge] /\ \A p \in Phases : age'[p] = Older(p)
    BY <1>2, <2>1
  <2>3. nextDown' = Following(nextDown)
    BY <1>1, <2>1, Wraps
  <2>4. \A p \in Phases : currentStates'[p] => currentStates[p] /\ p # nextDown
    BY <1>1, <2>1
  <2>5. \A p \in Phases : p # nextDown => Distance(nextDown', p) = Distance(nextDown, p) - 1
    BY <1>1, <2>3 DEF Distance, Following, Phases
  <2>6. \A p \in Phases : Distance(nextDown, p) \in Int
    BY <1>1 DEF Distance, Phases
  <2>7. ASSUME NEW p \in Phases, NEW q \in Phases, currentStates'[p], currentStates'[q],
               Distance(nextDown', p) <= Distance(nextDown', q)
        PROVE  age'[q] <= age'[p]
    <3>1. Distance(nextDown, p) <= Distance(nextDown, q)
      BY <2>4, <2>5, <2>6, <2>7
    <3>. QED
      BY <1>2, <2>2, <2>4, <2>7, <3>1 DEF OlderFirst
  <2>. QED
    BY <2>2, <2>7 DEF OlderFirst
<1>6. CASE o.step = "Up"
  <2>1. /\ age' = [p \in Phases |-> IF p = nextUp THEN 0 ELSE Older(p)]
        /\ currentStates' = [currentStates EXCEPT ![nextUp] = TRUE]
        /\ nextDown' = nextDown
    BY <1>6 DEF SiteUpdate, Up
  <2>2. /\ age' \in [Phases -> 0 .. MaxAge]
        /\ \A p \in Phases : age'[p] = IF p = nextUp THEN 0 ELSE Older(p)
    BY <1>1, <1>2, <2>1
  <2>3. ~currentStates[nextUp] \/ N = 1
    BY <1>6, StepsWereAsked, UpIsOff DEF AnyOutcome
  <2>4. ASSUME NEW p \in Phases, NEW q \in Phases, currentStates'[p], currentStates'[q],
               Distance(nextDown, p) <= Distance(nextDown, q)
        PROVE  age'[q] <= age'[p]
    <3>1. CASE q = nextUp
      BY <1>1, <2>2, <3>1
    <3>2. CASE q # nextUp
      <4>1. N # 1
        BY <1>1, <3>2 DEF Phases
      <4>2. currentStates[q]
        BY <1>1, <2>1, <2>4, <3>2
      <4>3. Distance(nextDown, q) < k /\ ~(Distance(nextDown, nextUp) < k)
        BY <1>1, <1>3, <2>3, <4>1, <4>2 DEF RingOf
      <4>4. Distance(nextDown, q) \in Int /\ Distance(nextDown, nextUp) \in Int
        BY <1>1 DEF Distance, Phases
      <4>5. p # nextUp
        BY <2>4, <4>3, <4>4
      <4>6. currentStates[p]
        BY <1>1, <2>1, <2>4, <4>5
      <4>. QED
        BY <1>2, <2>2, <2>4, <3>2, <4>2, <4>5, <4>6 DEF OlderFirst
    <3>. QED
      BY <3>1, <3>2
  <2>. QED
    BY <2>1, <2>2, <2>4 DEF OlderFirst
<1>. QED
  BY <1>4, <1>5, <1>6, StepsWereAsked DEF AnyOutcome

LEMMA OlderFirstStep == RingInv /\ OlderFirst /\ [Next]_vars => OlderFirst'
<1>. SUFFICES ASSUME RingInv, OlderFirst, [Next]_vars PROVE OlderFirst'
  OBVIOUS
<1>1. CASE SiteUpdates
  BY <1>1, UpdateKeepsAges DEF SiteUpdates
<1>2. CASE UNCHANGED <<age, currentStates, nextDown>>
  BY <1>2 DEF OlderFirst
<1>. QED
  BY <1>1, <1>2
  DEF Next, Execute, Lose, Report, Garbled, InputEvent, strategyVars, vars

LEMMA OlderFirstAlways ==
  ASSUME RelayIsOff
  PROVE  Spec => [](RingInv /\ OlderFirst)
<1>1. Init => OlderFirst
  <2>. SUFFICES ASSUME Init PROVE OlderFirst
    OBVIOUS
  <2>1. currentStates = [p \in Phases |-> FALSE] /\ age = [p \in Phases |-> MaxAge]
    BY DEF Init, StrategyInit
  <2>. QED
    BY <2>1, MultiPhaseAssumption DEF OlderFirst
<1>. QED
  BY <1>1, OlderFirstStep, RingAlways, PTL DEF Spec

(* Phases wear evenly: a step down switches off the one that has been on   *)
(* for longest.                                                            *)
THEOREM PhasesWearEvenly ==
  ASSUME RelayIsOff
  PROVE  Spec => OldestOffFirst
<1>. DEFINE A == \A p \in Phases :
                   currentStates[p] /\ ~currentStates'[p] =>
                     \A q \in On(currentStates) : age[q] <= age[p]
<1>1. ASSUME RingInv, OlderFirst, [Next]_vars PROVE [A]_vars
  <2>. SUFFICES ASSUME Next, NEW p \in Phases, currentStates[p], ~currentStates'[p],
                       NEW q \in On(currentStates)
                PROVE  age[q] <= age[p]
    BY <1>1
  <2>1. PICK g \in GridPowers : \E o \in AnyOutcome(g) : SiteUpdate(g, o)
    BY DEF Next, SiteUpdates, Execute, Lose, Report, Garbled, InputEvent, strategyVars
  <2>1a. PICK o \in AnyOutcome(g) : SiteUpdate(g, o)
    BY <2>1
  <2>2. /\ N \in Nat \ {0} /\ nextDown \in Phases /\ nextUp \in Phases
        /\ currentStates \in [Phases -> BOOLEAN]
    BY <1>1, NAssumption DEF RingInv, RingTypeOK
  <2>3. o.step = "Down"
    <3>1. o.step # "Keep"
      BY <2>1a DEF SiteUpdate, Keep
    <3>2. o.step # "Up"
      BY <2>1a, <2>2 DEF SiteUpdate, Up
    <3>. QED
      BY <3>1, <3>2, StepsWereAsked DEF AnyOutcome
  <2>4. p = nextDown
    BY <2>1a, <2>2, <2>3 DEF SiteUpdate, Down
  <2>5. q \in Phases /\ currentStates[q]
    BY <2>2 DEF On
  <2>6. Distance(nextDown, p) <= Distance(nextDown, q)
    BY <2>2, <2>4, <2>5 DEF Distance, Phases
  <2>. QED
    BY <1>1, <2>5, <2>6 DEF OlderFirst
<1>. QED
  BY <1>1, OlderFirstAlways, PTL DEF Spec, OldestOffFirst
-----------------------------------------------------------------------------
(* The sum over the phases that are on.  MapThenSumSet is a recursive      *)
(* function on the subsets of a set, so that nothing is known of it before *)
(* it is shown to exist.                                                   *)

Weight(a, p) == a[p] * PowerThreshold[p]

EnergyOf(a, S) == MapThenSumSet(LAMBDA p : Weight(a, p), S)

(* The element that is added next.                                         *)
Chosen(s) == CHOOSE x \in s : TRUE

SumUp(a, S, f) ==
  f = [s \in SUBSET S |->
         IF s = {} THEN 0 ELSE Weight(a, Chosen(s)) + f[s \ {Chosen(s)}]]

(* Induction over sets of phases.                                          *)
LEMMA SmallestSet ==
  ASSUME NEW B \in SUBSET SUBSET Phases, B # {}
  PROVE  \E T \in B : \A R \in SUBSET T : R # T => R \notin B
<1>1. IsFiniteSet(Phases)
  BY NAssumption, FS_Interval DEF Phases
<1>2. B \subseteq FiniteSubsetsOf(Phases)
  BY <1>1, FS_Subset DEF FiniteSubsetsOf
<1>3. \E T \in B : \A R \in B : <<R, T>> \notin StrictSubsetOrdering(Phases)
  BY <1>2, FS_StrictSubsetOrderingWellFounded, WFMin, Zenon
<1>4. PICK T \in B : \A R \in B : <<R, T>> \notin StrictSubsetOrdering(Phases)
  BY <1>3
<1>5. ASSUME NEW R \in SUBSET T, R # T PROVE R \notin B
  <2>1. R \subseteq T /\ R # T /\ T \subseteq Phases
    BY <1>5
  <2>2. <<R, T>> \in StrictSubsetOrdering(Phases)
    BY <2>1 DEF StrictSubsetOrdering
  <2>. QED
    BY <1>4, <2>2
<1>. QED
  BY <1>5

LEMMA ChosenIsIn == ASSUME NEW s, s # {} PROVE Chosen(s) \in s
BY DEF Chosen

(* There is one sum.                                                       *)
LEMMA SumsAgree ==
  ASSUME NEW a, NEW S \in SUBSET Phases, NEW T \in SUBSET S,
         NEW f, SumUp(a, S, f), NEW g, SumUp(a, T, g)
  PROVE  \A s \in SUBSET T : f[s] = g[s]
<1>. DEFINE B == {s \in SUBSET T : f[s] # g[s]}
<1>. SUFFICES ASSUME B # {} PROVE FALSE
  OBVIOUS
<1>1. PICK s \in B : \A r \in SUBSET s : r # s => r \notin B
  BY SmallestSet
<1>2. s \in SUBSET T /\ s \in SUBSET S
  OBVIOUS
<1>3. /\ f[s] = IF s = {} THEN 0 ELSE Weight(a, Chosen(s)) + f[s \ {Chosen(s)}]
      /\ g[s] = IF s = {} THEN 0 ELSE Weight(a, Chosen(s)) + g[s \ {Chosen(s)}]
  BY <1>2 DEF SumUp
<1>4. s # {}
  BY <1>1, <1>3
<1>5. f[s \ {Chosen(s)}] = g[s \ {Chosen(s)}]
  BY <1>1, <1>4, ChosenIsIn
<1>. QED
  BY <1>1, <1>3, <1>4, <1>5

LEMMA EnergyIsSum ==
  ASSUME NEW a, NEW S, NEW f, SumUp(a, S, f)
  PROVE  \E g : SumUp(a, S, g) /\ EnergyOf(a, S) = g[S]
<1>1. EnergyOf(a, S) = (CHOOSE g : SumUp(a, S, g))[S]
  BY Zenon DEF EnergyOf, MapThenSumSet, MapThenFoldSet, SumUp, Chosen
<1>2. SumUp(a, S, CHOOSE g : SumUp(a, S, g))
  OBVIOUS
<1>. QED
  BY <1>1, <1>2

LEMMA SumExists ==
  ASSUME NEW a, NEW S \in SUBSET Phases
  PROVE  \E f : SumUp(a, S, f)
<1>. DEFINE B == {T \in SUBSET Phases : ~ \E f : SumUp(a, T, f)}
<1>. SUFFICES ASSUME B # {} PROVE FALSE
  OBVIOUS
<1>1. PICK T \in B : \A R \in SUBSET T : R # T => R \notin B
  BY SmallestSet
<1>. DEFINE f == [s \in SUBSET T |->
                    IF s = {} THEN 0
                    ELSE Weight(a, Chosen(s)) + EnergyOf(a, s \ {Chosen(s)})]
<1>2. ASSUME NEW r \in SUBSET T, r # T PROVE f[r] = EnergyOf(a, r)
  <2>1. \A q \in SUBSET r : \E g : SumUp(a, q, g) /\ EnergyOf(a, q) = g[q]
    BY <1>1, <1>2, EnergyIsSum
  <2>2. PICK g : SumUp(a, r, g) /\ EnergyOf(a, r) = g[r]
    BY <2>1
  <2>3. g[r] = IF r = {} THEN 0 ELSE Weight(a, Chosen(r)) + g[r \ {Chosen(r)}]
    BY <2>2 DEF SumUp
  <2>4. CASE r = {}
    BY <2>2, <2>3, <2>4
  <2>5. CASE r # {}
    <3>. DEFINE q == r \ {Chosen(r)}
    <3>1. PICK h : SumUp(a, q, h) /\ EnergyOf(a, q) = h[q]
      BY <2>1
    <3>2. g[q] = h[q]
      BY <2>2, <3>1, SumsAgree
    <3>. QED
      BY <1>2, <2>2, <2>3, <2>5, <3>1, <3>2
  <2>. QED
    BY <2>4, <2>5
<1>3. SumUp(a, T, f)
  <2>1. ASSUME NEW s \in SUBSET T, s # {}
        PROVE  f[s \ {Chosen(s)}] = EnergyOf(a, s \ {Chosen(s)})
    BY <1>2, <2>1, ChosenIsIn
  <2>2. f = [s \in SUBSET T |->
              IF s = {} THEN 0 ELSE Weight(a, Chosen(s)) + f[s \ {Chosen(s)}]]
    BY <2>1
  <2>. QED
    BY <2>2 DEF SumUp
<1>. QED
  BY <1>1, <1>3

(* The sum, as it is defined.                                              *)
LEMMA EnergyUnfolds ==
  ASSUME NEW a, NEW S \in SUBSET Phases
  PROVE  EnergyOf(a, S) = IF S = {} THEN 0
                          ELSE Weight(a, Chosen(S)) + EnergyOf(a, S \ {Chosen(S)})
<1>1. PICK f : SumUp(a, S, f) /\ EnergyOf(a, S) = f[S]
  BY SumExists, EnergyIsSum
<1>. DEFINE R == S \ {Chosen(S)}
<1>2. PICK g : SumUp(a, R, g) /\ EnergyOf(a, R) = g[R]
  BY SumExists, EnergyIsSum
<1>3. f[R] = g[R]
  BY <1>1, <1>2, SumsAgree
<1>4. f[S] = IF S = {} THEN 0 ELSE Weight(a, Chosen(S)) + f[R]
  BY <1>1 DEF SumUp
<1>. QED
  BY <1>1, <1>2, <1>3, <1>4

LEMMA WeightIsNat ==
  ASSUME NEW a \in [Phases -> Nat], NEW p \in Phases
  PROVE  Weight(a, p) \in Nat
BY MultiPhaseAssumption, Product DEF Weight

LEMMA EnergyIsNat ==
  ASSUME NEW a \in [Phases -> Nat], NEW S \in SUBSET Phases
  PROVE  EnergyOf(a, S) \in Nat
<1>. DEFINE B == {s \in SUBSET Phases : EnergyOf(a, s) \notin Nat}
<1>. SUFFICES ASSUME B # {} PROVE FALSE
  OBVIOUS
<1>1. PICK s \in B : \A r \in SUBSET s : r # s => r \notin B
  BY SmallestSet
<1>2. EnergyOf(a, s) = IF s = {} THEN 0
                       ELSE Weight(a, Chosen(s)) + EnergyOf(a, s \ {Chosen(s)})
  BY EnergyUnfolds
<1>3. ASSUME s # {} PROVE Weight(a, Chosen(s)) \in Nat /\ EnergyOf(a, s \ {Chosen(s)}) \in Nat
  BY <1>1, <1>3, ChosenIsIn, WeightIsNat
<1>. QED
  BY <1>2, <1>3

(* The order of the sum does not matter.                                   *)
LEMMA EnergyTakesOut ==
  ASSUME NEW a \in [Phases -> Nat], NEW S \in SUBSET Phases, NEW p \in S
  PROVE  EnergyOf(a, S) = Weight(a, p) + EnergyOf(a, S \ {p})
<1>. DEFINE B == {s \in SUBSET Phases :
                   \E q \in s : EnergyOf(a, s) # Weight(a, q) + EnergyOf(a, s \ {q})}
<1>. SUFFICES ASSUME B # {} PROVE FALSE
  OBVIOUS
<1>1. PICK s \in B : \A r \in SUBSET s : r # s => r \notin B
  BY SmallestSet
<1>2. PICK q \in s : EnergyOf(a, s) # Weight(a, q) + EnergyOf(a, s \ {q})
  BY <1>1
<1>. DEFINE c == Chosen(s)
<1>3. c \in s /\ s \in SUBSET Phases
  BY <1>2, ChosenIsIn
<1>4. EnergyOf(a, s) = Weight(a, c) + EnergyOf(a, s \ {c})
  BY <1>3, EnergyUnfolds
<1>. HIDE DEF c, B
<1>5. q # c
  BY <1>2, <1>4
<1>6. EnergyOf(a, s \ {c}) = Weight(a, q) + EnergyOf(a, (s \ {c}) \ {q})
  BY <1>1, <1>3, <1>5 DEF B
<1>7. EnergyOf(a, s \ {q}) = Weight(a, c) + EnergyOf(a, (s \ {q}) \ {c})
  BY <1>1, <1>3, <1>5 DEF B
<1>8. (s \ {c}) \ {q} = (s \ {q}) \ {c}
  OBVIOUS
<1>9. /\ Weight(a, c) \in Nat /\ Weight(a, q) \in Nat
      /\ EnergyOf(a, (s \ {q}) \ {c}) \in Nat
  BY <1>3, WeightIsNat, EnergyIsNat
<1>10. PICK e \in Nat : e = EnergyOf(a, (s \ {q}) \ {c})
  BY <1>9
<1>11. EnergyOf(a, s) = Weight(a, c) + (Weight(a, q) + e)
  BY <1>4, <1>6, <1>8, <1>10
<1>12. Weight(a, q) + EnergyOf(a, s \ {q}) = Weight(a, q) + (Weight(a, c) + e)
  BY <1>7, <1>10
<1>. QED
  BY <1>2, <1>9, <1>11, <1>12

LEMMA TimesGrows ==
  ASSUME NEW x \in Nat, NEW y \in Nat, NEW z \in Nat, x <= y
  PROVE  x * z <= y * z
BY SMT

(* Older phases have delivered more.                                       *)
LEMMA EnergyGrows ==
  ASSUME NEW a \in [Phases -> Nat], NEW b \in [Phases -> Nat], NEW S \in SUBSET Phases,
         \A p \in S : a[p] <= b[p]
  PROVE  EnergyOf(a, S) <= EnergyOf(b, S)
<1>. DEFINE B == {s \in SUBSET S : ~(EnergyOf(a, s) <= EnergyOf(b, s))}
<1>. SUFFICES ASSUME B # {} PROVE FALSE
  OBVIOUS
<1>1. PICK s \in B : \A r \in SUBSET s : r # s => r \notin B
  BY SmallestSet
<1>2. /\ EnergyOf(a, s) = IF s = {} THEN 0
                          ELSE Weight(a, Chosen(s)) + EnergyOf(a, s \ {Chosen(s)})
      /\ EnergyOf(b, s) = IF s = {} THEN 0
                          ELSE Weight(b, Chosen(s)) + EnergyOf(b, s \ {Chosen(s)})
  BY EnergyUnfolds
<1>3. CASE s = {}
  BY <1>1, <1>2, <1>3
<1>4. CASE s # {}
  <2>. DEFINE c == Chosen(s)
  <2>1. c \in s /\ c \in S /\ c \in Phases
    BY <1>4, ChosenIsIn
  <2>2. EnergyOf(a, s \ {c}) <= EnergyOf(b, s \ {c})
    BY <1>1, <2>1
  <2>3. Weight(a, c) <= Weight(b, c)
    BY <2>1, MultiPhaseAssumption, TimesGrows DEF Weight
  <2>4. /\ Weight(a, c) \in Nat /\ Weight(b, c) \in Nat
        /\ EnergyOf(a, s \ {c}) \in Nat /\ EnergyOf(b, s \ {c}) \in Nat
    BY <2>1, WeightIsNat, EnergyIsNat
  <2>5. EnergyOf(a, s) <= EnergyOf(b, s)
    BY <1>2, <1>4, <2>2, <2>3, <2>4
  <2>. QED
    BY <1>1, <2>5
<1>. QED
  BY <1>3, <1>4

-----------------------------------------------------------------------------
(* The types.  They need nothing of the relay at the start.                *)

(* What adjust publishes, as a function of the ages and the phases.        *)
LEMMA Published ==
  ASSUME Publish
  PROVE  energy' = AtMost(MaxEnergy, delivered' + EnergyOf(age', On(currentStates')))
                     \div EnergyUnit
BY Zenon DEF Publish, EnergyOf, Weight, Work, MapThenSumSet, MapThenFoldSet

LEMMA QuotientBound ==
  ASSUME NEW a \in Nat, NEW n \in Nat \ {0}
  PROVE  a \div n \in 0 .. a
<1>. DEFINE q == a \div n
<1>1. q \in Nat /\ n * q <= a
  BY SMT
<1>2. q <= n * q
  <2>. HIDE DEF q
  <2>. QED
    BY <1>1, SMT
<1>. QED
  BY <1>1, <1>2, SMT

LEMMA AtMostBound ==
  ASSUME NEW b \in Nat, NEW x \in Nat
  PROVE  AtMost(b, x) \in 0 .. b
BY DEF AtMost

LEMMA PhaseFacts ==
  /\ N \in Nat \ {0} /\ 0 \in Phases
  /\ \A p \in Phases : (p + 1) % N \in Phases
BY NAssumption, Wraps DEF Phases

(* adjust, with whichever step.                                            *)
LEMMA AdjustTypes ==
  ASSUME StrategyTypeOK, Keep \/ Down \/ Up
  PROVE  /\ currentStates' \in [Phases -> BOOLEAN]
         /\ nextUp' \in Phases /\ nextDown' \in Phases
         /\ clock' \in 0 .. DayLength - 1
         /\ age' \in [Phases -> 0 .. MaxAge]
         /\ delivered' \in 0 .. MaxEnergy
         /\ energy' \in 0 .. MaxEnergy
<1>1. /\ currentStates \in [Phases -> BOOLEAN] /\ nextUp \in Phases /\ nextDown \in Phases
      /\ clock \in Nat /\ DayLength \in Nat \ {0} /\ MaxAge \in Nat
      /\ age \in [Phases -> 0 .. MaxAge] /\ delivered \in 0 .. MaxEnergy
      /\ MaxEnergy \in Nat /\ EnergyUnit \in Nat \ {0}
  BY MultiPhaseAssumption DEF StrategyTypeOK
<1>2. /\ currentStates' \in [Phases -> BOOLEAN]
      /\ nextUp' \in Phases /\ nextDown' \in Phases
  BY <1>1, PhaseFacts DEF Keep, Down, Up
<1>3. clock' \in 0 .. DayLength - 1
  <2>1. clock' = (clock + 1) % DayLength
    BY DEF Keep, Down, Up, Tick
  <2>. QED
    BY <1>1, <2>1, SMT
<1>4. age' \in [Phases -> 0 .. MaxAge]
  <2>1. \A p \in Phases : Older(p) \in 0 .. MaxAge
    BY <1>1, OlderIsMonotone
  <2>2. \/ age' = [p \in Phases |-> Older(p)]
        \/ age' = [p \in Phases |-> IF p = nextUp THEN 0 ELSE Older(p)]
    BY DEF Keep, Down, Up
  <2>. QED
    BY <1>1, <2>1, <2>2
<1>5. age' \in [Phases -> Nat]
  BY <1>1, <1>4
<1>6. delivered' \in 0 .. MaxEnergy
  <2>1. DeliveredToday \in 0 .. MaxEnergy
    BY <1>1 DEF DeliveredToday
  <2>2. Work(nextDown) \in Nat
    BY <1>1, <1>5, WeightIsNat DEF Work, Weight
  <2>3. \/ delivered' = DeliveredToday
        \/ delivered' = AtMost(MaxEnergy, DeliveredToday + Work(nextDown))
    BY DEF Keep, Down, Up
  <2>4. DeliveredToday + Work(nextDown) \in Nat
    BY <2>1, <2>2
  <2>. QED
    BY <1>1, <2>1, <2>3, <2>4, AtMostBound
<1>7. energy' \in 0 .. MaxEnergy
  <2>1. PICK e \in Nat : e = EnergyOf(age', On(currentStates'))
    <3>1. On(currentStates') \in SUBSET Phases
      BY <1>2 DEF On
    <3>. QED
      BY <1>5, <3>1, EnergyIsNat
  <2>2. PICK d \in Nat : d = delivered'
    BY <1>6
  <2>3. energy' = AtMost(MaxEnergy, d + e) \div EnergyUnit
    BY <2>1, <2>2, Published DEF Keep, Down, Up
  <2>4. PICK a \in 0 .. MaxEnergy : a = AtMost(MaxEnergy, d + e)
    BY <1>1, AtMostBound
  <2>5. a \div EnergyUnit \in 0 .. a
    BY <1>1, <2>4, QuotientBound
  <2>. QED
    BY <1>1, <2>3, <2>4, <2>5
<1>. QED
  BY <1>2, <1>3, <1>4, <1>6, <1>7

LEMMA LimitTypes ==
  ASSUME StrategyTypeOK, Asked(Now) \/ NotAsked(Now)
  PROVE  phaseLimit' \in 0 .. N /\ limitAge' \in 0 .. PhaseLimitDuration
<1>1. /\ phaseLimit \in 0 .. N /\ limitAge \in 0 .. PhaseLimitDuration
      /\ N \in Nat /\ PhaseLimitDuration \in Nat
  BY NAssumption, MultiPhaseAssumption DEF StrategyTypeOK
<1>2. Now \in 0 .. PhaseLimitDuration
  BY <1>1, AtMostBound DEF Now
<1>3. LimitWhenAsked(Now) \in 0 .. N
  BY <1>1 DEF LimitWhenAsked, LimitRecovers
<1>. QED
  BY <1>1, <1>2, <1>3 DEF Asked, NotAsked

LEMMA InputTypes ==
  ASSUME StrategyTypeOK, NEW in, InputEvent(in)
  PROVE  StrategyTypeOK'
<1>1. phaseLimit \in 0 .. N /\ limitAge \in 0 .. PhaseLimitDuration
      /\ N \in Nat /\ PhaseLimitDuration \in Nat
  BY NAssumption, MultiPhaseAssumption DEF StrategyTypeOK
<1>2. isInputActive' \in BOOLEAN
  BY DEF InputEvent
<1>3. phaseLimit' \in 0 .. N /\ limitAge' \in 0 .. PhaseLimitDuration
  BY <1>1 DEF InputEvent
<1>4. UNCHANGED <<currentStates, nextUp, nextDown, clock, age, delivered, energy>>
  BY DEF InputEvent
<1>. QED
  BY <1>2, <1>3, <1>4 DEF StrategyTypeOK

LEMMA InitTypes == Init => TypeOK
<1>. SUFFICES ASSUME Init PROVE TypeOK
  OBVIOUS
<1>1. ThingTypeOK
  <2>1. switches \in [Phases -> BOOLEAN]
    <3>1. switches \in RelayAtStart
      BY DEF Init, ThingInit
    <3>. QED
      BY <3>1, RelayAssumption
  <2>. QED
    BY <2>1, PhaseFacts DEF Init, ThingInit, ThingTypeOK
<1>2. StrategyTypeOK
  <2>1. /\ MaxAge \in 0 .. MaxAge /\ N \in 0 .. N /\ 0 \in 0 .. DayLength - 1
        /\ PhaseLimitDuration \in 0 .. PhaseLimitDuration /\ 0 \in 0 .. MaxEnergy
    BY NAssumption, MultiPhaseAssumption
  <2>2. StrategyInit
    BY DEF Init
  <2>. QED
    BY <2>1, <2>2, PhaseFacts DEF StrategyInit, StrategyTypeOK
<1>3. /\ sinceStep \in 0 .. StepUpDebounce /\ lost \in 0 .. MaxLost
      /\ grid \in GridPowers \cup {0}
  BY ControlAssumption, DebounceAssumption DEF Init
<1>. QED
  BY <1>1, <1>2, <1>3 DEF TypeOK

LEMMA UpdateTypes ==
  ASSUME TypeOK, NEW g \in GridPowers, NEW o \in AnyOutcome(g), SiteUpdate(g, o)
  PROVE  TypeOK'
<1>1. Keep \/ Down \/ Up
  BY DEF SiteUpdate
<1>2. Asked(Now) \/ NotAsked(Now)
  BY DEF SiteUpdate
<1>3. StrategyTypeOK'
  BY <1>1, <1>2, AdjustTypes, LimitTypes DEF SiteUpdate, StrategyTypeOK, TypeOK
<1>4. ThingTypeOK'
  <2>1. currentStates' \in [Phases -> BOOLEAN] /\ phaseToSet \in Phases
    BY <1>3 DEF StrategyTypeOK, TypeOK, ThingTypeOK
  <2>2. request' \in Requests /\ phaseToSet' \in Phases
    BY <2>1, PhaseFacts DEF SiteUpdate, SetStates, Requests
  <2>. QED
    BY <2>1, <2>2 DEF SiteUpdate, SetStates, TypeOK, ThingTypeOK
<1>5. sinceStep' \in 0 .. StepUpDebounce /\ lost' \in 0 .. MaxLost
  <2>1. Elapsed \in 0 .. StepUpDebounce
    BY DebounceAssumption, AtMostBound DEF Elapsed, TypeOK
  <2>. QED
    BY <2>1, ControlAssumption, DebounceAssumption DEF SiteUpdate, TypeOK
<1>. QED
  BY <1>3, <1>4, <1>5 DEF SiteUpdate, TypeOK

(* The type invariant, for any relay at the start.                         *)
LEMMA TypeStep == TypeOK /\ [Next]_vars => TypeOK'
<1>. SUFFICES ASSUME TypeOK, [Next]_vars PROVE TypeOK'
  OBVIOUS
<1>1. CASE SiteUpdates
  BY <1>1, UpdateTypes DEF SiteUpdates
<1>2. CASE Execute
  <2>1. ThingTypeOK'
    BY <1>2 DEF Execute, RequestExecuted, TypeOK, ThingTypeOK, Requests
  <2>. QED
    BY <1>2, <2>1 DEF Execute, TypeOK, StrategyTypeOK, strategyVars, controlVars
<1>3. CASE Lose
  <2>1. ThingTypeOK'
    BY <1>3 DEF Lose, RequestLost, TypeOK, ThingTypeOK
  <2>2. lost' \in 0 .. MaxLost
    BY <1>3, ControlAssumption DEF Lose, TypeOK
  <2>. QED
    BY <1>3, <2>1, <2>2 DEF Lose, TypeOK, StrategyTypeOK, strategyVars
<1>4. CASE \E in \in InputReports : Report(in)
  <2>1. PICK in \in InputReports : Report(in)
    BY <1>4
  <2>2. ThingTypeOK'
    BY <2>1, ControlAssumption DEF Report, StatusReport, TypeOK, ThingTypeOK
  <2>3. StrategyTypeOK'
    BY <2>1, InputTypes DEF Report, TypeOK
  <2>. QED
    BY <2>1, <2>2, <2>3 DEF Report, TypeOK, controlVars
<1>5. CASE Garbled
  <2>1. ThingTypeOK'
    BY <1>5 DEF Garbled, BadReport, TypeOK, ThingTypeOK
  <2>2. StrategyTypeOK'
    BY <1>5, InputTypes DEF Garbled, TypeOK
  <2>. QED
    BY <1>5, <2>1, <2>2 DEF Garbled, TypeOK, controlVars
<1>6. CASE UNCHANGED vars
  BY <1>6 DEF vars, thingVars, strategyVars, controlVars, TypeOK, ThingTypeOK, StrategyTypeOK
<1>. QED
  BY <1>1, <1>2, <1>3, <1>4, <1>5, <1>6 DEF Next

(* The variables of MultiPhaseStrategy and of its relay stay within their  *)
(* types, whatever the relay was doing when the daemon started.            *)
THEOREM RelayTypesCorrect == Spec => []TypeOK
BY InitTypes, TypeStep, PTL DEF Spec

-----------------------------------------------------------------------------
(* The limit and the energy.  A step up with a stale report could exceed   *)
(* the one and lose the other: a phase that is already on is switched on   *)
(* again, or is not counted.  The relay has had time to be read again if   *)
(* a step up waits longer than a step down.                                *)

UpWaitsLonger == StepDownDebounce < StepUpDebounce

(* What is shown wrongly was so when it was reported, after the last       *)
(* update.                                                                 *)
StaleForAWhile ==
  \A p \in Phases : Stale(p) => sinceStep + 1 <= N + N * lost

LEMMA StaleStep == RingInv /\ StaleForAWhile /\ [Next]_vars => StaleForAWhile'
<1>. SUFFICES ASSUME RingInv, StaleForAWhile, [Next]_vars PROVE StaleForAWhile'
  OBVIOUS
<1>1. /\ N \in Nat \ {0} /\ lost \in Nat /\ sinceStep \in Nat /\ phaseToSet \in Phases
      /\ N * lost \in Nat
  BY NAssumption, ControlAssumption, Product DEF RingInv, RingTypeOK
<1>2. CASE SiteUpdates
  BY <1>2 DEF SiteUpdates, SiteUpdate, SetStates, StaleForAWhile, Stale
<1>3. CASE Lose
  <2>1. N * (lost + 1) = N * lost + N
    BY <1>1, SMT
  <2>2. /\ lost' = lost + 1 /\ sinceStep' = sinceStep
        /\ \A p \in Phases : Stale(p)' = Stale(p)
    BY <1>3 DEF Lose, RequestLost, strategyVars, Stale
  <2>. QED
    BY <1>1, <2>1, <2>2 DEF StaleForAWhile
<1>4. CASE (\E in \in InputReports : Report(in)) \/ Garbled
  <2>1. /\ states' \in {switches, Empty}
        /\ UNCHANGED <<currentStates, sinceStep, lost>>
    BY <1>4 DEF Report, StatusReport, Garbled, BadReport, InputEvent, controlVars
  <2>. SUFFICES ASSUME NEW p \in Phases, Stale(p)' PROVE sinceStep + 1 <= N + N * lost
    BY <2>1 DEF StaleForAWhile
  <2>2. Behind(p)
    BY <2>1 DEF Stale, Behind
  <2>3. sinceStep + 1 <= Ago(p) + N * lost + (IF Pending(p) THEN N ELSE 0)
    BY <2>2 DEF RingInv, BehindForAWhile
  <2>4. Ago(p) \in Int /\ Ago(p) < N
    BY <1>1 DEF Ago, Distance, Preceding, Phases
  <2>5. Pending(p) => Ago(p) = 0
    BY <1>1 DEF RingInv, RequestIsCurrent, Pending, Ago, Distance, Preceding, Phases
  <2>. QED
    BY <1>1, <2>3, <2>4, <2>5
<1>5. CASE UNCHANGED <<states, currentStates, sinceStep, lost>>
  BY <1>5 DEF StaleForAWhile, Stale
<1>. QED
  BY <1>2, <1>3, <1>4, <1>5 DEF Next, Execute, RequestExecuted, strategyVars, controlVars,
                                vars, thingVars

(* A step up sees the relay as it is commanded.                            *)
LEMMA UpSeesTheRelay ==
  ASSUME UpWaitsLonger, RingInv, StaleForAWhile,
         NEW g \in GridPowers, NEW o \in AnyOutcome(g), o.step = "Up"
  PROVE  /\ states = currentStates /\ ~currentStates[nextUp]
         /\ WantsToStepUp(g, Now) /\ o.askedUp
<1>1. /\ WantsToStepUp(g, Now) /\ o.askedUp
  BY StepsWereAsked DEF AnyOutcome
<1>2. Elapsed >= StepUpDebounce
  BY DEF AnyOutcome, Outcomes, Outcome
<1>3. /\ N \in Nat \ {0} /\ lost \in 0 .. MaxLost /\ MaxLost \in Nat /\ sinceStep \in Nat
      /\ StepDownDebounce \in Nat /\ StepUpDebounce \in Nat
      /\ N * (1 + MaxLost) <= StepDownDebounce
      /\ currentStates \in [Phases -> BOOLEAN] /\ nextUp \in Phases
  BY NAssumption, ControlAssumption, DebounceAssumption DEF RingInv, RingTypeOK
<1>4. /\ N * (1 + MaxLost) = N + N * MaxLost
      /\ N * lost <= N * MaxLost /\ N * lost \in Nat /\ N * MaxLost \in Nat
  BY <1>3, SMT
<1>5. Elapsed <= sinceStep + 1
  BY <1>3 DEF Elapsed, AtMost
<1>6. ~(sinceStep + 1 <= N + N * lost)
  <2>1. sinceStep + 1 > StepDownDebounce
    BY <1>2, <1>3, <1>5 DEF UpWaitsLonger, Elapsed, AtMost
  <2>. QED
    BY <1>3, <1>4, <2>1
<1>7. \A p \in Phases : ~Stale(p)
  BY <1>6 DEF StaleForAWhile
<1>8. DOMAIN states = Phases /\ ~states[nextUp]
  BY <1>1 DEF WantsToStepUp, MayStepUp, Reported
<1>9. states # Empty /\ states \in [Phases -> BOOLEAN]
  BY <1>3, <1>8 DEF RingInv, RingTypeOK, Empty
<1>10. states = currentStates
  BY <1>3, <1>7, <1>9 DEF Stale
<1>. QED
  BY <1>1, <1>8, <1>10

(* The energy that is published is that of the steps made and of the       *)
(* phases that are on.                                                     *)
EnergyIsAccounted ==
  energy = AtMost(MaxEnergy, delivered + EnergyOf(age, On(currentStates))) \div EnergyUnit

LEMMA AccountedStep == EnergyIsAccounted /\ [Next]_vars => EnergyIsAccounted'
<1>. SUFFICES ASSUME EnergyIsAccounted, [Next]_vars PROVE EnergyIsAccounted'
  OBVIOUS
<1>1. CASE SiteUpdates
  BY <1>1, Published DEF SiteUpdates, SiteUpdate, Keep, Down, Up, EnergyIsAccounted
<1>2. CASE UNCHANGED <<energy, delivered, age, currentStates>>
  BY <1>2 DEF EnergyIsAccounted
<1>. QED
  BY <1>1, <1>2 DEF Next, Execute, Lose, Report, Garbled, InputEvent, strategyVars, vars

LimitInv == RingInv /\ TypeOK /\ StaleForAWhile /\ EnergyIsAccounted

LEMMA LimitInvAlways ==
  ASSUME RelayIsOff
  PROVE  Spec => []LimitInv
<1>1. Init => StaleForAWhile
  BY DEF Init, ThingInit, StaleForAWhile, Stale
<1>2. Init => EnergyIsAccounted
  <2>. SUFFICES ASSUME Init PROVE EnergyIsAccounted
    OBVIOUS
  <2>1. energy = 0 /\ delivered = 0 /\ On(currentStates) = {}
    BY DEF Init, StrategyInit, On
  <2>2. EnergyOf(age, {}) = 0
    BY EnergyUnfolds
  <2>3. AtMost(MaxEnergy, 0) = 0
    BY MultiPhaseAssumption DEF AtMost
  <2>4. 0 \div EnergyUnit = 0
    BY MultiPhaseAssumption, SMT
  <2>. QED
    BY <2>1, <2>2, <2>3, <2>4 DEF EnergyIsAccounted
<1>. QED
  BY <1>1, <1>2, InitTypes, TypeStep, StaleStep, AccountedStep, RingAlways, InitRingInv,
     RingStep, PTL DEF Spec, LimitInv

(* A step up stays within the phase limit, though it counts the phases     *)
(* that are reported and not those that are commanded.                     *)
THEOREM StepsUpAreLimited ==
  ASSUME RelayIsOff, UpWaitsLonger
  PROVE  Spec => LimitRespected
<1>. DEFINE A == Cardinality(On(currentStates')) > Cardinality(On(currentStates))
                   => Cardinality(On(currentStates')) <= phaseLimit'
<1>1. ASSUME LimitInv, [Next]_vars PROVE [A]_vars
  <2>0. /\ currentStates \in [Phases -> BOOLEAN] /\ nextUp \in Phases /\ nextDown \in Phases
        /\ phaseLimit \in 0 .. N /\ N \in Nat
    BY <1>1, NAssumption DEF LimitInv, TypeOK, StrategyTypeOK
  <2>1. IsFiniteSet(On(currentStates)) /\ Cardinality(On(currentStates)) \in Nat
    <3>1. IsFiniteSet(Phases)
      BY NAssumption, FS_Interval DEF Phases
    <3>2. On(currentStates) \subseteq Phases
      BY <2>0 DEF On
    <3>. QED
      BY <3>1, <3>2, FS_Subset, FS_CardinalityType
  <2>. SUFFICES ASSUME Next, Cardinality(On(currentStates')) > Cardinality(On(currentStates))
                PROVE  Cardinality(On(currentStates')) <= phaseLimit'
    BY <1>1
  <2>2. currentStates' # currentStates
    BY <2>1
  <2>3. SiteUpdates
    BY <2>2 DEF Next, Execute, Lose, Report, Garbled, InputEvent, strategyVars
  <2>4. PICK g \in GridPowers : \E o \in AnyOutcome(g) : SiteUpdate(g, o)
    BY <2>3 DEF SiteUpdates
  <2>5. PICK o \in AnyOutcome(g) : SiteUpdate(g, o)
    BY <2>4
  <2>6. CASE o.step = "Keep"
    BY <2>2, <2>5, <2>6 DEF SiteUpdate, Keep
  <2>7. CASE o.step = "Down"
    <3>1. On(currentStates') \subseteq On(currentStates)
      BY <2>0, <2>5, <2>7 DEF SiteUpdate, Down, On
    <3>2. Cardinality(On(currentStates')) <= Cardinality(On(currentStates))
      BY <2>1, <3>1, FS_Subset
    <3>3. Cardinality(On(currentStates')) \in Nat
      BY <2>1, <3>1, FS_Subset, FS_CardinalityType
    <3>. QED
      BY <2>1, <3>2, <3>3
  <2>8. CASE o.step = "Up"
    <3>1. /\ states = currentStates /\ ~currentStates[nextUp]
          /\ WantsToStepUp(g, Now) /\ o.askedUp
      BY <1>1, <2>8, UpSeesTheRelay DEF LimitInv
    <3>2. On(currentStates') = On(currentStates) \cup {nextUp} /\ nextUp \notin On(currentStates)
      BY <2>0, <2>5, <2>8, <3>1 DEF SiteUpdate, Up, On
    <3>3. Cardinality(On(currentStates')) = Cardinality(On(currentStates)) + 1
      BY <2>1, <3>2, FS_AddElement
    <3>4. Cardinality(On(currentStates)) < LimitWhenAsked(Now)
      BY <3>1 DEF WantsToStepUp
    <3>5. phaseLimit' = LimitWhenAsked(Now)
      BY <2>5, <3>1 DEF SiteUpdate, Asked
    <3>6. LimitWhenAsked(Now) \in Nat
      BY <2>0 DEF LimitWhenAsked
    <3>. QED
      BY <2>1, <3>3, <3>4, <3>5, <3>6
  <2>. QED
    BY <2>5, <2>6, <2>7, <2>8, StepsWereAsked DEF AnyOutcome
<1>. QED
  BY <1>1, LimitInvAlways, PTL DEF Spec, LimitRespected

LEMMA DivisionGrows ==
  ASSUME NEW a \in Nat, NEW b \in Nat, NEW n \in Nat \ {0}, a <= b
  PROVE  a \div n <= b \div n
<1>. DEFINE p == a \div n
            q == b \div n
<1>1. /\ p \in Nat /\ n * p <= a
      /\ q \in Nat /\ b < n * q + n
  BY SMT
<1>. HIDE DEF p, q
<1>2. ASSUME q + 1 <= p PROVE FALSE
  <2>1. n * (q + 1) <= n * p
    BY <1>1, <1>2, SMT
  <2>2. n * (q + 1) = n * q + n
    BY <1>1, SMT
  <2>. QED
    BY <1>1, <2>1, <2>2
<1>3. p <= q
  BY <1>1, <1>2
<1>. QED
  BY <1>3 DEF p, q

(* The energy of a step, of the phases that stay on, and the saturation.   *)
LEMMA Accounts ==
  ASSUME NEW m \in Nat, NEW d \in Nat, NEW w \in Nat, NEW e \in Nat, NEW e1 \in Nat,
         e <= w + e1
  PROVE  AtMost(m, d + e) <= AtMost(m, AtMost(m, d + w) + e1)
BY DEF AtMost

(* What the phases that were on have delivered is not lost by an update.   *)
LEMMA EnergyIsKept ==
  ASSUME UpWaitsLonger, LimitInv,
         NEW g \in GridPowers, NEW o \in AnyOutcome(g), SiteUpdate(g, o), clock' # 0
  PROVE  AtMost(MaxEnergy, delivered + EnergyOf(age, On(currentStates)))
           <= AtMost(MaxEnergy, delivered' + EnergyOf(age', On(currentStates')))
<1>1. /\ currentStates \in [Phases -> BOOLEAN] /\ nextUp \in Phases /\ nextDown \in Phases
      /\ age \in [Phases -> Nat] /\ age \in [Phases -> 0 .. MaxAge]
      /\ MaxAge \in Nat /\ MaxEnergy \in Nat /\ delivered \in 0 .. MaxEnergy
  BY MultiPhaseAssumption DEF LimitInv, TypeOK, StrategyTypeOK
<1>2. On(currentStates) \in SUBSET Phases /\ On(currentStates') \in SUBSET Phases
      /\ age' \in [Phases -> Nat]
  <2>1. currentStates' \in [Phases -> BOOLEAN] /\ age' \in [Phases -> 0 .. MaxAge]
    BY AdjustTypes DEF LimitInv, TypeOK, SiteUpdate
  <2>. QED
    BY <1>1, <2>1 DEF On
<1>3. \A p \in Phases : age[p] <= Older(p)
  BY <1>1 DEF Older, AtMost
<1>4. DeliveredToday = delivered
  BY DEF DeliveredToday
<1>5. PICK d \in Nat : d = delivered
  BY <1>1
<1>6. PICK e \in Nat : e = EnergyOf(age, On(currentStates))
  BY <1>1, <1>2, EnergyIsNat
<1>7. PICK e1 \in Nat : e1 = EnergyOf(age', On(currentStates'))
  BY <1>2, EnergyIsNat
<1>8. CASE o.step = "Keep"
  <2>1. /\ age' = [p \in Phases |-> Older(p)] /\ currentStates' = currentStates
        /\ delivered' = delivered
    BY <1>4, <1>8 DEF SiteUpdate, Keep
  <2>2. \A p \in On(currentStates) : age[p] <= age'[p]
    BY <1>2, <1>3, <2>1
  <2>3. e <= e1
    BY <1>1, <1>2, <1>6, <1>7, <2>1, <2>2, EnergyGrows
  <2>4. AtMost(MaxEnergy, d + e) <= AtMost(MaxEnergy, d + e1)
    BY <1>1, <2>3 DEF AtMost
  <2>. QED
    BY <1>5, <1>6, <1>7, <2>1, <2>4
<1>9. CASE o.step = "Down"
  <2>1. /\ age' = [p \in Phases |-> Older(p)]
        /\ currentStates' = [currentStates EXCEPT ![nextDown] = FALSE]
        /\ delivered' = AtMost(MaxEnergy, delivered + Work(nextDown))
    BY <1>4, <1>9 DEF SiteUpdate, Down
  <2>2. \A p \in On(currentStates) : age[p] <= age'[p]
    BY <1>2, <1>3, <2>1
  <2>3. PICK w \in Nat : w = Work(nextDown) /\ w = Weight(age', nextDown)
    BY <1>1, <1>2, WeightIsNat DEF Work, Weight
  <2>4. PICK e2 \in Nat : e2 = EnergyOf(age', On(currentStates))
    BY <1>2, EnergyIsNat
  <2>5. e <= e2
    BY <1>1, <1>2, <1>6, <2>2, <2>4, EnergyGrows
  <2>6. On(currentStates') = On(currentStates) \ {nextDown}
    BY <1>1, <2>1 DEF On
  <2>7. e2 <= w + e1
    <3>1. CASE nextDown \in On(currentStates)
      <4>1. EnergyOf(age', On(currentStates))
              = Weight(age', nextDown) + EnergyOf(age', On(currentStates) \ {nextDown})
        BY <1>2, <3>1, EnergyTakesOut
      <4>2. e2 = w + e1
        BY <1>7, <2>3, <2>4, <2>6, <4>1
      <4>. QED
        BY <4>2
    <3>2. CASE nextDown \notin On(currentStates)
      <4>1. On(currentStates') = On(currentStates)
        BY <2>6, <3>2
      <4>2. e2 = e1
        BY <1>7, <2>4, <4>1
      <4>. QED
        BY <4>2
    <3>. QED
      BY <3>1, <3>2
  <2>8. AtMost(MaxEnergy, d + e) <= AtMost(MaxEnergy, AtMost(MaxEnergy, d + w) + e1)
    <3>1. e <= w + e1
      BY <2>5, <2>7
    <3>. QED
      BY <1>1, <3>1, Accounts
  <2>. QED
    BY <1>5, <1>6, <1>7, <2>1, <2>3, <2>8
<1>10. CASE o.step = "Up"
  <2>1. /\ age' = [p \in Phases |-> IF p = nextUp THEN 0 ELSE Older(p)]
        /\ currentStates' = [currentStates EXCEPT ![nextUp] = TRUE]
        /\ delivered' = delivered
    BY <1>4, <1>10 DEF SiteUpdate, Up
  <2>2. ~currentStates[nextUp]
    BY <1>10, UpSeesTheRelay DEF LimitInv
  <2>3. \A p \in On(currentStates) : age[p] <= age'[p]
    <3>. SUFFICES ASSUME NEW p \in On(currentStates) PROVE age[p] <= age'[p]
      OBVIOUS
    <3>1. p \in Phases /\ p # nextUp
      BY <1>1, <2>2 DEF On
    <3>. QED
      BY <1>3, <2>1, <3>1
  <2>4. PICK e2 \in Nat : e2 = EnergyOf(age', On(currentStates))
    BY <1>2, EnergyIsNat
  <2>5. e <= e2
    BY <1>1, <1>2, <1>6, <2>3, <2>4, EnergyGrows
  <2>6. /\ On(currentStates') \ {nextUp} = On(currentStates)
        /\ nextUp \in On(currentStates')
    BY <1>1, <2>1, <2>2 DEF On
  <2>7. PICK w \in Nat : w = Weight(age', nextUp)
    BY <1>1, <1>2, WeightIsNat
  <2>8. e1 = w + e2
    <3>1. EnergyOf(age', On(currentStates'))
            = Weight(age', nextUp) + EnergyOf(age', On(currentStates') \ {nextUp})
      BY <1>2, <2>6, EnergyTakesOut
    <3>. QED
      BY <1>7, <2>4, <2>6, <2>7, <3>1
  <2>9. AtMost(MaxEnergy, d + e) <= AtMost(MaxEnergy, d + e1)
    BY <1>1, <2>5, <2>8 DEF AtMost
  <2>. QED
    BY <1>5, <1>6, <1>7, <2>1, <2>9
<1>. QED
  BY <1>8, <1>9, <1>10, StepsWereAsked DEF AnyOutcome

(* The energy published for a day never falls before the day is over: what *)
(* a step moves from the running to the delivered sum is neither lost nor  *)
(* counted twice.                                                          *)
THEOREM PublishedEnergyNeverFalls ==
  ASSUME RelayIsOff, UpWaitsLonger
  PROVE  Spec => EnergyNeverFalls
<1>. DEFINE A == clock' = 0 \/ energy <= energy'
<1>1. ASSUME LimitInv, LimitInv', [Next]_vars PROVE [A]_vars
  <2>1. energy \in Nat
    BY <1>1, MultiPhaseAssumption DEF LimitInv, TypeOK, StrategyTypeOK
  <2>2. CASE SiteUpdates
    <3>1. PICK g \in GridPowers : \E o \in AnyOutcome(g) : SiteUpdate(g, o)
      BY <2>2 DEF SiteUpdates
    <3>2. PICK o \in AnyOutcome(g) : SiteUpdate(g, o)
      BY <3>1
    <3>. SUFFICES ASSUME clock' # 0 PROVE energy <= energy'
      OBVIOUS
    <3>3. PICK a \in Nat : a = AtMost(MaxEnergy, delivered + EnergyOf(age, On(currentStates)))
      <4>1. delivered \in Nat /\ EnergyOf(age, On(currentStates)) \in Nat
        BY <1>1, EnergyIsNat, MultiPhaseAssumption DEF LimitInv, TypeOK, StrategyTypeOK, On
      <4>. QED
        BY <4>1, MultiPhaseAssumption, AtMostBound
    <3>4. PICK b \in Nat :
            b = AtMost(MaxEnergy, delivered' + EnergyOf(age', On(currentStates')))
      <4>1. delivered' \in Nat /\ EnergyOf(age', On(currentStates')) \in Nat
        BY <1>1, EnergyIsNat, MultiPhaseAssumption DEF LimitInv, TypeOK, StrategyTypeOK, On
      <4>. QED
        BY <4>1, MultiPhaseAssumption, AtMostBound
    <3>5. a <= b
      BY <1>1, <3>2, <3>3, <3>4, EnergyIsKept
    <3>6. a \div EnergyUnit <= b \div EnergyUnit
      BY <3>5, MultiPhaseAssumption, DivisionGrows
    <3>. QED
      BY <1>1, <3>3, <3>4, <3>6 DEF LimitInv, EnergyIsAccounted
  <2>3. CASE energy' = energy
    BY <2>1, <2>3
  <2>. QED
    BY <1>1, <2>2, <2>3 DEF Next, Execute, Lose, Report, Garbled, InputEvent, strategyVars, vars
<1>. QED
  BY <1>1, LimitInvAlways, PTL DEF Spec, EnergyNeverFalls

=============================================================================
