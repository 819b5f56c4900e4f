--------------------------- MODULE Database_proofs ---------------------------
(***************************************************************************)
(* Proofs about Database, for all reports, resolutions, lengths of a day   *)
(* and of the model: first of its maps, whatever the functions that make   *)
(* an archive compute, then of what those functions keep.                  *)
(***************************************************************************)
EXTENDS Database, FiniteSetTheorems, SequenceTheorems, WellFoundedInduction,
        TLAPS

-----------------------------------------------------------------------------
(* Times.                                                                  *)

(* A later time is on no earlier day.                                      *)
LEMMA DaysAdvance ==
  ASSUME NEW t \in Nat, NEW u \in Nat, t <= u
  PROVE  DayOf(t) \in Nat /\ DayOf(u) \in Nat /\ DayOf(t) <= DayOf(u)
<1>. DEFINE n == DayDuration
            p == t \div n
            q == u \div n
<1>1. n \in Nat \ {0}
  BY SlotsAssumption, TimeAssumption DEF DayDuration
<1>. HIDE DEF n
<1>2. /\ p \in Nat /\ n * p <= t
      /\ q \in Nat /\ u < n * (q + 1)
  BY <1>1, SMT
<1>. HIDE DEF p, q
<1>3. p <= q
  <2>1. SUFFICES ASSUME q + 1 <= p PROVE FALSE
    BY <1>2
  <2>2. n * (q + 1) <= n * p
    BY <1>1, <1>2, <2>1, SMT
  <2>3. n * (q + 1) \in Nat /\ n * p \in Nat
    BY <1>1, <1>2
  <2>. QED
    BY <1>2, <2>2, <2>3
<1>. QED
  BY <1>2, <1>3 DEF p, q, n, DayOf

(* The greatest time of a set is the one that no other exceeds.            *)
LEMMA GreatestTime ==
  ASSUME NEW S \in SUBSET Nat, NEW m \in S, \A t \in S : t <= m
  PROVE  Max(S) = m
<1>1. \E x \in S : \A y \in S : x >= y
  OBVIOUS
<1>2. Max(S) \in S /\ \A y \in S : Max(S) >= y
  BY <1>1 DEF Max
<1>3. Max(S) \in Nat /\ m \in Nat /\ Max(S) >= m /\ Max(S) <= m
  BY <1>2
<1>. HIDE DEF Max
<1>. QED
  BY <1>3

-----------------------------------------------------------------------------
(* The invariant.                                                          *)

(* What is kept in memory is what was reported last, and what was reported *)
(* last is what the map holds.  No entry is newer than now, and no archive *)
(* is of today.                                                            *)
DatabaseInv ==
  /\ now \in Nat
  /\ DOMAIN raw \subseteq Nat /\ \A t \in DOMAIN raw : t <= now
  /\ DOMAIN archive \subseteq {d \in Nat : d < DayOf(now)}
  /\ lastValues # NoData => reported = lastValues
  /\ RawHoldsReports
  /\ ArchivesAreComplete

(* Database starts with empty maps.                                        *)
LEMMA InitDatabaseInv == Init => DatabaseInv
<1>. SUFFICES ASSUME Init PROVE DatabaseInv
  OBVIOUS
<1>1. DOMAIN raw = {} /\ DOMAIN archive = {}
  BY DEF Init, NoData
<1>. QED
  BY <1>1, TimeAssumption
  DEF Init, DatabaseInv, RawHoldsReports, ArchivesAreComplete

(* Writing down a datapoint, or skipping it.                               *)
LEMMA PutEffect ==
  ASSUME NEW datapoint, putDatapoint(now, datapoint)
  PROVE  \/ raw' = raw /\ lastValues = datapoint
         \/ /\ DOMAIN raw' = DOMAIN raw \cup {now}
            /\ raw'[now] = datapoint
            /\ \A t \in DOMAIN raw : t # now => raw'[t] = raw[t]
BY DEF putDatapoint, Upsert

(* Database's handler of a property event preserves the invariant: it      *)
(* writes today's data only.                                               *)
LEMMA ReportDatabaseInv ==
  ASSUME DatabaseInv, NEW report \in Reports, Report(report)
  PROVE  DatabaseInv'
<1>. DEFINE datapoint == Datapoint(report)
<1>1. /\ now' = now /\ archive' = archive
      /\ lastValues' = datapoint /\ reported' = datapoint
      /\ putDatapoint(now, datapoint)
  BY DEF Report, putDatapoint
<1>. HIDE DEF datapoint
<1>2. \/ raw' = raw /\ lastValues = datapoint
      \/ /\ DOMAIN raw' = DOMAIN raw \cup {now}
         /\ raw'[now] = datapoint
         /\ \A t \in DOMAIN raw : t # now => raw'[t] = raw[t]
  BY <1>1, PutEffect
<1>3. now \in Nat /\ DOMAIN raw \subseteq Nat /\ \A t \in DOMAIN raw : t <= now
  BY DEF DatabaseInv
<1>4. DOMAIN raw' \subseteq Nat /\ \A t \in DOMAIN raw' : t <= now
  BY <1>2, <1>3
<1>5. RawHoldsReports'
  <2>1. CASE raw' = raw /\ lastValues = datapoint
    BY <1>1, <2>1 DEF DatabaseInv, RawHoldsReports, Held
  <2>2. CASE DOMAIN raw' = DOMAIN raw \cup {now} /\ raw'[now] = datapoint
    <3>. DEFINE S == {u \in DOMAIN raw' : u <= now}
    <3>1. S \in SUBSET Nat /\ now \in S /\ \A t \in S : t <= now
      BY <1>3, <1>4, <2>2
    <3>2. Max(S) = now
      <4>. HIDE DEF S
      <4>. QED
        BY <3>1, GreatestTime
    <3>3. Held(raw', now) = datapoint
      BY <2>2, <3>1, <3>2 DEF Held
    <3>. QED
      BY <1>1, <3>3 DEF RawHoldsReports
  <2>. QED
    BY <1>2, <2>1, <2>2
<1>6. ArchivesAreComplete'
  <2>. SUFFICES ASSUME NEW day \in DOMAIN archive
                PROVE  archive[day] = Archived(day)'
    BY <1>1 DEF ArchivesAreComplete
  <2>1. DayOf(now) # day
    BY <1>3, DaysAdvance DEF DatabaseInv
  <2>. DEFINE Times(data) == {t \in DOMAIN data : DayOf(t) = day}
  <2>2. Times(raw') = Times(raw) /\ \A t \in Times(raw) : raw'[t] = raw[t]
    BY <1>2, <2>1
  <2>3. [t \in Times(raw') |-> raw'[t]] = [t \in Times(raw) |-> raw[t]]
    BY <2>2
  <2>4. rawData(day)' = rawData(day)
    BY <2>3 DEF rawData
  <2>5. Archived(day)' = Archived(day)
    BY <2>4 DEF Archived
  <2>. QED
    BY <2>5 DEF DatabaseInv, ArchivesAreComplete
<1>. QED
  BY <1>1, <1>3, <1>4, <1>5, <1>6 DEF DatabaseInv

(* What a request for an archive may change: it adds the whole day, if the *)
(* day has passed.                                                         *)
LEMMA ArchiveEffect ==
  ASSUME NEW day \in Nat, DayOf(now) \in Nat, archivedData(day)
  PROVE  \/ archive' = archive
         \/ /\ day < DayOf(now)
            /\ DOMAIN archive' = DOMAIN archive \cup {day}
            /\ archive'[day] = Archived(day)
            /\ \A d \in DOMAIN archive : d # day => archive'[d] = archive[d]
<1>1. CASE day \in DOMAIN archive \/ day >= DayOf(now) \/ Archived(day) = NoData
  BY <1>1 DEF archivedData, ArchiveDay
<1>2. CASE ~(day \in DOMAIN archive \/ day >= DayOf(now) \/ Archived(day) = NoData)
  <2>1. archive' = Upsert(archive, day, Archived(day))
    BY <1>2 DEF archivedData, ArchiveDay
  <2>2. day < DayOf(now)
    BY <1>2
  <2>. QED
    BY <2>1, <2>2 DEF Upsert
<1>. QED
  BY <1>1, <1>2

(* ArchiveDayUseCase preserves the invariant.                              *)
LEMMA ArchiveDatabaseInv ==
  ASSUME DatabaseInv, NEW day \in Days, archivedData(day)
  PROVE  DatabaseInv'
<1>1. /\ now' = now /\ raw' = raw /\ lastValues' = lastValues
      /\ reported' = reported
  BY DEF archivedData
<1>2. day \in Nat /\ DayOf(now) \in Nat
  BY DaysAdvance DEF Days, DatabaseInv
<1>3. \/ archive' = archive
      \/ /\ day < DayOf(now)
         /\ DOMAIN archive' = DOMAIN archive \cup {day}
         /\ archive'[day] = Archived(day)
         /\ \A d \in DOMAIN archive : d # day => archive'[d] = archive[d]
  BY <1>2, ArchiveEffect
<1>4. DOMAIN archive' \subseteq {d \in Nat : d < DayOf(now)}
  BY <1>2, <1>3 DEF DatabaseInv
<1>5. RawHoldsReports'
  BY <1>1 DEF DatabaseInv, RawHoldsReports, Held
<1>6. ArchivesAreComplete'
  <2>. SUFFICES ASSUME NEW d \in DOMAIN archive'
                PROVE  archive'[d] = Archived(d)'
    BY DEF ArchivesAreComplete
  <2>1. Archived(d)' = Archived(d)
    BY <1>1 DEF Archived, rawData
  <2>2. archive'[d] = Archived(d)
    BY <1>3 DEF DatabaseInv, ArchivesAreComplete
  <2>. QED
    BY <2>1, <2>2
<1>. QED
  BY <1>1, <1>4, <1>5, <1>6 DEF DatabaseInv

(* A restart forgets what is in memory only.                               *)
LEMMA RestartDatabaseInv ==
  ASSUME DatabaseInv, Restart
  PROVE  DatabaseInv'
<1>1. /\ now' = now /\ raw' = raw /\ archive' = archive
      /\ lastValues' = NoData /\ reported' = NoData
  BY DEF Restart
<1>2. RawHoldsReports'
  BY <1>1 DEF RawHoldsReports
<1>3. ArchivesAreComplete'
  BY <1>1 DEF DatabaseInv, ArchivesAreComplete, Archived, rawData
<1>. QED
  BY <1>1, <1>2, <1>3 DEF DatabaseInv

(* Time writes nothing, and what is archived stays in the past.            *)
LEMMA TimeDatabaseInv ==
  ASSUME DatabaseInv, TimePasses
  PROVE  DatabaseInv'
<1>1. /\ now' = now + 1 /\ raw' = raw /\ archive' = archive
      /\ lastValues' = lastValues /\ reported' = reported
  BY DEF TimePasses
<1>2. now \in Nat /\ DOMAIN raw \subseteq Nat /\ \A t \in DOMAIN raw : t <= now
  BY DEF DatabaseInv
<1>3. DayOf(now) \in Nat /\ DayOf(now') \in Nat /\ DayOf(now) <= DayOf(now')
  BY <1>1, <1>2, DaysAdvance
<1>4. DOMAIN archive' \subseteq {d \in Nat : d < DayOf(now')}
  BY <1>1, <1>3 DEF DatabaseInv
<1>5. RawHoldsReports'
  <2>1. {u \in DOMAIN raw : u <= now + 1} = {u \in DOMAIN raw : u <= now}
    BY <1>2
  <2>2. Held(raw, now + 1) = Held(raw, now)
    BY <2>1 DEF Held
  <2>. QED
    BY <1>1, <2>2 DEF DatabaseInv, RawHoldsReports
<1>6. ArchivesAreComplete'
  BY <1>1 DEF DatabaseInv, ArchivesAreComplete, Archived, rawData
<1>7. now' \in Nat /\ \A t \in DOMAIN raw' : t <= now'
  BY <1>1, <1>2
<1>. QED
  BY <1>1, <1>2, <1>4, <1>5, <1>6, <1>7 DEF DatabaseInv

(* The inductive invariant of the database.                                *)
THEOREM DatabaseInvariant == Spec => []DatabaseInv
<1>1. Init => DatabaseInv
  BY InitDatabaseInv
<1>2. DatabaseInv /\ [Next]_vars => DatabaseInv'
  <2>. SUFFICES ASSUME DatabaseInv, [Next]_vars PROVE DatabaseInv'
    OBVIOUS
  <2>1. CASE \E report \in Reports : Report(report)
    BY <2>1, ReportDatabaseInv
  <2>2. CASE \E day \in Days : archivedData(day)
    BY <2>2, ArchiveDatabaseInv
  <2>3. CASE Restart
    BY <2>3, RestartDatabaseInv
  <2>4. CASE TimePasses
    BY <2>4, TimeDatabaseInv
  <2>5. CASE UNCHANGED vars
    BY <2>5 DEF vars, DatabaseInv, RawHoldsReports, ArchivesAreComplete, Held,
                Archived, rawData
  <2>. QED
    BY <2>1, <2>2, <2>3, <2>4, <2>5 DEF Next
<1>. QED
  BY <1>1, <1>2, PTL DEF Spec

(* putDatapoint loses nothing by skipping what repeats the last value.     *)
THEOREM NothingIsLost == Spec => []RawHoldsReports
<1>1. DatabaseInv => RawHoldsReports
  BY DEF DatabaseInv
<1>. QED
  BY <1>1, DatabaseInvariant, PTL

(* An archive is the whole day, for ever, whatever its codec computes.     *)
THEOREM ArchivesStayComplete == Spec => []ArchivesAreComplete
<1>1. DatabaseInv => ArchivesAreComplete
  BY DEF DatabaseInv
<1>. QED
  BY <1>1, DatabaseInvariant, PTL

-----------------------------------------------------------------------------
(* What the maps hold.                                                     *)

LEMMA InitTypeOK == Init => TypeOK
<1>. SUFFICES ASSUME Init PROVE TypeOK
  OBVIOUS
<1>1. DOMAIN raw = {} /\ DOMAIN archive = {}
  BY DEF Init, NoData
<1>. QED
  BY <1>1, TimeAssumption DEF Init, TypeOK

LEMMA TypeStep ==
  ASSUME DatabaseInv, DatabaseInv', TypeOK, [Next]_vars
  PROVE  TypeOK'
<1>1. /\ now \in Nat /\ StartTime \in Nat /\ MaxTime \in Nat
      /\ DOMAIN archive' \subseteq 0 .. DayOf(now') - 1
  <2>1. now' \in Nat /\ DOMAIN archive' \subseteq {d \in Nat : d < DayOf(now')}
    BY DEF DatabaseInv
  <2>2. DayOf(now') \in Nat
    BY <2>1, DaysAdvance
  <2>. QED
    BY <2>1, <2>2, TimeAssumption DEF DatabaseInv
<1>2. ASSUME NEW report \in Reports, Report(report) PROVE TypeOK'
  <2>1. /\ now' = now /\ archive' = archive
        /\ lastValues' = Datapoint(report) /\ reported' = Datapoint(report)
        /\ putDatapoint(now, Datapoint(report))
    BY <1>2 DEF Report, putDatapoint
  <2>2. Datapoint(report) \in Datapoints
    BY DEF Datapoints
  <2>3. \/ raw' = raw
        \/ /\ DOMAIN raw' = DOMAIN raw \cup {now}
           /\ raw'[now] = Datapoint(report)
           /\ \A t \in DOMAIN raw : t # now => raw'[t] = raw[t]
    BY <2>1, PutEffect
  <2>4. now \in StartTime .. now
    BY <1>1 DEF TypeOK
  <2>5. DOMAIN raw' \subseteq StartTime .. now /\ \A t \in DOMAIN raw' : raw'[t] \in Datapoints
    BY <2>2, <2>3, <2>4 DEF TypeOK
  <2>. QED
    BY <1>1, <2>1, <2>2, <2>5 DEF TypeOK
<1>3. ASSUME NEW day \in Days, archivedData(day) PROVE TypeOK'
  <2>1. /\ now' = now /\ raw' = raw /\ lastValues' = lastValues /\ reported' = reported
    BY <1>3 DEF archivedData
  <2>2. \/ archive' = archive
        \/ archive' = Upsert(archive, day, Archived(day)) /\ Archived(day) # NoData
    BY <1>3 DEF archivedData, ArchiveDay
  <2>3. \A d \in DOMAIN archive' : archive'[d] # NoData
    BY <2>2 DEF Upsert, TypeOK
  <2>. QED
    BY <1>1, <2>1, <2>3 DEF TypeOK
<1>4. CASE Restart
  BY <1>1, <1>4 DEF Restart, TypeOK
<1>5. CASE TimePasses
  <2>1. /\ now' \in StartTime .. MaxTime /\ now <= now' /\ now' \in Nat
        /\ UNCHANGED <<raw, archive, lastValues, reported>>
    BY <1>1, <1>5 DEF TimePasses, TypeOK
  <2>2. StartTime .. now \subseteq StartTime .. now'
    BY <1>1, <2>1
  <2>. QED
    BY <1>1, <2>1, <2>2 DEF TypeOK
<1>6. CASE UNCHANGED vars
  BY <1>1, <1>6 DEF vars, TypeOK
<1>. QED
  BY <1>2, <1>3, <1>4, <1>5, <1>6 DEF Next

(* The maps hold datapoints of times that have passed, and archives that   *)
(* are not empty, of days that have passed.                                *)
THEOREM DatabaseTypesCorrect == Spec => []TypeOK
BY InitTypeOK, TypeStep, DatabaseInvariant, PTL DEF Spec

-----------------------------------------------------------------------------
(* Induction.  The theorems of the library take the statement as an        *)
(* operator; here it is a set.                                             *)

(* Every non-empty set of naturals has a least element.                    *)
LEMMA LeastNat ==
  ASSUME NEW I \in SUBSET Nat, I # {}
  PROVE  \E i \in I : \A j \in I : i <= j
<1>. DEFINE T == {0 .. i : i \in I}
<1>1. T \subseteq FiniteSubsetsOf(Nat)
  <2>1. ASSUME NEW i \in I
        PROVE  IsFiniteSet(0 .. i) /\ 0 .. i \subseteq Nat
    BY FS_Interval
  <2>. QED
    BY <2>1 DEF FiniteSubsetsOf
<1>4. T # {}
  OBVIOUS
<1>2. \E S \in T : \A R \in T : <<R, S>> \notin StrictSubsetOrdering(Nat)
  BY <1>1, <1>4, FS_StrictSubsetOrderingWellFounded, WFMin, Zenon
<1>3. PICK i \in I : \A j \in I : <<0 .. j, 0 .. i>> \notin StrictSubsetOrdering(Nat)
  BY <1>2
<1>5. ASSUME NEW j \in I, j < i PROVE FALSE
  <2>. DEFINE A == 0 .. j
              B == 0 .. i
  <2>1. A \subseteq B /\ A # B /\ B \subseteq Nat
    BY <1>5
  <2>. HIDE DEF A, B
  <2>2. <<A, B>> \in StrictSubsetOrdering(Nat)
    BY <2>1 DEF StrictSubsetOrdering
  <2>. QED
    BY <1>3, <2>2 DEF A, B
<1>. QED
  BY <1>5

(* What holds at the first position, and at the next one wherever it       *)
(* holds, holds at all of them.                                            *)
LEMMA AllPositions ==
  ASSUME NEW a \in Nat, NEW b \in Nat, NEW S, a \in S,
         \A k \in a .. b - 1 : k \in S => k + 1 \in S
  PROVE  a .. b \subseteq S
<1>. DEFINE I == {k \in a .. b : k \notin S}
<1>. SUFFICES ASSUME I # {} PROVE FALSE
  OBVIOUS
<1>1. I \in SUBSET Nat
  OBVIOUS
<1>2. PICK k \in I : \A j \in I : k <= j
  BY <1>1, LeastNat
<1>3. k \in a + 1 .. b /\ k \in Nat
  OBVIOUS
<1>4. k - 1 \in S
  BY <1>2, <1>3
<1>5. k - 1 \in a .. b - 1 /\ (k - 1) + 1 = k
  BY <1>3
<1>. QED
  BY <1>4, <1>5

(* A solution of a recursion along positions.                              *)
IteratesTo(a, b, V, v, step, f) ==
  /\ f \in [a .. b -> V]
  /\ a <= b => f[a] = v
  /\ \A k \in a + 1 .. b : f[k] = step[k][f[k - 1]]

(* A recursion along positions has a solution.                             *)
LEMMA Iterates ==
  ASSUME NEW a \in Nat, NEW b \in Nat, NEW V, NEW v \in V,
         NEW step \in [a + 1 .. b -> [V -> V]]
  PROVE  \E f : IteratesTo(a, b, V, v, step, f)
<1>. USE DEF IteratesTo
<1>. DEFINE Solves(f, n) ==
              /\ f \in [a .. n -> V]
              /\ f[a] = v
              /\ \A k \in a + 1 .. n : f[k] = step[k][f[k - 1]]
            S == {n \in a .. b : \E f : Solves(f, n)}
<1>1. CASE b < a
  <2>1. [k \in a .. b |-> v] \in [a .. b -> V]
    OBVIOUS
  <2>. QED
    BY <1>1, <2>1
<1>2. CASE a <= b
  <2>1. a \in S
    <3>1. Solves([k \in a .. a |-> v], a)
      OBVIOUS
    <3>2. a \in a .. b
      BY <1>2
    <3>. HIDE DEF Solves
    <3>. QED
      BY <3>1, <3>2
  <2>2. ASSUME NEW n \in a .. b - 1, n \in S PROVE n + 1 \in S
    <3>1. PICK f : Solves(f, n)
      BY <2>2
    <3>. DEFINE g == [k \in a .. n + 1 |-> IF k <= n THEN f[k] ELSE step[n + 1][f[n]]]
    <3>2. step[n + 1][f[n]] \in V
      <4>1. f[n] \in V /\ n + 1 \in a + 1 .. b
        BY <2>2, <3>1
      <4>. QED
        BY <4>1
    <3>3. g \in [a .. n + 1 -> V]
      BY <3>1, <3>2
    <3>4. g[a] = v
      BY <2>2, <3>1
    <3>5. ASSUME NEW k \in a + 1 .. n + 1 PROVE g[k] = step[k][g[k - 1]]
      <4>1. k - 1 \in a .. n /\ g[k - 1] = f[k - 1]
        BY <2>2, <3>5
      <4>2. CASE k = n + 1
        BY <4>1, <4>2, <2>2
      <4>3. CASE k \in a + 1 .. n
        BY <4>1, <4>3, <3>1
      <4>. QED
        BY <3>5, <4>2, <4>3
    <3>6. Solves(g, n + 1)
      BY <3>3, <3>4, <3>5
    <3>. HIDE DEF g
    <3>. QED
      BY <2>2, <3>6
  <2>3. a .. b \subseteq S
    <3>. HIDE DEF S
    <3>. QED
      BY <2>1, <2>2, AllPositions
  <2>4. b \in S
    BY <1>2, <2>3
  <2>. QED
    BY <2>4
<1>. QED
  BY <1>1, <1>2

(* From the first position, as the recursions of DatabaseUtil do.          *)
LEMMA IteratesFromOne ==
  ASSUME NEW L \in Nat, L > 0, NEW V, NEW v \in V, NEW step \in [2 .. L -> [V -> V]]
  PROVE  \E f : IteratesTo(1, L, V, v, step, f)
<1>1. PICK a \in Nat : a = 1
  OBVIOUS
<1>2. a + 1 = 2 /\ a <= L
  BY <1>1
<1>3. step \in [a + 1 .. L -> [V -> V]]
  BY <1>2
<1>4. \E f : IteratesTo(a, L, V, v, step, f)
  BY <1>3, Iterates
<1>. QED
  BY <1>1, <1>2, <1>4 DEF IteratesTo

(* A finite set of times can be written in their order.                    *)
InOrder(S, s) ==
  /\ s \in [1 .. Cardinality(S) -> S]
  /\ \A k \in 2 .. Cardinality(S) : s[k - 1] < s[k]

(* Among finite sets of times, one has no subset among them.               *)
LEMMA SmallestTimes ==
  ASSUME NEW B, \A S \in B : IsFiniteSet(S) /\ S \subseteq Nat, B # {}
  PROVE  \E T \in B : \A R \in SUBSET T : R # T => R \notin B
<1>2. B \subseteq FiniteSubsetsOf(Nat)
  BY DEF FiniteSubsetsOf
<1>3. \E T \in B : \A R \in B : <<R, T>> \notin StrictSubsetOrdering(Nat)
  BY <1>2, FS_StrictSubsetOrderingWellFounded, WFMin, Zenon
<1>4. PICK T \in B : \A R \in B : <<R, T>> \notin StrictSubsetOrdering(Nat)
  BY <1>3
<1>5. ASSUME NEW R \in SUBSET T, R # T PROVE R \notin B
  <2>1. R \subseteq T /\ R # T /\ T \subseteq Nat
    BY <1>5
  <2>2. <<R, T>> \in StrictSubsetOrdering(Nat)
    BY <2>1 DEF StrictSubsetOrdering
  <2>. QED
    BY <1>4, <2>2
<1>. QED
  BY <1>5

(* The smallest set that cannot be ordered has a last time less.           *)
LEMMA OrderExists ==
  ASSUME NEW S \in SUBSET Nat, IsFiniteSet(S)
  PROVE  \E s : InOrder(S, s)
<1>. DEFINE B == {T \in SUBSET S : ~ \E s : InOrder(T, s)}
<1>. SUFFICES ASSUME B # {} PROVE FALSE
  OBVIOUS
<1>1. \A T \in B : IsFiniteSet(T) /\ T \subseteq Nat
  BY FS_Subset
<1>2. PICK T \in B : \A R \in SUBSET T : R # T => R \notin B
  BY <1>1, SmallestTimes
<1>3. CASE T = {}
  <2>1. Cardinality(T) = 0
    BY <1>3, FS_EmptySet
  <2>2. InOrder(T, [k \in {} |-> 0])
    BY <2>1, <1>3 DEF InOrder
  <2>. QED
    BY <2>2
<1>4. CASE T # {}
  <2>1. PICK m \in T : \A t \in T : m <= t
    BY <1>1, <1>4, LeastNat
  <2>. DEFINE R == T \ {m}
  <2>2. R \notin B /\ R \in SUBSET S
    BY <1>2
  <2>3. PICK r : InOrder(R, r)
    BY <2>2
  <2>4. /\ IsFiniteSet(T) /\ IsFiniteSet(R) /\ Cardinality(R) \in Nat
        /\ Cardinality(T) = Cardinality(R) + 1
    BY <1>1, FS_Subset, FS_RemoveElement, FS_CardinalityType
  <2>5. PICK n \in Nat : n = Cardinality(R)
    BY <2>4
  <2>. DEFINE s == [k \in 1 .. n + 1 |-> IF k = 1 THEN m ELSE r[k - 1]]
  <2>6. r \in [1 .. n -> R] /\ \A k \in 2 .. n : r[k - 1] < r[k]
    BY <2>3, <2>5 DEF InOrder
  <2>7. s \in [1 .. n + 1 -> T]
    BY <2>6
  <2>8. ASSUME NEW k \in 2 .. n + 1 PROVE s[k - 1] < s[k]
    <3>1. CASE k = 2
      <4>1. r[1] \in R /\ s[1] = m /\ s[2] = r[1]
        BY <2>6, <2>8, <3>1
      <4>2. m <= r[1] /\ m # r[1] /\ m \in Nat /\ r[1] \in Nat
        BY <1>1, <2>1, <4>1
      <4>. QED
        BY <3>1, <4>1, <4>2
    <3>2. CASE k > 2
      <4>1. s[k - 1] = r[(k - 1) - 1] /\ s[k] = r[k - 1] /\ k - 1 \in 2 .. n
        BY <2>8, <3>2
      <4>. QED
        BY <2>6, <4>1
    <3>. QED
      BY <2>8, <3>1, <3>2
  <2>9. InOrder(T, s)
    BY <2>4, <2>5, <2>7, <2>8 DEF InOrder
  <2>. QED
    BY <1>2, <2>9
<1>. QED
  BY <1>3, <1>4
-----------------------------------------------------------------------------
(* Numbers in an int16_t.                                                  *)

Int16s == -HalfRange .. HalfRange - 1

(* A remainder, as what is left of some turns.                             *)
LEMMA Turns ==
  ASSUME NEW x \in Int, NEW m \in Nat \ {0}
  PROVE  x % m \in 0 .. m - 1 /\ \E q \in Int : x = m * q + (x % m)
<1>1. x % m \in 0 .. m - 1
  BY SMT
<1>2. x \div m \in Int
  BY SMT
<1>3. m \in Int /\ m > 0
  OBVIOUS
<1>4. x = m * (x \div m) + (x % m)
  BY <1>3, Z3
<1>. QED
  BY <1>1, <1>2, <1>4

(* What an int16_t keeps differs from the number by whole turns.           *)
LEMMA Int16Is ==
  ASSUME NEW x \in Int
  PROVE  Int16(x) \in Int16s /\ \E q \in Int : x = (2 * HalfRange) * q + Int16(x)
<1>. DEFINE m == 2 * HalfRange
            r == (x + HalfRange) % m
<1>1. HalfRange \in Nat \ {0} /\ m \in Nat \ {0} /\ x + HalfRange \in Int
  BY HalfRangeAssumption
<1>2. r \in 0 .. m - 1 /\ \E q \in Int : x + HalfRange = m * q + r
  <2>. HIDE DEF m
  <2>. QED
    BY <1>1, Turns
<1>3. PICK q \in Int : x + HalfRange = m * q + r
  BY <1>2
<1>4. Int16(x) = r - HalfRange
  BY DEF Int16
<1>5. PICK p \in Int : p = m * q
  BY <1>1
<1>. HIDE DEF r
<1>6. Int16(x) \in Int16s /\ x = p + Int16(x)
  BY <1>1, <1>2, <1>3, <1>4, <1>5 DEF Int16s
<1>. QED
  BY <1>5, <1>6

(* Two of them that differ by whole turns are the same.                    *)
LEMMA SameInt16 ==
  ASSUME NEW a \in Int16s, NEW b \in Int16s, NEW q \in Int,
         a - b = (2 * HalfRange) * q
  PROVE  a = b
<1>1. HalfRange \in Nat \ {0} /\ a \in Int /\ b \in Int
      /\ a - b < 2 * HalfRange /\ b - a < 2 * HalfRange
  BY HalfRangeAssumption DEF Int16s
<1>. DEFINE m == 2 * HalfRange
<1>2. m \in Nat \ {0}
  BY <1>1
<1>3. CASE q >= 1
  <2>1. m <= m * q
    <3>. HIDE DEF m
    <3>. QED
      BY <1>2, <1>3, SMT
  <2>. QED
    BY <1>1, <2>1
<1>4. CASE q <= -1
  <2>1. m * q <= -m
    <3>. HIDE DEF m
    <3>. QED
      BY <1>2, <1>4, SMT
  <2>. QED
    BY <1>1, <2>1
<1>5. CASE q = 0
  BY <1>1, <1>5
<1>. QED
  BY <1>3, <1>4, <1>5

(* Turns add up.                                                           *)
LEMMA SumOfTurns ==
  ASSUME NEW m \in Int, NEW p \in Int, NEW q \in Int
  PROVE  m * p + m * q = m * (p + q) /\ m * p - m * q = m * (p - q)
BY SMT

(* A difference that is cut off still gives the number back.               *)
LEMMA DifferenceGivesBack ==
  ASSUME NEW a \in Int16s, NEW b \in Int16s
  PROVE  Int16(b + Int16(a - b)) = a
<1>. DEFINE m == 2 * HalfRange
            d == Int16(a - b)
            c == Int16(b + d)
<1>1. HalfRange \in Nat \ {0} /\ a \in Int /\ b \in Int /\ m \in Int
  BY HalfRangeAssumption DEF Int16s
<1>2. d \in Int16s /\ \E q \in Int : a - b = m * q + d
  <2>1. a - b \in Int
    BY <1>1
  <2>. QED
    BY <2>1, Int16Is
<1>3. d \in Int
  BY <1>1, <1>2 DEF Int16s
<1>4. c \in Int16s /\ \E q \in Int : b + d = m * q + c
  <2>. HIDE DEF d
  <2>1. b + d \in Int
    BY <1>1, <1>3
  <2>. QED
    BY <2>1, Int16Is
<1>5. PICK p \in Int : a - b = m * p + d
  BY <1>2
<1>6. PICK q \in Int : b + d = m * q + c
  BY <1>4
<1>. HIDE DEF m, d, c
<1>7. c \in Int
  BY <1>1, <1>4 DEF Int16s
<1>8. PICK x \in Int, y \in Int : x = m * p /\ y = m * q
  BY <1>1
<1>9. a - c = x + y
  BY <1>1, <1>3, <1>5, <1>6, <1>7, <1>8
<1>10. a - c = m * (p + q)
  BY <1>1, <1>8, <1>9, SumOfTurns
<1>11. a = c
  BY <1>4, <1>10, SameInt16 DEF m
<1>. QED
  BY <1>11 DEF c, d

(* A difference is only cut off to zero when there is none.                *)
LEMMA NoDifference ==
  ASSUME NEW a \in Int16s, NEW b \in Int16s, Int16(a - b) = 0
  PROVE  a = b
<1>1. HalfRange \in Nat \ {0} /\ a \in Int /\ b \in Int
  BY HalfRangeAssumption DEF Int16s
<1>2. PICK q \in Int : a - b = (2 * HalfRange) * q + 0
  <2>1. a - b \in Int
    BY <1>1
  <2>2. \E q \in Int : a - b = (2 * HalfRange) * q + Int16(a - b)
    BY <2>1, Int16Is
  <2>. QED
    BY <2>2
<1>3. (2 * HalfRange) * q \in Int
  BY <1>1
<1>4. a - b = (2 * HalfRange) * q
  BY <1>2, <1>3
<1>. QED
  BY <1>4, SameInt16

(* A difference that fits is not cut off.                                  *)
LEMMA DifferenceFits ==
  ASSUME NEW a \in Int16s, NEW b \in Int16s, NEW d \in Int16s,
         Int16(b + d) = a, a - b \in Int16s
  PROVE  d = a - b
<1>1. HalfRange \in Nat \ {0} /\ a \in Int /\ b \in Int /\ d \in Int
  BY HalfRangeAssumption DEF Int16s
<1>2. PICK q \in Int : b + d = (2 * HalfRange) * q + a
  <2>1. b + d \in Int
    BY <1>1
  <2>2. \E q \in Int : b + d = (2 * HalfRange) * q + Int16(b + d)
    BY <2>1, Int16Is
  <2>. QED
    BY <2>2
<1>3. (2 * HalfRange) * q \in Int
  BY <1>1
<1>4. d - (a - b) = (2 * HalfRange) * q
  BY <1>1, <1>2, <1>3
<1>. QED
  BY <1>4, SameInt16

-----------------------------------------------------------------------------
(* Datapoints, and the averages of them.                                   *)

(* Powers of n strings.                                                    *)
Powers(n) == [1 .. n -> Int16s]

IsDataset(data, n) ==
  /\ DOMAIN data \subseteq Nat /\ IsFiniteSet(DOMAIN data)
  /\ \A t \in DOMAIN data : data[t] \in Powers(n)

(* MapThenSumSet is a recursive function on the subsets of a set.          *)
Total(data, i, S) == MapThenSumSet(LAMBDA t : data[t][i], S)

Chosen(s) == CHOOSE x \in s : TRUE

SumUp(data, i, S, f) ==
  f = [s \in SUBSET S |->
         IF s = {} THEN 0 ELSE data[Chosen(s)][i] + f[s \ {Chosen(s)}]]

(* The time whose power the sum takes out next.                            *)
LEMMA ChosenIsIn == ASSUME NEW s, s # {} PROVE Chosen(s) \in s
BY DEF Chosen

(* The recursion has one solution, whatever set it starts from.            *)
LEMMA SumsAgree ==
  ASSUME NEW data, NEW i, NEW S \in SUBSET Nat, IsFiniteSet(S), NEW T \in SUBSET S,
         NEW f, SumUp(data, i, S, f), NEW g, SumUp(data, i, T, g)
  PROVE  \A s \in SUBSET T : f[s] = g[s]
<1>. DEFINE B == {s \in SUBSET T : f[s] # g[s]}
<1>. SUFFICES ASSUME B # {} PROVE FALSE
  OBVIOUS
<1>0. \A s \in B : IsFiniteSet(s) /\ s \subseteq Nat
  BY FS_Subset
<1>1. PICK s \in B : \A r \in SUBSET s : r # s => r \notin B
  BY <1>0, SmallestTimes
<1>2. s \in SUBSET T /\ s \in SUBSET S
  OBVIOUS
<1>3. /\ f[s] = IF s = {} THEN 0 ELSE data[Chosen(s)][i] + f[s \ {Chosen(s)}]
      /\ g[s] = IF s = {} THEN 0 ELSE data[Chosen(s)][i] + g[s \ {Chosen(s)}]
  BY <1>2 DEF SumUp
<1>4. s # {}
  BY <1>1, <1>3
<1>5. f[s \ {Chosen(s)}] = g[s \ {Chosen(s)}]
  BY <1>1, <1>4, ChosenIsIn
<1>. QED
  BY <1>1, <1>3, <1>4, <1>5

(* MapThenSumSet is what the recursion gives.                              *)
LEMMA TotalIsSum ==
  ASSUME NEW data, NEW i, NEW S, NEW f, SumUp(data, i, S, f)
  PROVE  \E g : SumUp(data, i, S, g) /\ Total(data, i, S) = g[S]
<1>1. Total(data, i, S) = (CHOOSE g : SumUp(data, i, S, g))[S]
  BY Zenon DEF Total, MapThenSumSet, MapThenFoldSet, SumUp, Chosen
<1>2. SumUp(data, i, S, CHOOSE g : SumUp(data, i, S, g))
  OBVIOUS
<1>. QED
  BY <1>1, <1>2

(* The recursion has a solution.                                           *)
LEMMA SumExists ==
  ASSUME NEW data, NEW i, NEW S \in SUBSET Nat, IsFiniteSet(S)
  PROVE  \E f : SumUp(data, i, S, f)
<1>. DEFINE B == {T \in SUBSET S : ~ \E f : SumUp(data, i, T, f)}
<1>. SUFFICES ASSUME B # {} PROVE FALSE
  OBVIOUS
<1>0. \A s \in SUBSET S : IsFiniteSet(s) /\ s \subseteq Nat
  BY FS_Subset
<1>1. PICK T \in B : \A R \in SUBSET T : R # T => R \notin B
  BY <1>0, SmallestTimes
<1>. DEFINE f == [s \in SUBSET T |->
                    IF s = {} THEN 0
                    ELSE data[Chosen(s)][i] + Total(data, i, s \ {Chosen(s)})]
<1>2. ASSUME NEW r \in SUBSET T, r # T PROVE f[r] = Total(data, i, r)
  <2>1. \A q \in SUBSET r : \E g : SumUp(data, i, q, g) /\ Total(data, i, q) = g[q]
    BY <1>1, <1>2, TotalIsSum
  <2>2. PICK g : SumUp(data, i, r, g) /\ Total(data, i, r) = g[r]
    BY <2>1
  <2>3. g[r] = IF r = {} THEN 0 ELSE data[Chosen(r)][i] + g[r \ {Chosen(r)}]
    BY <2>2 DEF SumUp
  <2>4. CASE r = {}
    BY <2>2, <2>3, <2>4
  <2>5. CASE r # {}
    <3>. DEFINE q == r \ {Chosen(r)}
    <3>1. PICK h : SumUp(data, i, q, h) /\ Total(data, i, q) = h[q]
      BY <2>1
    <3>2. g[q] = h[q]
      BY <1>0, <2>2, <3>1, SumsAgree
    <3>. QED
      BY <1>2, <2>2, <2>3, <2>5, <3>1, <3>2
  <2>. QED
    BY <2>4, <2>5
<1>3. SumUp(data, i, T, f)
  <2>1. ASSUME NEW s \in SUBSET T, s # {}
        PROVE  f[s \ {Chosen(s)}] = Total(data, i, s \ {Chosen(s)})
    BY <1>2, <2>1, ChosenIsIn
  <2>2. f = [s \in SUBSET T |->
              IF s = {} THEN 0 ELSE data[Chosen(s)][i] + f[s \ {Chosen(s)}]]
    BY <2>1
  <2>. QED
    BY <2>2 DEF SumUp
<1>. QED
  BY <1>1, <1>3

(* The sum of the powers of a string is a number.                          *)
LEMMA TotalIsInt ==
  ASSUME NEW n \in Nat, NEW data, IsDataset(data, n), NEW i \in 1 .. n,
         NEW S \in SUBSET DOMAIN data
  PROVE  Total(data, i, S) \in Int
<1>1. S \in SUBSET Nat /\ IsFiniteSet(S) /\ \A t \in S : data[t][i] \in Int
  BY HalfRangeAssumption, FS_Subset DEF IsDataset, Powers, Int16s
<1>2. PICK f : SumUp(data, i, S, f) /\ Total(data, i, S) = f[S]
  BY <1>1, SumExists, TotalIsSum
<1>. DEFINE B == {s \in SUBSET S : f[s] \notin Int}
<1>. SUFFICES ASSUME B # {} PROVE FALSE
  BY <1>2
<1>3. \A s \in B : IsFiniteSet(s) /\ s \subseteq Nat
  BY <1>1, FS_Subset
<1>4. PICK s \in B : \A r \in SUBSET s : r # s => r \notin B
  BY <1>3, SmallestTimes
<1>5. s \in SUBSET S
  OBVIOUS
<1>6. f[s] = IF s = {} THEN 0 ELSE data[Chosen(s)][i] + f[s \ {Chosen(s)}]
  BY <1>2, <1>5 DEF SumUp
<1>7. ASSUME s # {} PROVE data[Chosen(s)][i] \in Int /\ f[s \ {Chosen(s)}] \in Int
  BY <1>1, <1>4, <1>5, <1>7, ChosenIsIn
<1>. QED
  BY <1>6, <1>7

(* round() gives an integer.                                               *)
LEMMA RoundedIsInt ==
  ASSUME NEW a \in Int, NEW n \in Nat \ {0}
  PROVE  Rounded(a, n) \in Int
<1>1. (2 * a + n) \div (2 * n) \in Int /\ (n - 2 * a) \div (2 * n) \in Int
  BY SMT
<1>. QED
  BY <1>1 DEF Rounded

(* An average is a datapoint with as many powers.                          *)
LEMMA AverageOfPowers ==
  ASSUME NEW n \in Nat, NEW data, IsDataset(data, n),
         NEW S \in SUBSET DOMAIN data, S # {}
  PROVE  Average(data, S) \in Powers(n)
<1>1. S \in SUBSET Nat /\ IsFiniteSet(S)
  BY FS_Subset DEF IsDataset
<1>2. Min(S) \in S
  BY <1>1, LeastNat DEF Min
<1>3. DOMAIN data[Min(S)] = 1 .. n
  BY <1>2 DEF IsDataset, Powers
<1>4. Cardinality(S) \in Nat \ {0}
  BY <1>1, FS_EmptySet, FS_CardinalityType
<1>5. ASSUME NEW i \in 1 .. n
      PROVE  Int16(Rounded(Total(data, i, S), Cardinality(S))) \in Int16s
  BY <1>4, TotalIsInt, RoundedIsInt, Int16Is
<1>6. Average(data, S) = [i \in 1 .. n |-> Int16(Rounded(Total(data, i, S), Cardinality(S)))]
  BY <1>3, Zenon DEF Average, Total
<1>. QED
  BY <1>5, <1>6 DEF Powers

(* A slot has a number.                                                    *)
LEMMA QuotientIsNat ==
  ASSUME NEW a \in Nat, NEW n \in Nat \ {0}
  PROVE  a \div n \in Nat
BY SMT

(* What downsample makes of a dataset.                                     *)
LEMMA DownsampledIsDataset ==
  ASSUME NEW n \in Nat, NEW data, IsDataset(data, n), NEW w \in Nat \ {0}
  PROVE  /\ IsDataset(downsample(data, w), n)
         /\ DOMAIN downsample(data, w) = {t \div w : t \in DOMAIN data}
<1>. DEFINE D == {t \div w : t \in DOMAIN data}
            S(b) == {t \in DOMAIN data : t \div w = b}
<1>1. downsample(data, w) = [b \in D |-> Average(data, S(b))]
  BY DEF downsample
<1>2. D \subseteq Nat
  BY QuotientIsNat DEF IsDataset
<1>3. IsFiniteSet(D)
  <2>1. IsFiniteSet(DOMAIN data)
    BY DEF IsDataset
  <2>. DEFINE f == [t \in DOMAIN data |-> t \div w]
  <2>2. f \in Surjection(DOMAIN data, D)
    BY DEF Surjection
  <2>. QED
    BY <2>1, <2>2, FS_Surjection
<1>4. \A b \in D : Average(data, S(b)) \in Powers(n)
  <2>. SUFFICES ASSUME NEW b \in D PROVE Average(data, S(b)) \in Powers(n)
    OBVIOUS
  <2>1. S(b) # {} /\ S(b) \in SUBSET DOMAIN data
    OBVIOUS
  <2>. HIDE DEF S
  <2>. QED
    BY <2>1, AverageOfPowers
<1>. HIDE DEF D, S
<1>5. DOMAIN downsample(data, w) = D
  BY <1>1
<1>6. \A b \in D : downsample(data, w)[b] \in Powers(n)
  BY <1>1, <1>4
<1>7. IsDataset(downsample(data, w), n)
  BY <1>2, <1>3, <1>5, <1>6 DEF IsDataset
<1>. QED
  BY <1>5, <1>7 DEF D
-----------------------------------------------------------------------------
(* The differences.                                                        *)

Ent(n) == [time : Int, value : Powers(n)]

(* The entries of a dataset, as a function of their number.                *)
LEMMA EntriesOf ==
  ASSUME NEW n \in Nat, NEW data, IsDataset(data, n)
  PROVE  \E L \in Nat :
           /\ L = 0 => DOMAIN data = {}
           /\ Entries(data) \in [1 .. L -> Ent(n)] /\ Len(Entries(data)) = L
           /\ \A j, k \in 1 .. L : j < k => Entries(data)[j].time < Entries(data)[k].time
           /\ \A k \in 1 .. L : /\ Entries(data)[k].time \in DOMAIN data
                                /\ Entries(data)[k].value = data[Entries(data)[k].time]
           /\ \A t \in DOMAIN data : \E k \in 1 .. L : Entries(data)[k].time = t
<1>. DEFINE D == DOMAIN data
            L == Cardinality(D)
            s == CHOOSE s \in [1 .. L -> D] : \A k \in 2 .. L : s[k - 1] < s[k]
<1>1. D \in SUBSET Nat /\ IsFiniteSet(D) /\ L \in Nat /\ (L = 0 => D = {})
  BY FS_CardinalityType, FS_EmptySet DEF IsDataset
<1>2. s \in [1 .. L -> D] /\ \A k \in 2 .. L : s[k - 1] < s[k]
  <2>1. \E r : InOrder(D, r)
    BY <1>1, OrderExists
  <2>2. \E r \in [1 .. L -> D] : \A k \in 2 .. L : r[k - 1] < r[k]
    BY <2>1 DEF InOrder
  <2>. QED
    BY <2>2
<1>3. Entries(data) = [k \in 1 .. L |-> [time |-> s[k], value |-> data[s[k]]]]
  BY DEF Entries
<1>4. PICK l \in Nat : l = L
  BY <1>1
<1>. HIDE DEF s
<1>5. ASSUME NEW j \in 1 .. l, NEW k \in 1 .. l, j < k PROVE s[j] < s[k]
  <2>. DEFINE S == {i \in j + 1 .. l : s[j] < s[i]}
  <2>1. j + 1 \in Nat /\ l \in Nat /\ j + 1 \in S
    BY <1>2, <1>4, <1>5
  <2>2. ASSUME NEW i \in j + 1 .. l - 1, i \in S PROVE i + 1 \in S
    <3>1. i + 1 \in 2 .. l /\ i \in 1 .. l /\ (i + 1) - 1 = i
      BY <2>2, <1>5
    <3>2. s[i] < s[i + 1] /\ s[j] < s[i]
      BY <1>2, <1>4, <2>2, <3>1
    <3>3. \A k1 \in 1 .. l : s[k1] \in Nat
      BY <1>1, <1>2, <1>4
    <3>4. s[i] \in Nat /\ s[i + 1] \in Nat /\ s[j] \in Nat /\ i + 1 \in j + 1 .. l
      BY <1>5, <3>1, <3>3
    <3>. QED
      BY <3>2, <3>4
  <2>3. j + 1 .. l \subseteq S
    <3>. HIDE DEF S
    <3>. QED
      BY <2>1, <2>2, AllPositions
  <2>4. k \in j + 1 .. l
    BY <1>5
  <2>. QED
    BY <2>3, <2>4
<1>6. s \in Bijection(1 .. l, D)
  <2>1. \A j, k \in 1 .. l : s[j] = s[k] => j = k
    <3>. SUFFICES ASSUME NEW j \in 1 .. l, NEW k \in 1 .. l, s[j] = s[k], j # k PROVE FALSE
      OBVIOUS
    <3>1. s[j] \in Nat
      BY <1>1, <1>2, <1>4
    <3>2. j < k \/ k < j
      OBVIOUS
    <3>. QED
      BY <1>5, <3>1, <3>2
  <2>2. s \in Injection(1 .. l, D)
    BY <1>2, <1>4, <2>1 DEF Injection, IsInjective
  <2>3. Cardinality(1 .. l) = l
    BY FS_Interval
  <2>. QED
    BY <1>1, <1>4, <2>2, <2>3, FS_Injection DEF Bijection
<1>7. \A t \in D : \E k \in 1 .. l : s[k] = t
  BY <1>6 DEF Bijection, Surjection
<1>8. Entries(data) \in [1 .. l -> Ent(n)]
  BY <1>1, <1>2, <1>3, <1>4 DEF Ent, IsDataset
<1>9. Len(Entries(data)) = l
  BY <1>3, <1>4
<1>10. l = 0 => D = {}
  BY <1>1, <1>4
<1>11. \A k \in 1 .. l : /\ Entries(data)[k].time = s[k] /\ s[k] \in D
                        /\ Entries(data)[k].value = data[s[k]]
  BY <1>2, <1>3, <1>4
<1>. HIDE DEF D, L
<1>12. \A j, k \in 1 .. l : j < k => Entries(data)[j].time < Entries(data)[k].time
  BY <1>5, <1>11
<1>13. \A t \in D : \E k \in 1 .. l : Entries(data)[k].time = t
  BY <1>7, <1>11
<1>14. \A k \in 1 .. l : /\ Entries(data)[k].time \in D
                        /\ Entries(data)[k].value = data[Entries(data)[k].time]
  BY <1>11
<1>. QED
  BY <1>8, <1>9, <1>10, <1>12, <1>13, <1>14 DEF D

(* A difference has a power for each string.                               *)
LEMMA DifferenceOf ==
  ASSUME NEW n \in Nat, NEW x \in Ent(n), NEW y \in Ent(n)
  PROVE  /\ Difference(x, y) \in Ent(n)
         /\ Difference(x, y).time = x.time - y.time
         /\ DOMAIN Difference(x, y).value = 1 .. n
         /\ \A i \in 1 .. n :
              Difference(x, y).value[i] = Int16(x.value[i] - y.value[i])
<1>1. x.time \in Int /\ y.time \in Int /\ x.value \in Powers(n) /\ y.value \in Powers(n)
  BY DEF Ent
<1>2. DOMAIN x.value = 1 .. n
      /\ \A i \in 1 .. n : x.value[i] \in Int /\ y.value[i] \in Int
  BY <1>1, HalfRangeAssumption DEF Powers, Int16s
<1>3. \A i \in 1 .. n : Int16(x.value[i] - y.value[i]) \in Int16s
  <2>. TAKE i \in 1 .. n
  <2>1. x.value[i] - y.value[i] \in Int
    BY <1>2
  <2>. QED
    BY <2>1, Int16Is
<1>. QED
  BY <1>1, <1>2, <1>3 DEF Difference, Ent, Powers

(* An entry, from the one before it.                                       *)
Plus(before, delta) ==
  [time  |-> before.time + delta.time,
   value |-> [i \in DOMAIN delta.value |-> Int16(before.value[i] + delta.value[i])]]

(* A difference gives the entry back, although it is cut off.              *)
LEMMA PlusOf ==
  ASSUME NEW n \in Nat, NEW x \in Ent(n), NEW y \in Ent(n)
  PROVE  Plus(x, y) \in Ent(n) /\ Plus(y, Difference(x, y)) = x
<1>1. x.time \in Int /\ y.time \in Int /\ x.value \in Powers(n) /\ y.value \in Powers(n)
  BY DEF Ent
<1>2. DOMAIN x.value = 1 .. n /\ DOMAIN y.value = 1 .. n
      /\ \A i \in 1 .. n : x.value[i] \in Int16s /\ y.value[i] \in Int16s
  BY <1>1 DEF Powers
<1>3. Plus(x, y) \in Ent(n)
  <2>1. \A i \in 1 .. n : Int16(x.value[i] + y.value[i]) \in Int16s
    <3>. TAKE i \in 1 .. n
    <3>1. x.value[i] + y.value[i] \in Int
      BY <1>2, HalfRangeAssumption DEF Int16s
    <3>. QED
      BY <3>1, Int16Is
  <2>. QED
    BY <1>1, <1>2, <2>1 DEF Plus, Ent, Powers
<1>. DEFINE d == Difference(x, y)
<1>4. /\ d.time = x.time - y.time /\ DOMAIN d.value = 1 .. n
      /\ \A i \in 1 .. n : d.value[i] = Int16(x.value[i] - y.value[i])
  BY DifferenceOf
<1>. HIDE DEF d
<1>5. y.time + d.time = x.time
  BY <1>1, <1>4
<1>6. \A i \in 1 .. n : Int16(y.value[i] + d.value[i]) = x.value[i]
  BY <1>2, <1>4, DifferenceGivesBack
<1>7. [i \in DOMAIN d.value |-> Int16(y.value[i] + d.value[i])] = x.value
  BY <1>1, <1>4, <1>6 DEF Powers
<1>8. Plus(y, d) = [time |-> x.time, value |-> x.value]
  BY <1>5, <1>7 DEF Plus
<1>9. x = [time |-> x.time, value |-> x.value]
  BY DEF Ent
<1>. QED
  BY <1>3, <1>8, <1>9 DEF d

(* The recursion of deltaCompress.                                         *)
Next1(e, v) ==
  LET delta == Difference(e, v.last)
  IN  IF IsZero(delta.value) THEN v
      ELSE [out |-> Append(v.out, delta), last |-> e]

CompressedBy(E, f) ==
  f = [k \in 0 .. Len(E) |->
         IF k = 0 THEN [out |-> NoData, last |-> NoData]
         ELSE IF k = 1 THEN [out |-> <<E[1]>>, last |-> E[1]]
         ELSE Next1(E[k], f[k - 1])]

(* deltaCompress is a solution of it.                                      *)
LEMMA CompressIs ==
  ASSUME NEW data
  PROVE  deltaCompress(data)
           = (CHOOSE f : CompressedBy(Entries(data), f))[Len(Entries(data))].out
BY Zenon DEF deltaCompress, CompressedBy, Next1

(* The recursion of deltaDecompress.                                       *)
DecodesTo(X, e) ==
  e = [k \in 1 .. Len(X) |-> IF k = 1 THEN X[1] ELSE Plus(e[k - 1], X[k])]

(* One entry of what decodes.                                              *)
LEMMA DecodedAt ==
  ASSUME NEW X, NEW e, DecodesTo(X, e), NEW k \in 1 .. Len(X)
  PROVE  e[k] = IF k = 1 THEN X[1] ELSE Plus(e[k - 1], X[k])
<1>. DEFINE f == [i \in 1 .. Len(X) |-> IF i = 1 THEN X[1] ELSE Plus(e[i - 1], X[i])]
<1>1. e = f
  BY DEF DecodesTo
<1>2. f[k] = IF k = 1 THEN X[1] ELSE Plus(e[k - 1], X[k])
  OBVIOUS
<1>. HIDE DEF f
<1>. QED
  BY <1>1, <1>2

(* deltaDecompress is made of a solution of it.                            *)
LEMMA DecompressIs ==
  ASSUME NEW X
  PROVE  LET e == CHOOSE e : DecodesTo(X, e)
         IN  deltaDecompress(X)
               = [t \in {e[k].time : k \in DOMAIN X} |->
                    e[CHOOSE k \in DOMAIN X : e[k].time = t].value]
BY Zenon DEF deltaDecompress, DecodesTo, Plus

(* The recursion of deltaCompress has a solution.                          *)
LEMMA CompressionExists ==
  ASSUME NEW n \in Nat, NEW L \in Nat, NEW E \in [1 .. L -> Ent(n)], Len(E) = L
  PROVE  \E f : CompressedBy(E, f)
<1>. DEFINE V == [out : Seq(Ent(n)), last : Ent(n)]
            step == [k \in 2 .. L |-> [v \in V |-> Next1(E[k], v)]]
<1>1. CASE L = 0
  <2>. DEFINE f == [k \in 0 .. 0 |-> [out |-> NoData, last |-> NoData]]
  <2>1. CompressedBy(E, f)
    BY <1>1 DEF CompressedBy
  <2>. QED
    BY <2>1
<1>2. CASE L > 0
  <2>1. ASSUME NEW k \in 2 .. L, NEW v \in V PROVE Next1(E[k], v) \in V
    <3>1. E[k] \in Ent(n) /\ v.out \in Seq(Ent(n)) /\ v.last \in Ent(n)
      BY <2>1
    <3>2. Difference(E[k], v.last) \in Ent(n)
      BY <3>1, DifferenceOf
    <3>3. Append(v.out, Difference(E[k], v.last)) \in Seq(Ent(n))
      BY <3>1, <3>2, AppendProperties
    <3>. QED
      BY <3>1, <3>3 DEF Next1
  <2>2. step \in [2 .. L -> [V -> V]]
    BY <2>1
  <2>3. E[1] \in Ent(n) /\ [out |-> <<E[1]>>, last |-> E[1]] \in V
    BY <1>2
  <2>4. \E f \in [1 .. L -> V] :
          /\ f[1] = [out |-> <<E[1]>>, last |-> E[1]]
          /\ \A k \in 2 .. L : f[k] = step[k][f[k - 1]]
    <3>. DEFINE w == [out |-> <<E[1]>>, last |-> E[1]]
    <3>1. w \in V /\ step \in [2 .. L -> [V -> V]]
      BY <2>2, <2>3
    <3>. HIDE DEF step, V, w
    <3>2. PICK f : IteratesTo(1, L, V, w, step, f)
      BY <1>2, <3>1, IteratesFromOne
    <3>3. 1 + 1 = 2 /\ 1 <= L
      BY <1>2
    <3>. QED
      BY <3>2, <3>3 DEF IteratesTo, w
  <2>9. PICK f \in [1 .. L -> V] :
          /\ f[1] = [out |-> <<E[1]>>, last |-> E[1]]
          /\ \A k \in 2 .. L : f[k] = step[k][f[k - 1]]
    BY <2>4
  <2>5. \A k \in 2 .. L : f[k] = Next1(E[k], f[k - 1])
    <3>. TAKE k \in 2 .. L
    <3>1. k \in 2 .. L /\ k - 1 \in 1 .. L
      OBVIOUS
    <3>2. f[k - 1] \in V
      BY <3>1
    <3>3. f[k] = step[k][f[k - 1]]
      BY <2>9, <3>1
    <3>4. \A v \in V : step[k][v] = Next1(E[k], v)
      OBVIOUS
    <3>. QED
      BY <3>2, <3>3, <3>4
  <2>. DEFINE g == [k \in 0 .. L |-> IF k = 0 THEN [out |-> NoData, last |-> NoData] ELSE f[k]]
  <2>6. g = [k \in 0 .. L |->
               IF k = 0 THEN [out |-> NoData, last |-> NoData]
               ELSE IF k = 1 THEN [out |-> <<E[1]>>, last |-> E[1]]
               ELSE Next1(E[k], g[k - 1])]
    <3>1. \A k \in 2 .. L : g[k - 1] = f[k - 1]
      OBVIOUS
    <3>. HIDE DEF V, step
    <3>. QED
      BY <2>9, <2>5, <3>1
  <2>. HIDE DEF g
  <2>7. CompressedBy(E, g)
    BY <2>6 DEF CompressedBy
  <2>. QED
    BY <2>7
<1>. QED
  BY <1>1, <1>2

(* What the last entry written is worth, and what the entries written so   *)
(* far decode to, after k entries of E.                                    *)
Decodes(n, E, k, v, e) ==
  /\ v.out \in Seq(Ent(n)) /\ v.last \in Ent(n)
  /\ e \in [1 .. Len(v.out) -> Ent(n)]
  /\ DecodesTo(v.out, e)

LastHeld(E, k, v, e) ==
  /\ Len(v.out) > 0
  /\ e[Len(v.out)] = v.last
  /\ v.last.time <= E[k].time /\ v.last.value = E[k].value

Ordered(e, l) == \A i, j \in 1 .. l : i < j => e[i].time < e[j].time

(* Position m of the entries written is what holds at a time.              *)
HoldsAt(e, l, m, t) ==
  /\ m \in 1 .. l
  /\ e[m].time <= t
  /\ \A j \in 1 .. l : m < j => t < e[j].time

SaysAll(E, k, e, l) ==
  /\ \A m \in 1 .. l : \E j \in 1 .. k : e[m].time = E[j].time
  /\ \A j \in 1 .. k : \E m \in 1 .. l : HoldsAt(e, l, m, E[j].time) /\ e[m].value = E[j].value

Kept(n, E, k, v, e) ==
  /\ Decodes(n, E, k, v, e)
  /\ LastHeld(E, k, v, e)
  /\ Ordered(e, Len(v.out))
  /\ SaysAll(E, k, e, Len(v.out))

(* The first entry is written as it is.                                    *)
LEMMA FirstIsKept ==
  ASSUME NEW n \in Nat, NEW L \in Nat \ {0}, NEW E \in [1 .. L -> Ent(n)]
  PROVE  Kept(n, E, 1, [out |-> <<E[1]>>, last |-> E[1]], <<E[1]>>)
<1>. DEFINE v == [out |-> <<E[1]>>, last |-> E[1]]
            x == E[1]
<1>1. x \in Ent(n) /\ x.time \in Int
  BY DEF Ent
<1>2. v.out = <<x>> /\ v.last = x
  OBVIOUS
<1>. HIDE DEF v, x
<1>3. v.out \in Seq(Ent(n)) /\ Len(v.out) = 1 /\ v.out[1] = x /\ v.out = [k \in 1 .. 1 |-> x]
  BY <1>1, <1>2
<1>4. Decodes(n, E, 1, v, v.out)
  <2>1. DecodesTo(v.out, v.out)
    BY <1>3 DEF DecodesTo
  <2>. QED
    BY <1>1, <1>2, <1>3, <2>1 DEF Decodes
<1>5. LastHeld(E, 1, v, v.out)
  BY <1>1, <1>2, <1>3 DEF LastHeld, x
<1>6. Ordered(v.out, 1)
  BY DEF Ordered
<1>7. SaysAll(E, 1, v.out, 1)
  <2>1. HoldsAt(v.out, 1, 1, x.time)
    BY <1>1, <1>3 DEF HoldsAt
  <2>2. 1 .. 1 = {1}
    OBVIOUS
  <2>. QED
    BY <1>3, <2>1, <2>2 DEF SaysAll, x
<1>8. Kept(n, E, 1, v, v.out)
  BY <1>3, <1>4, <1>5, <1>6, <1>7 DEF Kept
<1>. QED
  BY <1>2, <1>8 DEF v, x

(* Powers that are the same for each string are the same.                  *)
LEMMA SamePowers ==
  ASSUME NEW n \in Nat, NEW x \in Powers(n), NEW y \in Powers(n),
         \A i \in 1 .. n : x[i] = y[i]
  PROVE  y = x
BY DEF Powers

(* An entry that repeats the last one is skipped.                          *)
LEMMA SkippedIsKept ==
  ASSUME NEW n \in Nat, NEW L \in Nat, NEW E \in [1 .. L -> Ent(n)], Ordered(E, L),
         NEW k \in 1 .. L - 1, NEW v, NEW e, Kept(n, E, k, v, e),
         IsZero(Difference(E[k + 1], v.last).value)
  PROVE  Kept(n, E, k + 1, v, e)
<1>1. /\ k + 1 \in 1 .. L /\ k \in 1 .. L /\ k < k + 1
      /\ E[k + 1] \in Ent(n) /\ E[k] \in Ent(n) /\ v.last \in Ent(n)
  BY DEF Kept, Decodes
<1>2. E[k + 1].value \in Powers(n) /\ v.last.value \in Powers(n)
      /\ E[k + 1].time \in Int /\ E[k].time \in Int /\ v.last.time \in Int
  BY <1>1 DEF Ent
<1>3. \A i \in 1 .. n : E[k + 1].value[i] = v.last.value[i]
  <2>. TAKE i \in 1 .. n
  <2>1. E[k + 1].value[i] \in Int16s /\ v.last.value[i] \in Int16s
    BY <1>2 DEF Powers
  <2>2. Int16(E[k + 1].value[i] - v.last.value[i]) = 0
    <3>1. DOMAIN Difference(E[k + 1], v.last).value = 1 .. n
          /\ Difference(E[k + 1], v.last).value[i] = Int16(E[k + 1].value[i] - v.last.value[i])
      BY <1>1, DifferenceOf
    <3>. QED
      BY <3>1 DEF IsZero
  <2>. QED
    BY <2>1, <2>2, NoDifference
<1>4. v.last.value = E[k + 1].value
  BY <1>2, <1>3, SamePowers
<1>5. E[k].time < E[k + 1].time
  BY <1>1 DEF Ordered
<1>6. v.last.time <= E[k + 1].time
  BY <1>2, <1>5 DEF Kept, LastHeld
<1>7. LastHeld(E, k + 1, v, e)
  BY <1>4, <1>6 DEF Kept, LastHeld
<1>8. SaysAll(E, k + 1, e, Len(v.out))
  <2>1. Len(v.out) \in Nat \ {0} /\ e[Len(v.out)] = v.last
    BY DEF Kept, Decodes, LastHeld
  <2>2. HoldsAt(e, Len(v.out), Len(v.out), E[k + 1].time)
    BY <1>6, <2>1 DEF HoldsAt
  <2>3. 1 .. k + 1 = (1 .. k) \cup {k + 1}
    OBVIOUS
  <2>4. Len(v.out) \in 1 .. Len(v.out)
    BY <2>1
  <2>5. e[Len(v.out)].value = E[k + 1].value
    BY <1>4, <2>1
  <2>6. SaysAll(E, k, e, Len(v.out))
    BY DEF Kept
  <2>. QED
    BY <2>2, <2>3, <2>4, <2>5, <2>6 DEF SaysAll
<1>. QED
  BY <1>7, <1>8 DEF Kept, Decodes

(* Any other is written as a difference.                                   *)
LEMMA WrittenIsKept ==
  ASSUME NEW n \in Nat, NEW L \in Nat, NEW E \in [1 .. L -> Ent(n)], Ordered(E, L),
         NEW k \in 1 .. L - 1, NEW v, NEW e, Kept(n, E, k, v, e)
  PROVE  \E f : Kept(n, E, k + 1,
                     [out  |-> Append(v.out, Difference(E[k + 1], v.last)),
                      last |-> E[k + 1]], f)
<1>. DEFINE d == Difference(E[k + 1], v.last)
            x == E[k + 1]
            l == Len(v.out)
            w == [out |-> Append(v.out, d), last |-> x]
            f == [m \in 1 .. l + 1 |-> IF m <= l THEN e[m] ELSE x]
<1>1. /\ k + 1 \in 1 .. L /\ k \in 1 .. L /\ k < k + 1
      /\ x \in Ent(n) /\ E[k] \in Ent(n) /\ v.last \in Ent(n)
      /\ v.out \in Seq(Ent(n)) /\ l \in Nat \ {0} /\ e \in [1 .. l -> Ent(n)]
  BY DEF Kept, Decodes, LastHeld
<1>2. d \in Ent(n) /\ Plus(v.last, d) = x
  BY <1>1, DifferenceOf, PlusOf
<1>3. w.out = Append(v.out, d) /\ w.last = x
  OBVIOUS
<1>. HIDE DEF d, w
<1>4. /\ w.out \in Seq(Ent(n)) /\ Len(w.out) = l + 1 /\ w.out[l + 1] = d
      /\ \A m \in 1 .. l : w.out[m] = v.out[m]
  BY <1>1, <1>2, <1>3, AppendProperties
<1>5. f \in [1 .. l + 1 -> Ent(n)] /\ f[l + 1] = x /\ \A m \in 1 .. l : f[m] = e[m]
  BY <1>1
<1>. HIDE DEF f
<1>. HIDE DEF l
<1>6. Decodes(n, E, k + 1, w, f)
  <2>1. DecodesTo(v.out, e)
    BY DEF Kept, Decodes
  <2>2. ASSUME NEW m \in 1 .. l + 1
        PROVE  f[m] = IF m = 1 THEN w.out[1] ELSE Plus(f[m - 1], w.out[m])
    <3>1. CASE m \in 1 .. l
      <4>1. e[m] = IF m = 1 THEN v.out[1] ELSE Plus(e[m - 1], v.out[m])
        <5>1. m \in 1 .. Len(v.out)
          BY <3>1 DEF l
        <5>. QED
          BY <2>1, <5>1, DecodedAt, Zenon
      <4>2. m # 1 => m - 1 \in 1 .. l
        BY <1>1, <3>1
      <4>. QED
        BY <1>4, <1>5, <3>1, <4>1, <4>2
    <3>2. CASE m = l + 1
      <4>1. m # 1 /\ m - 1 = l /\ l \in 1 .. l
        BY <1>1, <3>2
      <4>2. e[l] = v.last
        BY DEF Kept, LastHeld, l
      <4>. QED
        BY <1>2, <1>4, <1>5, <3>2, <4>1, <4>2
    <3>. QED
      BY <1>1, <3>1, <3>2
  <2>3. DecodesTo(w.out, f)
    BY <1>4, <1>5, <2>2 DEF DecodesTo
  <2>. QED
    BY <1>1, <1>3, <1>4, <1>5, <2>3 DEF Decodes
<1>7. LastHeld(E, k + 1, w, f)
  <2>1. x.time \in Int
    BY <1>1 DEF Ent
  <2>. QED
    BY <1>1, <1>3, <1>4, <1>5, <2>1 DEF LastHeld
<1>8. \A m \in 1 .. l : e[m].time \in Int /\ e[m].time < x.time
  <2>. TAKE m \in 1 .. l
  <2>1. e[m] \in Ent(n) /\ e[l] = v.last /\ l \in 1 .. l
    BY <1>1 DEF Kept, LastHeld, l
  <2>2. e[m].time \in Int /\ v.last.time \in Int /\ E[k].time \in Int /\ x.time \in Int
    BY <1>1, <2>1 DEF Ent
  <2>3. m = l \/ e[m].time < e[l].time
    BY <1>1, <2>1 DEF Kept, Ordered, l
  <2>4. v.last.time <= E[k].time
    BY DEF Kept, LastHeld
  <2>5. E[k].time < x.time
    BY <1>1 DEF Ordered
  <2>. HIDE DEF x
  <2>. QED
    BY <2>1, <2>2, <2>3, <2>4, <2>5
<1>9. Ordered(f, l + 1)
  <2>1. Ordered(e, l)
    BY DEF Kept, l
  <2>. SUFFICES ASSUME NEW i \in 1 .. l + 1, NEW j \in 1 .. l + 1, i < j
                PROVE  f[i].time < f[j].time
    BY DEF Ordered
  <2>2. i \in 1 .. l /\ (j \in 1 .. l \/ j = l + 1)
    BY <1>1
  <2>. QED
    BY <1>5, <1>8, <2>1, <2>2 DEF Ordered
<1>10. SaysAll(E, k + 1, f, l + 1)
  <2>1. SaysAll(E, k, e, l)
    BY DEF Kept, l
  <2>2. ASSUME NEW m \in 1 .. l + 1
        PROVE  \E j \in 1 .. k + 1 : f[m].time = E[j].time
    <3>1. CASE m \in 1 .. l
      <4>1. PICK j \in 1 .. k : e[m].time = E[j].time
        BY <2>1, <3>1 DEF SaysAll
      <4>. QED
        BY <1>5, <3>1, <4>1
    <3>2. CASE m = l + 1
      BY <1>1, <1>5, <3>2
    <3>. QED
      BY <1>1, <3>1, <3>2
  <2>3. ASSUME NEW j \in 1 .. k + 1
        PROVE  \E m \in 1 .. l + 1 : HoldsAt(f, l + 1, m, E[j].time) /\ f[m].value = E[j].value
    <3>1. CASE j \in 1 .. k
      <4>1. PICK m \in 1 .. l : HoldsAt(e, l, m, E[j].time) /\ e[m].value = E[j].value
        BY <2>1, <3>1 DEF SaysAll
      <4>2. E[j].time < x.time
        <5>1. j \in 1 .. L /\ j < k + 1
          BY <3>1
        <5>. QED
          BY <1>1, <5>1 DEF Ordered
      <4>3. ASSUME NEW i \in 1 .. l + 1, m < i PROVE E[j].time < f[i].time
        <5>1. CASE i \in 1 .. l
          BY <1>5, <4>1, <4>3, <5>1 DEF HoldsAt
        <5>2. CASE i = l + 1
          BY <1>5, <4>2, <5>2
        <5>. QED
          BY <1>1, <5>1, <5>2
      <4>4. m \in 1 .. l + 1 /\ f[m] = e[m]
        BY <1>1, <1>5
      <4>. QED
        BY <4>1, <4>3, <4>4 DEF HoldsAt
    <3>2. CASE j = k + 1
      <4>1. l + 1 \in 1 .. l + 1 /\ x.time \in Int
        BY <1>1 DEF Ent
      <4>2. HoldsAt(f, l + 1, l + 1, x.time)
        BY <1>1, <1>5, <4>1 DEF HoldsAt
      <4>. QED
        BY <1>5, <3>2, <4>1, <4>2
    <3>. QED
      BY <3>1, <3>2
  <2>. QED
    BY <2>2, <2>3 DEF SaysAll
<1>11. Kept(n, E, k + 1, w, f)
  BY <1>4, <1>6, <1>7, <1>9, <1>10 DEF Kept
<1>. QED
  BY <1>11 DEF w, d

(* The whole of an archive before it is encoded, with what it decodes to.  *)
(* The first L entries E are those of a dataset, in any order.             *)
EntriesSay(n, data, E, L) ==
  /\ L \in Nat /\ E \in [1 .. L -> Ent(n)]
  /\ \A k \in 1 .. L : /\ E[k].time \in DOMAIN data
                       /\ E[k].value = data[E[k].time]
  /\ \A t \in DOMAIN data : \E k \in 1 .. L : E[k].time = t

(* What deltaCompress returns has been kept from the first entry to the    *)
(* last one.                                                               *)
LEMMA CompressionKeeps ==
  ASSUME NEW n \in Nat, NEW data, IsDataset(data, n), deltaCompress(data) # NoData
  PROVE  \E E, L, v, e : /\ EntriesSay(n, data, E, L)
                         /\ Kept(n, E, L, v, e)
                         /\ deltaCompress(data) = v.out
<1>. DEFINE E == Entries(data)
            g == CHOOSE f : CompressedBy(E, f)
<1>1. PICK L \in Nat :
           /\ L = 0 => DOMAIN data = {}
           /\ E \in [1 .. L -> Ent(n)] /\ Len(E) = L
           /\ \A j, k \in 1 .. L : j < k => E[j].time < E[k].time
           /\ \A k \in 1 .. L : /\ E[k].time \in DOMAIN data
                                /\ E[k].value = data[E[k].time]
           /\ \A t \in DOMAIN data : \E k \in 1 .. L : E[k].time = t
  BY EntriesOf
<1>. HIDE DEF E
<1>2. CompressedBy(E, g)
  BY <1>1, CompressionExists
<1>3. deltaCompress(data) = g[L].out
  BY <1>1, CompressIs DEF E
<1>. HIDE DEF g
<1>4. /\ g[0] = [out |-> NoData, last |-> NoData]
      /\ L > 0 => g[1] = [out |-> <<E[1]>>, last |-> E[1]]
      /\ \A k \in 2 .. L : g[k] = Next1(E[k], g[k - 1])
  <2>. DEFINE f == [k \in 0 .. L |->
                      IF k = 0 THEN [out |-> NoData, last |-> NoData]
                      ELSE IF k = 1 THEN [out |-> <<E[1]>>, last |-> E[1]]
                      ELSE Next1(E[k], g[k - 1])]
  <2>1. g = f
    BY <1>1, <1>2 DEF CompressedBy
  <2>2. /\ f[0] = [out |-> NoData, last |-> NoData]
        /\ L > 0 => f[1] = [out |-> <<E[1]>>, last |-> E[1]]
        /\ \A k \in 2 .. L : f[k] = Next1(E[k], g[k - 1])
    BY <1>1
  <2>. HIDE DEF f
  <2>. QED
    BY <2>1, <2>2
<1>5. L > 0
  <2>1. SUFFICES ASSUME L = 0 PROVE FALSE
    BY <1>1
  <2>. QED
    BY <1>3, <1>4, <2>1
<1>. DEFINE S == {k \in 1 .. L : \E e : Kept(n, E, k, g[k], e)}
<1>6. 1 \in S
  <2>1. Kept(n, E, 1, [out |-> <<E[1]>>, last |-> E[1]], <<E[1]>>)
    <3>1. L \in Nat \ {0} /\ E \in [1 .. L -> Ent(n)]
      BY <1>1, <1>5
    <3>. QED
      BY <3>1, FirstIsKept, Zenon
  <2>2. Kept(n, E, 1, g[1], <<E[1]>>)
    BY <1>4, <1>5, <2>1
  <2>. QED
    BY <1>1, <1>5, <2>2
<1>7. ASSUME NEW k \in 1 .. L - 1, k \in S PROVE k + 1 \in S
  <2>1. PICK e : Kept(n, E, k, g[k], e)
    BY <1>7
  <2>2. g[k + 1] = Next1(E[k + 1], g[k])
    <3>1. k + 1 \in 2 .. L /\ (k + 1) - 1 = k
      BY <1>1
    <3>. QED
      BY <1>4, <3>1
  <2>3. Ordered(E, L)
    BY <1>1 DEF Ordered
  <2>4. CASE IsZero(Difference(E[k + 1], g[k].last).value)
    <3>1. g[k + 1] = g[k]
      BY <2>2, <2>4 DEF Next1
    <3>2. Kept(n, E, k + 1, g[k], e)
      BY <1>1, <2>1, <2>3, <2>4, SkippedIsKept
    <3>. QED
      BY <1>1, <3>1, <3>2
  <2>5. CASE ~ IsZero(Difference(E[k + 1], g[k].last).value)
    <3>1. g[k + 1] = [out  |-> Append(g[k].out, Difference(E[k + 1], g[k].last)),
                      last |-> E[k + 1]]
      BY <2>2, <2>5 DEF Next1
    <3>2. \E f : Kept(n, E, k + 1,
                     [out  |-> Append(g[k].out, Difference(E[k + 1], g[k].last)),
                      last |-> E[k + 1]], f)
      BY <1>1, <2>1, <2>3, WrittenIsKept
    <3>. QED
      BY <1>1, <3>1, <3>2
  <2>. QED
    BY <2>4, <2>5
<1>8. L \in S
  <2>. HIDE DEF S
  <2>1. 1 .. L \subseteq S
    BY <1>1, <1>6, <1>7, AllPositions
  <2>. QED
    BY <1>1, <1>5, <2>1
<1>9. PICK e : Kept(n, E, L, g[L], e)
  BY <1>8
<1>10. EntriesSay(n, data, E, L)
  BY <1>1 DEF EntriesSay
<1>. QED
  BY <1>3, <1>9, <1>10

-----------------------------------------------------------------------------
(* Decoding.                                                               *)

(* There is one way to decode.                                             *)
LEMMA DecodesOnce ==
  ASSUME NEW X, Len(X) \in Nat, NEW e, NEW f, DecodesTo(X, e), DecodesTo(X, f)
  PROVE  e = f
<1>. DEFINE S == {k \in 1 .. Len(X) : e[k] = f[k]}
<1>1. DOMAIN e = 1 .. Len(X) /\ DOMAIN f = 1 .. Len(X)
      /\ e = [k \in DOMAIN e |-> e[k]] /\ f = [k \in DOMAIN f |-> f[k]]
  BY DEF DecodesTo
<1>2. ASSUME Len(X) > 0 PROVE 1 \in S
  BY <1>2, DecodedAt
<1>3. ASSUME NEW k \in 1 .. Len(X) - 1, k \in S PROVE k + 1 \in S
  <2>1. k + 1 \in 1 .. Len(X) /\ k + 1 # 1 /\ (k + 1) - 1 = k
    OBVIOUS
  <2>2. e[k + 1] = Plus(e[k], X[k + 1]) /\ f[k + 1] = Plus(f[k], X[k + 1])
    BY <2>1, DecodedAt
  <2>. QED
    BY <1>3, <2>1, <2>2
<1>4. 1 .. Len(X) \subseteq S
  <2>. HIDE DEF S
  <2>1. CASE Len(X) = 0
    BY <2>1
  <2>2. CASE Len(X) > 0
    BY <1>2, <1>3, <2>2, AllPositions
  <2>. QED
    BY <2>1, <2>2
<1>5. \A k \in 1 .. Len(X) : e[k] = f[k]
  BY <1>4
<1>. QED
  BY <1>1, <1>5

(* A dataset of the entries e.                                             *)
IsMadeOf(data, e, l) ==
  /\ DOMAIN data = {e[m].time : m \in 1 .. l}
  /\ \A m \in 1 .. l : data[e[m].time] = e[m].value

(* What deltaDecompress makes of what decodes to e.                        *)
LEMMA DecompressedHolds ==
  ASSUME NEW X, Len(X) \in Nat, DOMAIN X = 1 .. Len(X),
         NEW e, DecodesTo(X, e), \A m \in 1 .. Len(X) : e[m].time \in Int,
         Ordered(e, Len(X))
  PROVE  IsMadeOf(deltaDecompress(X), e, Len(X))
<1>. DEFINE c == CHOOSE f : DecodesTo(X, f)
            At(t) == CHOOSE k \in DOMAIN X : e[k].time = t
<1>1. c = e
  <2>1. DecodesTo(X, c)
    OBVIOUS
  <2>. HIDE DEF c
  <2>. QED
    BY <2>1, DecodesOnce
<1>2. deltaDecompress(X) = [t \in {e[k].time : k \in DOMAIN X} |-> e[At(t)].value]
  <2>. HIDE DEF c
  <2>1. deltaDecompress(X) = [t \in {c[k].time : k \in DOMAIN X} |->
                    c[CHOOSE k \in DOMAIN X : c[k].time = t].value]
    BY DecompressIs DEF c
  <2>. QED
    BY <1>1, <2>1
<1>3. ASSUME NEW m \in 1 .. Len(X) PROVE At(e[m].time) = m
  <2>1. At(e[m].time) \in 1 .. Len(X) /\ e[At(e[m].time)].time = e[m].time
    OBVIOUS
  <2>. HIDE DEF At
  <2>2. ~ (At(e[m].time) < m) /\ ~ (m < At(e[m].time))
    BY <2>1 DEF Ordered
  <2>. QED
    BY <2>1, <2>2
<1>. HIDE DEF At
<1>. QED
  BY <1>2, <1>3 DEF IsMadeOf

(* CBOR has an array of the times, and one for each string.                *)
LEMMA CborArrays ==
  ASSUME NEW n \in Nat, NEW X \in Seq(Ent(n)), X # NoData
  PROVE  /\ Len(cborEncode(X)) = n + 1
         /\ cborEncode(X)[1] = [k \in 1 .. Len(X) |-> X[k].time]
         /\ \A i \in 1 .. n :
              cborEncode(X)[i + 1] = [k \in 1 .. Len(X) |-> X[k].value[i]]
<1>. DEFINE l == Len(X)
            times == [k \in DOMAIN X |-> X[k].time]
            values == [i \in 1 .. n |-> [k \in DOMAIN X |-> X[k].value[i]]]
            A == <<times>> \o values
<1>1. l \in Nat \ {0} /\ DOMAIN X = 1 .. l /\ X \in [1 .. l -> Ent(n)]
  BY EmptySeq DEF NoData
<1>2. \A k \in 1 .. l : /\ X[k] = [time |-> X[k].time, value |-> X[k].value]
                        /\ X[k].value \in Powers(n)
  BY <1>1 DEF Ent
<1>3. Len(X[1].value) = n
  <2>1. X[1].value \in [1 .. n -> Int16s]
    BY <1>1, <1>2 DEF Powers
  <2>. QED
    BY <2>1
<1>4. cborEncode(X) = A
  BY <1>3 DEF cborEncode
<1>5. /\ Len(A) = n + 1
      /\ A[1] = times
      /\ \A i \in 1 .. n : A[i + 1] = values[i]
  <2>. DEFINE V == {values[i] : i \in 1 .. n} \cup {times}
  <2>1. DOMAIN values = 1 .. n
    OBVIOUS
  <2>. HIDE DEF times, values
  <2>2. values \in [1 .. n -> V]
    <3>1. values = [i \in 1 .. n |-> values[i]]
      BY <2>1 DEF values
    <3>. QED
      BY <3>1
  <2>3. times \in V
    OBVIOUS
  <2>. HIDE DEF V
  <2>4. values \in Seq(V) /\ Len(values) = n
    BY <2>1, <2>2
  <2>5. <<times>> \in Seq(V) /\ Len(<<times>>) = 1 /\ <<times>>[1] = times
    BY <2>3
  <2>. QED
    BY <2>4, <2>5, ConcatProperties
<1>6. \A i \in 1 .. n : A[i + 1] = [k \in 1 .. l |-> X[k].value[i]]
  <2>. TAKE i \in 1 .. n
  <2>1. A[i + 1] = values[i]
    BY <1>5
  <2>2. values[i] = [k \in 1 .. l |-> X[k].value[i]]
    BY <1>1
  <2>. QED
    BY <2>1, <2>2
<1>7. times = [k \in 1 .. l |-> X[k].time]
  BY <1>1
<1>. HIDE DEF A
<1>. QED
  BY <1>4, <1>5, <1>6, <1>7

(* CBOR gives back what it got.                                            *)
LEMMA CborGivesBack ==
  ASSUME NEW n \in Nat, NEW X \in Seq(Ent(n)), X # NoData
  PROVE  cborEncode(X) # NoData /\ cborDecode(cborEncode(X)) = X
<1>. DEFINE l == Len(X)
            A == cborEncode(X)
<1>1. l \in Nat \ {0} /\ DOMAIN X = 1 .. l /\ X \in [1 .. l -> Ent(n)]
  BY EmptySeq DEF NoData
<1>2. \A k \in 1 .. l : /\ X[k] = [time |-> X[k].time, value |-> X[k].value]
                        /\ X[k].value \in Powers(n)
  BY <1>1 DEF Ent
<1>5. /\ Len(A) = n + 1
      /\ A[1] = [k \in 1 .. l |-> X[k].time]
      /\ \A i \in 1 .. n : A[i + 1] = [k \in 1 .. l |-> X[k].value[i]]
  BY CborArrays
<1>. HIDE DEF A
<1>6. A # NoData
  BY <1>5 DEF NoData
<1>7. cborDecode(A) = [k \in 1 .. l |->
          [time |-> X[k].time, value |-> [i \in 1 .. n |-> X[k].value[i]]]]
  <2>1. cborDecode(A) = [k \in DOMAIN A[1] |->
          [time |-> A[1][k], value |-> [i \in 1 .. Len(A) - 1 |-> A[i + 1][k]]]]
    BY <1>6 DEF cborDecode
  <2>2. DOMAIN A[1] = 1 .. l /\ Len(A) - 1 = n
    BY <1>1, <1>5
  <2>3. \A k \in 1 .. l : A[1][k] = X[k].time
    BY <1>1, <1>5
  <2>4. \A i \in 1 .. n : \A k \in 1 .. l : A[i + 1][k] = X[k].value[i]
    <3>. TAKE i \in 1 .. n
    <3>1. A[i + 1] = [k \in 1 .. l |-> X[k].value[i]]
      BY <1>5
    <3>. QED
      BY <3>1
  <2>. HIDE DEF l
  <2>. QED
    BY <2>1, <2>2, <2>3, <2>4
<1>8. \A k \in 1 .. l : [i \in 1 .. n |-> X[k].value[i]] = X[k].value
  BY <1>2 DEF Powers
<1>9. cborDecode(A) = [k \in 1 .. l |-> X[k]]
  BY <1>2, <1>7, <1>8
<1>. QED
  BY <1>1, <1>6, <1>9 DEF A

-----------------------------------------------------------------------------
(* The archives.                                                           *)

(* A thing reports as many powers as it has strings.                       *)
AlikeReports(n) == Reports \subseteq [1 .. n -> Int]

ReportsAreAlike == \E n \in Nat : AlikeReports(n)

SlotsOf(day) == downsample(rawData(day), SlotDuration)

BackOf(day) == deltaDecompress(cborDecode(archive[day]))

(* A datapoint has a power for each string.                                *)
LEMMA DatapointsAreAlike ==
  ASSUME NEW n \in Nat, AlikeReports(n)
  PROVE  Datapoints \subseteq Powers(n)
<1>. SUFFICES ASSUME NEW r \in Reports PROVE Datapoint(r) \in Powers(n)
  BY DEF Datapoints
<1>1. r \in [1 .. n -> Int]
  BY DEF AlikeReports
<1>2. ASSUME NEW i \in 1 .. n PROVE Int16(DecaWatts(r[i])) \in Int16s
  <2>1. PICK w \in Int : w = r[i]
    BY <1>1
  <2>2. DecaWatts(w) \in Int
    <3>1. (w + 5) \div 10 \in Int /\ (-w - 5) \div 10 \in Int
      BY SMT
    <3>. QED
      BY <3>1 DEF DecaWatts
  <2>. QED
    BY <2>1, <2>2, Int16Is
<1>. QED
  BY <1>1, <1>2 DEF Datapoint, Powers

(* The raw data of a day is a dataset.                                     *)
LEMMA DaysAreDatasets ==
  ASSUME NEW n \in Nat, AlikeReports(n), TypeOK, NEW day
  PROVE  IsDataset(rawData(day), n)
<1>1. /\ DOMAIN rawData(day) \subseteq DOMAIN raw
      /\ \A t \in DOMAIN rawData(day) : rawData(day)[t] = raw[t]
  BY DEF rawData
<1>2. now \in Nat /\ StartTime \in Nat
  BY TimeAssumption DEF TypeOK
<1>3. StartTime .. now \subseteq Nat /\ IsFiniteSet(StartTime .. now)
  BY <1>2, FS_Interval
<1>4. DOMAIN raw \subseteq StartTime .. now /\ \A t \in DOMAIN raw : raw[t] \in Datapoints
  BY DEF TypeOK
<1>5. IsFiniteSet(DOMAIN rawData(day))
  BY <1>1, <1>3, <1>4, FS_Subset
<1>6. \A t \in DOMAIN raw : raw[t] \in Powers(n)
  BY <1>4, DatapointsAreAlike
<1>. QED
  BY <1>1, <1>3, <1>4, <1>5, <1>6 DEF IsDataset

(* The slots E, what deltaCompress makes of them, and what that decodes to.*)
ArchiveIs(n, day, E, L, v, e) ==
  /\ EntriesSay(n, SlotsOf(day), E, L)
  /\ Kept(n, E, L, v, e)
  /\ archive[day] = cborEncode(v.out) /\ v.out # NoData
  /\ IsMadeOf(BackOf(day), e, Len(v.out))

(* An archive decodes to entries e that say what its slots E say.          *)
LEMMA ArchiveDecodes ==
  ASSUME NEW n \in Nat, AlikeReports(n), TypeOK, ArchivesAreComplete,
         NEW day \in DOMAIN archive
  PROVE  /\ DOMAIN SlotsOf(day) = {t \div SlotDuration : t \in DOMAIN rawData(day)}
         /\ DOMAIN SlotsOf(day) \subseteq Nat
         /\ \E E, L, v, e : ArchiveIs(n, day, E, L, v, e)
<1>. DEFINE X == deltaCompress(SlotsOf(day))
<1>1. IsDataset(SlotsOf(day), n)
      /\ DOMAIN SlotsOf(day) = {t \div SlotDuration : t \in DOMAIN rawData(day)}
  <2>1. IsDataset(rawData(day), n) /\ SlotDuration \in Nat \ {0}
    BY DaysAreDatasets, TimeAssumption
  <2>. QED
    BY <2>1, DownsampledIsDataset DEF SlotsOf
<1>2. archive[day] = cborEncode(X) /\ archive[day] # NoData
  BY DEF ArchivesAreComplete, Archived, TypeOK, SlotsOf
<1>3. X # NoData
  BY <1>2 DEF cborEncode
<1>4. PICK E, L, v, e : /\ EntriesSay(n, SlotsOf(day), E, L)
                        /\ Kept(n, E, L, v, e)
                        /\ X = v.out
  BY <1>1, <1>3, CompressionKeeps
<1>. HIDE DEF X
<1>5. X \in Seq(Ent(n)) /\ Len(X) \in Nat /\ DOMAIN X = 1 .. Len(X)
  BY <1>4 DEF Kept, Decodes
<1>6. cborDecode(archive[day]) = X
  BY <1>2, <1>3, <1>5, CborGivesBack
<1>7. DecodesTo(X, e) /\ Ordered(e, Len(X)) /\ \A m \in 1 .. Len(X) : e[m].time \in Int
  <2>1. DecodesTo(X, e) /\ e \in [1 .. Len(X) -> Ent(n)] /\ Ordered(e, Len(X))
    BY <1>4 DEF Kept, Decodes
  <2>. QED
    BY <2>1 DEF Ent
<1>8. IsMadeOf(BackOf(day), e, Len(X))
  <2>1. BackOf(day) = deltaDecompress(X)
    BY <1>6 DEF BackOf
  <2>2. IsMadeOf(deltaDecompress(X), e, Len(X))
    BY <1>5, <1>7, DecompressedHolds
  <2>. QED
    BY <2>1, <2>2
<1>9. DOMAIN SlotsOf(day) \subseteq Nat
  BY <1>1 DEF IsDataset
<1>10. archive[day] = cborEncode(v.out) /\ v.out # NoData
  BY <1>2, <1>3, <1>4
<1>11. IsMadeOf(BackOf(day), e, Len(v.out))
  BY <1>4, <1>8
<1>12. ArchiveIs(n, day, E, L, v, e)
  BY <1>4, <1>10, <1>11 DEF ArchiveIs
<1>. QED
  BY <1>1, <1>9, <1>12

(* What a dataset holds at a time is the value of an entry of it.          *)
HeldFrom(data, t, e, m) == Held(data, t) = data[e[m].time]

LEMMA HeldAt ==
  ASSUME NEW data, NEW l \in Nat, NEW e, NEW t \in Int, NEW m,
         IsMadeOf(data, e, l), DOMAIN data \subseteq Nat,
         Ordered(e, l), HoldsAt(e, l, m, t)
  PROVE  HeldFrom(data, t, e, m)
<1>. DEFINE passed == {u \in DOMAIN data : u <= t}
<1>1. m \in 1 .. l /\ e[m].time \in passed
  BY DEF HoldsAt, IsMadeOf
<1>2. ASSUME NEW u \in passed PROVE u <= e[m].time
  <2>1. PICK j \in 1 .. l : u = e[j].time
    BY DEF IsMadeOf
  <2>2. ~ (m < j)
    <3>1. SUFFICES ASSUME m < j PROVE FALSE
      OBVIOUS
    <3>2. t < u /\ u <= t /\ u \in Nat
      BY <2>1, <3>1 DEF HoldsAt
    <3>. QED
      BY <3>2
  <2>3. j = m \/ j < m
    BY <1>1, <2>2
  <2>4. j < m => e[j].time < e[m].time
    BY <1>1 DEF Ordered
  <2>5. u \in Nat /\ e[m].time \in Nat
    BY <1>1
  <2>. QED
    BY <2>1, <2>3, <2>4, <2>5
<1>3. passed \in SUBSET Nat /\ passed # {}
  BY <1>1
<1>4. Held(data, t) = data[Max(passed)]
  BY <1>3 DEF Held
<1>. HIDE DEF passed
<1>. QED
  BY <1>1, <1>2, <1>3, <1>4, GreatestTime DEF HeldFrom

(* Every archive gives back what the slots of the day say.                 *)
LEMMA EachGivesBack ==
  ASSUME NEW n \in Nat, AlikeReports(n), TypeOK, ArchivesAreComplete,
         NEW day \in DOMAIN archive, NEW t \in DOMAIN SlotsOf(day)
  PROVE  Held(BackOf(day), t) = SlotsOf(day)[t]
<1>1. PICK E, L, v, e : ArchiveIs(n, day, E, L, v, e)
  BY ArchiveDecodes
<1>2. DOMAIN SlotsOf(day) \subseteq Nat
  BY ArchiveDecodes
<1>3. Len(v.out) \in Nat /\ Ordered(e, Len(v.out)) /\ SaysAll(E, L, e, Len(v.out))
  BY <1>1 DEF ArchiveIs, Kept, Decodes
<1>4. DOMAIN BackOf(day) \subseteq Nat
  <2>1. ASSUME NEW m \in 1 .. Len(v.out) PROVE e[m].time \in Nat
    <3>1. PICK j \in 1 .. L : e[m].time = E[j].time
      BY <1>3 DEF SaysAll
    <3>. QED
      BY <1>1, <1>2, <3>1 DEF ArchiveIs, EntriesSay
  <2>. QED
    BY <1>1, <2>1 DEF ArchiveIs, IsMadeOf
<1>5. PICK k \in 1 .. L : E[k].time = t
  BY <1>1 DEF ArchiveIs, EntriesSay
<1>6. PICK m \in 1 .. Len(v.out) :
        HoldsAt(e, Len(v.out), m, E[k].time) /\ e[m].value = E[k].value
  BY <1>3 DEF SaysAll
<1>7. t \in Int
  BY <1>2
<1>8. Held(BackOf(day), t) = BackOf(day)[e[m].time]
  <2>1. IsMadeOf(BackOf(day), e, Len(v.out))
    BY <1>1 DEF ArchiveIs
  <2>2. HoldsAt(e, Len(v.out), m, t)
    BY <1>5, <1>6
  <2>3. /\ Len(v.out) \in Nat /\ t \in Int /\ DOMAIN BackOf(day) \subseteq Nat
        /\ Ordered(e, Len(v.out))
    BY <1>3, <1>4, <1>7
  <2>4. HeldFrom(BackOf(day), t, e, m)
    BY <2>1, <2>2, <2>3, HeldAt
  <2>. QED
    BY <2>4 DEF HeldFrom
<1>9. E[k].value = SlotsOf(day)[t]
  BY <1>1, <1>5 DEF ArchiveIs, EntriesSay
<1>10. BackOf(day)[e[m].time] = e[m].value
  BY <1>1 DEF ArchiveIs, IsMadeOf
<1>. QED
  BY <1>6, <1>8, <1>9, <1>10

(* Whatever a thing reports, however many repeated values are skipped and  *)
(* differences cut off: deltaDecompress of an archive holds, at each slot  *)
(* of the day, what downsample made of the datapoints.                     *)
THEOREM NothingIsLostInArchives ==
  ASSUME ReportsAreAlike
  PROVE  Spec => []ArchivesGiveBack
<1>1. PICK n \in Nat : AlikeReports(n)
  BY DEF ReportsAreAlike
<1>2. TypeOK /\ ArchivesAreComplete => ArchivesGiveBack
  <2>. SUFFICES ASSUME TypeOK, ArchivesAreComplete, NEW day \in DOMAIN archive,
                       NEW t \in DOMAIN SlotsOf(day)
                PROVE  Held(BackOf(day), t) = SlotsOf(day)[t]
    BY DEF ArchivesGiveBack, SlotsOf, BackOf
  <2>. QED
    BY <1>1, EachGivesBack
<1>. QED
  BY <1>2, DatabaseTypesCorrect, ArchivesStayComplete, PTL

-----------------------------------------------------------------------------
(* The chart.                                                              *)

(* There is one quotient.                                                  *)
LEMMA QuotientIs ==
  ASSUME NEW t \in Nat, NEW m \in Nat \ {0}, NEW p \in Nat, NEW r \in 0 .. m - 1,
         t = m * p + r
  PROVE  t \div m = p
<1>. DEFINE q == t \div m
            c == t % m
<1>1. q \in Nat /\ c \in 0 .. m - 1
  BY SMT
<1>2. t = m * q + c
  <2>1. t \in Int /\ m \in Int /\ m > 0
    OBVIOUS
  <2>. QED
    BY <2>1, Z3
<1>. HIDE DEF q, c
<1>3. PICK a \in Int : a = m * p
  OBVIOUS
<1>4. PICK b \in Int : b = m * q
  BY <1>1
<1>5. ASSUME NEW x \in Nat, NEW y \in Nat, x < y PROVE m * x + m <= m * y
  BY <1>5, SMT
<1>6. p < q => a + m <= b
  BY <1>1, <1>3, <1>4, <1>5
<1>7. q < p => b + m <= a
  BY <1>1, <1>3, <1>4, <1>5
<1>8. ~ (p < q) /\ ~ (q < p)
  <2>1. a + r = b + c
    BY <1>2, <1>3, <1>4
  <2>. QED
    BY <1>1, <1>3, <1>4, <1>6, <1>7, <2>1
<1>. QED
  BY <1>1, <1>8 DEF q

(* A slot is on the day of its times.                                      *)
LEMMA NestedQuotient ==
  ASSUME NEW t \in Nat, NEW a \in Nat \ {0}, NEW b \in Nat \ {0}
  PROVE  (t \div a) \div b = t \div (b * a)
<1>. DEFINE q == t \div a
            r == t % a
            p == q \div b
            s == q % b
<1>1. q \in Nat /\ r \in 0 .. a - 1
  BY SMT
<1>2. t = a * q + r
  <2>1. t \in Int /\ a \in Int /\ a > 0
    OBVIOUS
  <2>. QED
    BY <2>1, Z3
<1>. HIDE DEF q, r
<1>3. p \in Nat /\ s \in 0 .. b - 1
  BY <1>1, SMT
<1>4. q = b * p + s
  <2>1. q \in Int /\ b \in Int /\ b > 0
    BY <1>1
  <2>. QED
    BY <2>1, Z3
<1>. HIDE DEF p, s
<1>5. a * s \in Nat /\ a * s <= a * (b - 1)
  BY <1>3, SMT
<1>6. a * (b - 1) = b * a - a
  BY SMT
<1>7. b * a \in Nat \ {0}
  BY SMT
<1>8. a * s + r \in 0 .. b * a - 1
  <2>1. PICK x \in Int : x = a * s
    BY <1>5
  <2>2. PICK y \in Int : y = b * a
    BY <1>7
  <2>3. x <= y - a /\ x >= 0
    BY <1>5, <1>6, <2>1, <2>2
  <2>4. x + r \in 0 .. y - 1
    BY <1>1, <2>3
  <2>. QED
    BY <2>1, <2>2, <2>4
<1>9. t = (b * a) * p + (a * s + r)
  <2>1. a * (b * p + s) = (b * a) * p + a * s
    BY <1>3, SMT
  <2>2. (b * a) * p \in Int /\ a * s \in Int /\ r \in Int
    BY <1>1, <1>3, <1>5, <1>7
  <2>3. PICK x \in Int : x = (b * a) * p
    BY <2>2
  <2>4. PICK y \in Int : y = a * s
    BY <2>2
  <2>5. t = x + y + r
    BY <1>2, <1>4, <2>1, <2>3, <2>4
  <2>6. x + y + r = x + (y + r)
    BY <2>2
  <2>. QED
    BY <2>3, <2>4, <2>5, <2>6
<1>10. t \div (b * a) = p
  <2>. DEFINE m == b * a
              z == a * s + r
  <2>1. m \in Nat \ {0} /\ z \in 0 .. m - 1 /\ t = m * p + z
    BY <1>7, <1>8, <1>9
  <2>. HIDE DEF m, z
  <2>2. t \div m = p
    BY <1>3, <2>1, QuotientIs
  <2>. QED
    BY <2>2 DEF m
<1>. QED
  BY <1>10 DEF p, q

(* The last position of some.                                              *)
LEMMA LastPosition ==
  ASSUME NEW l \in Nat, NEW S \in SUBSET (1 .. l), S # {}
  PROVE  \E m \in S : \A j \in S : j <= m
<1>. DEFINE I == {l - k : k \in S}
<1>1. I \in SUBSET Nat /\ I # {}
  <2>1. ASSUME NEW k \in S PROVE l - k \in Nat
    <3>1. k \in 1 .. l
      OBVIOUS
    <3>. QED
      BY <3>1
  <2>. QED
    BY <2>1
<1>2. PICK i \in I : \A j \in I : i <= j
  BY <1>1, LeastNat
<1>3. PICK m \in S : i = l - m
  OBVIOUS
<1>4. ASSUME NEW j \in S PROVE j <= m
  <2>1. l - m <= l - j
    BY <1>2, <1>3
  <2>2. j \in 1 .. l /\ m \in 1 .. l
    OBVIOUS
  <2>. QED
    BY <2>1, <2>2
<1>. QED
  BY <1>4

(* The differences of a list sum up to it.                                 *)
SumsTo(list, f) ==
  f = [i \in DOMAIN list |-> IF i = 1 THEN list[1] ELSE f[i - 1] + list[i]]

(* It has one solution.                                                    *)
LEMMA SummedIs ==
  ASSUME NEW l \in Nat, NEW list, DOMAIN list = 1 .. l,
         NEW g, DOMAIN g = 1 .. l, g = [k \in DOMAIN g |-> g[k]],
         l > 0 => g[1] = list[1],
         \A k \in 2 .. l : g[k] = g[k - 1] + list[k]
  PROVE  Summed(list) = g
<1>. DEFINE c == CHOOSE f : SumsTo(list, f)
            S == {k \in 1 .. l : c[k] = g[k]}
<1>1. Summed(list) = c
  BY Zenon DEF Summed, SumsTo
<1>2. SumsTo(list, g)
  <2>1. ASSUME NEW k \in 1 .. l
        PROVE  g[k] = IF k = 1 THEN list[1] ELSE g[k - 1] + list[k]
    OBVIOUS
  <2>2. [k \in 1 .. l |-> g[k]] = [k \in 1 .. l |-> IF k = 1 THEN list[1] ELSE g[k - 1] + list[k]]
    BY <2>1
  <2>. QED
    BY <2>2 DEF SumsTo
<1>3. SumsTo(list, c)
  BY <1>2
<1>. HIDE DEF c
<1>4. DOMAIN c = 1 .. l /\ c = [k \in DOMAIN c |-> c[k]]
  BY <1>3 DEF SumsTo
<1>5. \A k \in 1 .. l : c[k] = IF k = 1 THEN list[1] ELSE c[k - 1] + list[k]
  <2>. DEFINE f == [i \in DOMAIN list |-> IF i = 1 THEN list[1] ELSE c[i - 1] + list[i]]
  <2>1. c = f
    BY <1>3 DEF SumsTo
  <2>2. \A k \in 1 .. l : f[k] = IF k = 1 THEN list[1] ELSE c[k - 1] + list[k]
    OBVIOUS
  <2>. HIDE DEF f
  <2>. QED
    BY <2>1, <2>2
<1>6. l > 0 => 1 \in S
  BY <1>5
<1>7. ASSUME NEW k \in 1 .. l - 1, k \in S PROVE k + 1 \in S
  <2>1. k + 1 \in 2 .. l /\ k + 1 \in 1 .. l /\ k + 1 # 1 /\ (k + 1) - 1 = k
    OBVIOUS
  <2>2. c[k + 1] = c[k] + list[k + 1] /\ g[k + 1] = g[k] + list[k + 1]
    BY <1>5, <2>1
  <2>. QED
    BY <1>7, <2>1, <2>2
<1>8. 1 .. l \subseteq S
  <2>. HIDE DEF S
  <2>1. CASE l = 0
    BY <2>1
  <2>2. CASE l > 0
    BY <1>6, <1>7, <2>2, AllPositions
  <2>. QED
    BY <2>1, <2>2
<1>9. \A k \in 1 .. l : c[k] = g[k]
  BY <1>8
<1>. QED
  BY <1>1, <1>4, <1>9

(* The times of an archive, and the powers as far as differences fit, are  *)
(* what the web app sums up.                                               *)
LEMMA SummedTimes ==
  ASSUME NEW n \in Nat, NEW X \in Seq(Ent(n)), NEW e \in [1 .. Len(X) -> Ent(n)],
         DecodesTo(X, e)
  PROVE  Summed([k \in 1 .. Len(X) |-> X[k].time]) = [k \in 1 .. Len(X) |-> e[k].time]
<1>. DEFINE list == [k \in 1 .. Len(X) |-> X[k].time]
            g == [k \in 1 .. Len(X) |-> e[k].time]
<1>1. Len(X) \in Nat
  OBVIOUS
<1>2. Len(X) > 0 => g[1] = list[1]
  BY <1>1, DecodedAt
<1>3. ASSUME NEW k \in 2 .. Len(X) PROVE g[k] = g[k - 1] + list[k]
  <2>1. k \in 1 .. Len(X) /\ k - 1 \in 1 .. Len(X) /\ k # 1
    BY <1>1
  <2>2. e[k] = Plus(e[k - 1], X[k])
    BY <2>1, DecodedAt
  <2>3. e[k].time = e[k - 1].time + X[k].time
    BY <2>2 DEF Plus
  <2>. QED
    BY <2>1, <2>3
<1>4. DOMAIN list = 1 .. Len(X) /\ DOMAIN g = 1 .. Len(X) /\ g = [k \in DOMAIN g |-> g[k]]
  OBVIOUS
<1>. HIDE DEF list, g
<1>5. Summed(list) = g
  BY <1>1, <1>2, <1>3, <1>4, SummedIs
<1>. QED
  BY <1>5 DEF list, g

(* Differences that fit were not cut off: their sum is what it was.        *)
LEMMA SummedPowers ==
  ASSUME NEW n \in Nat, NEW X \in Seq(Ent(n)), NEW e \in [1 .. Len(X) -> Ent(n)],
         DecodesTo(X, e), NEW i \in 1 .. n,
         \A k, m \in 1 .. Len(X) : e[k].value[i] - e[m].value[i] \in Int16s
  PROVE  Summed([k \in 1 .. Len(X) |-> X[k].value[i]])
           = [k \in 1 .. Len(X) |-> e[k].value[i]]
<1>. DEFINE list == [k \in 1 .. Len(X) |-> X[k].value[i]]
            g == [k \in 1 .. Len(X) |-> e[k].value[i]]
<1>1. Len(X) \in Nat
  OBVIOUS
<1>2. Len(X) > 0 => g[1] = list[1]
  BY <1>1, DecodedAt
<1>3. ASSUME NEW k \in 2 .. Len(X) PROVE g[k] = g[k - 1] + list[k]
  <2>1. k \in 1 .. Len(X) /\ k - 1 \in 1 .. Len(X) /\ k # 1
    BY <1>1
  <2>2. e[k] = Plus(e[k - 1], X[k])
    BY <2>1, DecodedAt
  <2>3. /\ e[k].value \in Powers(n) /\ e[k - 1].value \in Powers(n)
        /\ X[k].value \in Powers(n)
    <3>1. X[k] \in Ent(n) /\ e[k] \in Ent(n) /\ e[k - 1] \in Ent(n)
      BY <2>1
    <3>. QED
      BY <3>1 DEF Ent
  <2>. DEFINE a == e[k].value[i]
              b == e[k - 1].value[i]
              d == X[k].value[i]
  <2>4. a \in Int16s /\ b \in Int16s /\ d \in Int16s
    BY <2>3 DEF Powers
  <2>5. a = Int16(b + d)
    BY <2>2, <2>3 DEF Plus, Powers
  <2>6. a - b \in Int16s
    BY <2>1
  <2>7. g[k] = a /\ g[k - 1] = b /\ list[k] = d
    BY <2>1
  <2>. HIDE DEF a, b, d, g, list
  <2>8. d = a - b
    BY <2>4, <2>5, <2>6, DifferenceFits
  <2>9. a \in Int /\ b \in Int
    BY <2>4, HalfRangeAssumption DEF Int16s
  <2>. QED
    BY <2>7, <2>8, <2>9
<1>4. DOMAIN list = 1 .. Len(X) /\ DOMAIN g = 1 .. Len(X) /\ g = [k \in DOMAIN g |-> g[k]]
  OBVIOUS
<1>. HIDE DEF list, g
<1>5. Summed(list) = g
  BY <1>1, <1>2, <1>3, <1>4, SummedIs
<1>. QED
  BY <1>5 DEF list, g

(* A spot is the value of the entry that is held at a time, if one is.     *)
IsSpot(spot, values, data, t, e, l) ==
  \/ spot = 0 /\ Held(data, t) = NoData
  \/ \E m \in 1 .. l : spot = values[m] * 10 /\ Held(data, t) = e[m].value

(* The spots of a string show what is held at each slot.                   *)
LEMMA SpotsShow ==
  ASSUME NEW day \in Nat, NEW l \in Nat \ {0}, NEW e, NEW data, NEW values,
         NEW slot \in Slots,
         DOMAIN values = 1 .. l,
         \A m \in 1 .. l : e[m].time \in Nat,
         e[1].time \div SlotsPerDay = day,
         Ordered(e, l), IsMadeOf(data, e, l),
         day * SlotsPerDay + slot <= e[l].time
  PROVE  IsSpot(Spots([m \in 1 .. l |-> e[m].time], values)[slot], values,
                data, day * SlotsPerDay + slot, e, l)
<1>. DEFINE t == day * SlotsPerDay + slot
            times == [m \in 1 .. l |-> e[m].time]
            spots == Spots(times, values)
            passed == {k \in 1 .. l : e[k].time <= t}
            last == CHOOSE k \in passed : \A j \in passed : j <= k
            held == {u \in DOMAIN data : u <= t}
<1>1. t \in Nat
  <2>1. SlotsPerDay \in Nat \ {0} /\ day \in Nat
    BY SlotsAssumption
  <2>2. day * SlotsPerDay \in Nat
    BY <2>1, SMT
  <2>3. slot \in Nat
    BY <2>1 DEF Slots
  <2>. QED
    BY <2>2, <2>3
<1>2. DOMAIN times = 1 .. l /\ Len(times) = l /\ times[1] = e[1].time
      /\ times[l] = e[l].time /\ {k \in DOMAIN times : times[k] <= t} = passed
  OBVIOUS
<1>3. DayStart(times) + slot = t
  BY <1>2 DEF DayStart
<1>. HIDE DEF times, t
<1>4. spots[slot] = IF passed = {} \/ t > e[l].time THEN 0 ELSE values[last] * 10
  <2>. DEFINE at == DayStart(times) + slot
              before == {k \in DOMAIN times : times[k] <= at}
  <2>1. spots[slot]
          = IF before = {} \/ at > times[Len(times)] THEN 0
            ELSE values[CHOOSE k \in before : \A j \in before : j <= k] * 10
    BY Zenon DEF Spots
  <2>2. before = passed
    BY <1>2, <1>3
  <2>. HIDE DEF before, passed
  <2>3. spots[slot]
          = IF passed = {} \/ t > times[l] THEN 0
            ELSE values[CHOOSE k \in passed : \A j \in passed : j <= k] * 10
    BY <1>2, <1>3, <2>1, <2>2
  <2>. QED
    BY <1>2, <2>3
<1>. HIDE DEF spots
<1>5. t <= e[l].time
  BY DEF t
<1>6. ~ (t > e[l].time)
  <2>1. e[l].time \in Nat
    OBVIOUS
  <2>. QED
    BY <1>1, <1>5, <2>1
<1>7. DOMAIN data \subseteq Nat
  BY DEF IsMadeOf
<1>8. CASE passed = {}
  <2>1. spots[slot] = 0
    BY <1>4, <1>8
  <2>2. held = {}
    BY <1>8 DEF IsMadeOf
  <2>3. Held(data, t) = NoData
    BY <2>2 DEF Held
  <2>. QED
    BY <2>1, <2>3 DEF IsSpot, t, times, spots
<1>9. CASE passed # {}
  <2>1. passed \in SUBSET (1 .. l)
    OBVIOUS
  <2>2. \E k \in passed : \A j \in passed : j <= k
    <3>. HIDE DEF passed
    <3>. QED
      BY <1>9, <2>1, LastPosition
  <2>3. last \in passed /\ \A j \in passed : j <= last
    <3>. HIDE DEF passed
    <3>. QED
      BY <2>2
  <2>. HIDE DEF last
  <2>4. ASSUME NEW j \in 1 .. l, last < j PROVE t < e[j].time
    <3>1. j \notin passed
      <4>1. last \in 1 .. l
        BY <2>3
      <4>. QED
        BY <2>3, <2>4, <4>1
    <3>. QED
      BY <1>1, <3>1
  <2>5. last \in 1 .. l /\ HoldsAt(e, l, last, t)
    BY <2>3, <2>4 DEF HoldsAt
  <2>6. Held(data, t) = data[e[last].time]
    <3>1. HeldFrom(data, t, e, last)
      BY <1>1, <1>7, <2>5, HeldAt
    <3>. QED
      BY <3>1 DEF HeldFrom
  <2>7. Held(data, t) = e[last].value
    BY <2>5, <2>6 DEF IsMadeOf
  <2>8. spots[slot] = values[last] * 10
    BY <1>4, <1>6, <1>9
  <2>. QED
    BY <2>5, <2>7, <2>8 DEF IsSpot, t, times, spots
<1>. QED
  BY <1>8, <1>9

(* What ChartShowsArchive says of an archive.                              *)
Fitting(back) ==
  \A t, u \in DOMAIN back : \A i \in DOMAIN back[t] :
    back[t][i] - back[u][i] \in -HalfRange .. HalfRange - 1

(* Every slot of an archive is drawn as it is held.                        *)
LEMMA EachIsShown ==
  ASSUME NEW n \in Nat, AlikeReports(n), TypeOK, ArchivesAreComplete,
         NEW day \in DOMAIN archive, day \in Nat, Fitting(BackOf(day)),
         NEW slot \in Slots, NEW s \in DOMAIN decodeArchivedData(archive[day]),
         day * SlotsPerDay + slot <= Max(DOMAIN BackOf(day))
  PROVE  decodeArchivedData(archive[day])[s][slot]
           = IF Held(BackOf(day), day * SlotsPerDay + slot) = NoData THEN 0
             ELSE 10 * Held(BackOf(day), day * SlotsPerDay + slot)[s]
<1>1. PICK E, L, v, e : ArchiveIs(n, day, E, L, v, e)
  BY ArchiveDecodes
<1>. DEFINE X == v.out
            l == Len(X)
            back == BackOf(day)
            t == day * SlotsPerDay + slot
            A == archive[day]
<1>2. /\ X \in Seq(Ent(n)) /\ X # NoData
      /\ e \in [1 .. l -> Ent(n)] /\ l \in Nat \ {0}
      /\ DecodesTo(X, e) /\ Ordered(e, l) /\ IsMadeOf(back, e, l)
      /\ A = cborEncode(X) /\ SaysAll(E, L, e, l) /\ EntriesSay(n, SlotsOf(day), E, L)
  BY <1>1 DEF ArchiveIs, Kept, Decodes, LastHeld
<1>. HIDE DEF X
<1>3. ASSUME NEW m \in 1 .. l
      PROVE  e[m].time \in Nat /\ e[m].time \div SlotsPerDay = day
  <2>1. PICK j \in 1 .. L : e[m].time = E[j].time
    BY <1>2 DEF SaysAll
  <2>2. E[j].time \in DOMAIN SlotsOf(day)
    BY <1>2 DEF EntriesSay
  <2>3. DOMAIN SlotsOf(day) = {u \div SlotDuration : u \in DOMAIN rawData(day)}
        /\ DOMAIN SlotsOf(day) \subseteq Nat
    BY ArchiveDecodes
  <2>4. PICK u \in DOMAIN rawData(day) : E[j].time = u \div SlotDuration
    BY <2>2, <2>3
  <2>5. u \in Nat
    BY DaysAreDatasets DEF IsDataset
  <2>6. u \div DayDuration = day
    BY DEF rawData, DayOf
  <2>7. (u \div SlotDuration) \div SlotsPerDay = day
    BY <2>5, <2>6, NestedQuotient, SlotsAssumption, TimeAssumption DEF DayDuration
  <2>. QED
    BY <2>1, <2>2, <2>3, <2>4, <2>7
<1>4. /\ Len(A) = n + 1
      /\ A[1] = [k \in 1 .. l |-> X[k].time]
      /\ \A i \in 1 .. n : A[i + 1] = [k \in 1 .. l |-> X[k].value[i]]
  <2>1. /\ Len(cborEncode(X)) = n + 1
        /\ cborEncode(X)[1] = [k \in 1 .. Len(X) |-> X[k].time]
        /\ \A i \in 1 .. n : cborEncode(X)[i + 1] = [k \in 1 .. Len(X) |-> X[k].value[i]]
    BY <1>2, CborArrays
  <2>. QED
    BY <1>2, <2>1
<1>5. decodeArchivedData(A)
        = [i \in 1 .. n |-> Spots(Summed(A[1]), Summed(A[i + 1]))]
  BY <1>4 DEF decodeArchivedData
<1>6. s \in 1 .. n
  BY <1>5
<1>7. Summed(A[1]) = [m \in 1 .. l |-> e[m].time]
  <2>1. Summed([k \in 1 .. Len(X) |-> X[k].time]) = [k \in 1 .. Len(X) |-> e[k].time]
    BY <1>2, SummedTimes
  <2>. QED
    BY <1>4, <2>1
<1>8. \A k \in 1 .. l : e[k].value \in Powers(n) /\ back[e[k].time] = e[k].value
                       /\ e[k].time \in DOMAIN back
  BY <1>2 DEF Ent, IsMadeOf
<1>9. \A k, m \in 1 .. l : e[k].value[s] - e[m].value[s] \in Int16s
  <2>. TAKE k, m \in 1 .. l
  <2>1. DOMAIN back[e[k].time] = 1 .. n
    BY <1>8 DEF Powers
  <2>. QED
    BY <1>6, <1>8, <2>1 DEF Fitting, Int16s
<1>10. Summed(A[s + 1]) = [m \in 1 .. l |-> e[m].value[s]]
  <2>1. A[s + 1] = [k \in 1 .. l |-> X[k].value[s]]
    BY <1>4, <1>6
  <2>. QED
    BY <1>2, <1>6, <1>9, <2>1, SummedPowers
<1>. DEFINE values == [m \in 1 .. l |-> e[m].value[s]]
            spots == Spots([m \in 1 .. l |-> e[m].time], values)
<1>11. decodeArchivedData(A)[s] = spots
  BY <1>5, <1>6, <1>7, <1>10
<1>12. t <= e[l].time
  <2>1. l \in 1 .. l
    BY <1>2
  <2>2. DOMAIN back \in SUBSET Nat /\ e[l].time \in DOMAIN back
    BY <1>2, <1>3, <2>1 DEF IsMadeOf
  <2>3. \A u \in DOMAIN back : u <= e[l].time
    <3>. TAKE u \in DOMAIN back
    <3>1. PICK m \in 1 .. l : u = e[m].time
      BY <1>2 DEF IsMadeOf
    <3>2. m = l \/ e[m].time < e[l].time
      BY <1>2, <2>1 DEF Ordered
    <3>. QED
      BY <1>3, <2>1, <3>1, <3>2
  <2>4. Max(DOMAIN back) = e[l].time
    BY <2>2, <2>3, GreatestTime
  <2>. QED
    BY <2>4
<1>13. DOMAIN values = 1 .. l /\ \A m \in 1 .. l : values[m] = e[m].value[s]
  OBVIOUS
<1>14. 1 \in 1 .. l
  BY <1>2
<1>15. \/ spots[slot] = 0 /\ Held(back, t) = NoData
       \/ \E m \in 1 .. l : spots[slot] = values[m] * 10 /\ Held(back, t) = e[m].value
  <2>. HIDE DEF values, l, back
  <2>1. IsSpot(spots[slot], values, back, t, e, l)
    BY <1>2, <1>3, <1>12, <1>13, <1>14, SpotsShow
  <2>. QED
    BY <2>1 DEF IsSpot
<1>. HIDE DEF spots, values, t, back, l, A
<1>16. CASE spots[slot] = 0 /\ Held(back, t) = NoData
  BY <1>11, <1>16 DEF A, t, back
<1>17. ASSUME NEW m \in 1 .. l, spots[slot] = values[m] * 10, Held(back, t) = e[m].value
       PROVE  spots[slot] = IF Held(back, t) = NoData THEN 0 ELSE 10 * Held(back, t)[s]
  <2>1. DOMAIN e[m].value = 1 .. n /\ e[m].value[s] \in Int
    BY <1>6, <1>8, HalfRangeAssumption DEF Powers, Int16s
  <2>2. Held(back, t) # NoData
    <3>1. DOMAIN NoData = {}
      BY DEF NoData
    <3>. QED
      BY <1>6, <1>17, <2>1, <3>1
  <2>3. e[m].value[s] * 10 = 10 * e[m].value[s]
    BY <2>1
  <2>. QED
    BY <1>13, <1>17, <2>2, <2>3
<1>. QED
  BY <1>11, <1>15, <1>16, <1>17 DEF A, t, back

(* As far as its differences fit into 16 bits, every archive is drawn as   *)
(* what it holds, although the web app sums up in wide integers and finds  *)
(* the start of the day in the first entry.                                *)
THEOREM TheChartIsTheArchive ==
  ASSUME ReportsAreAlike
  PROVE  Spec => []ChartShowsArchive
<1>1. PICK n \in Nat : AlikeReports(n)
  BY DEF ReportsAreAlike
<1>2. TypeOK /\ DatabaseInv => ChartShowsArchive
  <2>. SUFFICES ASSUME TypeOK, DatabaseInv, NEW day \in DOMAIN archive,
                       Fitting(BackOf(day)),
                       NEW slot \in Slots, NEW s \in DOMAIN decodeArchivedData(archive[day]),
                       day * SlotsPerDay + slot <= Max(DOMAIN BackOf(day))
                PROVE  decodeArchivedData(archive[day])[s][slot]
                         = IF Held(BackOf(day), day * SlotsPerDay + slot) = NoData THEN 0
                           ELSE 10 * Held(BackOf(day), day * SlotsPerDay + slot)[s]
    BY DEF ChartShowsArchive, Fitting, BackOf
  <2>1. day \in Nat /\ ArchivesAreComplete
    BY DEF DatabaseInv
  <2>. QED
    BY <1>1, <2>1, EachIsShown
<1>. QED
  BY <1>2, DatabaseTypesCorrect, DatabaseInvariant, PTL
=============================================================================
