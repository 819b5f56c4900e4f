------------------------------ MODULE Database -------------------------------
(***************************************************************************)
(* What becomes of the powers that a thing reports: Database writes them   *)
(* down, unless they repeat the last one, and archives a day when the web  *)
(* server is asked for it after it has passed.                             *)
(*                                                                         *)
(* Each thing and property has maps of its own; this is one of them.       *)
(* Transactions are atomic and durable; what Database keeps in memory is   *)
(* lost when the daemon restarts.                                          *)
(***************************************************************************)
EXTENDS DatabaseUtil, CborDecoder

CONSTANTS
  Reports,       \* what a thing may report, in W: one number per string
  SlotDuration,  \* the resolution of archives, five minutes
  StartTime,     \* when the daemon is installed
  MaxTime        \* bound: the last time of the model

DayDuration == SlotsPerDay * SlotDuration

ASSUME TimeAssumption ==
  /\ SlotDuration \in Nat \ {0}
  /\ StartTime \in Nat /\ MaxTime \in Nat /\ StartTime <= MaxTime

VARIABLES
  now,         \* system_clock, the time at which a thing was last seen
  raw,         \* the map of the datapoints
  archive,     \* the map of the days
  lastValues,  \* DatabasePrivate::_lastValues, empty if there is none
  reported     \* the datapoint of the last report, if the daemon got any

vars == <<now, raw, archive, lastValues, reported>>

DayOf(t) == t \div DayDuration

Days == 0 .. DayOf(MaxTime)

(* Watts as decawatts: a C++ quotient is cut off towards zero.             *)
DecaWatts(w) == IF w + 5 >= 0 THEN (w + 5) \div 10 ELSE -((-w - 5) \div 10)

Datapoint(report) == [i \in DOMAIN report |-> Int16(DecaWatts(report[i]))]

Datapoints == {Datapoint(r) : r \in Reports}

TypeOK ==
  /\ now \in StartTime .. MaxTime
  /\ DOMAIN raw \subseteq StartTime .. now
  /\ \A t \in DOMAIN raw : raw[t] \in Datapoints
  /\ DOMAIN archive \subseteq 0 .. DayOf(now) - 1
  /\ \A d \in DOMAIN archive : archive[d] # NoData
  /\ lastValues \in Datapoints \cup {NoData}
  /\ reported \in Datapoints \cup {NoData}

Init ==
  /\ now = StartTime
  /\ raw = NoData /\ archive = NoData
  /\ lastValues = NoData /\ reported = NoData

-----------------------------------------------------------------------------

(* mdbx::put_mode::upsert.                                                 *)
Upsert(map, key, value) ==
  [k \in DOMAIN map \cup {key} |-> IF k = key THEN value ELSE map[k]]

(* Mutant: what is written first in a second stays.                        *)
PutFirst(t, datapoint) ==
  /\ raw' = IF lastValues = datapoint \/ t \in DOMAIN raw THEN raw
            ELSE Upsert(raw, t, datapoint)
  /\ lastValues' = datapoint

(* What repeats the last value is not written.                             *)
putDatapoint(t, datapoint) ==
  /\ raw' = IF lastValues = datapoint THEN raw ELSE Upsert(raw, t, datapoint)
  /\ lastValues' = datapoint

(* A thing reports what it measures.                                       *)
Report(report) ==
  /\ putDatapoint(now, Datapoint(report))
  /\ reported' = Datapoint(report)
  /\ UNCHANGED <<now, archive>>

rawData(day) ==
  LET times == {t \in DOMAIN raw : DayOf(t) = day}
  IN  [t \in times |-> raw[t]]

(* The archive of a day, from its raw data.                                *)
Archived(day) ==
  cborEncode(deltaCompress(downsample(rawData(day), SlotDuration)))

(* Mutant: today is over.                                                  *)
ArchiveDayAtOnce(day) ==
  IF day > DayOf(now) THEN archive
  ELSE IF Archived(day) = NoData THEN archive
  ELSE Upsert(archive, day, Archived(day))

(* A day that has not passed is not archived, one without data neither.    *)
ArchiveDay(day) ==
  IF day >= DayOf(now) THEN archive
  ELSE IF Archived(day) = NoData THEN archive
  ELSE Upsert(archive, day, Archived(day))

(* The web server asks for the archive of a day.                           *)
archivedData(day) ==
  /\ archive' = IF day \in DOMAIN archive THEN archive ELSE ArchiveDay(day)
  /\ UNCHANGED <<now, raw, lastValues, reported>>

Restart ==
  /\ lastValues' = NoData
  /\ reported' = NoData
  /\ UNCHANGED <<now, raw, archive>>

TimePasses ==
  /\ now < MaxTime
  /\ now' = now + 1
  /\ UNCHANGED <<raw, archive, lastValues, reported>>

Next ==
  \/ \E report \in Reports : Report(report)
  \/ \E day \in Days : archivedData(day)
  \/ Restart
  \/ TimePasses

Spec == Init /\ [][Next]_vars

-----------------------------------------------------------------------------
(* Properties.                                                             *)

(* What data holds at a time: its last entry up to then.                   *)
Held(data, t) ==
  LET passed == {u \in DOMAIN data : u <= t}
  IN  IF passed = {} THEN NoData ELSE data[Max(passed)]

(* Nothing is lost by what putDatapoint skips: the last entry is what the  *)
(* thing reported last, across days and restarts.                          *)
RawHoldsReports == reported # NoData => Held(raw, now) = reported

(* A day is archived once, when somebody asks: what is in the archive is   *)
(* the whole day, for ever.                                                *)
ArchivesAreComplete == \A day \in DOMAIN archive : archive[day] = Archived(day)

(* The cycle of DatabaseTest: an archive gives the values of the day back, *)
(* at every slot that has one, although repeated ones are skipped and      *)
(* differences are cut off to 16 bits.                                     *)
ArchivesGiveBack ==
  \A day \in DOMAIN archive :
    LET slots == downsample(rawData(day), SlotDuration)
        back  == deltaDecompress(cborDecode(archive[day]))
    IN  \A t \in DOMAIN slots : Held(back, t) = slots[t]

(* As far as the differences fit into 16 bits, the chart shows the same as *)
(* the archive holds, at each slot up to the last change of the day.       *)
ChartShowsArchive ==
  \A day \in DOMAIN archive :
    LET back  == deltaDecompress(cborDecode(archive[day]))
        spots == decodeArchivedData(archive[day])
        Fits  == \A t, u \in DOMAIN back : \A i \in DOMAIN back[t] :
                   back[t][i] - back[u][i] \in -HalfRange .. HalfRange - 1
    IN  Fits =>
          \A slot \in Slots : \A s \in DOMAIN spots :
            LET t == day * SlotsPerDay + slot
            IN  t <= Max(DOMAIN back) =>
                  spots[s][slot] = IF Held(back, t) = NoData THEN 0
                                   ELSE 10 * Held(back, t)[s]
=============================================================================
