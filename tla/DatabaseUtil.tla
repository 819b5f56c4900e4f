---------------------------- MODULE DatabaseUtil -----------------------------
(***************************************************************************)
(* How a day of datapoints becomes an archive: the pure functions of       *)
(* DatabaseUtil.  A datapoint is a sequence of powers, one per string of a *)
(* thing, all of a length; a Dataset is a function from its times, which   *)
(* std::map keeps sorted.                                                  *)
(***************************************************************************)
EXTENDS Integers, Sequences, FiniteSetsExt

CONSTANT HalfRange  \* 32768, the numbers an int16_t holds are twice as many

ASSUME HalfRangeAssumption == HalfRange \in Nat \ {0}

(* What is left of a number in an int16_t.                                 *)
Int16(x) == ((x + HalfRange) % (2 * HalfRange)) - HalfRange

NoData == <<>>  \* no entries, no times: a Dataset, a DeltaDataset, an archive

(* std::map's entries, by time.                                            *)
Entries(data) ==
  LET n     == Cardinality(DOMAIN data)
      times == CHOOSE s \in [1 .. n -> DOMAIN data] : \A k \in 2 .. n : s[k - 1] < s[k]
  IN  [k \in 1 .. n |-> [time |-> times[k], value |-> data[times[k]]]]

-----------------------------------------------------------------------------

(* round() of a / n: halves away from zero.                                *)
Rounded(a, n) ==
  IF a >= 0 THEN (2 * a + n) \div (2 * n) ELSE -((n - 2 * a) \div (2 * n))

(* The average of what was written in a stretch of time, however long each *)
(* of the values was held.                                                 *)
Average(data, times) ==
  [i \in DOMAIN data[Min(times)] |->
     Int16(Rounded(MapThenSumSet(LAMBDA t : data[t][i], times),
                   Cardinality(times)))]

downsample(data, timeDivisor) ==
  LET Bucket(t) == t \div timeDivisor
  IN  [b \in {Bucket(t) : t \in DOMAIN data} |->
         Average(data, {t \in DOMAIN data : Bucket(t) = b})]

(* Both ends of a DeltaDataset know what came before.                      *)
Difference(now, before) ==
  [time  |-> now.time - before.time,
   value |-> [i \in DOMAIN now.value |-> Int16(now.value[i] - before.value[i])]]

IsZero(datapoint) == \A i \in DOMAIN datapoint : datapoint[i] = 0

(* Mutant: the time of an entry that is skipped counts as the last one.    *)
deltaCompressSkipping(data) ==
  LET entries == Entries(data)
      Compressed[k \in 0 .. Len(entries)] ==
        IF k <= 1 THEN SubSeq(entries, 1, k)
        ELSE LET delta == Difference(entries[k], entries[k - 1])
             IN  IF IsZero(delta.value) THEN Compressed[k - 1]
                 ELSE Append(Compressed[k - 1], delta)
  IN  Compressed[Len(entries)]

(* Entries that repeat the last one written are skipped; the others say    *)
(* how they differ from it.                                                *)
deltaCompress(data) ==
  LET entries == Entries(data)
      Compressed[k \in 0 .. Len(entries)] ==
        IF k = 0 THEN [out |-> NoData, last |-> NoData]
        ELSE IF k = 1 THEN [out |-> <<entries[1]>>, last |-> entries[1]]
        ELSE LET delta == Difference(entries[k], Compressed[k - 1].last)
             IN  IF IsZero(delta.value) THEN Compressed[k - 1]
                 ELSE [out  |-> Append(Compressed[k - 1].out, delta),
                       last |-> entries[k]]
  IN  Compressed[Len(entries)].out

deltaDecompress(deltas) ==
  LET Entry[k \in 1 .. Len(deltas)] ==
        IF k = 1 THEN deltas[1]
        ELSE [time  |-> Entry[k - 1].time + deltas[k].time,
              value |-> [i \in DOMAIN deltas[k].value |->
                           Int16(Entry[k - 1].value[i] + deltas[k].value[i])]]
      times == {Entry[k].time : k \in DOMAIN deltas}
  IN  [t \in times |->
         Entry[CHOOSE k \in DOMAIN deltas : Entry[k].time = t].value]

-----------------------------------------------------------------------------
(* CBOR: an array of the times, and one for each string.                   *)

cborEncode(deltas) ==
  IF deltas = NoData THEN NoData
  ELSE <<[k \in DOMAIN deltas |-> deltas[k].time]>>
       \o [i \in 1 .. Len(deltas[1].value) |->
             [k \in DOMAIN deltas |-> deltas[k].value[i]]]

cborDecode(arrays) ==
  IF arrays = NoData THEN NoData
  ELSE [k \in DOMAIN arrays[1] |->
          [time  |-> arrays[1][k],
           value |-> [i \in 1 .. Len(arrays) - 1 |-> arrays[i + 1][k]]]]
=============================================================================
