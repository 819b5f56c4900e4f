----------------------------- MODULE CborDecoder -----------------------------
(***************************************************************************)
(* How the web app draws an archive: decodeArchivedData of                 *)
(* cbor_decoder.dart.  It sums the differences of each array in wide       *)
(* integers, and holds each value until the next one.                      *)
(***************************************************************************)
EXTENDS Integers, Sequences

CONSTANT SlotsPerDay  \* slotsPerDay, 288

ASSUME SlotsAssumption == SlotsPerDay \in Nat \ {0}

Slots == 0 .. SlotsPerDay - 1

(* Delta decode in-place.                                                  *)
Summed(list) ==
  LET Sum[i \in DOMAIN list] == IF i = 1 THEN list[1] ELSE Sum[i - 1] + list[i]
  IN  Sum

(* Mutant: the first entry is taken for the start of the day.              *)
DayStartFirst(times) == times[1]

DayStart(times) == (times[1] \div SlotsPerDay) * SlotsPerDay

(* The spots of one string.  Before the first entry and after the last one *)
(* there are zeros.                                                        *)
Spots(times, values) ==
  [slot \in Slots |->
     LET at     == DayStart(times) + slot
         passed == {k \in DOMAIN times : times[k] <= at}
         last   == CHOOSE k \in passed : \A j \in passed : j <= k
     IN  IF passed = {} \/ at > times[Len(times)] THEN 0
         ELSE values[last] * 10]

decodeArchivedData(arrays) ==
  IF Len(arrays) = 0 THEN <<>>
  ELSE [s \in 1 .. Len(arrays) - 1 |->
          Spots(Summed(arrays[1]), Summed(arrays[s + 1]))]
=============================================================================
