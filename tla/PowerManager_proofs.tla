------------------------ MODULE PowerManager_proofs -------------------------
(***************************************************************************)
(* Proofs about PowerManager, for every set of things, every assignment of *)
(* priorities and all debounce times that satisfy DebounceAssumption.      *)
(***************************************************************************)
EXTENDS PowerManager, FiniteSetTheorems, SequenceTheorems, TLAPS

-----------------------------------------------------------------------------
(* Lemmas about lists.                                                     *)

(* Every non-empty set of naturals has a least element.                    *)
LEMMA LeastNat ==
  ASSUME NEW I \in SUBSET Nat, I # {}
  PROVE  Min(I) \in I /\ \A j \in I : Min(I) <= j
<1>. DEFINE T == {0 .. i : i \in I}
<1>1. T \subseteq FiniteSubsetsOf(Nat)
  <2>1. ASSUME NEW i \in I
        PROVE  IsFiniteSet(0 .. i) /\ 0 .. i \subseteq Nat
    BY FS_Interval
  <2>. QED
    BY <2>1 DEF FiniteSubsetsOf
<1>a. T # {}
  OBVIOUS
<1>2. \E S \in T : \A R \in T : <<R, S>> \notin StrictSubsetOrdering(Nat)
  BY <1>1, <1>a, FS_StrictSubsetOrderingWellFounded, WFMin, Zenon
<1>3. PICK i \in I : \A j \in I : <<0 .. j, 0 .. i>> \notin StrictSubsetOrdering(Nat)
  BY <1>2
<1>4. \A j \in I : i <= j
  <2>. TAKE j \in I
  <2>1. SUFFICES ASSUME j < i PROVE FALSE
    OBVIOUS
  <2>2. 0 .. j \subseteq 0 .. i /\ 0 .. j # 0 .. i /\ 0 .. i \subseteq Nat
    BY <2>1
  <2>3. <<0 .. j, 0 .. i>> \in StrictSubsetOrdering(Nat)
    <3>. DEFINE A == 0 .. j
                B == 0 .. i
    <3>1. A \subseteq B /\ A # B /\ B \subseteq Nat
      BY <2>2
    <3>. HIDE DEF A, B
    <3>2. <<A, B>> \in StrictSubsetOrdering(Nat)
      BY <3>1 DEF StrictSubsetOrdering
    <3>. QED
      BY <3>2 DEF A, B
  <2>. QED
    BY <1>3, <2>3
<1>. QED
  BY <1>4 DEF Min

(* Every non-empty set of positions of a list has a greatest element.      *)
LEMMA GreatestPosition ==
  ASSUME NEW n \in Nat, NEW I \in SUBSET (1 .. n), I # {}
  PROVE  Max(I) \in I /\ \A j \in I : j <= Max(I)
<1>. DEFINE J == {n - i : i \in I}
<1>1. J \in SUBSET Nat
  OBVIOUS
<1>2. J # {}
  OBVIOUS
<1>3. Min(J) \in J /\ \A j \in J : Min(J) <= j
  BY <1>1, <1>2, LeastNat
<1>4. PICK i \in I : n - i = Min(J)
  BY <1>3
<1>5. \A j \in I : j <= i
  <2>1. TAKE j \in I
  <2>2. n - j \in J
    OBVIOUS
  <2>3. n - i <= n - j
    BY <1>3, <1>4, <2>2
  <2>. QED
    BY <2>3
<1>. HIDE DEF J
<1>6. \E x \in I : \A y \in I : x >= y
  BY <1>5
<1>. QED
  BY <1>6 DEF Max

(* LastOf finds the last position of a set in a list.                      *)
LEMMA LastOfIsLast ==
  ASSUME NEW T, NEW list \in Seq(T), NEW S
  PROVE  /\ LastOf(list, S) \in 0 .. Len(list)
         /\ LastOf(list, S) = 0 => \A i \in 1 .. Len(list) : list[i] \notin S
         /\ LastOf(list, S) # 0 =>
              /\ list[LastOf(list, S)] \in S
              /\ \A i \in 1 .. Len(list) : list[i] \in S => i <= LastOf(list, S)
<1>. DEFINE I == {i \in 1 .. Len(list) : list[i] \in S}
<1>1. Len(list) \in Nat
  BY LenProperties
<1>2. LastOf(list, S) = IF I # {} THEN Max(I) ELSE 0
  BY DEF LastOf, SelectLastInSeq
<1>3. CASE I = {}
  BY <1>1, <1>2, <1>3
<1>4. CASE I # {}
  <2>1. Max(I) \in I /\ \A j \in I : j <= Max(I)
    BY <1>1, <1>4, GreatestPosition
  <2>. QED
    BY <1>1, <1>2, <1>4, <2>1
<1>. QED
  BY <1>3, <1>4

(* FirstOf finds the first position of a set in a list.                    *)
LEMMA FirstOfIsFirst ==
  ASSUME NEW T, NEW list \in Seq(T), NEW S
  PROVE  /\ FirstOf(list, S) \in 0 .. Len(list)
         /\ FirstOf(list, S) = 0 => \A i \in 1 .. Len(list) : list[i] \notin S
         /\ FirstOf(list, S) # 0 =>
              /\ list[FirstOf(list, S)] \in S
              /\ \A i \in 1 .. Len(list) : list[i] \in S => FirstOf(list, S) <= i
<1>. DEFINE I == {i \in 1 .. Len(list) : list[i] \in S}
<1>1. Len(list) \in Nat
  BY LenProperties
<1>2. FirstOf(list, S) = IF I # {} THEN Min(I) ELSE 0
  BY DEF FirstOf, SelectInSeq
<1>3. CASE I = {}
  BY <1>1, <1>2, <1>3
<1>4. CASE I # {}
  <2>1. I \in SUBSET Nat
    BY <1>1
  <2>2. Min(I) \in I /\ \A j \in I : Min(I) <= j
    BY <2>1, <1>4, LeastNat
  <2>. QED
    BY <1>1, <1>2, <1>4, <2>2
<1>. QED
  BY <1>3, <1>4

(* What a list holds after an element has been erased.                     *)
LEMMA RemoveAtList ==
  ASSUME NEW T, NEW list \in Seq(T), NEW k \in 1 .. Len(list)
  PROVE  /\ RemoveAt(list, k) \in Seq(T)
         /\ Len(RemoveAt(list, k)) = Len(list) - 1
         /\ \A i \in 1 .. Len(list) - 1 :
              RemoveAt(list, k)[i] = IF i < k THEN list[i] ELSE list[i + 1]
<1>1. Len(list) \in Nat /\ \A i \in 1 .. Len(list) : list[i] \in T
  BY LenProperties
<1>. DEFINE a == SubSeq(list, 1, k - 1)
            b == SubSeq(list, k + 1, Len(list))
<1>2. /\ a \in Seq(T) /\ Len(a) = k - 1
      /\ \A i \in 1 .. k - 1 : a[i] = list[i]
  <2>1. \A i \in 1 .. k - 1 : list[i] \in T
    BY <1>1
  <2>. QED
    BY <1>1, <2>1, SubSeqProperties
<1>3. /\ b \in Seq(T) /\ Len(b) = Len(list) - k
      /\ \A i \in 1 .. Len(list) - k : b[i] = list[k + i]
  <2>1. \A i \in k + 1 .. Len(list) : list[i] \in T
    BY <1>1
  <2>. QED
    BY <1>1, <2>1, SubSeqProperties
<1>4. RemoveAt(list, k) = a \o b
  BY DEF RemoveAt
<1>. HIDE DEF a, b
<1>5. /\ a \o b \in Seq(T)
      /\ Len(a \o b) = Len(a) + Len(b)
      /\ \A i \in 1 .. Len(a) + Len(b) :
           (a \o b)[i] = IF i <= Len(a) THEN a[i] ELSE b[i - Len(a)]
  BY <1>2, <1>3, ConcatProperties
<1>. QED
  BY <1>1, <1>2, <1>3, <1>4, <1>5

(* What a list holds after an element has been inserted.                   *)
LEMMA InsertAtList ==
  ASSUME NEW T, NEW list \in Seq(T), NEW e \in T, NEW k \in 1 .. Len(list) + 1
  PROVE  /\ InsertAt(list, k, e) \in Seq(T)
         /\ Len(InsertAt(list, k, e)) = Len(list) + 1
         /\ \A i \in 1 .. Len(list) + 1 :
              InsertAt(list, k, e)[i] =
                IF i < k THEN list[i] ELSE IF i = k THEN e ELSE list[i - 1]
<1>1. Len(list) \in Nat /\ \A i \in 1 .. Len(list) : list[i] \in T
  BY LenProperties
<1>. DEFINE a == SubSeq(list, 1, k - 1)
            b == SubSeq(list, k, Len(list))
            c == <<e>>
<1>2. /\ a \in Seq(T) /\ Len(a) = k - 1
      /\ \A i \in 1 .. k - 1 : a[i] = list[i]
  <2>1. \A i \in 1 .. k - 1 : list[i] \in T
    BY <1>1
  <2>. QED
    BY <1>1, <2>1, SubSeqProperties
<1>3. /\ b \in Seq(T) /\ Len(b) = Len(list) - k + 1
      /\ \A i \in 1 .. Len(list) - k + 1 : b[i] = list[k + i - 1]
  <2>1. \A i \in k .. Len(list) : list[i] \in T
    BY <1>1
  <2>. QED
    BY <1>1, <2>1, SubSeqProperties
<1>4. c \in Seq(T) /\ Len(c) = 1 /\ c[1] = e
  OBVIOUS
<1>5. InsertAt(list, k, e) = (a \o c) \o b
  BY DEF InsertAt
<1>. HIDE DEF a, b, c
<1>6. /\ a \o c \in Seq(T)
      /\ Len(a \o c) = k
      /\ \A i \in 1 .. k : (a \o c)[i] = IF i < k THEN list[i] ELSE e
  <2>1. /\ a \o c \in Seq(T)
        /\ Len(a \o c) = Len(a) + Len(c)
        /\ \A i \in 1 .. Len(a) + Len(c) :
             (a \o c)[i] = IF i <= Len(a) THEN a[i] ELSE c[i - Len(a)]
    BY <1>2, <1>4, ConcatProperties
  <2>. QED
    BY <2>1, <1>1, <1>2, <1>4
<1>. DEFINE d == a \o c
<1>7. /\ d \o b \in Seq(T)
      /\ Len(d \o b) = Len(list) + 1
      /\ \A i \in 1 .. Len(list) + 1 :
           (d \o b)[i] = IF i <= k THEN d[i] ELSE b[i - k]
  <2>. HIDE DEF d
  <2>1. d \in Seq(T) /\ Len(d) = k
    BY <1>6 DEF d
  <2>2. /\ d \o b \in Seq(T)
        /\ Len(d \o b) = Len(d) + Len(b)
        /\ \A i \in 1 .. Len(d) + Len(b) :
             (d \o b)[i] = IF i <= Len(d) THEN d[i] ELSE b[i - Len(d)]
    BY <2>1, <1>3, ConcatProperties
  <2>. QED
    BY <2>1, <2>2, <1>1, <1>3
<1>. QED
  BY <1>1, <1>3, <1>5, <1>6, <1>7

-----------------------------------------------------------------------------
(* Lemmas about sorted lists of strategies.                                *)

Ranked(list) ==
  \A i, j \in 1 .. Len(list) :
    i < j => list[i] # list[j] /\ Priority[list[i]] >= Priority[list[j]]

(* Erasing a strategy keeps the list sorted.                               *)
LEMMA RemoveKeepsSorted ==
  ASSUME NEW list \in Seq(Things), Ranked(list), NEW k \in 1 .. Len(list)
  PROVE  Ranked(RemoveAt(list, k))
<1>1. Len(list) \in Nat
  BY LenProperties
<1>2. /\ Len(RemoveAt(list, k)) = Len(list) - 1
      /\ \A i \in 1 .. Len(list) - 1 :
           RemoveAt(list, k)[i] = IF i < k THEN list[i] ELSE list[i + 1]
  BY RemoveAtList
<1>. QED
  BY <1>1, <1>2 DEF Ranked

(* addStrategy keeps the list sorted and its elements distinct.            *)
LEMMA InsertKeepsSorted ==
  ASSUME NEW list \in Seq(Things), Ranked(list),
         NEW s \in Things, \A i \in 1 .. Len(list) : list[i] # s
  PROVE  SortedInsert(list, s) \in Seq(Things) /\ Ranked(SortedInsert(list, s))
<1>. DEFINE S == {t \in Things : Priority[t] >= Priority[s]}
            k == LastOf(list, S)
            new == SortedInsert(list, s)
<1>1. Len(list) \in Nat /\ \A i \in 1 .. Len(list) : list[i] \in Things
  BY LenProperties
<1>2. /\ k \in 0 .. Len(list)
      /\ k = 0 => \A i \in 1 .. Len(list) : list[i] \notin S
      /\ k # 0 => /\ list[k] \in S
                  /\ \A i \in 1 .. Len(list) : list[i] \in S => i <= k
  BY LastOfIsLast
<1>3. new = InsertAt(list, 1 + k, s)
  BY DEF SortedInsert
<1>4. \A t \in Things : Priority[t] \in Int
  BY PriorityAssumption
<1>5. \A i \in 1 .. Len(list) : i > k => Priority[list[i]] < Priority[s]
  BY <1>1, <1>2, <1>4
<1>6. \A i \in 1 .. Len(list) : i <= k => Priority[list[i]] >= Priority[s]
  <2>1. TAKE i \in 1 .. Len(list)
  <2>2. HAVE i <= k
  <2>3. k # 0 /\ k \in 1 .. Len(list) /\ Priority[list[k]] >= Priority[s]
    BY <1>2, <2>2, <1>1
  <2>4. Priority[list[i]] >= Priority[list[k]]
    BY <2>2, <2>3, <1>1, <1>4 DEF Ranked
  <2>. QED
    BY <2>3, <2>4, <1>1, <1>4
<1>. DEFINE p == 1 + k
<1>7. p \in 1 .. Len(list) + 1
  BY <1>1, <1>2
<1>. HIDE DEF p
<1>8. /\ new \in Seq(Things)
      /\ Len(new) = Len(list) + 1
      /\ \A i \in 1 .. Len(list) + 1 :
           new[i] = IF i < p THEN list[i]
                    ELSE IF i = p THEN s ELSE list[i - 1]
  <2>1. new = InsertAt(list, p, s)
    BY <1>3 DEF p
  <2>2. /\ InsertAt(list, p, s) \in Seq(Things)
        /\ Len(InsertAt(list, p, s)) = Len(list) + 1
        /\ \A i \in 1 .. Len(list) + 1 :
             InsertAt(list, p, s)[i] =
               IF i < p THEN list[i] ELSE IF i = p THEN s ELSE list[i - 1]
    <3>. HIDE DEF k, S, new
    <3>1. s \in Things /\ list \in Seq(Things)
      OBVIOUS
    <3>. QED
      BY <3>1, <1>7, InsertAtList, SMTT(30)
  <2>. HIDE DEF new
  <2>. QED
    BY <2>1, <2>2
<1>9. /\ \A i \in 1 .. Len(list) : i < p => Priority[list[i]] >= Priority[s]
      /\ \A i \in 1 .. Len(list) : i >= p => Priority[list[i]] < Priority[s]
  <2>. HIDE DEF k
  <2>. QED
    BY <1>1, <1>2, <1>5, <1>6 DEF p
<1>. HIDE DEF k, new, S
<1>10. Ranked(new)
  <2>. DEFINE n == Len(list)
  <2>1. SUFFICES ASSUME NEW i \in 1 .. n + 1, NEW j \in 1 .. n + 1, i < j
                 PROVE  new[i] # new[j] /\ Priority[new[i]] >= Priority[new[j]]
    BY <1>8 DEF Ranked
  <2>2. new[i] = IF i < p THEN list[i] ELSE IF i = p THEN s ELSE list[i - 1]
    BY <1>8
  <2>3. new[j] = IF j < p THEN list[j] ELSE IF j = p THEN s ELSE list[j - 1]
    BY <1>8
  <2>4. \A x, y \in 1 .. n :
          x < y => list[x] # list[y] /\ Priority[list[x]] >= Priority[list[y]]
    BY DEF Ranked
  <2>5. n \in Nat
    BY <1>1
  <2>. HIDE DEF n
  <2>6. CASE j < p
    <3>1. i \in 1 .. n /\ j \in 1 .. n
      BY <1>7, <2>1, <2>5, <2>6 DEF n
    <3>. QED
      BY <3>1, <2>1, <2>2, <2>3, <2>4, <2>6, <1>7
  <2>7. CASE j = p
    <3>1. i \in 1 .. n /\ new[i] = list[i] /\ new[j] = s
      BY <1>7, <2>1, <2>2, <2>3, <2>5, <2>7 DEF n
    <3>. QED
      BY <3>1, <2>1, <2>7, <1>9 DEF n
  <2>8. CASE i < p /\ p < j
    <3>1. i \in 1 .. n /\ j - 1 \in 1 .. n /\ i < j - 1
      BY <1>7, <2>1, <2>5, <2>8 DEF n
    <3>. QED
      BY <3>1, <2>2, <2>3, <2>4, <2>8, <1>7
  <2>9. CASE i = p
    <3>1. j - 1 \in 1 .. n /\ j - 1 >= p /\ new[i] = s /\ new[j] = list[j - 1]
      BY <1>7, <2>1, <2>2, <2>3, <2>5, <2>9 DEF n
    <3>2. Priority[list[j - 1]] < Priority[s] /\ list[j - 1] # s
      BY <3>1, <1>9 DEF n
    <3>. QED
      BY <3>1, <3>2, <1>1, <1>4 DEF n
  <2>10. CASE p < i
    <3>1. i - 1 \in 1 .. n /\ j - 1 \in 1 .. n /\ i - 1 < j - 1
      BY <1>7, <2>1, <2>5, <2>10 DEF n
    <3>. QED
      BY <3>1, <2>1, <2>2, <2>3, <2>4, <2>10, <1>7
  <2>. QED
    BY <1>7, <2>1, <2>6, <2>7, <2>8, <2>9, <2>10
<1>. QED
  BY <1>8, <1>10 DEF new

-----------------------------------------------------------------------------
(* What a site update does, by cases.                                      *)

(* The saturating clock of the model stays in its range.                   *)
LEMMA TickBounds ==
  ASSUME NEW t \in 0 .. StepUpDebounce
  PROVE  Min({t + 1, StepUpDebounce}) \in 0 .. StepUpDebounce
<1>. DEFINE I == {t + 1, StepUpDebounce}
<1>1. I \in SUBSET Nat /\ I # {} /\ StepUpDebounce \in I
  BY DebounceAssumption
<1>2. Min(I) \in I /\ \A j \in I : Min(I) <= j
  BY <1>1, LeastNat
<1>3. Min(I) \in Nat /\ Min(I) <= StepUpDebounce
  BY <1>1, <1>2
<1>. QED
  BY <1>3, DebounceAssumption

(* The three outcomes of an update: one strategy is stepped down, or one   *)
(* is stepped up and nobody wanted to step down, or all are kept because   *)
(* nobody who wanted a step was due.                                       *)
SteppedDown(D) ==
  LET i == LastOf(strategies, D)
  IN  /\ i \in 1 .. Len(strategies)
      /\ sinceStep >= StepDownDebounce
      /\ stepDown' = strategies[i] /\ stepUp' = NoThing
      /\ kept' = RemoveAt(strategies, i)
      /\ sinceStep' = 0

SteppedUp(D, U) ==
  LET i == FirstOf(strategies, U)
  IN  /\ i \in 1 .. Len(strategies)
      /\ LastOf(strategies, D) = 0
      /\ sinceStep >= StepUpDebounce
      /\ stepDown' = NoThing /\ stepUp' = strategies[i]
      /\ kept' = RemoveAt(strategies, i)
      /\ sinceStep' = 0

NobodyStepped(D, U) ==
  /\ ~ (LastOf(strategies, D) # 0 /\ sinceStep >= StepDownDebounce)
  /\ ~ (FirstOf(strategies, U) # 0 /\ sinceStep >= StepUpDebounce)
  /\ stepDown' = NoThing /\ stepUp' = NoThing
  /\ kept' = strategies
  /\ UNCHANGED sinceStep

(* The two loops and the two debounce times have no other outcome.         *)
LEMMA SiteUpdateCases ==
  ASSUME TypeOK, NEW D, NEW U, SiteUpdate(D, U)
  PROVE  SteppedDown(D) \/ SteppedUp(D, U) \/ NobodyStepped(D, U)
<1>. DEFINE i == LastOf(strategies, D)
            down == DownPass(strategies, D, sinceStep)
            up == UpPass(down.rest, U, down.since)
<1>1. /\ strategies \in Seq(Things) /\ Len(strategies) \in Nat
      /\ sinceStep \in Nat
  BY LenProperties, DebounceAssumption DEF TypeOK
<1>3. i \in 0 .. Len(strategies)
  BY <1>1, LastOfIsLast
<1>4. /\ stepDown' = down.thing /\ stepUp' = up.thing
      /\ kept' = up.rest /\ sinceStep' = up.since
  BY DEF SiteUpdate
<1>5. CASE i # 0 /\ sinceStep >= StepDownDebounce
  <2>1. down = [thing |-> strategies[i], rest |-> RemoveAt(strategies, i),
                since |-> 0]
    BY <1>5 DEF DownPass
  <2>2. ~ (0 >= StepUpDebounce)
    BY DebounceAssumption
  <2>3. up = [thing |-> NoThing, rest |-> RemoveAt(strategies, i), since |-> 0]
    BY <2>1, <2>2 DEF UpPass
  <2>. QED
    BY <1>1, <1>3, <1>4, <1>5, <2>1, <2>3 DEF SteppedDown
<1>6. CASE ~ (i # 0 /\ sinceStep >= StepDownDebounce)
  <2>. DEFINE k == FirstOf(strategies, U)
  <2>1. down = [thing |-> NoThing, rest |-> strategies, since |-> sinceStep]
    BY <1>6 DEF DownPass
  <2>2. k \in 0 .. Len(strategies)
    BY <1>1, FirstOfIsFirst
  <2>3. up = IF k # 0 /\ sinceStep >= StepUpDebounce
             THEN [thing |-> strategies[k], rest |-> RemoveAt(strategies, k),
                   since |-> 0]
             ELSE [thing |-> NoThing, rest |-> strategies, since |-> sinceStep]
    BY <2>1 DEF UpPass
  <2>. HIDE DEF i, k, down, up
  <2>4. CASE k # 0 /\ sinceStep >= StepUpDebounce
    <3>1. i = 0
      BY <1>1, <1>6, <2>4, DebounceAssumption
    <3>. QED
      BY <1>1, <1>4, <2>1, <2>2, <2>3, <2>4, <3>1 DEF SteppedUp, i, k
  <2>5. CASE ~ (k # 0 /\ sinceStep >= StepUpDebounce)
    BY <1>4, <1>6, <2>1, <2>3, <2>5 DEF NobodyStepped, i, k
  <2>. QED
    BY <2>4, <2>5
<1>. QED
  BY <1>5, <1>6

-----------------------------------------------------------------------------
(* The inductive invariant: the list is well formed, and what the last     *)
(* update did was right when it did it.                                    *)

IInv ==
  /\ TypeOK
  /\ SortedList
  /\ StepsByPriority
  /\ UpOnlyWhenNobodyWantsDown

(* SortedList, about the repository's list, is Ranked.                     *)
LEMMA SortedListIsRanked ==
  ASSUME TypeOK
  PROVE  SortedList <=> Ranked(strategies)
BY LenProperties DEF TypeOK, SortedList, Ranked

(* The registered strategies are those in the repository's list.           *)
LEMMA RegisteredPositions ==
  ASSUME TypeOK
  PROVE  /\ Registered = {strategies[i] : i \in 1 .. Len(strategies)}
         /\ Registered \subseteq Things
BY LenProperties DEF TypeOK, Registered, ToSet

(* The daemon starts without strategies and without steps.                 *)
LEMMA InitIInv == Init => IInv
<1>. SUFFICES ASSUME Init PROVE IInv
  OBVIOUS
<1>a. beat \in BOOLEAN
  BY DEF Init
<1>1. TypeOK
  BY <1>a, DebounceAssumption DEF Init, TypeOK
<1>2. SortedList
  BY DEF Init, SortedList
<1>. QED
  BY <1>1, <1>2 DEF Init, IInv, StepsByPriority, UpOnlyWhenNobodyWantsDown

(* StrategyRepository::addStrategy preserves the invariant.                *)
LEMMA AddStrategyIInv ==
  ASSUME IInv, NEW s \in Things, AddStrategy(s)
  PROVE  IInv'
<1>1. TypeOK /\ Ranked(strategies)
  BY SortedListIsRanked DEF IInv
<1>2. \A i \in 1 .. Len(strategies) : strategies[i] # s
  BY <1>1, RegisteredPositions DEF AddStrategy
<1>3. strategies' \in Seq(Things) /\ Ranked(strategies')
  BY <1>1, <1>2, InsertKeepsSorted DEF AddStrategy, TypeOK
<1>4. TypeOK'
  BY <1>1, <1>3 DEF AddStrategy, TypeOK, lastUpdate
<1>5. SortedList'
  BY <1>3, LenProperties DEF SortedList, Ranked
<1>. QED
  BY <1>4, <1>5
  DEF IInv, StepsByPriority, UpOnlyWhenNobodyWantsDown, AddStrategy, lastUpdate

(* Removing a thing's strategy preserves the invariant.                    *)
LEMMA ThingRemovedIInv ==
  ASSUME IInv, NEW s \in Things, ThingRemoved(s)
  PROVE  IInv'
<1>. DEFINE i == LastOf(strategies, {s})
<1>1. TypeOK /\ Ranked(strategies) /\ strategies \in Seq(Things)
  BY SortedListIsRanked DEF IInv, TypeOK
<1>2. \E k \in 1 .. Len(strategies) : strategies[k] \in {s}
  BY <1>1, RegisteredPositions DEF ThingRemoved
<1>3. i \in 1 .. Len(strategies)
  BY <1>1, <1>2, LastOfIsLast, LenProperties
<1>4. strategies' \in Seq(Things) /\ Ranked(strategies')
  BY <1>1, <1>3, RemoveAtList, RemoveKeepsSorted DEF ThingRemoved
<1>5. TypeOK'
  BY <1>1, <1>4 DEF ThingRemoved, TypeOK, lastUpdate
<1>6. SortedList'
  BY <1>4, LenProperties DEF SortedList, Ranked
<1>. QED
  BY <1>5, <1>6
  DEF IInv, StepsByPriority, UpOnlyWhenNobodyWantsDown, ThingRemoved, lastUpdate

(* PowerManager's handler of a site update preserves the invariant.        *)
LEMMA SiteUpdateIInv ==
  ASSUME IInv,
         NEW D \in SUBSET Registered, NEW U \in SUBSET Registered,
         SiteUpdate(D, U)
  PROVE  IInv'
<1>. DEFINE n == Len(strategies)
<1>1. /\ TypeOK /\ Ranked(strategies)
      /\ strategies \in Seq(Things) /\ n \in Nat
      /\ \A i \in 1 .. n : strategies[i] \in Things
  BY SortedListIsRanked, LenProperties DEF IInv, TypeOK
<1>2. /\ \A t \in D : \E i \in 1 .. n : strategies[i] = t
      /\ \A t \in U : \E i \in 1 .. n : strategies[i] = t
      /\ D \subseteq Things /\ U \subseteq Things
  BY <1>1, RegisteredPositions
<1>3. strategies' = strategies /\ wantsDown' = D /\ wantsUp' = U
  BY DEF SiteUpdate
<1>4. SortedList'
  BY <1>3 DEF IInv, SortedList
<1>b. beat' \in BOOLEAN
  BY DEF SiteUpdate
<1>5. NoThing \notin Things /\ StepUpDebounce \in Nat
  BY NoThingAssumption, DebounceAssumption
<1>6. \A i, j \in 1 .. n :
        i <= j => Priority[strategies[i]] >= Priority[strategies[j]]
  BY <1>1, PriorityAssumption DEF Ranked
<1>7. CASE SteppedDown(D)
  <2>. DEFINE i == LastOf(strategies, D)
  <2>1. /\ i \in 1 .. n /\ i # 0
        /\ stepDown' = strategies[i] /\ stepUp' = NoThing
        /\ kept' = RemoveAt(strategies, i) /\ sinceStep' = 0
    BY <1>7 DEF SteppedDown
  <2>2. \A j \in 1 .. n : strategies[j] \in D => j <= i
    BY <1>1, <2>1, LastOfIsLast
  <2>3. kept' \in Seq(Things)
    BY <1>1, <2>1, RemoveAtList
  <2>. HIDE DEF i
  <2>4. StepsByPriority'
    BY <1>2, <1>3, <1>6, <2>1, <2>2 DEF StepsByPriority
  <2>5. TypeOK'
    BY <1>1, <1>2, <1>3, <1>5, <1>b, <2>1, <2>3 DEF TypeOK
  <2>. QED
    BY <1>4, <2>1, <2>4, <2>5 DEF IInv, UpOnlyWhenNobodyWantsDown
<1>8. CASE SteppedUp(D, U)
  <2>. DEFINE i == FirstOf(strategies, U)
  <2>1. /\ i \in 1 .. n /\ i # 0
        /\ LastOf(strategies, D) = 0
        /\ stepDown' = NoThing /\ stepUp' = strategies[i]
        /\ kept' = RemoveAt(strategies, i) /\ sinceStep' = 0
    BY <1>8 DEF SteppedUp
  <2>2. \A j \in 1 .. n : strategies[j] \in U => i <= j
    BY <1>1, <2>1, FirstOfIsFirst
  <2>3. \A j \in 1 .. n : strategies[j] \notin D
    BY <1>1, <2>1, LastOfIsLast
  <2>4. D = {}
    BY <1>2, <2>3
  <2>5. kept' \in Seq(Things)
    BY <1>1, <2>1, RemoveAtList
  <2>. HIDE DEF i
  <2>6. StepsByPriority'
    BY <1>2, <1>3, <1>6, <2>1, <2>2 DEF StepsByPriority
  <2>7. TypeOK'
    BY <1>1, <1>2, <1>3, <1>5, <1>b, <2>1, <2>5 DEF TypeOK
  <2>. QED
    BY <1>3, <1>4, <2>4, <2>6, <2>7 DEF IInv, UpOnlyWhenNobodyWantsDown
<1>9. CASE NobodyStepped(D, U)
  BY <1>1, <1>2, <1>3, <1>4, <1>9, <1>b
  DEF NobodyStepped, IInv, TypeOK, StepsByPriority, UpOnlyWhenNobodyWantsDown
<1>. QED
  BY <1>1, <1>7, <1>8, <1>9, SiteUpdateCases

(* Every step preserves the invariant.                                     *)
LEMMA NextIInv == IInv /\ [Next]_vars => IInv'
<1>. SUFFICES ASSUME IInv, [Next]_vars PROVE IInv'
  OBVIOUS
<1>1. ASSUME NEW s \in Things, AddStrategy(s) PROVE IInv'
  BY <1>1, AddStrategyIInv
<1>2. ASSUME NEW s \in Things, ThingRemoved(s) PROVE IInv'
  BY <1>2, ThingRemovedIInv
<1>3. ASSUME AnyUpdate PROVE IInv'
  BY <1>3, SiteUpdateIInv DEF AnyUpdate
<1>4. CASE TimePasses
  <2>1. sinceStep' \in 0 .. StepUpDebounce
    BY <1>4, TickBounds DEF IInv, TypeOK, TimePasses
  <2>. QED
    BY <1>4, <2>1 DEF TimePasses, lastUpdate, IInv, TypeOK, SortedList,
                      StepsByPriority, UpOnlyWhenNobodyWantsDown
<1>5. CASE UNCHANGED vars
  BY <1>5 DEF vars, lastUpdate, IInv, TypeOK, SortedList, StepsByPriority,
              UpOnlyWhenNobodyWantsDown
<1>. QED
  BY <1>1, <1>2, <1>3, <1>4, <1>5 DEF Next

(* The repository's list and the last update's steps are right in every    *)
(* state PowerManager can reach.                                           *)
THEOREM Invariance == Spec => []IInv
BY InitIInv, NextIInv, PTL DEF Spec

(* Every variable keeps its type.                                          *)
THEOREM TypeCorrect == Spec => []TypeOK
BY Invariance, PTL DEF IInv

(* StrategyRepository's list is sorted, whatever joins and leaves.         *)
THEOREM ListStaysSorted == Spec => []SortedList
BY Invariance, PTL DEF IInv

(* PowerManager steps the least important strategy down and the most       *)
(* important one up.                                                       *)
THEOREM StepsFollowPriority == Spec => []StepsByPriority
BY Invariance, PTL DEF IInv

(* PowerManager steps nobody up in an update in which a strategy wants to  *)
(* step down.                                                              *)
THEOREM DownBeforeUp == Spec => []UpOnlyWhenNobodyWantsDown
BY Invariance, PTL DEF IInv

-----------------------------------------------------------------------------
(* PowerManager keeps the abstract promise of DebouncedSteps.              *)

(* The daemon starts with no step taken and every debounce time over.      *)
LEMMA InitKeepsPromise == Init => Promise!Init
BY DEF Init, Promise!Init

(* Every action of PowerManager is a step of the promise or does not touch *)
(* what the promise is about: the three outcomes of a site update are its  *)
(* three kinds of step, and StrategyRepository's operations stutter.       *)
LEMMA NextKeepsPromise ==
  IInv /\ [Next]_vars => [Promise!Next]_(Promise!vars)
<1>. SUFFICES ASSUME IInv, [Next]_vars
              PROVE  [Promise!Next]_(Promise!vars)
  OBVIOUS
<1>1. TypeOK /\ NoThing \notin Things
  BY NoThingAssumption DEF IInv
<1>2. \A i \in 1 .. Len(strategies) : strategies[i] \in Things
  BY <1>1, LenProperties DEF TypeOK
<1>3. CASE \E s \in Things : AddStrategy(s) \/ ThingRemoved(s)
  BY <1>3 DEF AddStrategy, ThingRemoved, lastUpdate, Promise!vars
<1>4. ASSUME NEW D, NEW U, SiteUpdate(D, U)
      PROVE  Promise!Next
  <2>1. CASE SteppedDown(D)
    <3>1. PICK s \in Things :
          /\ s # NoThing
          /\ sinceStep >= StepDownDebounce
          /\ stepDown' = s /\ stepUp' = NoThing /\ sinceStep' = 0
      BY <1>1, <1>2, <2>1 DEF SteppedDown
    <3>2. Promise!StepDown(s)
      BY <3>1 DEF Promise!StepDown
    <3>. QED
      BY <3>1, <3>2 DEF Promise!Next
  <2>2. CASE SteppedUp(D, U)
    <3>1. PICK s \in Things :
          /\ s # NoThing
          /\ sinceStep >= StepUpDebounce
          /\ stepDown' = NoThing /\ stepUp' = s /\ sinceStep' = 0
      BY <1>1, <1>2, <2>2 DEF SteppedUp
    <3>2. Promise!StepUp(s)
      BY <3>1 DEF Promise!StepUp
    <3>. QED
      BY <3>1, <3>2 DEF Promise!Next
  <2>3. CASE NobodyStepped(D, U)
    <3>1. Promise!NoStep
      BY <2>3 DEF NobodyStepped, Promise!NoStep
    <3>. QED
      BY <3>1 DEF Promise!Next
  <2>. QED
    BY <1>1, <1>4, <2>1, <2>2, <2>3, SiteUpdateCases
<1>5. CASE TimePasses
  <2>1. Promise!TimePasses
    BY <1>5 DEF TimePasses, lastUpdate, Promise!TimePasses, Promise!Min, Min
  <2>. QED
    BY <2>1 DEF Promise!Next
<1>6. CASE UNCHANGED vars
  BY <1>6 DEF vars, lastUpdate, Promise!vars
<1>. QED
  BY <1>3, <1>4, <1>5, <1>6 DEF Next, AnyUpdate

(* The control loop keeps the promise: at most one step per site update,   *)
(* each after its debounce time, for every number of strategies.           *)
THEOREM PromiseIsKept == Spec => KeepsPromise
BY InitKeepsPromise, NextKeepsPromise, Invariance, PTL
DEF Spec, KeepsPromise, Promise!Spec

-----------------------------------------------------------------------------
(* Every update reaches every strategy once.                               *)

(* Removing an element leaves every other one, each in one position.       *)
LEMMA RemoveKeepsOthers ==
  ASSUME NEW list \in Seq(Things), Ranked(list), NEW k \in 1 .. Len(list)
  PROVE  LET rest == RemoveAt(list, k)
         IN  /\ DOMAIN rest = 1 .. Len(list) - 1
             /\ \A i \in DOMAIN rest : rest[i] # list[k]
             /\ \A i, j \in DOMAIN rest : i # j => rest[i] # rest[j]
             /\ \A i \in 1 .. Len(list) :
                  i # k => \E j \in DOMAIN rest : rest[j] = list[i]
<1>. DEFINE rest == RemoveAt(list, k)
            n == Len(list)
<1>1. n \in Nat
  BY LenProperties
<1>2. /\ rest \in Seq(Things)
      /\ Len(rest) = n - 1
      /\ \A i \in 1 .. n - 1 :
           rest[i] = IF i < k THEN list[i] ELSE list[i + 1]
  BY RemoveAtList
<1>. HIDE DEF rest
<1>3. DOMAIN rest = 1 .. n - 1
  BY <1>2, LenProperties
<1>4. \A i, j \in 1 .. n : i # j => list[i] # list[j]
  BY <1>1 DEF Ranked
<1>5. k \in 1 .. n
  OBVIOUS
<1>. HIDE DEF n
<1>6. \A i \in 1 .. n - 1 : rest[i] # list[k]
  BY <1>1, <1>2, <1>4, <1>5
<1>7. \A i, j \in 1 .. n - 1 : i # j => rest[i] # rest[j]
  BY <1>1, <1>2, <1>4, <1>5
<1>8. ASSUME NEW i \in 1 .. n, i # k
      PROVE  \E j \in 1 .. n - 1 : rest[j] = list[i]
  <2>1. CASE i < k
    <3>1. i \in 1 .. n - 1 /\ rest[i] = list[i]
      BY <1>1, <1>2, <1>5, <2>1
    <3>. QED
      BY <3>1
  <2>2. CASE i > k
    <3>1. i - 1 \in 1 .. n - 1 /\ rest[i - 1] = list[i]
      BY <1>1, <1>2, <1>5, <2>2
    <3>. QED
      BY <3>1
  <2>. QED
    BY <1>1, <1>5, <1>8, <2>1, <2>2
<1>. QED
  BY <1>3, <1>6, <1>7, <1>8 DEF rest, n

(* If the kept list and the stepped strategy are a partition of the        *)
(* repository's list, then every strategy is adjusted once.                *)
LEMMA OnceEach ==
  ASSUME NEW S, NEW list, NEW d, NEW u,
         d = NoThing \/ u = NoThing,
         \A i, j \in DOMAIN list : i # j => list[i] # list[j],
         \A i \in DOMAIN list : list[i] # d /\ list[i] # u,
         S \ {d, u} = {list[i] : i \in DOMAIN list},
         {d, u} \ {NoThing} \subseteq S,
         NoThing \notin S,
         NEW s, s # NoThing,
         stepDown' = d, stepUp' = u, kept' = list
  PROVE  IF s \in S THEN \E x \in Adjusted(s)' : Adjusted(s)' = {x}
                    ELSE Adjusted(s)' = {}
<1>. DEFINE K == {<<"Keep", i>> : i \in {j \in DOMAIN list : list[j] = s}}
            T == {<<"Step", x>> : x \in {y \in {"Down", "Up"} :
                     (y = "Down" /\ d = s) \/ (y = "Up" /\ u = s)}}
<1>1. Adjusted(s)' = K \cup T
  BY DEF Adjusted
<1>2. CASE s \notin S
  <2>1. K = {} /\ T = {}
    BY <1>2
  <2>. QED
    BY <1>1, <1>2, <2>1
<1>3. CASE s \in S /\ s = d
  <2>1. K = {} /\ T = {<<"Step", "Down">>}
    BY <1>3
  <2>. QED
    BY <1>1, <1>3, <2>1
<1>4. CASE s \in S /\ s = u
  <2>1. K = {} /\ T = {<<"Step", "Up">>}
    BY <1>4
  <2>. QED
    BY <1>1, <1>4, <2>1
<1>5. CASE s \in S /\ s # d /\ s # u
  <2>1. PICK k \in DOMAIN list : list[k] = s
    BY <1>5
  <2>2. {j \in DOMAIN list : list[j] = s} = {k}
    BY <2>1
  <2>3. K = {<<"Keep", k>>} /\ T = {}
    BY <1>5, <2>2
  <2>. QED
    BY <1>1, <1>5, <2>3
<1>. QED
  BY <1>2, <1>3, <1>4, <1>5

(* A site update that leaves the repository alone adjusts everyone once.   *)
LEMMA SiteUpdateReachesAll ==
  ASSUME IInv, NEW D, NEW U, SiteUpdate(D, U),
         NEW s \in Things
  PROVE  IF s \in Registered THEN \E x \in Adjusted(s)' : Adjusted(s)' = {x}
                             ELSE Adjusted(s)' = {}
<1>. DEFINE n == Len(strategies)
<1>1. /\ TypeOK /\ Ranked(strategies) /\ strategies \in Seq(Things)
      /\ n \in Nat /\ DOMAIN strategies = 1 .. n
  BY SortedListIsRanked, LenProperties DEF IInv, TypeOK
<1>2. Registered = {strategies[i] : i \in 1 .. n} /\ Registered \subseteq Things
  BY <1>1, RegisteredPositions
<1>3. NoThing \notin Registered /\ s # NoThing
  BY <1>2, NoThingAssumption
<1>4. \A i, j \in 1 .. n : i # j => strategies[i] # strategies[j]
  BY <1>1 DEF Ranked
<1>5. ASSUME NEW k \in 1 .. n, kept' = RemoveAt(strategies, k),
             \/ stepDown' = strategies[k] /\ stepUp' = NoThing
             \/ stepDown' = NoThing /\ stepUp' = strategies[k]
      PROVE  IF s \in Registered
             THEN \E x \in Adjusted(s)' : Adjusted(s)' = {x}
             ELSE Adjusted(s)' = {}
  <2>. DEFINE rest == RemoveAt(strategies, k)
  <2>1. /\ DOMAIN rest = 1 .. n - 1
        /\ \A i \in DOMAIN rest : rest[i] # strategies[k]
        /\ \A i, j \in DOMAIN rest : i # j => rest[i] # rest[j]
        /\ \A i \in 1 .. n :
             i # k => \E j \in DOMAIN rest : rest[j] = strategies[i]
    BY <1>1, RemoveKeepsOthers
  <2>2. \A i \in 1 .. n - 1 : rest[i] \in Registered
    <3>1. \A i \in 1 .. n - 1 :
            rest[i] = IF i < k THEN strategies[i] ELSE strategies[i + 1]
      BY <1>1, RemoveAtList
    <3>. QED
      BY <3>1, <1>1, <1>2
  <2>. HIDE DEF rest, n
  <2>3. strategies[k] \in Registered
    BY <1>2
  <2>4. Registered \ {strategies[k], NoThing} = {rest[i] : i \in DOMAIN rest}
    BY <1>2, <1>3, <1>4, <2>1, <2>2
  <2>5. /\ \A i \in DOMAIN rest : rest[i] # NoThing
        /\ kept' = rest
    BY <1>3, <1>5, <2>1, <2>2 DEF rest
  <2>6. PICK a \in Registered : a = strategies[k]
    BY <2>3
  <2>7. /\ a # NoThing
        /\ \A i, j \in DOMAIN rest : i # j => rest[i] # rest[j]
        /\ \A i \in DOMAIN rest : rest[i] # a /\ rest[i] # NoThing
        /\ Registered \ {a, NoThing} = {rest[i] : i \in DOMAIN rest}
        /\ Registered \ {NoThing, a} = {rest[i] : i \in DOMAIN rest}
        /\ {a, NoThing} \ {NoThing} \subseteq Registered
        /\ {NoThing, a} \ {NoThing} \subseteq Registered
    BY <1>3, <2>1, <2>4, <2>5, <2>6
  <2>8. CASE stepDown' = a /\ stepUp' = NoThing
    BY <1>3, <2>5, <2>7, <2>8, OnceEach, Zenon
  <2>9. CASE stepDown' = NoThing /\ stepUp' = a
    BY <1>3, <2>5, <2>7, <2>9, OnceEach, Zenon
  <2>. QED
    BY <1>5, <2>6, <2>8, <2>9
<1>6. CASE NobodyStepped(D, U)
  <2>1. /\ stepDown' = NoThing /\ stepUp' = NoThing /\ kept' = strategies
    BY <1>6 DEF NobodyStepped
  <2>2. /\ Registered \ {NoThing, NoThing}
             = {strategies[i] : i \in DOMAIN strategies}
        /\ \A i \in DOMAIN strategies : strategies[i] # NoThing
        /\ \A i, j \in DOMAIN strategies :
             i # j => strategies[i] # strategies[j]
    BY <1>1, <1>2, <1>3, <1>4
  <2>. QED
    BY <1>3, <2>1, <2>2, OnceEach
<1>7. CASE SteppedDown(D)
  BY <1>5, <1>7 DEF SteppedDown
<1>8. CASE SteppedUp(D, U)
  BY <1>5, <1>8 DEF SteppedUp
<1>. QED
  BY <1>1, <1>6, <1>7, <1>8, SiteUpdateCases

(* An update adjusts every registered strategy exactly once, with a step   *)
(* or with Keep, and no other: erasing the stepped strategy from the copy  *)
(* neither skips one nor reaches one twice.                                *)
THEOREM EveryoneIsAdjusted == Spec => EachAdjustedOnce
<1>. DEFINE Once == \A s \in Things :
              IF s \in Registered THEN \E x \in Adjusted(s)' : Adjusted(s)' = {x}
                                  ELSE Adjusted(s)' = {}
<1>1. IInv /\ AnyUpdate => Once
  BY SiteUpdateReachesAll DEF AnyUpdate
<1>. HIDE DEF Once
<1>2. IInv /\ [Next]_vars => [AnyUpdate => Once]_vars
  BY <1>1
<1>3. Spec => [][AnyUpdate => Once]_vars
  BY <1>2, Invariance, PTL DEF Spec
<1>. QED
  BY <1>3 DEF EachAdjustedOnce, Once

-----------------------------------------------------------------------------
(* What an update is for one strategy.                                     *)

(* The position of a strategy in the repository's list.                    *)
LEMMA PositionInList ==
  ASSUME NEW list \in Seq(Things), Ranked(list), NEW i \in 1 .. Len(list)
  PROVE  LastOf(list, {list[i]}) = i
<1>. DEFINE S == {list[i]}
            k == LastOf(list, S)
<1>1. Len(list) \in Nat
  BY LenProperties
<1>2. /\ k \in 0 .. Len(list)
      /\ k = 0 => \A j \in 1 .. Len(list) : list[j] \notin S
      /\ k # 0 => list[k] \in S
  BY LastOfIsLast
<1>3. \A x, y \in 1 .. Len(list) : x # y => list[x] # list[y]
  BY <1>1 DEF Ranked
<1>. HIDE DEF k
<1>4. k = i
  BY <1>1, <1>2, <1>3
<1>. QED
  BY <1>4 DEF k

(* The six outcomes StrategyUpdate allows.                                 *)
LEMMA AllowedOutcomes ==
  ASSUME NEW since, NEW down, NEW up, NEW o,
         \/ /\ o = View!Outcome(TRUE, FALSE, "Down", "this")
            /\ since >= StepDownDebounce /\ down
         \/ /\ o = View!Outcome(TRUE, TRUE, "Up", "this")
            /\ since >= StepUpDebounce /\ ~down /\ up
         \/ /\ o = View!Outcome(TRUE, TRUE, "Keep", "nobody")
            /\ ~(since >= StepDownDebounce /\ down)
            /\ ~(since >= StepUpDebounce /\ up)
         \/ /\ o = View!Outcome(FALSE, TRUE, "Keep", "other")
            /\ since >= StepDownDebounce
         \/ /\ o = View!Outcome(TRUE, TRUE, "Keep", "other")
            /\ since >= StepDownDebounce /\ ~down
         \/ /\ o = View!Outcome(TRUE, FALSE, "Keep", "other")
            /\ since >= StepUpDebounce /\ ~down
  PROVE  o \in View!Outcomes(since, down, up)
BY DEF View!Outcomes

(* The four fields of a strategy's outcome.                                *)
SeenAs(s, askedDown, askedUp, step, stepped) ==
  /\ askedDown <=> (stepDown' \notin Things
                      \/ Position(stepDown)' <= Position(s)')
  /\ askedUp <=> /\ stepDown' # s
                 /\ stepUp' \notin Things \/ Position(s)' <= Position(stepUp)'
  /\ step = IF stepDown' = s THEN "Down"
            ELSE IF stepUp' = s THEN "Up" ELSE "Keep"
  /\ stepped = IF s \in {stepDown', stepUp'} THEN "this"
               ELSE IF {stepDown', stepUp'} = {NoThing} THEN "nobody"
               ELSE "other"

(* These fields determine what OutcomeFor says of an update.               *)
LEMMA OutcomeFields ==
  ASSUME NEW s, NEW ad \in BOOLEAN, NEW au \in BOOLEAN, NEW step, NEW who,
         SeenAs(s, ad, au, step, who)
  PROVE  OutcomeFor(s)' = View!Outcome(ad, au, step, who)
<1>. DEFINE A == stepDown' \notin Things \/ Position(stepDown)' <= Position(s)'
            B == /\ stepDown' # s
                 /\ stepUp' \notin Things \/ Position(s)' <= Position(stepUp)'
<1>1. ad <=> A
  BY DEF SeenAs
<1>2. au <=> B
  BY DEF SeenAs
<1>3. A \in BOOLEAN /\ B \in BOOLEAN
  OBVIOUS
<1>4. OutcomeFor(s)' = View!Outcome(A, B, step, who)
  BY Zenon DEF OutcomeFor, SeenAs
<1>. HIDE DEF A, B
<1>5. ad = A /\ au = B
  BY <1>1, <1>2, <1>3, Zenon
<1>. QED
  BY <1>4, <1>5, Zenon

(* The outcome of an update for the strategy at position k, if the one at  *)
(* position i was stepped down.                                            *)
LEMMA SteppedDownOutcome ==
  ASSUME NEW list \in Seq(Things), Ranked(list), strategies' = list,
         NEW i \in 1 .. Len(list), NEW k \in 1 .. Len(list),
         stepDown' = list[i], stepUp' = NoThing
  PROVE  /\ i = k => OutcomeFor(list[k])' = View!Outcome(TRUE, FALSE, "Down", "this")
         /\ i < k => OutcomeFor(list[k])' = View!Outcome(TRUE, TRUE, "Keep", "other")
         /\ k < i => OutcomeFor(list[k])' = View!Outcome(FALSE, TRUE, "Keep", "other")
<1>. DEFINE t == list[k]
<1>1. /\ Len(list) \in Nat /\ NoThing \notin Things
      /\ list[i] \in Things /\ t \in Things
  BY LenProperties, NoThingAssumption
<1>2. list[i] = t <=> i = k
  BY <1>1 DEF Ranked
<1>3. Position(stepDown)' = i /\ Position(t)' = k
  BY PositionInList DEF Position
<1>. HIDE DEF t
<1>4. ASSUME i = k
      PROVE  OutcomeFor(t)' = View!Outcome(TRUE, FALSE, "Down", "this")
  <2>1. SeenAs(t, TRUE, FALSE, "Down", "this")
    BY <1>1, <1>2, <1>3, <1>4 DEF SeenAs
  <2>. QED
    BY <2>1, OutcomeFields
<1>5. ASSUME i < k
      PROVE  OutcomeFor(t)' = View!Outcome(TRUE, TRUE, "Keep", "other")
  <2>1. SeenAs(t, TRUE, TRUE, "Keep", "other")
    BY <1>1, <1>2, <1>3, <1>5 DEF SeenAs
  <2>. QED
    BY <2>1, OutcomeFields
<1>6. ASSUME k < i
      PROVE  OutcomeFor(t)' = View!Outcome(FALSE, TRUE, "Keep", "other")
  <2>1. SeenAs(t, FALSE, TRUE, "Keep", "other")
    BY <1>1, <1>2, <1>3, <1>6 DEF SeenAs
  <2>. QED
    BY <2>1, OutcomeFields
<1>. QED
  BY <1>4, <1>5, <1>6 DEF t

(* The same if the one at position i was stepped up.                       *)
LEMMA SteppedUpOutcome ==
  ASSUME NEW list \in Seq(Things), Ranked(list), strategies' = list,
         NEW i \in 1 .. Len(list), NEW k \in 1 .. Len(list),
         stepDown' = NoThing, stepUp' = list[i]
  PROVE  /\ i = k => OutcomeFor(list[k])' = View!Outcome(TRUE, TRUE, "Up", "this")
         /\ k < i => OutcomeFor(list[k])' = View!Outcome(TRUE, TRUE, "Keep", "other")
         /\ i < k => OutcomeFor(list[k])' = View!Outcome(TRUE, FALSE, "Keep", "other")
<1>. DEFINE t == list[k]
<1>1. /\ Len(list) \in Nat /\ NoThing \notin Things
      /\ list[i] \in Things /\ t \in Things
  BY LenProperties, NoThingAssumption
<1>2. list[i] = t <=> i = k
  BY <1>1 DEF Ranked
<1>3. Position(stepUp)' = i /\ Position(t)' = k
  BY PositionInList DEF Position
<1>. HIDE DEF t
<1>4. ASSUME i = k
      PROVE  OutcomeFor(t)' = View!Outcome(TRUE, TRUE, "Up", "this")
  <2>1. SeenAs(t, TRUE, TRUE, "Up", "this")
    BY <1>1, <1>2, <1>3, <1>4 DEF SeenAs
  <2>. QED
    BY <2>1, OutcomeFields
<1>5. ASSUME k < i
      PROVE  OutcomeFor(t)' = View!Outcome(TRUE, TRUE, "Keep", "other")
  <2>1. SeenAs(t, TRUE, TRUE, "Keep", "other")
    BY <1>1, <1>2, <1>3, <1>5 DEF SeenAs
  <2>. QED
    BY <2>1, OutcomeFields
<1>6. ASSUME i < k
      PROVE  OutcomeFor(t)' = View!Outcome(TRUE, FALSE, "Keep", "other")
  <2>1. SeenAs(t, TRUE, FALSE, "Keep", "other")
    BY <1>1, <1>2, <1>3, <1>6 DEF SeenAs
  <2>. QED
    BY <2>1, OutcomeFields
<1>. QED
  BY <1>4, <1>5, <1>6 DEF t

(* Every registered strategy sees one of the outcomes StrategyUpdate       *)
(* allows, whoever is stepped.                                             *)
LEMMA SiteUpdateIsSeen ==
  ASSUME IInv, NEW D, NEW U, SiteUpdate(D, U), NEW s \in Registered
  PROVE  OutcomeFor(s)' \in View!Outcomes(sinceStep, s \in wantsDown',
                                          s \in wantsUp')
<1>. DEFINE n == Len(strategies)
            down == s \in D
            up == s \in U
            o == OutcomeFor(s)'
<1>1. /\ TypeOK /\ Ranked(strategies) /\ strategies \in Seq(Things)
      /\ n \in Nat /\ sinceStep \in Nat
      /\ StepDownDebounce \in Nat /\ StepUpDebounce \in Nat
      /\ StepDownDebounce <= StepUpDebounce
  BY SortedListIsRanked, LenProperties, DebounceAssumption DEF IInv, TypeOK
<1>2. strategies' = strategies /\ wantsDown' = D /\ wantsUp' = U
  BY DEF SiteUpdate
<1>3. PICK k \in 1 .. n : s = strategies[k]
  BY <1>1, RegisteredPositions
<1>4. /\ LastOf(strategies, D) \in 0 .. n
      /\ down => LastOf(strategies, D) # 0 /\ k <= LastOf(strategies, D)
      /\ LastOf(strategies, D) # 0 => strategies[LastOf(strategies, D)] \in D
  BY <1>1, <1>3, LastOfIsLast
<1>5. /\ FirstOf(strategies, U) \in 0 .. n
      /\ up => FirstOf(strategies, U) # 0
      /\ FirstOf(strategies, U) # 0 => strategies[FirstOf(strategies, U)] \in U
  BY <1>1, <1>3, FirstOfIsFirst
<1>6. CASE SteppedDown(D)
  <2>. DEFINE i == LastOf(strategies, D)
  <2>1. /\ i \in 1 .. n /\ sinceStep >= StepDownDebounce
        /\ i = k => o = View!Outcome(TRUE, FALSE, "Down", "this")
        /\ i < k => o = View!Outcome(TRUE, TRUE, "Keep", "other")
        /\ k < i => o = View!Outcome(FALSE, TRUE, "Keep", "other")
    BY <1>1, <1>2, <1>3, <1>6, SteppedDownOutcome DEF SteppedDown
  <2>2. /\ i = k => down
        /\ i < k => ~down
        /\ i = k \/ i < k \/ k < i
    BY <1>1, <1>3, <1>4, <2>1
  <2>. HIDE DEF i, o, down, up
  <2>3. o \in View!Outcomes(sinceStep, down, up)
    BY <2>1, <2>2, AllowedOutcomes, Zenon
  <2>. QED
    BY <2>3, <1>2 DEF o, down, up
<1>7. CASE SteppedUp(D, U)
  <2>. DEFINE i == FirstOf(strategies, U)
  <2>1. /\ i \in 1 .. n /\ sinceStep >= StepUpDebounce
        /\ i = k => o = View!Outcome(TRUE, TRUE, "Up", "this")
        /\ k < i => o = View!Outcome(TRUE, TRUE, "Keep", "other")
        /\ i < k => o = View!Outcome(TRUE, FALSE, "Keep", "other")
    BY <1>1, <1>2, <1>3, <1>7, SteppedUpOutcome DEF SteppedUp
  <2>2. ~down /\ sinceStep >= StepDownDebounce
    BY <1>1, <1>4, <1>7, <2>1 DEF SteppedUp
  <2>3. /\ i = k => up
        /\ i = k \/ i < k \/ k < i
    BY <1>1, <1>3, <1>5, <2>1
  <2>. HIDE DEF i, o, down, up
  <2>4. o \in View!Outcomes(sinceStep, down, up)
    BY <2>1, <2>2, <2>3, AllowedOutcomes, Zenon
  <2>. QED
    BY <2>4, <1>2 DEF o, down, up
<1>8. CASE NobodyStepped(D, U)
  <2>1. s \in Things /\ NoThing \notin Things
    BY <1>1, RegisteredPositions, NoThingAssumption
  <2>2. o = View!Outcome(TRUE, TRUE, "Keep", "nobody")
    <3>1. /\ stepDown' = NoThing /\ stepUp' = NoThing
          /\ NoThing \notin Things /\ s # NoThing
      BY <1>8, <2>1 DEF NobodyStepped
    <3>2. SeenAs(s, TRUE, TRUE, "Keep", "nobody")
      BY <2>1, <3>1 DEF SeenAs
    <3>. QED
      BY <3>2, OutcomeFields
  <2>3. /\ ~(sinceStep >= StepDownDebounce /\ down)
        /\ ~(sinceStep >= StepUpDebounce /\ up)
    BY <1>4, <1>5, <1>8 DEF NobodyStepped
  <2>. HIDE DEF o, down, up
  <2>4. o \in View!Outcomes(sinceStep, down, up)
    BY <2>2, <2>3, AllowedOutcomes, Zenon
  <2>. QED
    BY <2>4, <1>2 DEF o, down, up
<1>. QED
  BY <1>1, <1>6, <1>7, <1>8, SiteUpdateCases

(* What the modules of the single strategies assume about an update holds: *)
(* whether a strategy is asked, which step it gets and whether the clock   *)
(* was restarted fit together for each of them, in every update.           *)
THEOREM EveryoneSeesAnOutcome == Spec => EachSeesAnOutcome
<1>. DEFINE Seen == \A s \in Registered :
              OutcomeFor(s)' \in View!Outcomes(sinceStep, s \in wantsDown',
                                               s \in wantsUp')
<1>1. IInv /\ AnyUpdate => Seen
  BY SiteUpdateIsSeen DEF AnyUpdate
<1>. HIDE DEF Seen
<1>2. IInv /\ [Next]_vars => [AnyUpdate => Seen]_vars
  BY <1>1
<1>3. Spec => [][AnyUpdate => Seen]_vars
  BY <1>2, Invariance, PTL DEF Spec
<1>. QED
  BY <1>3 DEF EachSeesAnOutcome, Seen

=============================================================================
