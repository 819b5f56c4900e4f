----------------------- MODULE SettingsControl_proofs -----------------------
(***************************************************************************)
(* Proofs about SettingsControl, for every set of things, settings and     *)
(* values, whatever the rules mention, and any number of messages under    *)
(* way.                                                                    *)
(***************************************************************************)
EXTENDS SettingsControl, TLAPS

-----------------------------------------------------------------------------
(* The configuration.                                                      *)

(* The entries that no rule overwrites.                                    *)
Kind == Entries \ {Offset(t) : t \in Rules}

(* Without the daemon nothing is there.                                    *)
NothingWhenDown == ~up => present = {}

(* What clients have chosen is in the file, also while the daemon is down. *)
WishesAreFiled ==
  \A e \in Kind : wish[e] # Unset => file # Broken /\ file[e] = wish[e]

ControlTypeOK ==
  /\ ConfigTypeOK
  /\ up \in BOOLEAN
  /\ present \subseteq Things
  /\ prop \in Tables /\ wish \in Tables
  /\ known \subseteq Things

ConfigInv ==
  /\ ControlTypeOK
  /\ NothingWhenDown
  /\ ThingsFollowTable
  /\ WishesAreFiled

(* An entry is the setting of a thing or the interval, never both.         *)
LEMMA EntriesApart ==
  /\ Interval \in Entries
  /\ \A t \in Things : Interval # Offset(t) /\ Interval \notin SettingsOf(t)
  /\ \A t \in Things, e \in Entries : e = Offset(t) => e \in SettingsOf(t)
  /\ \A e \in Entries : e # Interval => e \in Settings
  /\ \A t \in Wallboxes \cup Rules : t \in Things /\ Offset(t) \in Entries
BY SettingsAssumption, StrategiesAssumption
   DEF Interval, Offset, SettingsOf, Entries, Site

(* A table with one value changed is a table.                              *)
LEMMA WithIsTable ==
  ASSUME NEW tab \in Tables, NEW e, NEW v,
         e \in Entries => v \in Values \cup {Unset}
  PROVE  /\ With(tab, e, v) \in Tables
         /\ \A x \in Entries : With(tab, e, v)[x] = IF x = e THEN v ELSE tab[x]
BY DEF With, Tables

(* A start reads a table in which the interval has a value.                *)
LEMMA ParsedIsTable ==
  ASSUME file \in Tables
  PROVE  /\ Parsed \in Tables
         /\ \A e \in Entries : file[e] # Unset => Parsed[e] = file[e]
         /\ Parsed[Interval] \in Values
<1>. DEFINE v == IF file[Interval] = Unset THEN Default ELSE file[Interval]
<1>1. Interval \in Entries /\ v \in Values
  BY EntriesApart, SettingsAssumption DEF Tables
<1>2. Parsed = With(file, Interval, v)
  BY DEF Parsed
<1>3. Parsed \in Tables /\ \A x \in Entries : Parsed[x] = IF x = Interval THEN v ELSE file[x]
  BY <1>1, <1>2, WithIsTable
<1>. QED
  BY <1>1, <1>3

(* What is left of a table is one, or does not parse.                      *)
LEMMA RemainsAreTables ==
  ASSUME NEW new \in Tables
  PROVE  Remains(new) \subseteq Tables \cup {Broken}
BY DEF Remains, Tables

(* A new thing's strategy changes at most its offset, and of an entry that *)
(* no rule overwrites only one that nobody has set.                        *)
LEMMA StrategyKeepsSettings ==
  ASSUME ControlTypeOK, NEW t \in Things
  PROVE  /\ WithStrategy(t) \in Tables
         /\ \A e \in Entries : e # Offset(t) => WithStrategy(t)[e] = table[e]
         /\ \A e \in Kind : table[e] # Unset => WithStrategy(t)[e] = table[e]
<1>1. table \in Tables
  BY DEF ControlTypeOK, ConfigTypeOK
<1>2. Offset(t) \in Entries => InitialOffset(t) \in Values \cup {Unset}
  BY <1>1, SettingsAssumption DEF InitialOffset, valueOr, Tables
<1>3. /\ WithStrategy(t) \in Tables
      /\ \A x \in Entries : WithStrategy(t)[x] = IF x = Offset(t) THEN InitialOffset(t) ELSE table[x]
  BY <1>1, <1>2, WithIsTable DEF WithStrategy
<1>4. ASSUME NEW e \in Kind, table[e] # Unset, e = Offset(t)
      PROVE  InitialOffset(t) = table[e]
  BY <1>4 DEF Kind, InitialOffset, valueOr
<1>. QED
  BY <1>3, <1>4 DEF Kind

-----------------------------------------------------------------------------
(* One lemma per action that changes the configuration.                    *)

(* The daemon starts with what the file has.                               *)
LEMMA StartKeeps ==
  ASSUME ConfigInv, Start
  PROVE  ConfigInv'
<1>1. file \in Tables /\ file # Broken /\ up' /\ present' = {} /\ present = {}
  BY SettingsAssumption
     DEF ConfigInv, ControlTypeOK, ConfigTypeOK, NothingWhenDown, Start, parseConfigFile
<1>2. table' = Parsed /\ file' = Parsed /\ wish' = wish /\ known' = known
  BY DEF Start, parseConfigFile, persistProperties
<1>3. Empty \in Tables /\ Parsed[Interval] \in Values \cup {Unset}
  BY <1>1, ParsedIsTable DEF Empty, Tables
<1>4. prop' = With(Empty, Interval, Parsed[Interval])
  BY DEF Start
<1>5. prop' \in Tables /\ prop'[Interval] = Parsed[Interval]
  BY <1>3, <1>4, WithIsTable, EntriesApart
<1>6. ControlTypeOK'
  BY <1>1, <1>2, <1>5, ParsedIsTable DEF ConfigInv, ControlTypeOK, ConfigTypeOK, Start
<1>7. ThingsFollowTable'
  BY <1>1, <1>2, <1>5 DEF ThingsFollowTable, Of
<1>8. WishesAreFiled'
  BY <1>1, <1>2, ParsedIsTable, SettingsAssumption DEF ConfigInv, WishesAreFiled, Kind
<1>. QED
  BY <1>1, <1>6, <1>7, <1>8 DEF ConfigInv, NothingWhenDown

(* A crash between two writes leaves the file as it is.                    *)
LEMMA CrashKeeps ==
  ASSUME ConfigInv, Crash
  PROVE  ConfigInv'
BY DEF ConfigInv, ControlTypeOK, ConfigTypeOK, NothingWhenDown, ThingsFollowTable,
       WishesAreFiled, Crash, Down, Forget, Empty, Tables

(* A crash in a write leaves a table or something that does not parse, and *)
(* no wish counts any more.                                                *)
LEMMA CrashInWriteKeeps ==
  ASSUME ConfigInv, CrashInWrite
  PROVE  ConfigInv'
<1>1. /\ up' = FALSE /\ present' = {} /\ known' = {} /\ prop' = Empty /\ wish' = Empty
      /\ table' = Empty
  BY DEF CrashInWrite, Down, ForgetInWrite
<1>2. Empty \in Tables /\ \A e \in Entries : Empty[e] = Unset
  BY DEF Empty, Tables
<1>3. file' \in Tables \cup {Broken}
  <2>1. CASE up
    <3>1. PICK new \in Writes : ForgetInWrite(new)
      BY <2>1 DEF CrashInWrite
    <3>2. new \in Tables
      <4>1. CASE \E e \in Settable, v \in Chosen : new = With(table, e, v)
        BY <4>1, WithIsTable, StrategiesAssumption DEF ConfigInv, ControlTypeOK, ConfigTypeOK
      <4>2. CASE \E t \in (Wallboxes \cup Rules) \ present : new = WithStrategy(t)
        BY <4>2, StrategyKeepsSettings, StrategiesAssumption DEF ConfigInv
      <4>. QED
        BY <4>1, <4>2 DEF Writes
    <3>. QED
      BY <3>1, <3>2, RemainsAreTables DEF ForgetInWrite
  <2>2. CASE ~up
    <3>1. file \in Tables
      BY <2>2 DEF CrashInWrite, ConfigInv, ControlTypeOK, ConfigTypeOK
    <3>. QED
      BY <2>2, <3>1, ParsedIsTable, RemainsAreTables DEF CrashInWrite, ForgetInWrite
  <2>. QED
    BY <2>1, <2>2
<1>. QED
  BY <1>1, <1>2, <1>3 DEF ConfigInv, ControlTypeOK, ConfigTypeOK, NothingWhenDown,
                          ThingsFollowTable, WishesAreFiled, Kind

(* A new thing gets what the table has, or the table what its strategy has *)
(* set.                                                                    *)
LEMMA ThingAddedKeeps ==
  ASSUME ConfigInv, NEW t \in Things, ThingAdded(t)
  PROVE  ConfigInv'
<1>. DEFINE new == WithStrategy(t)
<1>1. /\ up /\ up' = up /\ present' = present \cup {t}
      /\ wish' = wish /\ known' = known \cup (IF t \in Rules THEN OffsetsMentioned[t] ELSE {})
      /\ table' = new /\ file' = new /\ prop' = WithSettingsOf(t, new)
  BY DEF ThingAdded, persistProperties, KnownWith
<1>2. /\ new \in Tables
      /\ \A e \in Entries : e # Offset(t) => new[e] = table[e]
      /\ \A e \in Kind : table[e] # Unset => new[e] = table[e]
  BY StrategyKeepsSettings DEF ConfigInv
<1>. HIDE DEF new
<1>3. /\ prop' \in Tables
      /\ \A e \in Entries : prop'[e] = IF e \in SettingsOf(t) THEN new[e] ELSE prop[e]
  BY <1>1, <1>2 DEF WithSettingsOf, Tables, ConfigInv, ControlTypeOK
<1>4. ControlTypeOK'
  BY <1>1, <1>2, <1>3, StrategiesAssumption DEF ConfigInv, ControlTypeOK, ConfigTypeOK
<1>5. ThingsFollowTable'
  <2>. SUFFICES ASSUME NEW e \in Entries, Of(e)'
                PROVE  prop'[e] = new[e]
    BY <1>1 DEF ThingsFollowTable
  <2>1. CASE e \in SettingsOf(t)
    BY <2>1, <1>3
  <2>2. CASE e \notin SettingsOf(t)
    <3>1. Of(e) /\ e # Offset(t)
      BY <2>2, <1>1, EntriesApart DEF Of, SettingsOf
    <3>. QED
      BY <3>1, <2>2, <1>1, <1>2, <1>3 DEF ConfigInv, ThingsFollowTable
  <2>. QED
    BY <2>1, <2>2
<1>6. WishesAreFiled'
  <2>. SUFFICES ASSUME NEW e \in Kind, wish[e] # Unset
                PROVE  new # Broken /\ new[e] = wish[e]
    BY <1>1 DEF WishesAreFiled
  <2>1. table[e] = wish[e]
    BY <1>1 DEF ConfigInv, WishesAreFiled, ThingsFollowTable
  <2>. QED
    BY <2>1, <1>2, SettingsAssumption
<1>. QED
  BY <1>1, <1>4, <1>5, <1>6 DEF ConfigInv, NothingWhenDown

(* What leaves does not count, and takes nothing with it.                  *)
LEMMA ThingRemovedKeeps ==
  ASSUME ConfigInv, NEW t \in Things, ThingRemoved(t)
  PROVE  ConfigInv'
<1>1. /\ up /\ up' = up /\ present' = present \ {t} /\ wish' = wish /\ known' = known
      /\ table' = table /\ file' = file /\ prop' = WithSettingsOf(t, Empty)
  BY DEF ThingRemoved, configVars
<1>2. /\ prop' \in Tables
      /\ \A e \in Entries : e \notin SettingsOf(t) => prop'[e] = prop[e]
  BY <1>1 DEF WithSettingsOf, Empty, Tables, ConfigInv, ControlTypeOK
<1>3. \A e \in Entries : Of(e)' => Of(e) /\ e \notin SettingsOf(t)
  BY <1>1, EntriesApart DEF Of, SettingsOf
<1>. QED
  BY <1>1, <1>2, <1>3 DEF ConfigInv, ControlTypeOK, ConfigTypeOK, NothingWhenDown,
                          ThingsFollowTable, WishesAreFiled

(* A setting goes to the thing, the table and the file alike.              *)
LEMMA ClientSetsKeeps ==
  ASSUME ConfigInv, NEW e \in Entries, NEW v \in Chosen, ClientSets(e, v)
  PROVE  ConfigInv'
<1>1. /\ up /\ up' = up /\ present' = present /\ known' \subseteq Things
      /\ table' = With(table, e, v) /\ file' = With(table, e, v)
      /\ prop' = With(prop, e, v) /\ wish' = With(wish, e, v)
  BY StrategiesAssumption DEF ClientSets, persistProperties, ConfigInv, ControlTypeOK
<1>2. v \in Values /\ table \in Tables /\ prop \in Tables /\ wish \in Tables
  BY StrategiesAssumption DEF ConfigInv, ControlTypeOK, ConfigTypeOK
<1>3. /\ table' \in Tables /\ prop' \in Tables /\ wish' \in Tables /\ file' = table'
      /\ \A x \in Entries : /\ table'[x] = IF x = e THEN v ELSE table[x]
                            /\ prop'[x] = IF x = e THEN v ELSE prop[x]
                            /\ wish'[x] = IF x = e THEN v ELSE wish[x]
  BY <1>1, <1>2, WithIsTable
<1>4. ControlTypeOK'
  BY <1>1, <1>3 DEF ConfigInv, ControlTypeOK, ConfigTypeOK
<1>5. ThingsFollowTable'
  BY <1>1, <1>3 DEF ConfigInv, ThingsFollowTable, Of
<1>6. WishesAreFiled'
  BY <1>1, <1>3, SettingsAssumption DEF ConfigInv, ThingsFollowTable, WishesAreFiled, Kind
<1>. QED
  BY <1>1, <1>4, <1>5, <1>6 DEF ConfigInv, NothingWhenDown

(* Messages and connections do not touch it.                               *)
LEMMA WebKeepsConfig ==
  ASSUME ConfigInv, UNCHANGED <<configVars, up, present, prop, known, wish>>
  PROVE  ConfigInv'
BY DEF ConfigInv, ControlTypeOK, ConfigTypeOK, NothingWhenDown, ThingsFollowTable,
       WishesAreFiled, Of, configVars

LEMMA ConfigStep == ConfigInv /\ [Next]_vars => ConfigInv'
BY StartKeeps, CrashKeeps, CrashInWriteKeeps, ThingAddedKeeps, ThingRemovedKeeps,
   ClientSetsKeeps, WebKeepsConfig DEF Next, vars

LEMMA ConfigInitially == Init => ConfigInv
BY EntriesApart DEF Init, ConfigInit, ConfigInv, ControlTypeOK, ConfigTypeOK, NothingWhenDown,
   ThingsFollowTable, WishesAreFiled, Kind, Empty, Tables

LEMMA ConfigAlways == Spec => []ConfigInv
BY ConfigInitially, ConfigStep, PTL DEF Spec

(* The running daemon, its file and its things agree, wherever a crash has *)
(* cut a write.                                                            *)
THEOREM ThingsAlwaysFollowTable == Spec => []ThingsFollowTable
<1>1. ConfigInv => ThingsFollowTable
  BY DEF ConfigInv
<1>. QED
  BY <1>1, ConfigAlways, PTL

(* Settings survive things that leave and daemons that crash, but for the  *)
(* offsets that rules overwrite.                                           *)
THEOREM SettingsAlwaysSurvive == Spec => []SettingsSurvive
<1>1. ConfigInv => SettingsSurvive
  BY DEF ConfigInv, WishesAreFiled, ThingsFollowTable, SettingsSurvive, Survives, Kind
<1>. QED
  BY <1>1, ConfigAlways, PTL

-----------------------------------------------------------------------------
(* What a client shows.                                                    *)

Sent == [update : Updates, breaks : BOOLEAN]

(* Without the daemon nobody is connected; nothing is sent to a client     *)
(* that has lost its stream.                                               *)
Connections ==
  /\ ~up => ~online
  /\ deaf => queue = <<>>

WebInv ==
  /\ WebTypeOK
  /\ Connections
  /\ ViewCatchesUp

(* Whatever is taken from a table is an update.                            *)
LEMMA RestrictedIsUpdate ==
  ASSUME NEW tab \in Tables, NEW S \in SUBSET Entries
  PROVE  /\ Restricted(tab, S) \in Updates
         /\ DOMAIN Restricted(tab, S) = {x \in S : tab[x] # Unset}
         /\ \A e \in S : tab[e] # Unset => Restricted(tab, S)[e] = tab[e]
<1>. DEFINE D == {x \in S : tab[x] # Unset}
            f == [e \in D |-> tab[e]]
<1>1. Restricted(tab, S) = f
  BY DEF Restricted
<1>2. f \in [D -> Values] /\ D \in SUBSET Entries
  BY DEF Tables
<1>3. f \in Updates
  BY <1>2 DEF Updates
<1>. QED
  BY <1>1, <1>3

(* A broadcast keeps the types, and a broadcast value arrives, as does     *)
(* what it says nothing about.                                             *)
LEMMA BroadcastArrives ==
  ASSUME WebInv, NEW update \in Updates, Broadcast(update), history' \in BOOLEAN
  PROVE  /\ WebTypeOK'
         /\ deaf' => queue' = <<>>
         /\ \A e \in Entries, v \in Values :
              /\ online' /\ ~Breaks'
              /\ \/ e \in DOMAIN update /\ update[e] = v
                 \/ e \notin DOMAIN update /\ (online /\ ~Breaks => Arrives(e, v))
              => Arrives(e, v)'
<1>1. /\ online' = online /\ deaf' = deaf /\ view' = view
      /\ queue' = IF online /\ ~deaf THEN Append(queue, Message(update)) ELSE queue
  BY DEF Broadcast
<1>2. queue \in Seq(Sent) /\ Message(update) \in Sent
  BY DEF WebInv, WebTypeOK, Sent, Message
<1>3. queue' \in Seq(Sent)
  BY <1>1, <1>2
<1>4. WebTypeOK'
  BY <1>1, <1>3 DEF WebInv, WebTypeOK, Sent
<1>5. deaf' => queue' = <<>>
  BY <1>1 DEF WebInv, Connections
<1>6. ASSUME NEW e \in Entries, NEW v \in Values, online', ~Breaks',
             \/ e \in DOMAIN update /\ update[e] = v
             \/ e \notin DOMAIN update /\ (online /\ ~Breaks => Arrives(e, v))
      PROVE  Arrives(e, v)'
  <2>1. online /\ ~deaf /\ queue' = Append(queue, Message(update))
    BY <1>1, <1>6 DEF Breaks
  <2>2. /\ Len(queue') = Len(queue) + 1 /\ Len(queue) \in Nat
        /\ DOMAIN queue = 1 .. Len(queue) /\ DOMAIN queue' = 1 .. (Len(queue) + 1)
        /\ \A i \in 1 .. Len(queue) : queue'[i] = queue[i]
        /\ queue'[Len(queue) + 1] = Message(update)
    BY <1>2, <2>1
  <2>3. ~Breaks
    BY <1>6, <2>1, <2>2 DEF Breaks
  <2>4. CASE e \in DOMAIN update /\ update[e] = v
    <3>. PICK last \in Nat : last = Len(queue) + 1
      BY <2>2
    <3>1. SilentFrom(last + 1, e)'
      BY <2>2 DEF SilentFrom
    <3>2. last \in DOMAIN queue' /\ queue'[last].update = update
      BY <2>2 DEF Message
    <3>. QED
      BY <2>4, <3>1, <3>2 DEF Arrives
  <2>5. CASE e \notin DOMAIN update
    <3>1. \A i \in Nat \ {0} : SilentFrom(i, e) => SilentFrom(i, e)'
      BY <2>2, <2>5 DEF SilentFrom, Message
    <3>2. Arrives(e, v)
      BY <1>6, <2>1, <2>3, <2>5
    <3>3. CASE SilentFrom(1, e) /\ view[e] = v
      BY <1>1, <3>1, <3>3 DEF Arrives
    <3>4. CASE \E i \in DOMAIN queue : /\ e \in DOMAIN queue[i].update
                                       /\ queue[i].update[e] = v
                                       /\ SilentFrom(i + 1, e)
      <4>1. PICK i \in 1 .. Len(queue) : /\ e \in DOMAIN queue[i].update
                                         /\ queue[i].update[e] = v
                                         /\ SilentFrom(i + 1, e)
        BY <2>2, <3>4
      <4>2. SilentFrom(i + 1, e)' /\ i \in DOMAIN queue' /\ queue'[i] = queue[i]
        BY <2>2, <3>1, <4>1
      <4>. QED
        BY <4>1, <4>2 DEF Arrives
    <3>. QED
      BY <3>2, <3>3, <3>4 DEF Arrives
  <2>. QED
    BY <1>6, <2>4, <2>5
<1>. QED
  BY <1>4, <1>5, <1>6

(* The property, with the value that is used given a name.                 *)
LEMMA CatchesUpNext ==
  ASSUME prop' \in Tables,
         \A e \in Entries, v \in Values :
           online' /\ ~Breaks' /\ Of(e)' /\ prop'[e] = v => Arrives(e, v)'
  PROVE  ViewCatchesUp'
<1>. SUFFICES ASSUME NEW e \in Entries, NEW v, online', ~Breaks', Of(e)', prop'[e] = v, v # Unset
              PROVE  Arrives(e, v)'
  BY DEF ViewCatchesUp, Arrives
<1>1. v \in Values
  BY DEF Tables
<1>. QED
  BY <1>1

(* A step after which no more counts of a thing than before, and nothing   *)
(* else of what clients see has changed.                                   *)
LEMMA ViewStays ==
  ASSUME WebInv, UNCHANGED webVars, ~up' => ~online',
         \A e \in Entries : Of(e)' => Of(e) /\ prop'[e] = prop[e]
  PROVE  WebInv'
BY DEF WebInv, WebTypeOK, Connections, ViewCatchesUp, Breaks, Arrives, SilentFrom, webVars

(* When the daemon starts nobody is connected.                             *)
LEMMA StartKeepsView ==
  ASSUME WebInv, Start
  PROVE  WebInv'
BY DEF WebInv, WebTypeOK, Connections, ViewCatchesUp, Start, webVars

(* When it ends nobody is any more.                                        *)
LEMMA DownKeepsView ==
  ASSUME WebInv, Down
  PROVE  WebInv'
<1>1. /\ online' = FALSE /\ deaf' = FALSE /\ queue' = <<>> /\ history' = FALSE
      /\ view' = view
  BY DEF Down, WebDown
<1>2. <<>> \in Seq(Sent)
  OBVIOUS
<1>3. WebTypeOK'
  BY <1>1, <1>2 DEF WebInv, WebTypeOK, Sent
<1>. QED
  BY <1>1, <1>3 DEF WebInv, Connections, ViewCatchesUp

(* A new thing is broadcast with all that it starts with.                  *)
LEMMA ThingAddedKeepsView ==
  ASSUME ConfigInv, WebInv, NEW t \in Things, ThingAdded(t)
  PROVE  WebInv'
<1>. DEFINE new == WithStrategy(t)
            update == Restricted(new, SettingsOf(t))
<1>1. /\ up' = up /\ present' = present \cup {t} /\ prop' = WithSettingsOf(t, new)
      /\ Broadcast(update) /\ history' = history
  BY DEF ThingAdded
<1>2. new \in Tables
  BY StrategyKeepsSettings DEF ConfigInv
<1>. HIDE DEF new
<1>3. /\ update \in Updates
      /\ DOMAIN update = {x \in SettingsOf(t) : new[x] # Unset}
      /\ \A e \in SettingsOf(t) : new[e] # Unset => update[e] = new[e]
  BY <1>2, RestrictedIsUpdate DEF SettingsOf
<1>. HIDE DEF update
<1>4. /\ WebTypeOK'
      /\ deaf' => queue' = <<>>
  BY <1>1, <1>3, BroadcastArrives DEF WebInv, WebTypeOK
<1>5. Connections'
  BY <1>1, <1>4 DEF Connections, WebInv, Broadcast
<1>6. ASSUME NEW e \in Entries, NEW v \in Values, online', ~Breaks', Of(e)', prop'[e] = v
      PROVE  Arrives(e, v)'
  <2>1. prop'[e] = IF e \in SettingsOf(t) THEN new[e] ELSE prop[e]
    BY <1>1 DEF WithSettingsOf
  <2>2. CASE e \in SettingsOf(t)
    <3>1. e \in DOMAIN update /\ update[e] = v
      BY <1>3, <1>6, <2>1, <2>2, SettingsAssumption
    <3>. QED
      BY <1>1, <1>3, <1>6, <3>1, BroadcastArrives DEF WebInv, WebTypeOK
  <2>3. CASE e \notin SettingsOf(t)
    <3>1. Of(e) /\ prop[e] = v /\ e \notin DOMAIN update
      BY <1>1, <1>3, <1>6, <2>1, <2>3, EntriesApart DEF Of, SettingsOf
    <3>2. online /\ ~Breaks => Arrives(e, v)
      BY <3>1, SettingsAssumption DEF WebInv, ViewCatchesUp
    <3>. QED
      BY <1>1, <1>3, <1>6, <3>1, <3>2, BroadcastArrives DEF WebInv, WebTypeOK
  <2>. QED
    BY <2>2, <2>3
<1>7. prop' \in Tables
  BY ThingAddedKeeps DEF ConfigInv, ControlTypeOK
<1>. QED
  BY <1>4, <1>5, <1>6, <1>7, CatchesUpNext DEF WebInv

(* A thing that leaves is not counted; the clients are not told.           *)
LEMMA ThingRemovedKeepsView ==
  ASSUME ConfigInv, WebInv, NEW t \in Things, ThingRemoved(t)
  PROVE  WebInv'
<1>1. present' = present \ {t} /\ prop' = WithSettingsOf(t, Empty) /\ up' = up /\ UNCHANGED webVars
  BY DEF ThingRemoved
<1>2. ASSUME NEW e \in Entries, Of(e)'
      PROVE  Of(e) /\ prop'[e] = prop[e]
  <2>1. Of(e) /\ e \notin SettingsOf(t)
    BY <1>1, <1>2, EntriesApart DEF Of, SettingsOf
  <2>. QED
    BY <1>1, <2>1 DEF WithSettingsOf
<1>3. ~up' => ~online'
  BY <1>1 DEF WebInv, Connections, webVars
<1>. QED
  BY <1>1, <1>2, <1>3, ViewStays

(* Whoever sets it, the value is broadcast.                                *)
LEMMA ClientSetsKeepsView ==
  ASSUME ConfigInv, WebInv, NEW e \in Entries, NEW v \in Chosen, ClientSets(e, v)
  PROVE  WebInv'
<1>. DEFINE update == [x \in {e} |-> v]
<1>1. /\ up' = up /\ present' = present /\ prop' = With(prop, e, v)
      /\ Broadcast(update) /\ history' = history
  BY DEF ClientSets
<1>2. v \in Values
  BY StrategiesAssumption
<1>3. /\ prop' \in Tables
      /\ \A x \in Entries : prop'[x] = IF x = e THEN v ELSE prop[x]
  BY <1>1, <1>2, WithIsTable DEF ConfigInv, ControlTypeOK
<1>4. update \in Updates /\ DOMAIN update = {e} /\ update[e] = v
  <2>1. update \in [{e} -> Values] /\ {e} \in SUBSET Entries
    BY <1>2
  <2>. QED
    BY <2>1 DEF Updates
<1>. HIDE DEF update
<1>5. WebTypeOK' /\ (deaf' => queue' = <<>>)
  BY <1>1, <1>4, BroadcastArrives DEF WebInv, WebTypeOK
<1>6. Connections'
  BY <1>1, <1>5 DEF Connections, WebInv, Broadcast
<1>7. ASSUME NEW x \in Entries, NEW w \in Values, online', ~Breaks', Of(x)', prop'[x] = w
      PROVE  Arrives(x, w)'
  <2>1. CASE x = e
    BY <1>1, <1>3, <1>4, <1>7, <2>1, BroadcastArrives DEF WebInv, WebTypeOK
  <2>2. CASE x # e
    <3>1. Of(x) /\ prop[x] = w /\ x \notin DOMAIN update
      BY <1>1, <1>3, <1>4, <1>7, <2>2 DEF Of
    <3>2. online /\ ~Breaks => Arrives(x, w)
      BY <3>1, SettingsAssumption DEF WebInv, ViewCatchesUp
    <3>. QED
      BY <1>1, <1>4, <1>7, <3>1, <3>2, BroadcastArrives DEF WebInv, WebTypeOK
  <2>. QED
    BY <2>1, <2>2
<1>. QED
  BY <1>3, <1>5, <1>6, <1>7, CatchesUpNext DEF WebInv

(* A site update says nothing of settings.                                 *)
LEMMA SiteUpdateKeepsView ==
  ASSUME ConfigInv, WebInv, SiteUpdate, UNCHANGED <<up, present, prop>>
  PROVE  WebInv'
<1>. DEFINE update == Restricted(Empty, {})
<1>1. Broadcast(update) /\ history' = TRUE
  BY DEF SiteUpdate
<1>2. update \in Updates /\ DOMAIN update = {}
  <2>1. Empty \in Tables /\ {} \in SUBSET Entries
    BY DEF Empty, Tables
  <2>2. update \in Updates /\ DOMAIN update = {x \in {} : Empty[x] # Unset}
    BY <2>1, RestrictedIsUpdate
  <2>. QED
    BY <2>2
<1>. HIDE DEF update
<1>3. WebTypeOK' /\ (deaf' => queue' = <<>>)
  BY <1>1, <1>2, BroadcastArrives
<1>4. Connections'
  BY <1>1, <1>3 DEF Connections, WebInv, Broadcast
<1>5. ASSUME NEW x \in Entries, NEW w \in Values, online', ~Breaks', Of(x)', prop'[x] = w
      PROVE  Arrives(x, w)'
  <2>1. Of(x) /\ prop[x] = w
    BY <1>5 DEF Of
  <2>2. online /\ ~Breaks => Arrives(x, w)
    BY <2>1, SettingsAssumption DEF WebInv, ViewCatchesUp
  <2>. QED
    BY <1>1, <1>2, <1>5, <2>2, BroadcastArrives
<1>6. prop' \in Tables
  BY DEF ConfigInv, ControlTypeOK
<1>. QED
  BY <1>3, <1>4, <1>5, <1>6, CatchesUpNext DEF WebInv

(* A client that connects gets everything at once.                         *)
LEMMA OpenKeepsView ==
  ASSUME ConfigInv, WebInv, up, Open(prop), UNCHANGED <<up, present, prop>>
  PROVE  WebInv'
<1>. DEFINE update == Restricted(prop, Entries)
<1>1. /\ online' = TRUE /\ deaf' = FALSE /\ queue' = <<Snapshot(update)>>
      /\ history' = history /\ view' = view
  BY DEF Open
<1>2. /\ update \in Updates
      /\ DOMAIN update = {x \in Entries : prop[x] # Unset}
      /\ \A x \in Entries : prop[x] # Unset => update[x] = prop[x]
  BY RestrictedIsUpdate DEF ConfigInv, ControlTypeOK
<1>. HIDE DEF update
<1>3. Snapshot(update) \in Sent /\ Snapshot(update).update = update
  BY <1>2 DEF Snapshot, Sent, WebInv, WebTypeOK
<1>4. /\ queue' \in Seq(Sent) /\ Len(queue') = 1 /\ DOMAIN queue' = {1}
      /\ queue'[1].update = update
  BY <1>1, <1>3
<1>5. WebTypeOK' /\ Connections'
  BY <1>1, <1>4 DEF WebInv, WebTypeOK, Connections, Sent
<1>6. ASSUME NEW x \in Entries, NEW w \in Values, prop'[x] = w
      PROVE  Arrives(x, w)'
  <2>1. x \in DOMAIN update /\ update[x] = w
    BY <1>2, <1>6, SettingsAssumption
  <2>2. SilentFrom(2, x)'
    BY <1>4 DEF SilentFrom
  <2>. QED
    BY <1>4, <2>1, <2>2 DEF Arrives
<1>7. prop' \in Tables
  BY DEF ConfigInv, ControlTypeOK
<1>. QED
  BY <1>5, <1>6, <1>7, CatchesUpNext DEF WebInv

(* A client that has gone counts no more.                                  *)
LEMMA CloseKeepsView ==
  ASSUME WebInv, Close
  PROVE  WebInv'
<1>1. /\ online' = FALSE /\ deaf' = FALSE /\ queue' = <<>> /\ history' = history
      /\ view' = view
  BY DEF Close
<1>2. <<>> \in Seq(Sent)
  OBVIOUS
<1>3. WebTypeOK'
  BY <1>1, <1>2 DEF WebInv, WebTypeOK, Sent
<1>. QED
  BY <1>1, <1>3 DEF WebInv, Connections, ViewCatchesUp

(* What is received was under way before, and is shown then.               *)
LEMMA ReceiveKeepsView ==
  ASSUME ConfigInv, WebInv, Receive, UNCHANGED <<up, present, prop>>
  PROVE  WebInv'
<1>. DEFINE message == Head(queue)
<1>1. /\ queue # <<>> /\ deaf' = message.breaks /\ online' = online /\ history' = history
      /\ view' = [e \in Entries |-> IF e \in DOMAIN message.update
                                        THEN message.update[e] ELSE view[e]]
      /\ queue' = IF message.breaks THEN <<>> ELSE Tail(queue)
  BY DEF Receive
<1>2. queue \in Seq(Sent)
  BY DEF WebInv, WebTypeOK, Sent
<1>3. /\ message \in Sent /\ message = queue[1] /\ Len(queue) \in Nat \ {0}
      /\ DOMAIN queue = 1 .. Len(queue)
  BY <1>1, <1>2
<1>. HIDE DEF message
<1>4. view' \in Tables
  <2>1. \A e \in DOMAIN message.update : message.update[e] \in Values
    BY <1>3 DEF Sent, Updates
  <2>. QED
    BY <1>1, <2>1 DEF Tables, WebInv, WebTypeOK
<1>5. queue' \in Seq(Sent)
  BY <1>1, <1>2
<1>6. WebTypeOK' /\ Connections'
  BY <1>1, <1>3, <1>4, <1>5 DEF WebInv, WebTypeOK, Connections, Sent
<1>7. ASSUME NEW x \in Entries, NEW w \in Values, online', ~Breaks', Of(x)', prop'[x] = w
      PROVE  Arrives(x, w)'
  <2>1. ~message.breaks /\ queue' = Tail(queue) /\ ~deaf
    BY <1>1, <1>7 DEF Breaks, WebInv, Connections
  <2>2. /\ Len(queue') = Len(queue) - 1 /\ DOMAIN queue' = 1 .. (Len(queue) - 1)
        /\ \A i \in 1 .. (Len(queue) - 1) : queue'[i] = queue[i + 1]
    BY <1>2, <1>3, <2>1
  <2>3. ~Breaks
    <3>1. ASSUME NEW i \in 1 .. Len(queue), queue[i].breaks
          PROVE  FALSE
      <4>1. CASE i = 1
        BY <1>3, <2>1, <3>1, <4>1
      <4>2. CASE i # 1
        <5>1. i - 1 \in DOMAIN queue' /\ queue'[i - 1] = queue[i]
          BY <1>3, <2>2, <4>2
        <5>. QED
          BY <1>7, <3>1, <5>1 DEF Breaks
      <4>. QED
        BY <4>1, <4>2
    <3>. QED
      BY <1>3, <2>1, <3>1 DEF Breaks
  <2>4. Arrives(x, w)
    BY <1>1, <1>7, <2>3, SettingsAssumption DEF WebInv, ViewCatchesUp, Of
  <2>5. \A i \in Nat \ {0} : SilentFrom(i + 1, x) => SilentFrom(i, x)'
    BY <1>3, <2>2 DEF SilentFrom
  <2>6. CASE SilentFrom(1, x) /\ view[x] = w
    <3>1. x \notin DOMAIN message.update /\ SilentFrom(2, x)
      BY <1>3, <2>6 DEF SilentFrom
    <3>2. SilentFrom(1, x)'
      BY <2>5, <3>1
    <3>3. view'[x] = w
      BY <1>1, <2>6, <3>1
    <3>. QED
      BY <3>2, <3>3 DEF Arrives
  <2>7. CASE \E i \in DOMAIN queue : /\ x \in DOMAIN queue[i].update /\ queue[i].update[x] = w
                                     /\ SilentFrom(i + 1, x)
    <3>1. PICK i \in 1 .. Len(queue) : /\ x \in DOMAIN queue[i].update
                                       /\ queue[i].update[x] = w
                                       /\ SilentFrom(i + 1, x)
      BY <1>3, <2>7
    <3>2. SilentFrom(i, x)'
      BY <2>5, <3>1
    <3>3. CASE i = 1
      <4>1. view'[x] = w
        BY <1>1, <1>3, <3>1, <3>3
      <4>. QED
        BY <3>2, <3>3, <4>1 DEF Arrives
    <3>4. CASE i # 1
      <4>1. PICK j \in Nat : j = i - 1
        BY <3>4
      <4>2. j \in DOMAIN queue' /\ queue'[j] = queue[i] /\ j + 1 = i
        BY <1>3, <2>2, <3>4, <4>1
      <4>. QED
        BY <3>1, <3>2, <4>2 DEF Arrives
    <3>. QED
      BY <3>3, <3>4
  <2>. QED
    BY <2>4, <2>6, <2>7 DEF Arrives
<1>8. prop' \in Tables
  BY DEF ConfigInv, ControlTypeOK
<1>. QED
  BY <1>6, <1>7, <1>8, CatchesUpNext DEF WebInv

LEMMA ViewStep ==
  ASSUME ConfigInv, WebInv, [Next]_vars
  PROVE  WebInv'
<1>1. CASE UNCHANGED vars
  BY <1>1, ViewStays DEF vars, Of, webVars, WebInv, Connections
<1>2. CASE Next
  BY <1>2, StartKeepsView, DownKeepsView, ThingAddedKeepsView, ThingRemovedKeepsView,
     ClientSetsKeepsView, SiteUpdateKeepsView, OpenKeepsView, CloseKeepsView, ReceiveKeepsView
     DEF Next, Crash, CrashInWrite
<1>. QED
  BY <1>1, <1>2

LEMMA ViewInitially == Init => WebInv
<1>1. <<>> \in Seq(Sent)
  OBVIOUS
<1>. QED
  BY <1>1 DEF Init, WebInit, WebInv, WebTypeOK, Connections, ViewCatchesUp, Empty, Tables, Sent

LEMMA ViewAlways == Spec => [](ConfigInv /\ WebInv)
BY ConfigInitially, ViewInitially, ConfigStep, ViewStep, PTL DEF Spec

(* Every connected client will show what the things use, whoever set it    *)
(* and whoever was there first.                                            *)
THEOREM ViewsCatchUp == Spec => []ViewCatchesUp
<1>1. ConfigInv /\ WebInv => ViewCatchesUp
  BY DEF WebInv
<1>. QED
  BY <1>1, ViewAlways, PTL

(* The types of all that the settings pass through.                        *)
THEOREM SettingsTypesCorrect == Spec => []TypeOK
<1>1. ConfigInv /\ WebInv => TypeOK
  BY DEF ConfigInv, ControlTypeOK, WebInv, TypeOK
<1>. QED
  BY <1>1, ViewAlways, PTL
=============================================================================
