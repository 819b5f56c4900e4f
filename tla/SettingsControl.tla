-------------------------- MODULE SettingsControl ---------------------------
(***************************************************************************)
(* The way of a setting: from a client through the web server to its thing,*)
(* from the thing to the file and to all clients, and back from the file   *)
(* when the thing or the daemon returns.                                   *)
(*                                                                         *)
(* When a thing is added its handlers run in the order in which AppBackend *)
(* constructs them: ConfigRepository applies what is persisted and then    *)
(* subscribes, RuleEngine makes the strategy, which may set an offset of   *)
(* its own, and WebServer tells the clients what came out.                 *)
(***************************************************************************)
EXTENDS WebServer

CONSTANTS
  Wallboxes,       \* the things WallboxStrategy is made for
  Rules,           \* the things RuleActuationStrategy is made for
  OffsetsMentioned, \* the things whose offset each one's rule mentions
  Chosen           \* bound: the values that clients choose

ASSUME StrategiesAssumption ==
  /\ Wallboxes \subseteq Things /\ Rules \subseteq Things
  /\ Wallboxes \cap Rules = {}
  /\ \A t \in Wallboxes \cup Rules : Offset(t) \in Settings
  /\ Chosen \subseteq Values
  /\ OffsetsMentioned \in [Rules -> SUBSET Things]

VARIABLES
  up,       \* the daemon runs
  present,  \* ThingRepository::things
  prop,     \* the properties of the things, and Impl::thingInterval
  known,    \* the rules' things with a symbol "<id>.offset"
  wish      \* history: what clients set last, since a write was cut short

vars == <<configVars, webVars, up, present, prop, known, wish>>

TypeOK ==
  /\ ConfigTypeOK /\ WebTypeOK
  /\ up \in BOOLEAN
  /\ present \subseteq Things
  /\ prop \in Tables /\ wish \in Tables
  /\ known \subseteq Things

Init ==
  /\ ConfigInit /\ WebInit
  /\ up = FALSE
  /\ present = {} /\ known = {}
  /\ prop = Empty /\ wish = Empty

-----------------------------------------------------------------------------
(* Start and end of the daemon.  *)

Start ==
  /\ ~up
  /\ parseConfigFile
  /\ up' = TRUE
  /\ prop' = With(Empty, Interval, Parsed[Interval])
  /\ UNCHANGED <<webVars, present, known, wish>>

Down ==
  /\ up' = FALSE
  /\ present' = {} /\ known' = {} /\ prop' = Empty
  /\ WebDown

Crash == up /\ Down /\ Forget /\ UNCHANGED wish

-----------------------------------------------------------------------------
(* Things.  *)

(* Creating a rule enters its symbols.  *)
KnownWith(t) == known \cup IF t \in Rules THEN OffsetsMentioned[t] ELSE {}

(* What a wallbox would get if its strategy did not ask the configuration.  *)
InitialOffsetFixed(t) ==
  IF t \in Wallboxes \cup (Rules \cap KnownWith(t)) THEN Default ELSE table[Offset(t)]

(* WallboxStrategy::from reads the offset; RuleActuationStrategy::from     *)
(* sets its own if the table of symbols has one.  Otherwise it is as       *)
(* ConfigRepository has set it.                                            *)
InitialOffset(t) ==
  IF t \in Wallboxes THEN valueOr(Offset(t), Default)
  ELSE IF t \in Rules \cap KnownWith(t) THEN Default
  ELSE table[Offset(t)]

(* setPropertiesTo, and the strategy's offset, which is published and      *)
(* hence persisted.                                                        *)
WithStrategy(t) == With(table, Offset(t), InitialOffset(t))

WithSettingsOf(t, tab) ==
  [e \in Entries |-> IF e \in SettingsOf(t) THEN tab[e] ELSE prop[e]]

ThingAdded(t) ==
  /\ up /\ t \notin present
  /\ present' = present \cup {t}
  /\ known' = KnownWith(t)
  /\ persistProperties(WithStrategy(t))
  /\ prop' = WithSettingsOf(t, WithStrategy(t))
  /\ Broadcast(Restricted(WithStrategy(t), SettingsOf(t)))
  /\ UNCHANGED <<history, up, wish>>

(* Clients are not told.  A thing that returns is a new object.  *)
ThingRemoved(t) ==
  /\ up /\ t \in present
  /\ present' = present \ {t}
  /\ prop' = WithSettingsOf(t, Empty)
  /\ UNCHANGED <<configVars, webVars, up, known, wish>>

-----------------------------------------------------------------------------
(* Clients.  *)

(* What a client may set: WebAppRouter::route takes the interval, a thing  *)
(* takes the rest if it is there; otherwise nothing happens.               *)
Settable == {Interval} \cup {e \in Settings : e[1] \in present}

(* Any client, this one or another.  RuleEngine hears of the offset of a   *)
(* rule's thing and enters its symbol.                                     *)
ClientSets(e, v) ==
  /\ up /\ e \in Settable
  /\ prop' = With(prop, e, v)
  /\ persistProperties(With(table, e, v))
  /\ known' = known \cup {t \in Rules : e = Offset(t)}
  /\ Broadcast([x \in {e} |-> v])
  /\ wish' = With(wish, e, v)
  /\ UNCHANGED <<history, up, present>>

(* The tables that the next write of the file may be about.  *)
Writes ==
  {With(table, e, v) : e \in Settable, v \in Chosen} \cup
  {WithStrategy(t) : t \in (Wallboxes \cup Rules) \ present}

CrashInWrite ==
  /\ IF up THEN \E new \in Writes : ForgetInWrite(new)
           ELSE file # Broken /\ ForgetInWrite(Parsed)
  /\ Down
  /\ wish' = Empty

Next ==
  \/ Start \/ Crash \/ CrashInWrite
  \/ \E t \in Things : ThingAdded(t) \/ ThingRemoved(t)
  \/ \E e \in Entries, v \in Chosen : ClientSets(e, v)
  \/ /\ up /\ (SiteUpdate \/ Open(prop) \/ Close \/ Receive)
     /\ UNCHANGED <<configVars, up, present, prop, known, wish>>

Spec == Init /\ [][Next]_vars

-----------------------------------------------------------------------------
(* Properties.  *)

Of(e) == e = Interval \/ e[1] \in present

Survives(e) == up /\ Of(e) /\ wish[e] # Unset => prop[e] = wish[e]

(* A setting that a client chose is what the running daemon uses, however  *)
(* often the thing leaves and returns or the daemon crashes and starts     *)
(* again, unless a write of the file is cut short.  Left out are the       *)
(* offsets of the things that a rule switches.                             *)
SettingsSurvive ==
  \A e \in Entries \ {Offset(t) : t \in Rules} : Survives(e)

(* The same for the offsets that are left out: "Apply properties to thing  *)
(* that got persisted before" (ConfigRepository.cpp:41).                   *)
EverySettingSurvives == \A e \in Entries : Survives(e)

(* Even with writes cut short, the running daemon, its file and its things *)
(* agree: whatever the configuration has of a thing, its strategy and the  *)
(* clients use.                                                            *)
ThingsFollowTable ==
  up => file = table /\ \A e \in Entries : Of(e) => prop[e] = table[e]

(* The client will show v of e when all that is under way has arrived: the *)
(* last message about e says so, or there is none and it shows v already.  *)
SilentFrom(i, e) == \A j \in i .. Len(queue) : e \notin DOMAIN queue[j].update

Arrives(e, v) ==
  \/ SilentFrom(1, e) /\ view[e] = v
  \/ \E i \in DOMAIN queue :
       /\ e \in DOMAIN queue[i].update /\ queue[i].update[e] = v
       /\ SilentFrom(i + 1, e)

Breaks == deaf \/ \E i \in DOMAIN queue : queue[i].breaks

(* A connected client that has not lost its stream will show what the      *)
(* things use as soon as all messages have arrived, whoever set it, and    *)
(* whether the thing or the client was there first.                        *)
ViewCatchesUp ==
  online /\ ~Breaks =>
    \A e \in Entries : Of(e) /\ prop[e] # Unset => Arrives(e, prop[e])
=============================================================================
