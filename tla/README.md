# A verification of iotic

iotic is a daemon that manages the power of a household. It polls things
(inverters, meters, wallboxes, relays) on the local network, computes the
power that the site exchanges with the grid, and steps consumers up and down so
that surplus power is used. This directory holds TLA+ modules that model it,
TLC configurations that check them and theorems that TLAPS proves about them.

## The system

Everything runs on one libuv loop: there are no threads, but a handler is
entered for every timer, message and property update, and handlers call each
other through observables (a `publish` runs its subscribers before it returns).
The hard part is therefore not data races but the order of events: a cached
property against the device it stands for, a question with a side effect, a
clock shared by all consumers, things that leave and return.

| Component | State | Operations | Talks to |
|---|---|---|---|
| `strategies/PowerManager` | time of the last step | one handler of site updates | asks and adjusts every strategy |
| `strategies/StrategyRepository` | sorted list of strategies | `addStrategy`, thing removed | read by PowerManager |
| `strategies/MultiPhaseStrategy` | commanded phases, two cursors, phase limit, energy | `wantsToStepDown`, `wantsToStepUp`, `adjust`, input event | sets and reads its thing's properties |
| `shelly/ShellyGen2Thing` | property cache, next switch to set | `setProperties`, status report | the relay, over HTTP |
| `strategies/WallboxStrategy` | phases, next phases, offset, readings | the same three, property events | its thing |
| `rules/*` | symbol table, dependent and subscribed things, latched requests | thing added or removed, property events, the same three | ThingRepository, PowerManager |
| `config/ConfigRepository` | table of the configuration, the file | read at start, apply to new things, persist on property events | every strategy reads it |
| `database/*` | raw data, archives, last values | put, archive, read | property events, web server |
| `things/ThingsManager`, `stats/StatsDaily` | polling timer, daily sums | timer, reports of inverters | ThingRepository |
| `things/ThingDiscovery` | discovery timer | a cycle on every protocol, one handler per protocol | ThingRepository |
| `coap/*` | none | message codec, discovery request, a thing with two flaps | ThingDiscovery |
| `webserver/*` | connected clients | snapshot, broadcast, settings of clients, HTTP routes | ThingRepository, database |
| `webapp/*` (Dart) | things, charts, sockets | web socket events, requests | web server |

What makes each correct:

* **PowerManager**: one step at a time, with its distance from the last one; the
  least important consumer gives way first and the most important one is served
  first; nobody is stepped up while somebody wants to step down; every
  strategy is adjusted once per update; persistent requests are served.
* **MultiPhaseStrategy**: its cursors agree with the phases it commands, phases
  wear evenly, the limit holds, no energy is lost, and with an unreliable relay
  the phases end up where inputs and surplus want them.
* **WallboxStrategy**: the two questions and the hysteresis fit together, a
  phase gets less current than a car needs only while a load passes, off wins.
* **Rules**: a request is served or superseded, symbols follow their things.
* **Configuration**: what a client chose is what its thing uses, over things that
  leave and daemons that crash; memory, file and things agree.
* **Web server and web app**: a client shows what the things use, whoever changed it
  and whether client or thing was there first; the chart is the archive.
* **Polling and daily sums**: no two polls in a row are missed; the energy of a day
  counts its time once.
* **Discovery and CoAP**: a message decodes as it was sent; only nodes become
  things; a node that stays is shown as it is again and again, though datagrams are
  lost, repeated and reordered.
* **Database**: decompressing a compressed day gives the day; an archive agrees
  with the raw data of a past day.

The hazards, with the lines where they bite and the properties that cover them,
are listed in `PROJECT.json`.

## Modules

```
DebouncedSteps      what PowerManager promises (abstract)
  ^ refined by
PowerManager        StrategyRepository and the site handler; strategies want anything
  | EachSeesAnOutcome
  v
StrategyUpdate      an update as one strategy sees it (assume)
  ^ extended by          ^                           ^
RelayControl             WallboxStrategy             RuleControl
  MultiPhaseStrategy                                   RuleEngine
    ShellyGen2Thing

Database            what is kept of the powers that a thing reports
  DatabaseUtil      codec of the archives, in the daemon
  CborDecoder       their decoder in the web app

SettingsControl     the way of a setting: client, thing, file, all clients, and back
  WebServer         snapshot, broadcasts and what a client shows
    ConfigRepository  table, file and what a crash leaves of it

StatsDaily          the energy of a day, from the answers to polls
  ThingsManager     the timer that polls

ThingDiscovery      the five handlers of discovery, and UDP
  CoapMessage       its codec
```

The composition is assume/guarantee: PowerManager leaves what the strategies
answer open, and it is checked and proved that each of them sees one of the outcomes
of `StrategyUpdate!Outcomes`; the strategies are checked against every such
outcome, whatever the others do. A combined model would multiply the states and
show no more, as strategies share nothing but the clock.

**PowerManager**. `strategies` is `_strategies`, front first. `sinceStep` is
`siteProperties.ts - _lastStepTs`, saturating at the longer debounce time.
`SiteUpdate(D, U)` is the whole handler: `DownPass`, `UpPass` and the Keep
pass, where D and U are the strategies that would answer yes. The variables
`wantsDown` to `kept` record the last update. `TimePasses` separates updates;
several updates may share a unit of time, and units may pass without one.

**StrategyUpdate**. An outcome says whether the strategy was asked each question
(asking has side effects), which step it was adjusted with and whether anybody's
step restarted the clock.

**ShellyGen2Thing**. `states` and `inputs` are the cached properties. `SetStates`
caches what is commanded and sends one switch of it; `StatusReport` overwrites
the cache with what the relay really does; `BadReport` is a body that does not
parse, which is published as two empty vectors.

**MultiPhaseStrategy**. `WantsToStepDown`, `WantsToStepUp` with the side effect
`Asked`, and `Keep`, `Down`, `Up` for `adjust`; `InputEvent` is the subscription
to the inputs. Ages and energies saturate.

**RelayControl** composes the two under StrategyUpdate: a site update, the relay
executing or losing the request, reports, unparsable reports.

**WallboxStrategy** is a module of its own with the wallbox as an environment that
reports any of a set of powers, voltages and statuses.

**RuleEngine** is the constructor's two handlers and what they subscribe:
`dependent` and `subscribed` are its two sets, `heard` the subscriptions that
exist, `known` and `symbol` the symbol table. `ThingAdded` works off the
dependencies before and after the strategy is created, as the code does.
`left` is a history variable. **RuleControl** adds RuleActuationStrategy (`state`,
`nextState`) under StrategyUpdate; its expressions are operators given as
constants, over the symbols of things and the grid power of the site.

**Database** is one map of datapoints and its map of archives. `Report` is the
handler of property events with `putDatapoint`, `archivedData` the request of the web
server with `ArchiveDayUseCase`; `Restart` loses `lastValues`. `reported` is a history
variable. **DatabaseUtil** holds its pure functions, a datapoint being a sequence
of numbers cut off to 16 bits (`Int16`, its width a constant); CBOR is modelled
as the arrays that are written, not their bytes. **CborDecoder** is the Dart
decoder, which sums in wide integers and draws the slots of a day.

**ConfigRepository** is the table in memory and the file, with an entry per section
and key. `persistProperties` rewrites the whole file; `Remains` is what a crash in
that may leave: some sections, one of them cut at any line, or a file that does not
parse. A missing or empty file is the empty table.

**WebServer** is one client, which stands for each. Its socket keeps the order
(`queue`); `view` is what the app shows and outlives the socket. `Open` is the
subscription with the snapshot, `Receive` the merge in the app; `deaf` is a stream
that an exception has ended while the socket stays. A message has the values of some
entries; the snapshot, several messages sent at once, is one.

**SettingsControl** composes the two. `ThingAdded` is the whole chain of handlers in
the order in which AppBackend constructs them: the persisted settings are applied,
the strategy is created with its offset (`InitialOffset`), which is persisted in
turn, and the clients are told. `ClientSets` is a message from any client, with what
it changes in things, symbols, file and clients. `Crash` is an end of the daemon
between two writes, `CrashInWrite` one in the middle of any write it may be about to
do. `wish` is a history variable.

**ThingsManager** counts time in fractions of a tick; a tick is late by up to `Drift`
and delays add up. `Rounded` and `Due` are the computation of the handler.
**StatsDaily** is one string of one inverter; `first`, `low` and `high` are history
variables that bound what was reported. An answer may come at any time before the
next poll, which replaces it, or never.

**CoapMessage** is `encode` and `decode` byte by byte, with 16 bit numbers that wrap.
The options are encoded in the order given, as the code does. The loop of the decoder is
a recursive function on the number of rounds, with a state a round leaves as it is for
its result (`OptionsFrom`). `Encodable` are the messages that fit into a datagram.
**ThingDiscovery** has
an action per handler; `network` is the set of datagrams under way, which may be
received any number of times, in any order, or lost. Every datagram passes through
the codec: `Transmissions` has what the daemon makes of each. mDNS, Modbus and SunSpec are an environment that finds any host.

In PowerManager, WallboxStrategy and RuleControl the variable `beat` is the parity
of the site updates. It has no counterpart in the code: it makes an update that
changes nothing else a step, so that fairness of updates does not rule out
a site whose readings stay as they are.

## Runs

| Run | Bounds | Shows |
|---|---|---|
| power_manager | 3 things, two priorities of which two things share one, debounce 2 and 3 | order, promise, service |
| relay_control | 2 phases, debounce 4 and 5, limit duration 2, a day of 3 updates, one request lost after each step | cursors, wear, limit, energy; the relay ends up where it should |
| wallbox | powers in units of 230 W, at the thresholds, four offsets, balanced voltages, a short term grid power above, at and below the long term one | the questions, the hysteresis and the current fit; off wins, surplus charges |
| rule_control | a plug whose rule mentions a meter, a meter without a strategy, a wallbox without a rule; two readings, two grid powers, debounce 2 and 3 | subscriptions, and the way of a request from a thing to the plug |
| database | a thing with one string and three powers, days of three slots of two units, integers of three bits; a whole day, and the first units of the next | what is kept, archived and drawn |
| settings | a wallbox, a plug with a rule, three settings and the polling interval, two values of which clients choose one, two messages under way | settings survive, memory, file and things agree, clients catch up |
| discovery | two nodes, two readings, a host, three messages of others with options at the boundaries of the encoding | the codec, who becomes a thing, readings catch up |
| stats_daily | a tick of 8 units, a second of two ticks, an interval of 2 s, delays of one unit, days of 7 s, two of them | polls and daily sums |
| relay_restart, wallbox_shown, rule_return, settings_overwritten | as above | disagreements, see below |

Why the bounds are enough. Debounce times matter only by comparison; 2 and 3 have
all the orders of "due for down", "due for up" and "not due". Three things give a
list with a first, a middle and a last, and equal priorities in both orders of
arrival. Two phases give the ring a cursor that wraps in both directions; three
phases were checked once with the same result and left out to keep the runs short,
and the proofs hold for any number. The unit of time of RelayControl is a site
update: the thing is polled every ten seconds, the site publishes with it, and a
debounce time has at least twelve of them, so the assumption that the relay has been
sent each switch between two steps (`ControlAssumption`) holds for every relay that
is sold.

The powers of `database` give differences that fit into three bits and some that do
not, and averages that are rounded both ways; three slots are enough for a first
entry, a skipped one and a change. The daemon is installed at midnight of day 1,
as day 0 cannot tell the start of a day from its first entry.

In `settings` a wallbox and a plug are the two kinds of strategies with an offset,
and the entries outside offsets behave alike, so a name stands for them. Two values
suffice to tell a chosen one from the default and from none. Two messages under way
let a change follow a snapshot or another change; the bound is a guard. A file that
does not parse stops the daemon for good, hence CHECK_DEADLOCK FALSE.

In `discovery` the options have numbers and lengths of 12, 13, 268, 269 and 65535,
and their neighbours, in ascending and descending order: every branch of the encoding
and the wrap. The delays of `stats_daily` add up to a tick and more, so that the
multiple of the interval is jumped over as well as hit twice; its time ends after two
days, hence CHECK_DEADLOCK FALSE.

Fairness. The site is published and things are polled on a timer that never
stops: site updates, the clock, a status report of unchanged inputs and an
answer to a request are weakly fair. Nothing else is: things need not join or
leave, inputs need not change, requests may be lost (up to the bound), and the
other strategies rest only where a property says so (`OthersRest`): without it
they may use every step of the common clock.

The timer of `discovery` never stops: a cycle is weakly fair. A node that is there
answers, and its answer arrives, infinitely often if that is possible infinitely
often: strong fairness, as requests and answers get lost in between. That is the
least under which anything can be said over UDP; a message of others, a duplicate or
a change need never happen.

`database`, `settings` and `stats_daily` have safety properties only and no fairness.

### Disagreements

* **relay_restart**. The strategy starts with all phases off and both cursors at
  the first phase. If the daemon starts while the relay is on, the first step
  down is decided on the reported states and moves one cursor only. From then on
  the ring is broken: a phase that is on is no longer the next one to step down,
  and stays on with an inactive input, against the comment in `wantsToStepDown`.
  In `relay_control` the relay is off at the start.
* **wallbox_shown**. An update in which nobody is stepped asks both questions, and
  `wantsToStepUp` comes last: it overwrites `_nextPhases` with what it would step up to,
  counting a negative offset and the hysteresis, which `wantsToStepDown` does not.
  `adjust` publishes it as `next_phases` whatever the answer was. In the trace a car
  charges on one phase; the power is enough to keep the phase, but not to
  switch it on. Neither question is answered yes, `next_phases` is 0, and the web app
  shows a car that is about to be switched off though nothing will happen.
* **rule_return**. A meter that a rule mentions and that has no strategy leaves the
  network and returns: it is in neither set of RuleEngine, and nobody
  subscribes to it until some other strategy is created. Its symbols keep
  their last values. `NeededAreHeardUntilTheyLeave` is what does hold.
* **settings_overwritten**. Creating the strategy of a rule sets the offset of its
  thing to the default if the table of symbols has that offset, which persists the
  default over what a user chose. The symbol exists once somebody has set the offset
  while the thing was there, so that a thing that leaves and returns loses the
  offset; without the symbol it keeps it. `SettingsSurvive` has all other settings.

### Observations

* `putDatapoint` writes changes only. A day on which a power never changes has no
  raw data and no archive, and the chart of a day ends with its last change: a
  power that is constant all evening is drawn as zero. An average counts
  changes, not how long they lasted.
* Watts become decawatts by adding 5 and cutting off: -14 W to 4 W are 0.
* The symbols of a thing that is absent keep their values: its rules go on with
  them (`OffReachesPlug` has the presence of the things as a premise).
* RuleActuationStrategy looks at its expressions only when it is asked: a pulse
  within the debounce time, or in an update in which another strategy steps
  first, leaves no trace. If both expressions hold, the plug is switched off
  and on in turn, as fast as the debounce times allow.
* Clients are not told that a thing is gone. What they set for it is lost without an
  answer, and they go on showing it.
* A client that connects before the first site update gets an empty history. The app
  takes its last element (`web_socket_service.dart:150`), throws, and shows nothing
  new until it is resumed: `ViewCatchesUp` leaves such clients out. (It throws on values
  it does not know, too; the model has the first way only.)
* The file is truncated and rewritten in place. What a crash leaves of it may parse,
  and then the settings that are missing fall back to their defaults, or may not: then
  every further start ends with an exception.
* The configuration has a discovery interval; AppBackend passes 60 s. The phase limit
  recovers after 120 minutes; a comment says 90 and a test 30.
* `CoapMessage::encode` sorts a copy of the options and sends the unsorted ones. Its
  own decoder gives them back, because differences wrap in both; others need not.
* Nobody looks at message ids. A late duplicate of a reading is shown as a new one:
  `ReadingsCatchUp` is as much as holds. CoAP things never fail and so are never
  removed, and a datagram with a payload that is not CBOR ends the daemon.
* The sum of StatsDaily is an int of Ws: it overflows above an average of 24 kW over a
  day. It is indexed by the size of the first report of the day.
* A wallbox gets its phases from the long term grid power and its current from the short
  term one, and nothing keeps the current at 6 A or above zero: a passing load
  can take it below, until the phases follow. `EnoughCurrent` says that there is no
  other reason.
* With only some inputs active, MultiPhaseStrategy steps a phase up (its own
  input is active) and down again (not all are), for as long as there is surplus.
* A strategy that keeps asking to step down is served every 120 s, which keeps
  every step up (180 s) waiting: `UpIsServed` has this as its premise.
* `StrategyRepository.cpp:20` says "lowest priority first", the comparison sorts
  the highest first; `PowerManager.cpp:40` says "in reverse order", the loop runs
  forwards.
* A clock that is set back stops all steps until it has caught up; the models
  let time only advance.

## Proofs

`PowerManager_proofs` proves for every set of things, all priorities and all
debounce times with 0 <= down <= up and 0 < up:

* `Spec => []IInv`, where IInv is the type invariant, the sorted list, and what
  the last update left behind. `SortedList` alone is inductive only with the
  types (a priority is compared); the properties of the last update are
  consequences of SortedList at the time of the update, so IInv holds all of
  them together.
* `TypeCorrect`, `ListStaysSorted`, `StepsFollowPriority`, `DownBeforeUp`: its
  parts, as invariants of Spec.
* `EveryoneIsAdjusted`: the action property, from the sorted (hence duplicate
  free) list and lemmas on removing an element from a sequence.
* `EveryoneSeesAnOutcome`: the assumption of the strategies' modules holds, for
  any number of strategies. The three cases of an update (`SiteUpdateCases`),
  and whether a strategy is at, before or behind the position of the one that
  was stepped, give the six outcomes.
* `PromiseIsKept`: PowerManager implements DebouncedSteps; one step lemma per
  action, with the refinement mapping written out in PowerManager.

They rest on lemmas about `LastOf`, `FirstOf`, `InsertAt` and `RemoveAt`, stated
in the same module, and on the assumptions of PowerManager only.

`WallboxStrategy_proofs` proves the wallbox properties for all powers, voltages and
hystereses. Besides the types everything rests on `UpWithinDown`: on any
readings, what the strategy would step up to is no more than what it would keep.
`NeverBoth` and `NotTakenBack` follow by comparison, and the steps from `PhaseChange`,
which says which question a new number of phases is the answer of. `EnoughCurrent` is
about the current that `adjust` sets from the short term power, while the phases come
from the long term one: `KeptPhasesGetEnough` compares the two, with a lemma about
quotients. `OffAssumption` is needed for `UpWithinDown`: -32768 W must be more than any
site can feed in.

`RuleControl_proofs` proves the subscriptions for every set of things and rules.
`NeededAreHeardUntilTheyLeave` is not inductive: a thing that is mentioned and
absent must be waited for, or nobody would subscribe when it joins. `EngineInv`
adds that (`MentionedAreWaitedFor`), that the symbols of every rule are in the
table (`SymbolsAreKnown`, or the handler would not find its dependencies), and
that a thing with a strategy is subscribed to however often it returns
(`StrategiesAreHeard`). `SwitchedAsAsked` holds in every step without an invariant.

`Database_proofs` proves that nothing is lost by skipping repeated values, and that
an archive stays what the day was, for any codec: `DatabaseInv` adds that no entry
is newer than now, so that a report cannot touch a day that has passed, and
that what is in memory is what was reported last. `DatabaseTypesCorrect` rests on the
same invariant.

`NothingIsLostInArchives` and `TheChartIsTheArchive` prove what the codec keeps of a day,
for any width of the differences, resolution, length of a day and powers, if a thing
reports as many powers each time (`ReportsAreAlike`; the code indexes without a check).
The recursions of the codec are followed with one concrete set of positions at a time
instead of the library's induction: a set that has the first position, and the next one
of each it has, has all (`AllPositions`, from `LeastNat`), and a recursion along
positions has a solution (`Iterates`). Along deltaCompress the invariant is `Kept`: the
entries written so far decode to entries in order of time whose last one says what the
last entry read says, and each entry read is held at its time. An entry is skipped only
if it repeats the last one (`NoDifference`), and otherwise the decoder's sum in 16 bits
gives it back although the difference was cut off (`DifferenceGivesBack`). The web app
sums in wide integers: there the differences must fit (`DifferenceFits`), which is the
premise of `ChartShowsArchive`. The average of downsample is a sum over a set, of which
only the type matters (`AverageOfPowers`).

`RelayControl_proofs` proves the ring of the phases for any number of them, if the
relay is off when the daemon starts (`RelayIsOff`; without it the run relay_restart
refutes the property). `OnPhasesAreARing` alone is far from inductive: the questions
are answered from a cache that may show what was long ago. `RingInv` adds why that
does no harm. A phase whose switch is not as commanded has been sent a limited number
of times since the last step, and each time but the one under way was lost
(`BehindForAWhile`); with `ControlAssumption` no phase is behind when the debounce
time is over (`CaughtUp`). So only the phase that was switched last can be behind, or
shown wrongly (`OnlyTheLast`), and the cursor of the next step is never at that one
unless there is a single phase (`UpIsOff`, `DownIsOn`). The ring is stated with
distances instead of remainders, and counted with a bijection (`ArcSize`).
`PhasesWearEvenly` adds that ages fall along the ring.

`RelayTypesCorrect`, `StepsUpAreLimited` and `PublishedEnergyNeverFalls` are about the
same module. The published energy is a sum over the set of the phases that are on, which
the community modules define as a recursive function on the subsets of that set. The
library's induction theorems cannot be used for it; `SmallestSet` (a set of sets of
phases has a smallest member) does the same for one concrete statement at a time. From it
follow that the sum exists (`SumExists`), that it does not depend on the order in which
its terms are chosen (`EnergyTakesOut`), and that it grows with them (`EnergyGrows`).
`EnergyIsAccounted` says that the energy is always that of the steps made and of the
phases that are on. The limit and the energy both rest on `UpSeesTheRelay`: a step up
sees the relay as it is commanded, because what is shown wrongly was reported after the
last update while the phase was behind (`StaleForAWhile`). That needs, besides
`RelayIsOff`, that a step up waits longer than a step down (`UpWaitsLonger`; 180 s and
120 s in ConfigRepository.h). It is not idle: with equal times and as many lost requests
as `ControlAssumption` allows TLC finds a phase that is not counted, and the limit is
exceeded by one, and, with a single phase, one that is switched on again, which forgets
the energy it has delivered.

`SettingsControl_proofs` proves the way of a setting for every set of things, settings
and values, whatever the rules mention, and any bound on the messages under way.
`SettingsSurvive` speaks of the running daemon only; `ConfigInv` adds what carries it
over a restart, that the file has what clients chose (`WishesAreFiled`), and that
nothing is present while the daemon is down. `ViewCatchesUp` rests on
`ThingsFollowTable` and on lemmas about the last message under way that has an entry,
when one is appended or taken.

`StatsDaily_proofs` proves the daily sums for all powers, delays and lengths of a day:
`StatsInv` adds that the first and the last report of a sum are of its day and not in
the future. `PollsAreNotMissedTwice` is about the timer. `TimerInv` counts how often it
has fired since the last poll and how late it is (`OnBeat`): it has not been so late that
a tick was skipped, or one was skipped before the next multiple of the interval, or the
multiple itself was, and then the delays until the one after it are too short to skip
another (`BeatGoesOn`).

The proofs about relays, wallboxes and rules each begin with `StepsWereAsked`: what a
strategy knows about its questions when it is stepped.

`ThingDiscovery_proofs` proves that the codec gives back every message of `Encodable`,
not only those a node sends (`DecodeGivesBack`). A nibble and its further bytes are read
back as the number they stand for (`ExtendedIs`, `NumberIs`), and a difference that has
wrapped leads to the number it was taken from (`DeltaLeadsBack`); so an option that is
held by the data at some place is read from there (`HoldsAt`, `OptionAtIs`). The encoded
options lie one behind the other (`Lined`, `HoldsFlattened`). The state after each round
of the decoder is written down (`StateAfter`, `RoundReads`) and reached from the one before
with `AllPositions`; it has as many rounds as there are options, and then stands before
the payload or at the end (`LoopEnds`). Over this, `DiscoveryInv` says that only requests, answers and strays
are under way. It rests on the assumption that the tokens of others do not begin as those
of a node do: the daemon has nothing else to tell them by.

The type invariants of PowerManager, WallboxStrategy, RuleControl and SettingsControl
are proved, and no run checks them; those of RelayControl and Database are proved and
checked.

Model-checked only: liveness (`DownIsServed`, `UpIsServed`, `InactiveInputSwitchesOff`,
`SurplusSwitchesOn`, `OffStaysOff`, `SurplusCharges`, `LatchIsServed`, `OffReachesPlug`,
`ReadingsCatchUp`), which is out of the prover's reach. Every other property that a
passing run checks is also proved.

## Not modelled

The protocols and libraries (libuv, MDBX, tinyexpr, SunSpec, Modbus, mDNS, CBOR, TOML)
are external; so is Site, which computes the grid power. `fronius`,
`rules/test_schedulers` and `ConfigRoute.cpp` are not built. Widgets, logging, JSON
dumps, the command line and AppDiscover, which prints what it finds, keep no state
worth a model. `CoreLinkDocument` and `isDiscoveryResponse` have no caller; the OCPP
socket only logs.

Of the HTTP routes the one of the archive is part of Database; the history of the site
and the lists read and format (the former logs the first and the last element of a
list that may be empty). The chart controller and the thing cards of the web app are
not modelled: answers to chart requests out of order are listed as a hazard without a
property. `eraseRawData` and the lists of maps are used by tests and diagnostics only.

Object lifetimes (subscriptions that outlive a strategy), integers that overflow
outside the codecs, and a wall clock that is set back are not modelled either. The
hazards say where they bite.
