----------------------------- MODULE RuleEngine ------------------------------
(***************************************************************************)
(* How rules get to know what things report.                               *)
(*                                                                         *)
(* A rule is a pair of expressions over symbols, "<thing>.<property>".     *)
(* RuleEngine subscribes to the things that rules mention, which may join  *)
(* before or after the rule and may leave and return, and copies what they *)
(* publish into the symbol table of SymbolRepository.  Here one symbol     *)
(* stands for all properties of a thing.                                   *)
(*                                                                         *)
(* A thing that returns is a new object: nobody subscribes to it but those *)
(* that do so when it is added.                                            *)
(***************************************************************************)
EXTENDS Integers

CONSTANTS
  Things,        \* ids of things
  WithStrategy,  \* the things that StrategyFactory makes a strategy for
  Mentions,      \* the things in the expressions of each one's rule
  Values,        \* what a thing may report
  Zero           \* the value of a symbol that was never set

(* A thing that has no rule mentions nothing.  One without a strategy may  *)
(* still mention things: its second expression does not parse.             *)
ASSUME RulesAssumption ==
  /\ WithStrategy \subseteq Things
  /\ Mentions \in [Things -> SUBSET Things]
  /\ Zero \in Values

VARIABLES
  present,      \* ThingRepository::things
  reading,      \* what each thing reports
  dependent,    \* RuleEngine::_dependentThings
  subscribed,   \* RuleEngine::_subscribedThings
  heard,        \* the things RuleEngine's handler is subscribed to
  known,        \* the things with an entry in SymbolRepository::_symbolTable
  symbol,       \* its values
  left          \* the things that left since a strategy was created

engineVars == <<present, reading, dependent, subscribed, heard, known, symbol, left>>

EngineTypeOK ==
  /\ present \subseteq Things
  /\ reading \in [Things -> Values]
  /\ dependent \subseteq Things
  /\ subscribed \subseteq Things
  /\ heard \subseteq Things
  /\ known \subseteq Things
  /\ symbol \in [Things -> Values]
  /\ left \subseteq Things

EngineInit ==
  /\ present = {}
  /\ reading \in [Things -> Values]
  /\ dependent = {} /\ subscribed = {} /\ heard = {} /\ known = {}
  /\ symbol = [t \in Things |-> Zero]
  /\ left = {}

-----------------------------------------------------------------------------

(* addDependency for every prefix of a symbol and for the new thing.       *)
NewDependencies(t, table, sub) == (table \cup {t}) \ sub

(* Mutant: the new dependencies are not looked for at once.                *)
SubscribeFirstOnly(t) ==
  LET first == dependent \cap present'
      new   == IF t \in WithStrategy
               THEN NewDependencies(t, known', subscribed \cup first) ELSE {}
  IN  /\ dependent' = (dependent \ first) \cup new
      /\ subscribed' = subscribed \cup first
      /\ heard' = heard \cup first

(* Mutant: the dependencies that are not there yet are forgotten.          *)
SubscribeForgetful(t) ==
  LET first == dependent \cap present'
      new   == IF t \in WithStrategy
               THEN NewDependencies(t, known', subscribed \cup first) \cap present'
               ELSE {}
  IN  /\ dependent' = dependent \ first
      /\ subscribed' = subscribed \cup first \cup new
      /\ heard' = heard \cup ((first \cup new) \ subscribed)

(* subscribeDependencies before the strategy is created, and again after   *)
(* it, with its dependencies.  A thing that was found leaves the list.     *)
Subscribe(t) ==
  LET first   == dependent \cap present'
      waiting == (dependent \ first)
                   \cup (IF t \in WithStrategy
                         THEN NewDependencies(t, known', subscribed \cup first)
                         ELSE {})
      second  == IF t \in WithStrategy THEN waiting \cap present' ELSE {}
  IN  /\ dependent' = waiting \ second
      /\ subscribed' = subscribed \cup first \cup second
      /\ heard' = heard \cup ((first \cup second) \ subscribed)

(* A thing joins.  Parsing its expressions enters their symbols.           *)
ThingAdded(t) ==
  /\ t \notin present
  /\ present' = present \cup {t}
  /\ known' = known \cup Mentions[t]
  /\ Subscribe(t)
  /\ left' = IF t \in WithStrategy THEN {} ELSE left
  /\ UNCHANGED <<reading, symbol>>

ThingRemoved(t) ==
  /\ t \in present
  /\ present' = present \ {t}
  /\ subscribed' = subscribed \ {t}
  /\ heard' = heard \ {t}
  /\ left' = left \cup {t}
  /\ UNCHANGED <<reading, dependent, known, symbol>>

(* A thing publishes its properties; setSymbol if the engine listens.      *)
Publish(t, v) ==
  /\ t \in present
  /\ reading' = [reading EXCEPT ![t] = v]
  /\ known' = IF t \in heard THEN known \cup {t} ELSE known
  /\ symbol' = IF t \in heard THEN [symbol EXCEPT ![t] = v] ELSE symbol
  /\ UNCHANGED <<present, dependent, subscribed, heard, left>>

-----------------------------------------------------------------------------

(* The things that the rules of present things mention, and the things     *)
(* with a strategy.                                                        *)
Needed ==
  WithStrategy \cup UNION {Mentions[t] : t \in present \cap WithStrategy}

(* The comment in RuleEngine says "Each new thing might be a dependency    *)
(* for previous rules": the engine listens to whatever is needed and there.*)
NeededAreHeard == Needed \cap present \subseteq heard

(* In whatever order things and rules join, the engine listens to what is  *)
(* needed, but for a thing that left and returned while no strategy was    *)
(* created.                                                                *)
NeededAreHeardUntilTheyLeave == (Needed \cap present) \ left \subseteq heard

(* The two sets of RuleEngine tell its subscriptions: it waits for no      *)
(* thing that is there, and listens to nothing that has gone.              *)
SetsTellSubscriptions ==
  /\ heard = subscribed
  /\ heard \subseteq present
  /\ dependent \cap present = {}
=============================================================================
