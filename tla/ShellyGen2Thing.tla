--------------------------- MODULE ShellyGen2Thing ---------------------------
(***************************************************************************)
(* A relay with several switches and digital inputs, and the thing object  *)
(* the daemon keeps for it.                                                *)
(*                                                                         *)
(* The thing's properties are a cache: setProperties overwrites the cached *)
(* switch states with what is commanded and sends ONE switch of them to    *)
(* the relay, in turn; the relay's next status report overwrites the cache *)
(* with what the switches really are.                                      *)
(***************************************************************************)
EXTENDS Integers

CONSTANTS
  N,             \* number of switches of the relay
  RelayAtStart,  \* what its switches may be when the daemon starts
  NoRequest      \* no set request is in flight

ASSUME NAssumption == N \in Nat \ {0}

Phases == 0 .. N - 1

ASSUME RelayAssumption ==
  RelayAtStart \subseteq [Phases -> BOOLEAN] /\ NoRequest \notin [phase : Phases, on : BOOLEAN]

VARIABLES
  switches,    \* the relay's switches
  request,     \* the set request in flight, or NoRequest
  phaseToSet,  \* ShellyGen2Thing::_phaseToSet
  states,      \* the thing's property multistateSelector
  inputs       \* the thing's property digitalInput

thingVars == <<switches, request, phaseToSet, states, inputs>>

(* A property that was never published, or an empty vector.                *)
Empty == [p \in {} |-> FALSE]

Requests == [phase : Phases, on : BOOLEAN]

ThingTypeOK ==
  /\ switches \in [Phases -> BOOLEAN]
  /\ request \in Requests \cup {NoRequest}
  /\ phaseToSet \in Phases
  /\ states \in [Phases -> BOOLEAN] \cup {Empty}
  /\ inputs \in [Phases -> BOOLEAN] \cup {Empty}

ThingInit ==
  /\ switches \in RelayAtStart
  /\ request = NoRequest
  /\ phaseToSet = 0
  /\ states = Empty
  /\ inputs = Empty

(* setProperties and onSetProperties: the commanded states are cached, one *)
(* of them is sent.                                                        *)
SetStates(commanded) ==
  /\ states' = commanded
  /\ request' = [phase |-> phaseToSet, on |-> commanded[phaseToSet]]
  /\ phaseToSet' = (phaseToSet + 1) % N
  /\ UNCHANGED <<switches, inputs>>

(* The relay executes the request, or the request is lost.                 *)
RequestExecuted ==
  /\ request # NoRequest
  /\ switches' = [switches EXCEPT ![request.phase] = request.on]
  /\ request' = NoRequest
  /\ UNCHANGED <<phaseToSet, states, inputs>>

RequestLost ==
  /\ request # NoRequest
  /\ request' = NoRequest
  /\ UNCHANGED <<switches, phaseToSet, states, inputs>>

(* onBody: a status report.  A body that does not parse is published as    *)
(* two empty vectors.                                                      *)
StatusReport(in) ==
  /\ states' = switches
  /\ inputs' = in
  /\ UNCHANGED <<switches, request, phaseToSet>>

BadReport ==
  /\ states' = Empty
  /\ inputs' = Empty
  /\ UNCHANGED <<switches, request, phaseToSet>>
=============================================================================
