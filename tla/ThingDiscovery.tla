--------------------------- MODULE ThingDiscovery ---------------------------
(***************************************************************************)
(* How things are found: a timer sends requests on every protocol, answers *)
(* come in as events, and whatever they describe is added to the           *)
(* ThingRepository.                                                        *)
(*                                                                         *)
(* CoAP nodes report two flaps in the answer itself.  They are on UDP:     *)
(* what is sent may be lost, duplicated and reordered, and the daemon gets *)
(* its own multicast requests, too.  The message id is not looked at.      *)
(* A thing of this kind is never removed: fetching its properties does     *)
(* nothing, so it cannot fail.                                             *)
(***************************************************************************)
EXTENDS CoapMessage, FiniteSets

CONSTANTS
  Nodes,      \* tokens of CoAP nodes
  Flaps,      \* what the converters of a node may read, pairs
  Request,    \* the daemon's own request
  Strays,     \* names of CoAP messages of others
  StrayText,  \* what they say
  Hosts,      \* hosts that answer mDNS or modbus requests
  HttpThings  \* those that ThingFactory makes a thing for

PicoW == <<80, 105, 99, 111, 87>>

ASSUME DiscoveryAssumption ==
  /\ \A n \in Nodes : n \in Bytes /\ IsPrefix(PicoW, n) /\ Len(n) <= MaxToken
  /\ Flaps \subseteq Word \X Word
  /\ \A m \in Strays : StrayText[m] \in Encodable /\ ~IsPrefix(PicoW, StrayText[m].token)
  /\ HttpThings \subseteq Hosts
  /\ Hosts \cap Nodes = {}

VARIABLES
  online,   \* the nodes in the network
  flap,     \* what their converters read
  network,  \* datagrams under way, each any number of times
  things,   \* ThingRepository::things
  voltage   \* the property of the CoAP things, by id

vars == <<online, flap, network, things, voltage>>

None == <<>>

Init ==
  /\ online = {}
  /\ flap \in [Nodes -> Flaps]
  /\ network = {} /\ things = {}
  /\ voltage = [n \in Nodes |-> None]

-----------------------------------------------------------------------------
(* Messages.  *)

Answers == [node : Nodes, flap : Flaps]

(* nlohmann::json to and from CBOR, of which two bytes per number are left.  *)
Cbor(f) == <<f[1] \div 256, f[1] % 256, f[2] \div 256, f[2] % 256>>
IsFlaps(payload) == Len(payload) = 4
FlapsIn(payload) == <<payload[1] * 256 + payload[2], payload[3] * 256 + payload[4]>>

Answer(d) ==
  [NewMessage EXCEPT !.code = Content, !.token = d.node, !.payload = Cbor(d.flap),
                     !.options = <<[key |-> 12, value |-> <<60>>]>>]

Message(d) == CASE d = Request -> buildDiscoveryRequest
                [] d \in Strays -> StrayText[d]
                [] d \in Answers -> Answer(d)

Datagrams == {Request} \cup Strays \cup Answers

(* What the daemon makes of the bytes that are sent.  *)
Transmissions == {[sent |-> d, got |-> decode[encode[Message(d)]]] : d \in Datagrams}

Decoded(d) == (CHOOSE t \in Transmissions : t.sent = d).got

-----------------------------------------------------------------------------
(* The network.  *)

Sent(d) == network' = network \cup {d}

Lose(m) ==
  /\ network' = network \ {m}
  /\ UNCHANGED <<online, flap, things, voltage>>

(* A node joins, leaves, or reads something else.  *)
NodeChanges ==
  /\ \/ \E n \in Nodes : online' = (online \ {n}) \cup ({n} \ online) /\ UNCHANGED flap
     \/ \E n \in Nodes, f \in Flaps : f # flap[n] /\ flap' = [flap EXCEPT ![n] = f] /\ UNCHANGED online
  /\ UNCHANGED <<network, things, voltage>>

NodeAnswers(n) ==
  /\ n \in online /\ Request \in network
  /\ Sent([node |-> n, flap |-> flap[n]])
  /\ UNCHANGED <<online, flap, things, voltage>>

(* Bound: one message of others at a time.  *)
Stray(m) ==
  /\ network \cap Strays = {}
  /\ Sent(m)
  /\ UNCHANGED <<online, flap, things, voltage>>

-----------------------------------------------------------------------------
(* The daemon.  *)

(* The timer starts a cycle of all protocols; the others are external.  *)
Discover ==
  /\ Sent(Request)
  /\ UNCHANGED <<online, flap, things, voltage>>

(* Converter steps to percent: 3.3 V are 4095 steps and divided by 3.2; 2  *)
(* to 10 V are 0 to 100.  It is never half way between two integers.       *)
Percent(steps) ==
  LET twice == 2 * (132 * steps - 25 * 4095) + 4095 IN twice \div (2 * 4095)

(* A handler that mixes up the two.  *)
SwappedReport(f) == <<Percent(f[2]), Percent(f[1]), 0>>

Reported(f) == <<Percent(f[1]), Percent(f[2]), 0>>

(* A handler that takes whatever has the right form.  *)
IsAnyReport(m) == IsFlaps(m.payload)

IsReport(m) == IsPrefix(PicoW, m.token) /\ IsFlaps(m.payload)

(* A datagram arrives: what does not decode, is not from a PicoW or has    *)
(* other contents is dropped.  Its payload is taken to be CBOR.            *)
Receive(d) ==
  \E m \in {Decoded(d)} :
  /\ d \in network
  /\ IF m # Invalid /\ IsReport(m)
       THEN /\ things' = things \cup {m.token}
            /\ voltage' = [n \in DOMAIN voltage \cup {m.token} |->
                             IF n = m.token THEN Reported(FlapsIn(m.payload)) ELSE voltage[n]]
       ELSE UNCHANGED <<things, voltage>>
  /\ UNCHANGED <<online, flap, network>>

(* Adding a thing that is known has no effect.  *)
AddThing(id) == things' = things \cup {id} /\ UNCHANGED <<online, flap, network, voltage>>

(* An mDNS response without a service record describes no thing.  *)
HttpFound(h, hasSrv) == hasSrv /\ h \in HttpThings /\ AddThing(h)
ShellyFound(h, hasSrv) == hasSrv /\ AddThing(h)
SunSpecFound(h) == AddThing(h)

(* The repository drops a thing that fails.  *)
HostRemoved(h) ==
  /\ h \in things
  /\ things' = things \ {h}
  /\ UNCHANGED <<online, flap, network, voltage>>

Next ==
  \/ NodeChanges \/ Discover
  \/ \E n \in Nodes : NodeAnswers(n)
  \/ \E m \in Strays : Stray(m)
  \/ \E m \in network : Lose(m) \/ Receive(m)
  \/ \E h \in Hosts, hasSrv \in BOOLEAN : HttpFound(h, hasSrv) \/ ShellyFound(h, hasSrv)
  \/ \E h \in Hosts : SunSpecFound(h) \/ HostRemoved(h)

ReceiveCurrent(n) ==
  \E d \in Answers : d.node = n /\ d.flap = flap[n] /\ Receive(d)

(* The timer never stops; a request that is sent again and again reaches a *)
(* node that is there, and so do answers the daemon.                       *)
Fairness ==
  /\ WF_vars(Discover)
  /\ \A n \in Nodes : SF_vars(NodeAnswers(n))
  /\ \A n \in Nodes : SF_vars(ReceiveCurrent(n))

Spec == Init /\ [][Next]_vars /\ Fairness

-----------------------------------------------------------------------------
(* Properties.  *)

(* What the codec encodes it decodes, whatever the order of the options and *)
(* the lengths of their values: the fields, and per number the values.     *)
DecodesAsSent ==
  \A d \in network :
    LET sent == Message(d)
        got == Decoded(d)
    IN  /\ got # Invalid
        /\ [got EXCEPT !.options = <<>>] = [sent EXCEPT !.options = <<>>]
        /\ ByNumber(got.options) = ByNumber(sent.options)

(* Only nodes and hosts become things, though the daemon hears its own     *)
(* requests and all that others say, and a CoAP thing has a reading.       *)
OnlyNodesJoin ==
  /\ things \subseteq Nodes \cup Hosts
  /\ \A n \in Nodes : n \in things <=> voltage[n] # None

(* A node that stays, and whose flaps stay, becomes a thing and is again   *)
(* and again shown as they are.  It need not be shown so for ever: late    *)
(* duplicates count.                                                       *)
Shown(n) == voltage[n] = <<Percent(flap[n][1]), Percent(flap[n][2]), 0>>

ReadingsCatchUp ==
  \A n \in Nodes : \A f \in Flaps :
    <>[](n \in online /\ flap[n] = f) => []<>Shown(n)
=============================================================================
