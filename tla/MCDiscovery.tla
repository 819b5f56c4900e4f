----------------------------- MODULE MCDiscovery ----------------------------
EXTENDS ThingDiscovery

CONSTANTS shelly, stray1, stray2, stray3

MCNodes == {PicoW \o <<49>>, PicoW \o <<50>>}
MCFlaps == {<<776, 2000>>, <<4095, 0>>}

Ones(n) == [i \in 1..n |-> 255]
Option(k, n) == [key |-> k, value |-> Ones(n)]

\* Options at the boundaries of the encoding, in any order, and a token that
\* is as long as it may be.
MCOptions == <<<<Option(12, 13), Option(25, 0)>>,
               <<Option(13, 268), Option(11, 1), Option(11, 12), Option(280, 269)>>,
               <<Option(65535, 270), Option(3, 0)>>>>
MCStrays == {stray1, stray2, stray3}
MCNumbered == <<stray1, stray2, stray3>>
MCStrayText ==
  [m \in MCStrays |->
     [NewMessage EXCEPT !.token = Ones(12), !.messageId = 65535, !.payload = <<255, 0, 0, 1>>,
        !.options = MCOptions[CHOOSE i \in 1..3 : MCNumbered[i] = m]]]
=============================================================================
