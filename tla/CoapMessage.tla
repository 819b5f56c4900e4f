----------------------------- MODULE CoapMessage ----------------------------
(***************************************************************************)
(* The CoAP codec of the daemon: pure functions between messages and       *)
(* sequences of bytes.  A number of 16 bits in the code wraps here, too.   *)
(*                                                                         *)
(* A message has type, code, messageId, token and payload, and options: a  *)
(* sequence of pairs of a number and a value.  The multimap that decode    *)
(* fills keeps the values of a number in order, see `ByNumber'.            *)
(***************************************************************************)
EXTENDS Integers, Sequences, SequencesExt

CONSTANT Invalid  \* std::nullopt

(* uint8_t and uint16_t.  *)
MaxByte == 255
Byte == 0 .. MaxByte
MaxWord == 65535
Word == 0 .. MaxWord

U16(x) == x % (MaxWord + 1)

PayloadMarker == 255
MaxToken == 12

Bytes == Seq(Byte)
Options == Seq([key : Word, value : Bytes])
Messages == [version : 0..3, type : 0..3, code : Byte, messageId : Word, token : Bytes,
             options : Options, payload : Bytes]

(* Those that fit into a datagram: a length of 16 bits holds every value.   *)
Encodable == {msg \in Messages :
                /\ Len(msg.token) <= MaxToken
                /\ \A i \in DOMAIN msg.options : Len(msg.options[i].value) <= MaxWord}

(* What decode has read of the options: where it is, and the last number.  *)
Reading == [at : Nat, number : Word, options : Options]
ReadOption == [delta : Nat, value : Bytes, next : Nat]

ASSUME InvalidAssumption == Invalid \notin Messages \cup Reading \cup ReadOption

(* The values of each option number that occurs, in their order.  *)
ByNumber(options) ==
  [k \in {options[i].key : i \in DOMAIN options} |->
     LET OfKey(o) == o.key = k
         ofKey == SelectSeq(options, OfKey)
     IN  [i \in DOMAIN ofKey |-> ofKey[i].value]]

-----------------------------------------------------------------------------
(* Encoding.  *)

(* An encoder with the boundary one too high.  *)
ExtendedLate(x) ==
  IF x <= 13 THEN [nibble |-> x, bytes |-> <<>>]
  ELSE IF x < 269 THEN [nibble |-> 13, bytes |-> <<x - 13>>]
  ELSE [nibble |-> 14, bytes |-> <<(x - 269) \div 256, (x - 269) % 256>>]

(* encode_extended: a nibble, and up to two bytes for what it cannot hold.  *)
Extended(x) ==
  IF x < 13 THEN [nibble |-> x, bytes |-> <<>>]
  ELSE IF x < 269 THEN [nibble |-> 13, bytes |-> <<x - 13>>]
  ELSE [nibble |-> 14, bytes |-> <<(x - 269) \div 256, (x - 269) % 256>>]

EncodedOption(previous, o) ==
  LET delta == Extended(U16(o.key - previous))
      length == Extended(U16(Len(o.value)))
  IN  <<delta.nibble * 16 + length.nibble>> \o delta.bytes \o length.bytes \o o.value

(* The options go out as they are: the sorted copy is not used, and a      *)
(* number below the last one wraps.                                        *)
EncodedOptions(options) ==
  FlattenSeq([i \in DOMAIN options |->
    EncodedOption(IF i = 1 THEN 0 ELSE options[i - 1].key, options[i])])

encode[msg \in Messages] ==
  IF Len(msg.token) > MaxToken THEN <<>>
  ELSE <<64 * msg.version + 16 * msg.type + Len(msg.token), msg.code,
         msg.messageId \div 256, msg.messageId % 256>>
       \o msg.token
       \o EncodedOptions(msg.options)
       \o IF msg.payload = <<>> THEN <<>> ELSE <<PayloadMarker>> \o msg.payload

-----------------------------------------------------------------------------
(* Decoding.  *)

(* How many bytes follow a nibble, and the number they extend it to.  *)
ExtraBytes(nibble) == IF nibble < 13 THEN 0 ELSE nibble - 12

Number(data, nibble, at) ==
  CASE nibble < 13 -> nibble
    [] nibble = 13 -> 13 + data[at]
    [] nibble = 14 -> U16(269 + data[at] * 256 + data[at + 1])

(* Where the parts of the option at p are; Invalid if it is cut short or   *)
(* has a reserved nibble.                                                  *)
OptionAt(data, p) ==
  LET d == data[p] \div 16
      l == data[p] % 16
      atLength == p + 1 + ExtraBytes(d)
      atValue == atLength + ExtraBytes(l)
  IN  IF d = 15 \/ l = 15 \/ atValue > Len(data) + 1 THEN Invalid
      ELSE LET length == Number(data, l, atLength) IN
        IF atValue + length > Len(data) + 1 THEN Invalid
        ELSE [delta |-> Number(data, d, p + 1),
              value |-> SubSeq(data, atValue, atValue + length - 1),
              next |-> atValue + length]

(* The loop over the options, from position p: in a round one of them is   *)
(* read, unless there is none left or there is the payload.                *)
OptionsFrom(data, p) ==
  LET Round[s \in Reading \cup {Invalid}] ==
        IF s = Invalid \/ s.at > Len(data) \/ data[s.at] = PayloadMarker THEN s
        ELSE LET o == OptionAt(data, s.at)
                 number == U16(s.number + o.delta)
             IN  IF o = Invalid THEN Invalid
                 ELSE [at |-> o.next, number |-> number,
                       options |-> Append(s.options, [key |-> number, value |-> o.value])]
      After[k \in 0..Len(data)] ==
        IF k = 0 THEN [at |-> p, number |-> 0, options |-> <<>>] ELSE Round[After[k - 1]]
      rounds == CHOOSE k \in 0..Len(data) : Round[After[k]] = After[k]
  IN  After[rounds]

decode[data \in Bytes] ==
  LET tokenLength == data[1] % 16 IN
  IF Len(data) < 4 \/ tokenLength > MaxToken \/ Len(data) < 4 + tokenLength THEN Invalid
  ELSE LET read == OptionsFrom(data, 5 + tokenLength) IN
    IF read = Invalid THEN Invalid
    ELSE [version |-> data[1] \div 64,
          type |-> (data[1] \div 16) % 4,
          code |-> data[2],
          messageId |-> data[3] * 256 + data[4],
          token |-> SubSeq(data, 5, 4 + tokenLength),
          options |-> read.options,
          payload |-> SubSeq(data, read.at + 1, Len(data))]

-----------------------------------------------------------------------------

NonConfirmable == 1
Get == 1
Content == 69
UriPath == 11

NewMessage == [version |-> 1, type |-> NonConfirmable, code |-> 0, messageId |-> 0,
               token |-> <<>>, options |-> <<>>, payload |-> <<>>]

(* GET /.well-known/core, a letter of the path standing for each part.  *)
buildDiscoveryRequest ==
  [NewMessage EXCEPT
     !.code = Get,
     !.options = <<[key |-> UriPath, value |-> <<46, 119>>], [key |-> UriPath, value |-> <<99>>]>>]
=============================================================================
