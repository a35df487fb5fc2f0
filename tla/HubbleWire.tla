----------------------------- MODULE HubbleWire -----------------------------
(***************************************************************************)
(* What Hubble Relay puts on the wire (external): the protobuf encoding of *)
(* a GetFlowsResponse, as far as internal/observer/hubble_grpc.go reads    *)
(* it.  A message is a sequence of fields.  The ones the operator reads    *)
(* have the values of the response; all others, and the order, are the     *)
(* relay's affair.                                                         *)
(***************************************************************************)
EXTENDS HubbleDecoder, SequencesExt

Byte == 0..255

\* A varint, the lowest group first.
Varint(v) ==
  LET groups[x \in 0..v] ==
        IF x < 128 THEN <<x>> ELSE <<128 + (x % 128)>> \o groups[x \div 128]
  IN groups[v]

\* A number that the reader has room for.
Fits(v) == v < 2^WordBits /\ Len(Varint(v)) <= MaxVarintLen

\* A varint field, or a length-delimited one.  arg follows the tag.
Field == {f \in [num : Nat \ {0}, wire : {0, 2}, arg : Nat, body : Seq(Byte)] :
            /\ f.wire = 0 => f.body = <<>>
            /\ f.wire = 2 => f.arg = Len(f.body)
            /\ Fits(8 * f.num + f.wire) /\ Fits(f.arg)}

Num(num, v) == [num |-> num, wire |-> 0, arg |-> v, body |-> <<>>]
Bytes(num, b) == [num |-> num, wire |-> 2, arg |-> Len(b), body |-> b]

EncodeField(f) == Varint(8 * f.num + f.wire) \o Varint(f.arg) \o f.body

\* A message, the concatenation of its fields.
EncodeFields(fields) ==
  LET upTo[i \in 0..Len(fields)] ==
        IF i = 0 THEN <<>> ELSE upTo[i - 1] \o EncodeField(fields[i])
  IN upTo[Len(fields)]

\* A field that holds a message.
Sub(num, fields) == Bytes(num, EncodeFields(fields))

\* The fields of a message with that number.
Numbered(fields, num) == {f \in Range(fields) : f.num = num}

\* The message has field f, which may be left out if it has the default value.
Carries(fields, f) ==
  \/ Numbered(fields, f.num) = {f}
  \/ Numbered(fields, f.num) = {} /\ f.arg = 0

\* A response: what it says, and the fields of its messages.
Response ==
  [kind : {"flow", "status"},
   ns : Seq(Byte), pod : Seq(Byte), ip : Seq(Byte), name : Seq(Byte),
   query : Seq(Byte), proto : {"TCP", "UDP", ""},
   port : 0..(2^PortBits - 1), verdict : Nat, direction : Nat,
   response : Seq(Field), flow : Seq(Field), source : Seq(Field),
   dest : Seq(Field), l4 : Seq(Field), ports : Seq(Field), dns : Seq(Field)]

\* The messages say what the response says.
WellFormed(r) ==
  /\ Numbered(r.response, 1) = IF r.kind = "flow" THEN {Sub(1, r.flow)} ELSE {}
  /\ Carries(r.flow, Sub(3, r.source)) /\ Carries(r.flow, Sub(4, r.dest))
  /\ Carries(r.flow, Sub(5, r.l4)) /\ Carries(r.flow, Sub(12, r.dns))
  /\ Carries(r.flow, Num(9, r.verdict)) /\ Carries(r.flow, Num(26, r.direction))
  /\ Carries(r.source, Bytes(1, r.ns)) /\ Carries(r.source, Bytes(3, r.pod))
  /\ Carries(r.dest, Bytes(1, r.ip)) /\ Carries(r.dest, Bytes(6, r.name))
  /\ Carries(r.dns, Bytes(3, r.query))
  /\ Numbered(r.l4, 1) = IF r.proto = "TCP" THEN {Sub(1, r.ports)} ELSE {}
  /\ Numbered(r.l4, 2) = IF r.proto = "UDP" THEN {Sub(2, r.ports)} ELSE {}
  /\ Carries(r.ports, Num(2, r.port))

Encode(r) == EncodeFields(r.response)

\* What a response says, whatever its encoding.
Meaning(r) ==
  [ns |-> r.ns, pod |-> r.pod, ip |-> r.ip,
   fqdn |-> IF r.query # <<>> THEN r.query ELSE r.name,
   proto |-> r.proto, port |-> IF r.proto = "" THEN 0 ELSE r.port,
   verdict |-> IF r.verdict \in 3..5
                 THEN <<"FORWARDED", "DROPPED", "AUDIT">>[r.verdict - 2]
                 ELSE "UNKNOWN"]
=============================================================================
