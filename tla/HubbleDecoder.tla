---------------------------- MODULE HubbleDecoder ----------------------------
(***************************************************************************)
(* internal/observer/hubble_grpc.go, the hand-written reader of protobuf   *)
(* messages.  A message is a sequence of bytes; strings are bytes too.     *)
(* The readers walk over a message field by field and skip what they do    *)
(* not look for, so what they return depends on every length and every     *)
(* tag before it.                                                          *)
(***************************************************************************)
EXTENDS Naturals, Sequences, FiniteSetsExt

CONSTANTS
  MaxVarintLen,   \* bytes a varint may have (10 in the code)
  WordBits,       \* width of uint64
  PortBits        \* width of uint32

ASSUME WidthAssumption ==
  /\ MaxVarintLen \in Nat \ {0} /\ WordBits \in Nat /\ PortBits \in Nat
  /\ WordBits <= 7 * MaxVarintLen /\ PortBits <= WordBits
  /\ 2^WordBits \in Nat /\ 2^WordBits > 255 /\ 2^PortBits \in Nat \ {0}

\* F(x), with x evaluated once where LET would have TLC evaluate it again at
\* every use.
With(x, F(_)) == CHOOSE y \in {F(v) : v \in {x}} : TRUE

\* The bytes in which a varint that begins after i bytes may end.
VarintEnds(data, i) ==
  {n \in 1..MaxVarintLen : i + n <= Len(data) /\ data[i + n] < 128}

\* The number in the last bytes that begin after i: groups of seven bits, the
\* lowest first.
VarintValue(data, i, last) ==
  LET value[n \in 1..last] ==
        IF n = last THEN data[i + n] ELSE (data[i + n] % 128) + 128 * value[n + 1]
  IN value[1]

\* Mutated form: only the lowest group counts.
decodeVarintShort(data, i) ==
  LET ends == VarintEnds(data, i)
  IN IF ends = {} THEN [val |-> 0, len |-> 0]
     ELSE [val |-> data[i + 1] % 128, len |-> Min(ends)]

\* decodeVarint(data[i:]): up to a byte below 0x80.  A length of 0 says that
\* there is no varint.
decodeVarint(data, i) ==
  LET ends == VarintEnds(data, i)
      last == Min(ends)
  IN IF ends = {} THEN [val |-> 0, len |-> 0]
     ELSE [val |-> VarintValue(data, i, last) % 2^WordBits, len |-> last]

\* The field that begins after i bytes: its number, wire type, the varint
\* behind its tag (a value or a length), where that one ends and where the field
\* does, and whether the readers can step over it: it is a varint or
\* length-delimited, and all there.
FieldAt(data, i) ==
  With(decodeVarint(data, i), LAMBDA tag :
    With(decodeVarint(data, i + tag.len), LAMBDA arg :
      LET wire == tag.val % 8
          next == i + tag.len + arg.len
          end == IF wire = 2 THEN next + arg.val ELSE next
      IN [num |-> tag.val \div 8, wire |-> wire, val |-> arg.val,
          next |-> next, end |-> end,
          whole |-> /\ i < Len(data) /\ tag.len > 0 /\ arg.len > 0
                    /\ wire \in {0, 2} /\ end <= Len(data)]))

Absent == [ok |-> FALSE, bytes |-> <<>>]

\* extractField: the payload of the first length-delimited field of that
\* number.  A varint field of that number, or any fixed-width field before it,
\* ends the search.
extractField(message, num) == With(message, LAMBDA data :
  LET scan[i \in 0..Len(data)] == With(FieldAt(data, i), LAMBDA f :
        IF f.whole /\ f.num # num THEN scan[f.end]
        ELSE IF f.whole /\ f.wire = 2
          THEN [ok |-> TRUE, bytes |-> SubSeq(data, f.next + 1, f.end)]
          ELSE Absent)
  IN scan[0])

\* extractVarint: the value of the first varint field of that number, 0 when
\* there is none.
extractVarint(message, num) == With(message, LAMBDA data :
  LET scan[i \in 0..Len(data)] == With(FieldAt(data, i), LAMBDA f :
        IF f.whole /\ ~(f.num = num /\ f.wire = 0) THEN scan[f.end]
        ELSE IF f.whole THEN f.val ELSE 0)
  IN scan[0])

\* extractString: "" when there is no such field.
extractString(data, num) == extractField(data, num).bytes

\* The verdicts by their number on the wire.
Verdict(v) ==
  CASE v = 3 -> "FORWARDED"
    [] v = 4 -> "DROPPED"
    [] v = 5 -> "AUDIT"
    [] OTHER -> "UNKNOWN"

\* decodeFlow's reading of l4: TCP before UDP, and neither is no error.
decodeL4(l4) ==
  LET tcp == extractField(l4, 1)
      udp == extractField(l4, 2)
      with(proto, b) ==
        [proto |-> proto, port |-> extractVarint(b, 2) % 2^PortBits]
  IN CASE tcp.ok -> with("TCP", tcp.bytes)
       [] ~tcp.ok /\ udp.ok -> with("UDP", udp.bytes)
       [] OTHER -> [proto |-> "", port |-> 0]

\* The name of the destination: the DNS query's, or else the endpoint's.
destFQDN(endpoint, query) == IF query # <<>> THEN query ELSE endpoint

\* decodeFlow: an observer.Flow, and whether it is of any use.  The workload is
\* "Pod/<pod>", so it adds nothing to the pod's name.
decodeFlow(data) ==
  LET src == extractString(data, 3)
      dst == extractString(data, 4)
      l4 == decodeL4(extractString(data, 5))
      dns == extractString(data, 12)
      ns == extractString(src, 1)
  IN [ok |-> ns # <<>>,
      flow |-> [ns |-> ns, pod |-> extractString(src, 3),
                ip |-> extractString(dst, 1),
                fqdn |-> destFQDN(extractString(dst, 6), extractString(dns, 3)),
                proto |-> l4.proto, port |-> l4.port,
                verdict |-> Verdict(extractVarint(data, 9))]]

NoFlow == [ns |-> <<>>, pod |-> <<>>, ip |-> <<>>, fqdn |-> <<>>,
           proto |-> "", port |-> 0, verdict |-> "UNKNOWN"]

\* decodeGetFlowsResponse: field 1 is the flow; a response without one is
\* dropped.
decodeGetFlowsResponse(data) ==
  LET flow == extractField(data, 1)
  IN IF flow.ok THEN decodeFlow(flow.bytes) ELSE [ok |-> FALSE, flow |-> NoFlow]
=============================================================================
