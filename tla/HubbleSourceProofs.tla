------------------------- MODULE HubbleSourceProofs -------------------------
(***************************************************************************)
(* How far Observe keeps the contract of a flow source, for any scripts,   *)
(* namespace and capacity of the channel.                                  *)
(***************************************************************************)
EXTENDS HubbleSource, HubbleWireProofs

-----------------------------------------------------------------------------
(* Types.                                                                  *)

\* Whatever may be in a sequence of flows.
Decoded(b) == decodeGetFlowsResponse(b)
Encodings == {Encode(r) : r \in Responses}
Flows == {Meaning(r) : r \in Responses} \cup {Decoded(b).flow : b \in Encodings}
           \cup {NoFlow}

\* What the relay has yet to send, what is on its way, what matched, what is
\* about to be pushed and what was.
SeqsOK ==
  /\ script \in Seq(Responses)
  /\ wire \in Seq(Encodings)
  /\ matched \in Seq(Flows)
  /\ flow \in Flows
  /\ pushed \in Seq(Flows)

TypeInv == TypeOK /\ SeqsOK

LEMMA TypeInit == Init => TypeInv
<1> SUFFICES ASSUME Init PROVE TypeInv
  OBVIOUS
<1>1. SeqsOK
  BY SourceAssumption, EmptySeq DEF Init, SeqsOK, Flows
<1>2. Len(pushed) = 0
  BY EmptySeq DEF Init
<1>3. taken \in Nat /\ taken <= Len(pushed) /\ Len(pushed) <= taken + ChanCap
  BY <1>2, SourceAssumption DEF Init
<1>4. TypeOK
  BY <1>3 DEF Init, TypeOK, Opening
<1> QED
  BY <1>1, <1>4 DEF TypeInv

\* The states of Observe and the bound on the channel are kept by every step.
LEMMA TypeNext == TypeInv /\ [Next]_vars => TypeInv'
<1> SUFFICES ASSUME TypeInv, [Next]_vars PROVE TypeInv'
  OBVIOUS
<1> USE DEF TypeInv
<1>1. CASE \E ok \in BOOLEAN : Connect(ok)
  <2>1. UNCHANGED <<script, wire, matched, flow, pushed>>
    BY <1>1 DEF Connect
  <2>2. TypeOK'
    BY <1>1 DEF TypeOK, Connect, ReturnWith, Opening
  <2> QED
    BY <2>1, <2>2 DEF SeqsOK
<1>2. CASE Recv
  <2>1. Head(wire) \in Encodings /\ wire' \in Seq(Encodings)
    BY <1>2, HeadTailProperties DEF SeqsOK, Recv
  <2>2. flow' \in {flow, Decoded(Head(wire)).flow} /\ pc' \in {pc, "push"}
    BY <1>2 DEF Recv, Decoded
  <2>3. flow' \in Flows
    BY <2>1, <2>2 DEF SeqsOK, Flows
  <2>4. TypeOK'
    BY <1>2, <2>2 DEF TypeOK, Recv
  <2> QED
    BY <1>2, <2>1, <2>3, <2>4 DEF SeqsOK, Recv
<1>3. CASE RecvFails \/ PushCancelled
  <2>1. UNCHANGED <<script, wire, matched, flow, pushed>>
    BY <1>3 DEF RecvFails, PushCancelled
  <2>2. TypeOK'
    BY <1>3 DEF TypeOK, RecvFails, PushCancelled, ReturnWith
  <2> QED
    BY <2>1, <2>2 DEF SeqsOK
<1>4. CASE Push
  <2>1. pushed' \in Seq(Flows) /\ Len(pushed') = Len(pushed) + 1
    BY <1>4, AppendProperties DEF SeqsOK, Push
  <2>2. Len(pushed) \in Nat
    BY LenProperties DEF SeqsOK
  <2>3. taken' <= Len(pushed') /\ Len(pushed') <= taken' + ChanCap
    BY <1>4, <2>1, <2>2, SourceAssumption DEF TypeOK, Push, HasRoom
  <2>4. TypeOK'
    BY <1>4, <2>3 DEF TypeOK, Push
  <2>5. flow' \in Flows
    BY <1>4 DEF Push, Flows
  <2> QED
    BY <1>4, <2>1, <2>4, <2>5 DEF SeqsOK, Push
<1>5. CASE RelaySend
  <2>1. Head(script) \in Responses /\ script' \in Seq(Responses)
    BY <1>5, HeadTailProperties DEF SeqsOK, RelaySend
  <2>2. Encode(Head(script)) \in Encodings /\ Meaning(Head(script)) \in Flows
    BY <2>1 DEF Encodings, Flows
  <2>3. /\ wire' \in {wire, Append(wire, Encode(Head(script)))}
        /\ matched' \in {matched, Append(matched, Meaning(Head(script)))}
    BY <1>5 DEF RelaySend
  <2>4. wire' \in Seq(Encodings) /\ matched' \in Seq(Flows)
    <3>1. /\ Append(wire, Encode(Head(script))) \in Seq(Encodings)
          /\ Append(matched, Meaning(Head(script))) \in Seq(Flows)
      BY <2>2, AppendProperties DEF SeqsOK
    <3> QED
      BY <2>3, <3>1 DEF SeqsOK
  <2>5. TypeOK'
    BY <1>5 DEF TypeOK, RelaySend
  <2> QED
    BY <1>5, <2>1, <2>4, <2>5 DEF SeqsOK, RelaySend
<1>6. CASE \E how \in {"eof", "failed"} : RelayEnd(how)
  BY <1>6 DEF TypeOK, SeqsOK, RelayEnd
<1>7. CASE Take
  <2>1. Len(pushed) \in Nat
    BY LenProperties DEF SeqsOK
  <2> QED
    BY <1>7, <2>1, SourceAssumption DEF TypeOK, SeqsOK, Take
<1>8. CASE Cancel
  BY <1>8 DEF TypeOK, SeqsOK, Cancel
<1>9. CASE UNCHANGED vars
  BY <1>9 DEF TypeOK, SeqsOK, vars
<1> QED
  BY <1>1, <1>2, <1>3, <1>4, <1>5, <1>6, <1>7, <1>8, <1>9 DEF Next, Observe

LEMMA TypeInvariant == Spec => []TypeInv
BY TypeInit, TypeNext, PTL DEF Spec

\* Observe has returned exactly when it is done, the request the relay gets is
\* the one that was built, and flowCh never holds more than its capacity
\* (hubble_grpc.go:46-89), whatever the relay sends and whenever the accumulator
\* reads.
THEOREM TypeCorrect == Spec => []TypeOK
<1>1. TypeInv => TypeOK
  BY DEF TypeInv
<1> QED
  BY <1>1, TypeInvariant, PTL

-----------------------------------------------------------------------------
(* The reader.                                                             *)

\* The request asks for egress flows.
LEMMA RequestForEgress ==
  extractVarint(extractString(buildGetFlowsRequest, 5), 6) = Egress
<1> DEFINE filter == <<48, 2>>
           follow == <<56, 1>>
           white == <<42, 2>>
           asks == <<Num(6, 2)>>
           says == <<Num(7, 1), Bytes(5, filter)>>
           req == follow \o (white \o filter)
<1>1. /\ filter \in Seq(Byte) /\ Len(filter) = 2
      /\ follow \in Seq(Byte) /\ Len(follow) = 2
      /\ white \in Seq(Byte) /\ Len(white) = 2
  BY DEF Byte
<1>2. /\ Num(6, 2) \in Field /\ EncodeField(Num(6, 2)) = filter
      /\ Num(7, 1) \in Field /\ EncodeField(Num(7, 1)) = follow
      /\ Bytes(5, filter) \in Field /\ EncodeField(Bytes(5, filter)) = white \o filter
  <2> HIDE DEF filter
  <2>1. 6 \in 1..15 /\ 7 \in 1..15 /\ 5 \in 1..15 /\ 1 \in 0..127 /\ 2 \in 0..127
        /\ Len(filter) < 128
    BY <1>1
  <2>2. /\ Num(6, 2) \in Field /\ EncodeField(Num(6, 2)) = <<8 * 6, 2>>
        /\ Num(7, 1) \in Field /\ EncodeField(Num(7, 1)) = <<8 * 7, 1>>
        /\ Bytes(5, filter) \in Field
        /\ EncodeField(Bytes(5, filter)) = <<8 * 5 + 2, Len(filter)>> \o filter
    <3>1. Num(6, 2) \in Field /\ EncodeField(Num(6, 2)) = <<8 * 6, 2>>
      BY <2>1, ShortNum, Zenon
    <3>2. Num(7, 1) \in Field /\ EncodeField(Num(7, 1)) = <<8 * 7, 1>>
      BY <2>1, ShortNum, Zenon
    <3>3. /\ Bytes(5, filter) \in Field
          /\ EncodeField(Bytes(5, filter)) = <<8 * 5 + 2, Len(filter)>> \o filter
      BY <1>1, <2>1, ShortBytes, Zenon
    <3> QED
      BY <3>1, <3>2, <3>3
  <2>3. 8 * 6 = 48 /\ 8 * 7 = 56 /\ 8 * 5 + 2 = 42
    OBVIOUS
  <2>4. <<8 * 5 + 2, Len(filter)>> = white
    BY <1>1, <2>3
  <2>5. <<8 * 6, 2>> = filter
    BY <2>3 DEF filter
  <2> QED
    BY <2>2, <2>3, <2>4, <2>5
<1>3. buildGetFlowsRequest = req
  <2>1. buildGetFlowsRequest = (follow \o white) \o filter
    BY DEF buildGetFlowsRequest
  <2> HIDE DEF follow, white, filter
  <2> QED
    BY <1>1, <2>1, ConcatAssociative
<1>4. asks \in Seq(Field) /\ says \in Seq(Field)
  BY <1>2
<1>5. IsMessage(filter, asks)
  <2> DEFINE at == [i \in 0..1 |-> 2 * i]
  <2>1. Len(asks) = 1 /\ asks[1] = Num(6, 2)
    OBVIOUS
  <2>2. at \in [0..1 -> Nat] /\ at[0] = 0 /\ at[1] = 2
    OBVIOUS
  <2>3. Occurs(filter, 0, filter)
    BY DEF Occurs
  <2> HIDE DEF at, asks, filter
  <2>4. ASSUME NEW j \in 1..1
        PROVE  /\ Occurs(filter, at[j - 1], EncodeField(asks[j]))
               /\ at[j] = at[j - 1] + Len(EncodeField(asks[j]))
    <3>1. j = 1 /\ j - 1 = 0 /\ 2 = 0 + 2
      OBVIOUS
    <3>2. at[j - 1] = 0 /\ at[j] = 2 /\ EncodeField(asks[j]) = filter
      BY <1>2, <2>1, <2>2, <3>1
    <3> QED
      BY <1>1, <2>3, <3>1, <3>2
  <2>5. IsLayout(at, asks, filter)
    BY <1>1, <2>1, <2>2, <2>4 DEF IsLayout
  <2> QED
    BY <1>1, <2>5 DEF IsMessage
<1>6. IsMessage(req, says)
  <2> DEFINE at == [i \in 0..2 |-> IF i = 0 THEN 0 ELSE IF i = 1 THEN 2 ELSE 6]
             rest == white \o filter
  <2>1. Len(says) = 2 /\ says[1] = Num(7, 1) /\ says[2] = Bytes(5, filter)
    OBVIOUS
  <2>2. at \in [0..2 -> Nat] /\ at[0] = 0 /\ at[1] = 2 /\ at[2] = 6
    OBVIOUS
  <2>3. Occurs(follow, 0, follow)
    BY DEF Occurs
  <2>4. EncodeField(says[1]) = follow /\ EncodeField(says[2]) = rest
    BY <1>2
  <2> HIDE DEF at, says, follow, white, filter
  <2>5. rest \in Seq(Byte) /\ Len(rest) = 4
    <3>1. rest \in Seq(Byte) /\ Len(rest) = Len(white) + Len(filter)
      BY <1>1, ConcatProperties
    <3> HIDE DEF rest
    <3> QED
      BY <1>1, <3>1
  <2> HIDE DEF rest
  <2>6. req = follow \o rest
    BY DEF rest
  <2>7. req \in Seq(Byte) /\ Len(req) = 6
    <3>1. /\ follow \o rest \in Seq(Byte)
          /\ Len(follow \o rest) = Len(follow) + Len(rest)
      BY <1>1, <2>5, ConcatProperties
    <3>2. req \in Seq(Byte) /\ Len(req) = Len(follow) + Len(rest)
      BY <2>6, <3>1
    <3> HIDE DEF req
    <3> QED
      BY <1>1, <2>5, <3>2
  <2>8. Occurs(req, 2, rest) /\ Occurs(req, 0, follow)
    BY <1>1, <2>3, <2>5, <2>6, OccursInConcat
  <2> HIDE DEF req
  <2>9. ASSUME NEW j \in 1..2
        PROVE  /\ Occurs(req, at[j - 1], EncodeField(says[j]))
               /\ at[j] = at[j - 1] + Len(EncodeField(says[j]))
    <3>1. CASE j = 1
      <4>1. j - 1 = 0 /\ 2 = 0 + 2
        BY <3>1
      <4>2. at[j - 1] = 0 /\ at[j] = 2 /\ EncodeField(says[j]) = follow
        BY <2>2, <2>4, <3>1, <4>1
      <4> QED
        BY <1>1, <2>8, <4>1, <4>2
    <3>2. CASE j = 2
      <4>1. j - 1 = 1 /\ 6 = 2 + 4
        BY <3>2
      <4>2. at[j - 1] = 2 /\ at[j] = 6 /\ EncodeField(says[j]) = rest
        BY <2>2, <2>4, <3>2, <4>1
      <4> QED
        BY <2>5, <2>8, <4>1, <4>2
    <3> QED
      BY <3>1, <3>2
  <2>10. IsLayout(at, says, req)
    BY <2>1, <2>2, <2>7, <2>9 DEF IsLayout
  <2> QED
    BY <2>7, <2>10 DEF IsMessage
<1>7. Numbered(says, 5) = {Bytes(5, filter)} /\ Numbered(asks, 6) = {Num(6, 2)}
  BY DEF Numbered, Range, Bytes, Num
<1>8. extractString(req, 5) = filter
  <2>1. Bytes(5, filter).wire = 2 /\ Bytes(5, filter).body = filter
    BY DEF Bytes
  <2> HIDE DEF filter, says, req
  <2>2. extractField(req, 5) = [ok |-> TRUE, bytes |-> Bytes(5, filter).body]
    BY <1>4, <1>6, <1>7, <2>1, ExtractFieldReads
  <2> QED
    BY <2>1, <2>2 DEF extractString
<1>9. extractVarint(filter, 6) = 2
  <2>1. Num(6, 2).wire = 0 /\ Num(6, 2).arg = 2
    BY DEF Num
  <2> HIDE DEF filter, asks
  <2> QED
    BY <1>4, <1>5, <1>7, <2>1, ExtractVarintReads
<1> HIDE DEF filter, req
<1> QED
  BY <1>3, <1>8, <1>9 DEF Egress

\* The reader finds in every response the relay may have for it what the relay put
\* there, and the request asks for egress flows (hubble_grpc.go:97-294): for any
\* scripts, and so for any values, any fields the reader does not know and any
\* order of the fields in every message.
THEOREM ReadsFaithfully == Spec => []DecodesFaithfully
<1>1. TypeInv => DecodesFaithfully
  <2> SUFFICES ASSUME TypeInv PROVE DecodesFaithfully
    OBVIOUS
  <2>1. \A r \in Range(script) : r \in Response /\ WellFormed(r)
    <3>1. Range(script) \subseteq Responses
      BY LenProperties DEF TypeInv, SeqsOK, Range
    <3> QED
      BY <3>1, SourceAssumption
  <2> QED
    BY <2>1, RequestForEgress, ResponsesDecode DEF DecodesFaithfully
<1> QED
  BY <1>1, TypeInvariant, PTL

-----------------------------------------------------------------------------
(* Nothing is lost, doubled or reordered between the relay and the channel.*)

\* A response on its way that Observe will push.
Delivers(b) == Decoded(b).ok /\ Wanted(Decoded(b).flow)

\* at[i] is the number of matched flows in front of what wire[i] stands for:
\* those pushed, the one about to be, and those in wire[1] to wire[i - 1].
Places(at) ==
  /\ at[1] = Len(pushed) + (IF pc = "push" THEN 1 ELSE 0)
  /\ at[Len(wire) + 1] = Len(matched)
  /\ \A i \in 1..(Len(wire) + 1) : at[i] <= Len(matched)
  /\ \A i \in 1..Len(wire) :
       IF Delivers(wire[i])
         THEN /\ at[i + 1] = at[i] + 1
              /\ matched[at[i] + 1] = Decoded(wire[i]).flow
         ELSE at[i + 1] = at[i]

\* While Observe runs, what is in transit is what has matched and is not pushed;
\* what is pushed is what matched first; and before the stream is open there
\* is nothing.
TransitInv ==
  /\ \A i \in 1..Len(pushed) : i <= Len(matched) /\ pushed[i] = matched[i]
  /\ pc \in Opening => pushed = <<>>
  /\ pc = "push" => matched[Len(pushed) + 1] = flow
  /\ result = "running" => \E at \in [1..(Len(wire) + 1) -> Nat] : Places(at)

\* A response the relay sends in answer to the request is delivered if and only
\* if it matches, with the values it was sent with.
LEMMA Delivered ==
  ASSUME DecodesFaithfully, NEW r \in Range(script), r.direction = Egress
  PROVE  /\ Delivers(Encode(r)) <=> Matches(r)
         /\ Matches(r) => Decoded(Encode(r)).flow = Meaning(r)
<1>1. /\ Decoded(Encode(r)).ok <=> r.kind = "flow" /\ r.ns # <<>>
      /\ Decoded(Encode(r)).ok => Decoded(Encode(r)).flow = Meaning(r)
  BY DEF DecodesFaithfully, Decoded
<1>2. Meaning(r).ns = r.ns
  BY DEF Meaning
<1> QED
  BY <1>1, <1>2 DEF Delivers, Matches, Wanted

\* The lengths are numbers.
LEMMA Lengths ==
  ASSUME TypeInv
  PROVE  /\ Len(pushed) \in Nat /\ Len(matched) \in Nat /\ Len(wire) \in Nat
         /\ DOMAIN pushed = 1..Len(pushed)
BY LenProperties DEF TypeInv, SeqsOK

\* RecvMsg takes the response at the head.
LEMMA TransitRecv ==
  ASSUME TypeInv, TransitInv, Recv
  PROVE  TransitInv'
<1> USE Lengths
<1>1. /\ pc = "recv" /\ wire # <<>> /\ wire' = Tail(wire)
      /\ UNCHANGED <<namespace, result, matched, pushed>>
      /\ IF Delivers(Head(wire))
           THEN pc' = "push" /\ flow' = Decoded(Head(wire)).flow
           ELSE pc' = "recv"
  BY DEF Recv, Delivers, Decoded
<1>2. result = "running"
  BY <1>1 DEF TypeInv, TypeOK
<1>3. PICK at \in [1..(Len(wire) + 1) -> Nat] : Places(at)
  BY <1>2 DEF TransitInv
<1>4. /\ Len(wire') = Len(wire) - 1 /\ Len(wire) >= 1
      /\ Head(wire) = wire[1]
      /\ \A i \in 1..Len(wire') : wire'[i] = wire[i + 1]
  BY <1>1, HeadTailProperties, EmptySeq DEF TypeInv, SeqsOK
<1> PICK next : next = [i \in 1..(Len(wire') + 1) |-> at[i + 1]]
  OBVIOUS
<1>5. /\ next \in [1..(Len(wire') + 1) -> Nat]
      /\ \A i \in 1..(Len(wire') + 1) :
           next[i] = at[i + 1] /\ i + 1 \in 1..(Len(wire) + 1)
  BY <1>4
<1>6. /\ at[1] = Len(pushed) /\ at[1] \in Nat
      /\ IF Delivers(wire[1])
           THEN at[2] = at[1] + 1 /\ matched[at[1] + 1] = Decoded(wire[1]).flow
           ELSE at[2] = at[1]
  BY <1>1, <1>3, <1>4 DEF Places
<1>7. next[1] = Len(pushed') + (IF pc' = "push" THEN 1 ELSE 0)
  BY <1>1, <1>4, <1>5, <1>6
<1>8. /\ next[Len(wire') + 1] = Len(matched')
      /\ \A i \in 1..(Len(wire') + 1) : next[i] <= Len(matched')
  BY <1>1, <1>3, <1>4, <1>5 DEF Places
<1>9. ASSUME NEW i \in 1..Len(wire')
      PROVE  IF Delivers(wire'[i])
               THEN /\ next[i + 1] = next[i] + 1
                    /\ matched'[next[i] + 1] = Decoded(wire'[i]).flow
               ELSE next[i + 1] = next[i]
  <2>1. /\ next[i] = at[i + 1] /\ next[i + 1] = at[i + 2]
        /\ wire'[i] = wire[i + 1] /\ i + 1 \in 1..Len(wire)
    BY <1>4, <1>5, SMTT(30)
  <2>2. IF Delivers(wire[i + 1])
          THEN /\ at[i + 1 + 1] = at[i + 1] + 1
               /\ matched[at[i + 1] + 1] = Decoded(wire[i + 1]).flow
          ELSE at[i + 1 + 1] = at[i + 1]
    BY <1>3, <2>1 DEF Places
  <2>3. i + 1 + 1 = i + 2
    OBVIOUS
  <2> QED
    BY <1>1, <2>1, <2>2, <2>3
<1>10. \A b : Delivers(b)' <=> Delivers(b)
  BY <1>1 DEF Delivers, Wanted
<1>11. Places(next)'
  BY <1>7, <1>8, <1>9, <1>10 DEF Places
<1>12. pc' = "push" => matched'[Len(pushed') + 1] = flow'
  BY <1>1, <1>4, <1>6
<1> QED
  BY <1>1, <1>5, <1>11, <1>12 DEF TransitInv, Opening

\* The channel takes the flow.
LEMMA TransitPush ==
  ASSUME TypeInv, TransitInv, Push
  PROVE  TransitInv' /\ Len(pushed) < Len(matched)
<1> USE Lengths
<1>1. /\ pc = "push" /\ pc' = "recv" /\ pushed' = Append(pushed, flow)
      /\ UNCHANGED <<namespace, result, matched, wire>>
  BY DEF Push
<1>2. result = "running"
  BY <1>1 DEF TypeInv, TypeOK
<1>3. PICK at \in [1..(Len(wire) + 1) -> Nat] : Places(at)
  BY <1>2 DEF TransitInv
<1>4. /\ Len(pushed') = Len(pushed) + 1 /\ pushed'[Len(pushed) + 1] = flow
      /\ \A i \in 1..Len(pushed) : pushed'[i] = pushed[i]
  BY <1>1, AppendProperties DEF TypeInv, SeqsOK
<1>5. at[1] = Len(pushed) + 1 /\ at[1] <= Len(matched)
  BY <1>1, <1>3 DEF Places
<1>6. Places(at)'
  <2>1. at[1] = Len(pushed') + (IF pc' = "push" THEN 1 ELSE 0)
    BY <1>1, <1>4, <1>5
  <2>2. \A b : Delivers(b)' <=> Delivers(b)
    BY <1>1 DEF Delivers, Wanted
  <2> QED
    BY <1>1, <1>3, <2>1, <2>2 DEF Places
<1>7. ASSUME NEW i \in 1..Len(pushed')
      PROVE  i <= Len(matched') /\ pushed'[i] = matched'[i]
  <2>1. CASE i \in 1..Len(pushed)
    BY <1>1, <1>4, <2>1 DEF TransitInv
  <2>2. CASE i = Len(pushed) + 1
    BY <1>1, <1>4, <1>5, <2>2 DEF TransitInv
  <2> QED
    BY <1>4, <2>1, <2>2
<1> QED
  BY <1>1, <1>3, <1>5, <1>6, <1>7 DEF TransitInv, Opening

\* The relay sends a response.
LEMMA TransitSend ==
  ASSUME DecodesFaithfully, TypeInv, TransitInv, RelaySend
  PROVE  TransitInv'
<1> USE Lengths
<1> DEFINE r == Head(script)
<1>1. UNCHANGED <<namespace, pc, result, flow, pushed>>
  BY DEF RelaySend
<1>2. r \in Responses
  BY HeadTailProperties DEF RelaySend, TypeInv, SeqsOK
<1>3. /\ Len(matched') \in Nat /\ Len(matched) <= Len(matched')
      /\ \A i \in 1..Len(matched) : matched'[i] = matched[i]
  <2>1. Meaning(r) \in Flows
    BY <1>2 DEF Flows
  <2>2. matched' \in {matched, Append(matched, Meaning(r))}
    BY DEF RelaySend
  <2> HIDE DEF r
  <2> QED
    BY <2>1, <2>2, AppendProperties DEF TypeInv, SeqsOK
<1>4. \A i \in 1..Len(pushed') : i <= Len(matched') /\ pushed'[i] = matched'[i]
  BY <1>1, <1>3 DEF TransitInv
<1>5. pc' = "push" => matched'[Len(pushed') + 1] = flow'
  <2> SUFFICES ASSUME pc = "push" PROVE matched'[Len(pushed) + 1] = flow
    BY <1>1
  <2>1. result = "running"
    BY DEF TypeInv, TypeOK
  <2>2. PICK at \in [1..(Len(wire) + 1) -> Nat] : Places(at)
    BY <2>1 DEF TransitInv
  <2>3. Len(pushed) + 1 \in 1..Len(matched)
    BY <2>2 DEF Places
  <2> QED
    BY <1>3, <2>3 DEF TransitInv
<1>6. ASSUME result' = "running"
      PROVE  \E next \in [1..(Len(wire') + 1) -> Nat] : Places(next)'
  <2>1. PICK at \in [1..(Len(wire) + 1) -> Nat] : Places(at)
    BY <1>1, <1>6 DEF TransitInv
  <2>2. \A b : Delivers(b)' <=> Delivers(b)
    BY <1>1 DEF Delivers, Wanted
  <2>3. CASE UNCHANGED <<wire, matched>>
    BY <1>1, <2>1, <2>2, <2>3 DEF Places
  <2>4. CASE /\ extractVarint(extractString(request, 5), 6) \in {0, r.direction}
             /\ wire' = Append(wire, Encode(r))
             /\ matched' = IF Matches(r) THEN Append(matched, Meaning(r))
                                         ELSE matched
    <3>1. r.direction = Egress
      BY <2>4 DEF RelaySend, TypeInv, TypeOK, DecodesFaithfully, Egress
    <3>2. /\ Delivers(Encode(r)) <=> Matches(r)
          /\ Matches(r) => Decoded(Encode(r)).flow = Meaning(r)
      <4>1. r \in Range(script)
        BY HeadTailProperties, LenProperties, EmptySeq
           DEF RelaySend, TypeInv, SeqsOK, Range
      <4> QED
        BY <3>1, <4>1, Delivered
    <3>3. Encode(r) \in Encodings /\ Meaning(r) \in Flows
      BY <1>2 DEF Encodings, Flows
    <3> HIDE DEF r
    <3>4. /\ Len(wire') = Len(wire) + 1 /\ wire'[Len(wire) + 1] = Encode(r)
          /\ \A i \in 1..Len(wire) : wire'[i] = wire[i]
      BY <2>4, <3>3, AppendProperties DEF TypeInv, SeqsOK
    <3>5. IF Matches(r)
            THEN /\ Len(matched') = Len(matched) + 1
                 /\ matched'[Len(matched) + 1] = Meaning(r)
            ELSE Len(matched') = Len(matched)
      BY <2>4, <3>3, AppendProperties DEF TypeInv, SeqsOK
    <3> PICK next : next = [i \in 1..(Len(wire') + 1) |->
                              IF i <= Len(wire) + 1 THEN at[i]
                                                    ELSE Len(matched')]
      OBVIOUS
    <3>6. /\ next \in [1..(Len(wire') + 1) -> Nat]
          /\ \A i \in 1..(Len(wire) + 1) : next[i] = at[i]
          /\ next[Len(wire) + 2] = Len(matched')
      BY <1>3, <3>4
    <3>7. \A i \in 1..(Len(wire') + 1) : next[i] <= Len(matched')
      <4>1. \A i \in 1..(Len(wire) + 1) : next[i] \in Nat /\ next[i] <= Len(matched)
        BY <2>1, <3>6 DEF Places
      <4>2. \A i \in 1..(Len(wire') + 1) :
              i \in 1..(Len(wire) + 1) \/ i = Len(wire) + 2
        BY <3>4
      <4>3. ASSUME NEW i \in 1..(Len(wire') + 1) PROVE next[i] <= Len(matched')
        <5>1. CASE i \in 1..(Len(wire) + 1)
          <6>1. next[i] \in Nat /\ next[i] <= Len(matched)
            BY <4>1, <5>1
          <6>2. /\ Len(matched) \in Nat /\ Len(matched') \in Nat
                /\ Len(matched) <= Len(matched')
            BY <1>3
          <6> QED
            BY ONLY <6>1, <6>2
        <5>2. CASE i = Len(wire) + 2
          BY <1>3, <3>6, <5>2
        <5> QED
          BY <4>2, <5>1, <5>2
      <4> QED
        BY <4>3
    <3>8. /\ next[1] = Len(pushed') + (IF pc' = "push" THEN 1 ELSE 0)
          /\ next[Len(wire') + 1] = Len(matched')
      BY <1>1, <2>1, <3>4, <3>6 DEF Places
    <3>9. ASSUME NEW i \in 1..Len(wire')
          PROVE  IF Delivers(wire'[i])
                   THEN /\ next[i + 1] = next[i] + 1
                        /\ matched'[next[i] + 1] = Decoded(wire'[i]).flow
                   ELSE next[i + 1] = next[i]
      <4>1. CASE i \in 1..Len(wire)
        <5>1. i \in 1..(Len(wire) + 1) /\ i + 1 \in 1..(Len(wire) + 1)
          BY <4>1
        <5>2. wire'[i] = wire[i] /\ next[i] = at[i] /\ next[i + 1] = at[i + 1]
          BY <3>4, <3>6, <4>1, <5>1
        <5>3. at[i] \in Nat /\ at[i + 1] \in Nat /\ at[i + 1] <= Len(matched)
          BY <2>1, <5>1 DEF Places
        <5>4. IF Delivers(wire[i])
                THEN /\ at[i + 1] = at[i] + 1
                     /\ matched[at[i] + 1] = Decoded(wire[i]).flow
                ELSE at[i + 1] = at[i]
          BY <2>1, <4>1 DEF Places
        <5> QED
          BY <1>3, <5>2, <5>3, <5>4
      <4>2. CASE i = Len(wire) + 1
        <5>1. /\ wire'[i] = Encode(r) /\ next[i] = Len(matched)
              /\ next[i + 1] = Len(matched')
          BY <2>1, <3>4, <3>6, <4>2 DEF Places
        <5> QED
          BY <3>2, <3>5, <5>1
      <4> QED
        BY <3>4, <4>1, <4>2
    <3>10. Places(next)'
      BY <2>2, <3>7, <3>8, <3>9 DEF Places
    <3> QED
      BY <3>6, <3>10
  <2> QED
    BY <2>3, <2>4 DEF RelaySend
<1> QED
  BY <1>1, <1>4, <1>5, <1>6 DEF TransitInv

\* TransitInv is inductive.
LEMMA TransitNext ==
  ASSUME DecodesFaithfully, TypeInv, TransitInv, [Next]_vars
  PROVE  TransitInv'
<1>1. CASE \E ok \in BOOLEAN : Connect(ok)
  <2> PICK ok \in BOOLEAN : Connect(ok)
    BY <1>1
  <2>1. /\ UNCHANGED <<namespace, wire, matched, flow, pushed>>
        /\ pushed = <<>> /\ pc # "push"
    BY DEF Connect, TransitInv, Opening
  <2>2. Len(pushed) = 0
    BY <2>1, EmptySeq
  <2>3. pc' # "push" /\ (result' = "running" => result = "running")
    BY DEF Connect, ReturnWith, Opening
  <2>4. \A b : Delivers(b)' <=> Delivers(b)
    BY <2>1 DEF Delivers, Wanted
  <2>5. \A at : Places(at) => Places(at)'
    BY <2>1, <2>3, <2>4 DEF Places
  <2> QED
    BY <2>1, <2>2, <2>3, <2>5 DEF TransitInv
<1>2. CASE RecvFails \/ PushCancelled
  <2>1. /\ UNCHANGED <<matched, pushed>>
        /\ pc' = "done" /\ result' # "running"
    BY <1>2 DEF RecvFails, PushCancelled, ReturnWith
  <2> QED
    BY <2>1 DEF TransitInv, Opening
<1>3. CASE UNCHANGED <<namespace, pc, result, wire, matched, flow, pushed>>
  BY <1>3 DEF TransitInv, Places, Delivers, Wanted
<1> QED
  BY <1>1, <1>2, <1>3, TransitRecv, TransitPush, TransitSend
     DEF Next, Observe, RelayEnd, Take, Cancel, vars

\* Nothing is in transit at first.
LEMMA TransitInit == Init => TransitInv
<1> SUFFICES ASSUME Init PROVE TransitInv
  OBVIOUS
<1>1. /\ Len(pushed) = 0 /\ Len(wire) = 0 /\ Len(matched) = 0 /\ pc = "dial"
      /\ pushed = <<>>
  BY EmptySeq DEF Init
<1> DEFINE at == [i \in 1..1 |-> 0]
<1>2. at \in [1..(Len(wire) + 1) -> Nat] /\ Places(at)
  BY <1>1 DEF Places
<1> QED
  BY <1>1, <1>2 DEF TransitInv

\* Once RecvMsg has nothing left, all that matched is pushed.
LEMMA NothingLost ==
  ASSUME TypeInv, TransitInv, pc = "recv", wire = <<>>
  PROVE  pushed = matched
<1> USE Lengths
<1>1. result = "running" /\ Len(wire) = 0
  BY EmptySeq DEF TypeInv, TypeOK
<1>2. PICK at \in [1..(Len(wire) + 1) -> Nat] : Places(at)
  BY <1>1 DEF TransitInv
<1>3. Len(pushed) = Len(matched)
  BY <1>1, <1>2 DEF Places
<1> QED
  BY <1>3, SeqEqual DEF TypeInv, SeqsOK, TransitInv

\* Observe runs as long as it opens its stream, receives or pushes.
LEMMA ContractState ==
  ASSUME TypeInv
  PROVE  /\ pc \in Opening \cup {"recv", "push"} <=> result = "running"
         /\ "recv" \notin Opening /\ "push" \notin Opening /\ "done" \notin Opening
BY DEF TypeInv, TypeOK, Opening

\* A step of Observe, its relay or its reader is one of the contract's, one of
\* the two it does not allow, or none.
LEMMA ContractStep ==
  ASSUME TypeInv, TransitInv, [Next]_vars
  PROVE  [Source!Next \/ CancelledEarly \/ StreamOver]_(Source!vars)
<1> USE ContractState
<1>1. CASE \E ok \in BOOLEAN : Connect(ok)
  <2>1. PICK ok \in BOOLEAN : Connect(ok)
    BY <1>1
  <2>2. /\ pc \in Opening /\ result = "running"
        /\ UNCHANGED <<matched, pushed, cancelled>>
    BY <2>1 DEF Connect
  <2>3. CASE ok
    <3>1. pc' \in Opening \cup {"recv"} /\ result' = result
      BY <2>1, <2>3 DEF Connect, Opening
    <3>2. CASE pc' \in Opening
      BY <2>2, <3>2 DEF Source!vars
    <3>3. CASE pc' = "recv"
      BY <2>2, <3>1, <3>3 DEF Source!Next, Source!Open
    <3> QED
      BY <3>1, <3>2, <3>3
  <2>4. CASE ~ok
    <3>1. pc' = "done" /\ result' = "error"
      BY <2>1, <2>4 DEF Connect, ReturnWith
    <3>2. CASE cancelled
      BY <2>2, <3>1, <3>2 DEF CancelledEarly, ReturnWith
    <3>3. CASE ~cancelled
      BY <2>2, <3>1, <3>3 DEF Source!Next, Source!Fail
    <3> QED
      BY <3>2, <3>3
  <2> QED
    BY <2>3, <2>4
<1>2. CASE Recv
  <2>1. /\ UNCHANGED <<matched, pushed, cancelled, result>>
        /\ pc \notin Opening /\ pc' \notin Opening
    BY <1>2 DEF Recv
  <2> QED
    BY <2>1 DEF Source!vars
<1>3. CASE RecvFails
  <2>1. /\ pc = "recv" /\ result = "running" /\ pc' = "done"
        /\ UNCHANGED <<matched, pushed, cancelled>>
        /\ result' = IF cancelled \/ relay = "eof" THEN "nil" ELSE "error"
    BY <1>3 DEF RecvFails, ReturnWith
  <2>2. cancelled \/ pushed = matched
    BY <1>3, NothingLost DEF RecvFails, NothingLeft
  <2>3. CASE cancelled
    BY <2>1, <2>3 DEF Source!Next, Source!Return
  <2>4. CASE ~cancelled /\ relay = "eof"
    BY <2>1, <2>2, <2>4 DEF StreamOver, ReturnWith
  <2>5. CASE ~cancelled /\ relay # "eof"
    BY <2>1, <2>2, <2>5 DEF Source!Next, Source!Fail
  <2> QED
    BY <2>3, <2>4, <2>5
<1>4. CASE Push
  <2>1. /\ matched[Len(pushed) + 1] = flow /\ result = "running"
        /\ pc = "push" /\ pc' = "recv" /\ result' = result
        /\ pushed' = Append(pushed, flow) /\ UNCHANGED <<matched, cancelled>>
    BY <1>4 DEF Push, TransitInv
  <2> QED
    BY <1>4, <2>1, TransitPush DEF Source!Next, Source!Push
<1>5. CASE PushCancelled
  <2>1. /\ pc = "push" /\ result = "running" /\ pc' = "done" /\ result' = "nil"
        /\ cancelled /\ UNCHANGED <<matched, pushed, cancelled>>
    BY <1>5 DEF PushCancelled, CancelSeen, ReturnWith
  <2> QED
    BY <2>1 DEF Source!Next, Source!Return
<1>6. CASE RelaySend
  <2>1. Head(script) \in Responses
    BY <1>6, HeadTailProperties DEF RelaySend, TypeInv, SeqsOK
  <2>2. matched' \in {matched, Append(matched, Meaning(Head(script)))}
    BY <1>6 DEF RelaySend
  <2> QED
    BY <1>6, <2>1, <2>2 DEF RelaySend, Source!Next, Source!Come, Source!vars
<1>7. CASE Cancel
  BY <1>7 DEF Cancel, Source!Next, Source!Cancel
<1>8. CASE UNCHANGED <<matched, pushed, cancelled, pc, result>>
  BY <1>8 DEF Source!vars
<1> QED
  BY <1>1, <1>2, <1>3, <1>4, <1>5, <1>6, <1>7, <1>8
     DEF Next, Observe, RelayEnd, Take, vars

\* Each step of Observe is one the contract of flowsource.go:5-11 allows, but for
\* an error when it is cancelled while it opens its stream and a return when the
\* relay ends it (hubble_grpc.go:34-294): every flow that matches is pushed once,
\* in order and with the values it was sent with, nothing that came before an
\* end or a failure is lost, and a cancellation of an open stream is no error;
\* for every script, encoding, namespace, capacity, speed of the accumulator and
\* moment of an end, a failure or a cancellation.
THEOREM FollowsContract == Spec => FollowsFlowSource
<1>1. Init => Source!Init
  BY DEF Init, Source!Init, Opening
<1>2. DecodesFaithfully /\ TypeInv /\ TransitInv /\ [Next]_vars => TransitInv'
  BY TransitNext
<1>3. TypeInv /\ TransitInv /\ [Next]_vars
        => [Source!Next \/ CancelledEarly \/ StreamOver]_(Source!vars)
  BY ContractStep
<1> QED
  BY <1>1, <1>2, <1>3, TransitInit, TypeInvariant, ReadsFaithfully, PTL
     DEF Spec, FollowsFlowSource
=============================================================================
