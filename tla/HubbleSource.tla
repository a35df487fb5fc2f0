---------------------------- MODULE HubbleSource ----------------------------
(***************************************************************************)
(* internal/observer/hubble_grpc.go, Observe: connect to Hubble Relay, ask *)
(* for egress flows, and turn the stream of responses into flows on the    *)
(* accumulator's channel.  Around it: the relay, which encodes what it     *)
(* sends and may end or break the stream (external, as the code uses it),  *)
(* the accumulator at the other end of the channel, and the cancellation   *)
(* of the context when the manager stops.                                  *)
(***************************************************************************)
EXTENDS HubbleWire

CONSTANTS
  Scripts,      \* sequences of responses, what there is for the relay to send
  Namespaces,   \* values of the source's Namespace; <<>> is the empty one
  ChanCap       \* capacity of flowCh

\* The responses of the scripts.
Responses == UNION {Range(s) : s \in Scripts}

ASSUME SourceAssumption == /\ ChanCap \in Nat \ {0}
                           /\ Scripts \subseteq Seq(Responses)
                           /\ \A r \in Responses : r \in Response /\ WellFormed(r)

VARIABLES
  namespace,   \* h.Namespace
  pc,          \* where Observe is
  result,      \* "running", or what Observe has returned
  cancelled,   \* ctx.Done() is closed
  request,     \* the bytes of the GetFlows request the relay has
  script,      \* the responses the relay has yet to send
  relay,       \* "up", or how the stream has ended: "eof" or "failed"
  wire,        \* the bytes of responses that RecvMsg has yet to return
  matched,     \* history: the flows Observe is for among those that arrived
  flow,        \* the flow Observe is about to push
  pushed,      \* history: the flows pushed
  taken        \* how many of them the accumulator has received

vars == <<namespace, pc, result, cancelled, request, script, relay, wire,
          matched, flow, pushed, taken>>

-----------------------------------------------------------------------------
(* The relay (external).                                                   *)

Egress == 2

\* What Observe is for: the egress flows of pods, of its namespace if it has
\* one.
Matches(r) ==
  /\ r.kind = "flow" /\ r.direction = Egress /\ r.ns # <<>>
  /\ namespace \in {<<>>, r.ns}

\* A relay that was asked to follow sends, in time, all that passes the
\* request's filter.
RelaySend ==
  /\ relay = "up" /\ script # <<>>
  /\ request # <<>> /\ extractVarint(request, 7) = 1
  /\ script' = Tail(script)
  /\ LET r == Head(script) IN
       IF extractVarint(extractString(request, 5), 6) \in {0, r.direction}
         THEN /\ wire' = Append(wire, Encode(r))
              /\ matched' = IF Matches(r) THEN Append(matched, Meaning(r))
                                          ELSE matched
         ELSE UNCHANGED <<wire, matched>>
  /\ UNCHANGED <<namespace, pc, result, cancelled, request, relay, flow, pushed,
                 taken>>

\* The relay ends the stream, or the connection breaks.
RelayEnd(how) ==
  /\ relay = "up" /\ request # <<>>
  /\ relay' = how
  /\ UNCHANGED <<namespace, script, pc, result, cancelled, request, wire,
                 matched, flow, pushed, taken>>

-----------------------------------------------------------------------------
(* Observe.                                                                *)

\* follow = true; whitelist = [traffic_direction = EGRESS].
buildGetFlowsRequest == <<56, 1>> \o <<42, 2>> \o <<48, 2>>

\* Where Observe is before its stream is open and the request sent.
Opening == {"dial", "open", "send", "close"}

TypeOK ==
  /\ cancelled \in BOOLEAN /\ relay \in {"up", "eof", "failed"}
  /\ request \in {<<>>, buildGetFlowsRequest}
  /\ pc \in Opening \cup {"recv", "push", "done"}
  /\ result \in {"running", "nil", "error"}
  /\ (pc = "done") <=> (result # "running")
  /\ taken \in Nat
  /\ taken <= Len(pushed) /\ Len(pushed) <= taken + ChanCap

Init ==
  /\ namespace \in Namespaces /\ script \in Scripts
  /\ pc = "dial" /\ result = "running" /\ cancelled = FALSE
  /\ request = <<>> /\ relay = "up"
  /\ wire = <<>> /\ matched = <<>> /\ flow = NoFlow
  /\ pushed = <<>> /\ taken = 0

ReturnWith(r) == pc' = "done" /\ result' = r

\* Dial, NewStream, SendMsg and CloseSend, one after the other; the first that
\* fails ends Observe, a cancelled context being one way to fail.
Connect(ok) ==
  /\ pc \in Opening
  /\ IF ok
       THEN /\ pc' = CASE pc = "dial" -> "open" [] pc = "open" -> "send"
                       [] pc = "send" -> "close" [] pc = "close" -> "recv"
            /\ result' = result
            /\ request' = IF pc = "send" THEN buildGetFlowsRequest ELSE request
       ELSE ReturnWith("error") /\ request' = request
  /\ UNCHANGED <<namespace, script, cancelled, relay, wire, matched, flow,
                 pushed, taken>>

\* Mutated form: the namespace is compared although there is none to compare.
WantedAlways(f) == f.ns = namespace

\* The namespace filter.
Wanted(f) == namespace = <<>> \/ f.ns = namespace

\* RecvMsg returns a response; one that does not decode or is not wanted is
\* dropped.
Recv ==
  /\ pc = "recv" /\ wire # <<>>
  /\ wire' = Tail(wire)
  /\ UNCHANGED <<namespace, script, result, cancelled, request, relay,
                 matched, pushed, taken>>
  /\ \E decoded \in {decodeGetFlowsResponse(Head(wire))} :
       IF decoded.ok /\ Wanted(decoded.flow)
         THEN pc' = "push" /\ flow' = decoded.flow
         ELSE UNCHANGED <<pc, flow>>

\* Mutated form: the end of the stream overtakes the responses before it.
EndOvertakes == relay # "up"

\* RecvMsg fails once the responses are used up.
NothingLeft == wire = <<>> /\ relay # "up"

\* RecvMsg returns an error: the end of the stream and a cancelled context are
\* no error of Observe.
RecvFails ==
  /\ pc = "recv"
  /\ cancelled \/ NothingLeft
  /\ ReturnWith(IF cancelled \/ relay = "eof" THEN "nil" ELSE "error")
  /\ UNCHANGED <<namespace, script, cancelled, request, relay, wire, matched,
                 flow, pushed, taken>>

\* Mutated form: one flow too many.
RoomForOneMore == Len(pushed) - taken <= ChanCap

\* flowCh has room.
HasRoom == Len(pushed) - taken < ChanCap

\* The select: the channel takes the flow ...
Push ==
  /\ pc = "push"
  /\ HasRoom
  /\ pushed' = Append(pushed, flow)
  /\ pc' = "recv" /\ flow' = NoFlow
  /\ UNCHANGED <<namespace, script, result, cancelled, request, relay, wire,
                 matched, taken>>

\* Mutated form: nobody looks at the context while the channel is full.
CancelUnseen == cancelled /\ HasRoom

CancelSeen == cancelled

\* ... or the context is cancelled.
PushCancelled ==
  /\ pc = "push"
  /\ CancelSeen
  /\ ReturnWith("nil")
  /\ UNCHANGED <<namespace, script, cancelled, request, relay, wire, matched,
                 flow, pushed, taken>>

-----------------------------------------------------------------------------
(* The accumulator, which stops receiving when the context is cancelled,   *)
(* and the manager that cancels it.                                        *)

Take ==
  /\ ~cancelled /\ taken < Len(pushed)
  /\ taken' = taken + 1
  /\ UNCHANGED <<namespace, script, pc, result, cancelled, request, relay,
                 wire, matched, flow, pushed>>

Cancel ==
  /\ ~cancelled
  /\ cancelled' = TRUE
  /\ UNCHANGED <<namespace, script, pc, result, request, relay, wire, matched,
                 flow, pushed, taken>>

Observe ==
  \/ \E ok \in BOOLEAN : Connect(ok)
  \/ Recv \/ RecvFails \/ Push \/ PushCancelled

Next ==
  \/ Observe
  \/ RelaySend
  \/ \E how \in {"eof", "failed"} : RelayEnd(how)
  \/ Take
  \/ Cancel

Spec == Init /\ [][Next]_vars

\* Observe's goroutine runs (grpc.WithTimeout bounds the dial) and so does the
\* accumulator's loop; the relay and the manager owe nothing.
FairSpec == Spec /\ WF_vars(Observe) /\ WF_vars(Take)

-----------------------------------------------------------------------------
(* Properties.                                                             *)

\* The contract of a flow source.
Source == INSTANCE FlowSource WITH
  Flows <- {Meaning(r) : r \in Responses},
  state <- IF pc \in Opening THEN "opening"
           ELSE IF result = "running" THEN "streaming" ELSE result

\* The reader will find in every response the relay has for it what the relay
\* put there, whatever fields it does not know are in front of it and in whatever
\* order, and give up only on responses that are no flow of a pod; and what the
\* request asks for are egress flows (hubble_grpc.go:97-294).
DecodesFaithfully ==
  /\ extractVarint(extractString(buildGetFlowsRequest, 5), 6) = Egress
  /\ \A r \in Range(script) :
       LET decoded == decodeGetFlowsResponse(Encode(r)) IN
       /\ decoded.ok <=> r.kind = "flow" /\ r.ns # <<>>
       /\ decoded.ok => decoded.flow = Meaning(r)

\* Two steps of Observe break the contract.  Cancelled before its stream is
\* open, it returns the error of the call that was interrupted
\* (hubble_grpc.go:40-66), although "ctx cancellation is not an error"
\* (flowsource.go:9) ...
CancelledEarly ==
  /\ pc \in Opening /\ cancelled
  /\ ReturnWith("error")
  /\ UNCHANGED <<matched, pushed, cancelled>>

\* ... and when the relay ends the stream it returns, all that came pushed
\* (hubble_grpc.go:72), although sources "block until ctx is cancelled"
\* (flowsource.go:6).
StreamOver ==
  /\ pc = "recv" /\ relay = "eof" /\ pushed = matched
  /\ ReturnWith("nil")
  /\ UNCHANGED <<matched, pushed, cancelled>>

\* Each step of Observe is one the contract of flowsource.go:5-11 allows, except
\* for those two: every egress flow the relay sent is pushed once, in order,
\* with the values it was sent with, wherever the relay put fields the reader
\* does not know; an error is returned only while the stream is being opened,
\* or when it broke and nothing that came before is lost; and once the stream is
\* open a cancellation is no error (hubble_grpc.go:68-89, 115-294).
FollowsFlowSource ==
  Source!Init
    /\ [][Source!Next \/ CancelledEarly \/ StreamOver]_(Source!vars)

\* Whatever was sent is pushed sooner or later, although the channel is bounded
\* and the reader slow, unless Observe returns (hubble_grpc.go:68-88).
FlowsArrive == []<>(pushed = matched \/ result # "running")

\* A cancelled Observe returns, even with a full channel nobody reads any more:
\* the goroutine does not outlive the manager (hubble_grpc.go:83-87).
CancelStops == cancelled ~> (result # "running")
=============================================================================
