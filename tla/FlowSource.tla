----------------------------- MODULE FlowSource -----------------------------
(***************************************************************************)
(* internal/observer/flowsource.go: what the accumulator may expect of a   *)
(* flow source.  Observe opens a stream and pushes the flows that match    *)
(* into a channel, each one once and in the order in which they came; it   *)
(* blocks until it is cancelled, which is not an error, and returns an     *)
(* error only when its stream cannot be opened or breaks.                  *)
(***************************************************************************)
EXTENDS Naturals, Sequences

CONSTANT Flows

VARIABLES
  matched,     \* the flows that have come so far and match
  pushed,      \* the flows that have been pushed
  cancelled,   \* ctx.Done() is closed
  state        \* "opening", "streaming", or what Observe has returned: "nil"
               \* or "error"

vars == <<matched, pushed, cancelled, state>>

Init ==
  /\ matched = <<>> /\ pushed = <<>>
  /\ cancelled = FALSE /\ state = "opening"

Open ==
  /\ state = "opening" /\ state' = "streaming"
  /\ UNCHANGED <<matched, pushed, cancelled>>

Come ==
  /\ \E flow \in Flows : matched' = Append(matched, flow)
  /\ UNCHANGED <<pushed, cancelled, state>>

Push ==
  /\ state = "streaming" /\ Len(pushed) < Len(matched)
  /\ pushed' = Append(pushed, matched[Len(pushed) + 1])
  /\ UNCHANGED <<matched, cancelled, state>>

Cancel ==
  /\ cancelled' = TRUE
  /\ UNCHANGED <<matched, pushed, state>>

\* Cancelled, Observe returns, and without an error.
Return ==
  /\ state \in {"opening", "streaming"}
  /\ cancelled
  /\ state' = "nil"
  /\ UNCHANGED <<matched, pushed, cancelled>>

\* An unrecoverable failure: the stream cannot be opened, or it breaks once all
\* that came through it is pushed.
Fail ==
  /\ \/ state = "opening"
     \/ state = "streaming" /\ pushed = matched
  /\ ~cancelled
  /\ state' = "error"
  /\ UNCHANGED <<matched, pushed, cancelled>>

Next == Open \/ Come \/ Push \/ Cancel \/ Return \/ Fail

Spec == Init /\ [][Next]_vars
=============================================================================
