# Egress Guardian Operator in TLA+

A verification project for the operator in `src/`: a Kubernetes operator that
watches the egress traffic of workloads, proposes a CiliumNetworkPolicy that
allows what it saw, and applies it once a human has approved it. The modules
model the operator's concurrent parts and its policy algorithm; TLC checks them
on small instances, and TLAPS proves every safety property the runs check, for
every value of the constants.

    tlc -workers 2 -config operator_safety.cfg MCEgressOperator
    tlapm ReviewGateProofs.tla

`PROJECT.json` lists the runs with their properties, the source lines behind
each definition, the mutated forms each property is tested against, the
disagreements between documentation and code, and the hazards.

## The system

| Part | State | Operations | Talks to |
|---|---|---|---|
| EgressProfile controller (`internal/controller/egressprofile_controller.go`) | locals of one reconcile | create the ConfigMap, register the workload, create the proposal, patch the profile's status | API server, store, accumulator |
| EgressPolicyProposal controller (`egresspolicyproposal_controller.go`) | locals of one reconcile | generate the policy, save `policy.yaml`, export for GitOps, the approval gate, apply the policy, patch the proposal's status | API server, store, generator, file system |
| ConfigMap store (`internal/store`) | one ConfigMap per profile: `baseline.json`, `policy.yaml` | ensure, patch one key, read | called by both controllers and the accumulator |
| Accumulator (`internal/observer/accumulator.go`) | inventory of destinations (at most 500), the ConfigMap of each registered workload | ingest, purge, flush, register | flow source (channel of 256), store |
| Flow sources (`hubble_grpc.go`, `mock.go`) | a stream | dial, ask, receive, decode, filter, push | Hubble Relay, accumulator |
| Scoring and generator (`internal/baseline`, `internal/cilium`) | none | score, sort, exclude, group, rate | called by the proposal controller |
| Manager (`cmd/main.go`) | none | starts the parts; the flow window is fixed at 24h | |
| Drift report (`baseline/drift.go`) | none | compare two snapshots | called by tests |
| Workload resolution (`workload.go`) | none | owner of a pod | called by nobody |

All parts run in one process: one worker per controller, the accumulator's
loop, and the source's goroutine. Typed reads come from informer caches that
lag behind the server, each kind on its own; CiliumNetworkPolicies are
unstructured objects and are read from the server. Writes are creates, updates
under a resourceVersion, and JSON merge patches (without one). People edit
profiles and proposals at any time, the garbage collector removes objects whose
owner is gone, and the process may die between any two calls.

What is hard here: a reconcile decides on cached copies and acts several calls
later; the gate combines two caches; three writers share a ConfigMap; statuses
are patched as differences from stale copies; names outlive objects; the
inventory lives in memory and its image in the cluster; two independently
written classifications of destinations must agree. What makes each part right:

- **gate**: nothing in force without an approval of that very proposal and a
  profile that was put in Enforce; nothing *reported* in force that is not;
- **convergence**: whatever fails on the way, what people leave in place ends up
  in force, in the status and in the copies for review, and what they delete
  goes away;
- **flow source**: every egress flow that arrives is pushed once, in order, with
  the values it was sent with; a cancelled source ends;
- **store**: no writer undoes another's key, no baseline goes back;
- **accumulator**: bounded, forgets nothing it heard from within its window, saves
  what it knows;
- **generator**: every named destination is allowed or listed, longer
  observation never removes one, the sort is a stable sort.

## Modules

    KubeApi                      API server, caches, garbage collector, people (external)
      ConfigMapStore             internal/store
        EgressProfileController            one reconcile, one step per API call
        EgressPolicyProposalController     the same, with the gate
          EgressOperator         both controllers, flushes, restarts; the properties
            MCEgressOperator     op sets and a settled cluster for TLC
            EgressOperatorProofs -> StatusProofs -> ReviewGateProofs
    ReviewGate                   what the operator promises; EgressOperator implements it
    Accumulator                  internal/observer/accumulator.go; MCAccumulator, AccumulatorProofs
    FlowSource                   flowsource.go, what a source promises; HubbleSource follows it, but for two steps
    HubbleDecoder                hubble_grpc.go, the protobuf reader
      HubbleWire                 what Hubble Relay encodes (external); HubbleWireProofs
        HubbleSource             hubble_grpc.go, Observe; MCHubbleSource, HubbleSourceProofs
    RiskScore                    scorer.go, wildcard.go
      PolicyGenerator            builder.go, policy_generator.go, countRisk
    DriftReport                  drift.go
        PolicyGeneration         a baseline that grows (both of the above); MCPolicyGeneration,
                                 PolicyGenerationProofs
    LoopTheorems                 induction and recursive functions, for the proofs

**KubeApi.** `profile`, `proposal`, `cm`, `cnp` are the objects on the server;
`cProfile`, `cProposal`, `cCM` what the informers hold. Names derived from a
profile's name are in bijection with it, so objects are indexed by profile;
policies have names of their own. An object is reduced to what some condition
or property reads. A baseline is its workload and its place in the order of
writes; a policy is the profile it selects, its name and the baseline it was
generated from. A profile's `name` is the policy name after defaulting, `seen`
stands for the status fields every reconcile computes from the baseline (the
counters, the risk summary, `truncated`). The message, which
not every reconcile writes, is left out. An API call is
answered (`ok`), refused without effect (`rejected`), or takes effect and the
answer is lost (`lost`). `MergedField` is what a merge patch does to one field.

**EgressProfileController, EgressPolicyProposalController.** `preq` and `rreq`
are the locals of the reconcile in progress. Consecutive cached reads are one
step, every API call is one more. A finished reconcile comes back after 30s and
a failed one with backoff, so the work queue is abstracted: an idle worker may
take up any object in its cache. Reads that end a reconcile without an effect
(NotFound, a missing ConfigMap) are the guards of the `Get` actions. Locals
nobody reads any more are cleared before the status patch. `applyCNP` is two
steps: a live `Get`, then a write that is refused if the policy changed in
between.

**EgressOperator** puts them together with `FlushSnapshot`, the accumulator as
the rest sees it, and `Restart`, which counts as a fault. `approvedUids`,
`enforced`, `published` and `applied` are history.

**ReviewGate** is the workflow of the README without controllers, caches or API
calls. `Grant` puts approvals, profiles in Enforce and published policies on
record, `Apply` lets a policy come into force that has all three, `Remove` takes
one away, `Report` and `Retract` are what profiles say. The record is for ever:
the code decides on copies read earlier, and does not take a policy out of force
when an approval or a mode is withdrawn, so a gate that looked at the present
would promise more than the code keeps. The mapping (`Gate` in EgressOperator)
takes the policies from the server, the record from the history variables, and
`reported` from the profiles' phases.

**Accumulator** has the clock, the source (the mock, or Hubble, which names a
flow's workload after its pod and may stop), the channel, the inventory, the
registrations, the flush in progress and the saved baselines. `registry` is the
code's map from workloads to ConfigMaps: a reconcile adds or overwrites an entry
and nobody removes one, so after a change of target two workloads write the same
ConfigMap, and of two profiles with one target the last to reconcile gets the
snapshots. `Targets` says which pairs profiles ever ask for. The window is a
constant of the operator (cmd/main.go:150), as in the code. `heard` is history:
the flows ingest took, apart from what the entries say of them. `FlowCount` and
`LastSeen` are kept, `Snapshots` is counted up to `SnapshotCap`. The flush is
one step under the lock and one per workload after it, in any order. The
unlocked read of the registration maps (accumulator.go:175) is a data race with
`RegisterWorkload`; Go's runtime aborts the process when it notices, which is
`RegisterRace`.

**FlowSource** is the contract of flowsource.go as its comments give it: Observe
opens its stream, pushes the flows that match, each once and in order, blocks until
it is cancelled, which is not an error, and returns an error only when the stream
cannot be opened or breaks. The Hubble source takes two steps more, `CancelledEarly`
(an error, because the context was cancelled while it connected) and `StreamOver`
(no error, because the relay ended the stream); `FollowsFlowSource` allows these two
and nothing else, and without either of them TLC finds it violated.
**HubbleSource** is
`Observe`: four calls that connect, then `Recv`, the filter, and the `select`
between the channel and the context. The relay is external: it takes the
operator's request at its word (it reads the request's bytes), sends the bytes of
responses of a script, and may end or break the stream at any time. `matched` and
`pushed` are history; `matched` is taken from the responses *before* encoding, so
that what is pushed is compared with what was meant.
**HubbleDecoder** reads those bytes the way the code does, tag by tag; `With`
only makes TLC evaluate an argument once. The field numbers are those the code's
comments give. **HubbleWire** is the other side, external: a `Response` is what it
says together with the fields of each of its messages, in the order in which they
are sent. `WellFormed` ties the two: a field the operator reads is there with the
value of the response, or left out if it has the default value, and is there only
once; all other fields are free. A field is a varint or length-delimited; one of
fixed width would end the reader's search (see below).

**RiskScore, PolicyGenerator** represent names and addresses by the classes the
code's comparisons tell apart and keep the numbers. A snapshot is a sequence (a
Go map in any order); rules are sets, since the code sorts them. The loops of
`sortByRisk` and `Generate` are recursive functions (`Sorting`, `Excluding`) that
give what each step leaves behind, so that both TLC and induction can follow them.
**PolicyGeneration** lets a baseline grow: destinations appear at any place, are
seen again (the counts at which some condition changes: 1, 5, 10), are counted
in more snapshots (1, 2, 3) and expire. **DriftReport** is applied to each of
these steps.

## Runs

Operator, passing. One profile, whose name is used again after a deletion; two in
operator_shared.

| Run | Properties | Bounds |
|---|---|---|
| operator_safety | TypeOK, ApprovedBeforeApplied, EnforcedBeforeApplied, EnforcedPhaseIsEarned, ImplementsReviewGate | every edit but target and policy name, profiles created in Suggest and Enforce: 3 edits, 1 fault or restart anywhere, 3 uids |
| operator_copies | BaselineNeverRolledBack, PolicyCopiesConverge, CountersConverge | begins with an enforced profile; two targets, two policy names, GitOps on: 2 edits (so also one and back), 1 fault or restart anywhere, 1 snapshot |
| operator_workflow | EnforcementConverges, StatusConverges | modes and approvals both ways, the policy deleted by hand: 3 edits, 1 fault or restart anywhere |
| operator_shared | PublishedBeforeApplied, EnforcementConverges | begins with two enforced profiles that share target and policy name: 2 changes of names, 1 snapshot |
| operator_cleanup | CleanupEventually | create, approve, delete: 3 edits, 3 uids |

The bounds let each interesting case happen: an object recreated under its old
name while a reconcile holds the old copy (3 uids), an approval given and
withdrawn, or a change of mode after an approval, two profiles that part and meet under
another name, a call that fails or a process that dies at
every position in turn, a new snapshot while the previous one is still in a cache.
The safety properties are also proved without any bound.

| Run | Properties | Bounds |
|---|---|---|
| accumulator | TypeOK, InventoryBounded, RecentStayKnown, SnapshotsTrackInventory, BaselineForgetsOnlyExpired, DestinationPersisted, ChannelDrains, StaleLeavesBaseline | 3 flows, a channel of 1, clock from 1 to 2, a window of 0, 1 failing write, 1 restart |
| hubble | TypeOK, DecodesFaithfully, FollowsFlowSource, FlowsArrive, CancelStops | 3 responses, the middle one of 65; a channel of 1; varints of up to 3 bytes, words of 16 bits |
| generator | BuildIsStableSort, NamedAreAccountedFor, CountedHighAreExcluded, AllowedStaysAllowed, DriftExplainsPolicy | snapshots of up to 3 of 9 destination keys, in every order, with every count the score depends on |

The accumulator run has two workloads, three destinations and two ConfigMaps:
one profile whose target is first one workload and then the other, and a second
profile with the same target, so that ConfigMaps are shared and registrations
overwritten, in the middle of a flush too. With `MaxDestinations = 2` the third
destination meets the cap; entries expire, exactly at the boundary too, and are
refreshed by a second flow before they do; two flows fill the inventory and the next
fill the channel. `DestEntry.Snapshots` is not counted in this run (`SnapshotCap = 0`):
no condition of the accumulator reads it. `BaselineForgetsOnlyExpired` is about flows this process has taken, and about
snapshots of one workload: what was known before a restart is forgotten
(`docs_restart`), and another workload that writes the same ConfigMap replaces all
that is in it (`docs_target`). The two workloads are bare pods, which both sources
name alike.

The responses of the hubble run (`LaidOut` makes their fields) are a plain one; that one with another value in
each field a condition looks at (no namespace, no pod, names from the endpoint,
from the DNS query and from both, TCP, UDP and neither, ports of one to three
bytes and none, every verdict, ingress, a node status instead of a flow, the
fields in reverse order); and that one with a field the reader does not know (a
varint of two bytes, bytes that look like a source endpoint, a field longer than
127 bytes, an empty one) in front of the fields it looks for, in the flow, its
source and the response. Responses before and after it show that nothing is
shifted, lost or kept over. `DecodesFaithfully` is about the reader alone: each
encoding gives back what was put into it, or nothing if it is no flow of a pod.
Varints of three bytes and 16 bits are the smallest
at which a port takes as many bytes as it can. The reader and the contract are also
proved for all responses and all widths.

`BuildIsStableSort` asks for a place for every entry such that the places are
ordered as risk, and then the place in the snapshot, order the entries; there is
only one such sequence. In the generator run one name has two addresses on a port that makes a
destination seen once High, so the name can leave the policy with one of its
addresses. `CountedHighAreExcluded` compares what two controllers
make of the same snapshot; the message built from it is another matter
(see below). `DriftExplainsPolicy` says that this, a name in both snapshots with
an excluded address, is the only change of the policy Detect does not report.

Documentation against code. Each of these runs states what a document, comment
or type says and finds a behaviour of the code that does otherwise
(`PROJECT.json`, "findings", quotes the lines):

| Run | What happens |
|---|---|
| docs_workload | what a Deployment's pods contact, as Hubble reports it, never reaches the Deployment's baseline |
| docs_target | after a change of target the old workload still writes the baseline |
| docs_restart | the first flush after a restart forgets live destinations |
| docs_wildcard | `*.de` and its like are allowed |

Other disagreements met while reading, without a run of their own:

- mode and approval come from two caches, so a policy may be applied although
  the two never held at the same time (egresspolicyproposal_controller.go:107-109);
- an approval is a boolean, not tied to a policy: later policies are applied
  under it (egresspolicyproposal_controller.go:111; README.md:34);
- after a rename the proposal still gives the old policy name
  (egressprofile_controller.go:156; egresspolicyproposal_types.go:56);
- back in Suggest, the policy stays in force
  (egresspolicyproposal_controller.go:108; README.md:85 "Nothing applied.");
- `ResolveWorkload` returns a pod's first owner, for a Deployment's pod its
  ReplicaSet, and not the top of the chain (workload.go:12-29; README.md:120);
- what a policy drops is observed, and enters the next policy, since the
  accumulator does not look at verdicts (accumulator.go:118-150);
- a field of fixed width ends the protobuf reader's search, although "unknown
  fields are silently ignored" (hubble_grpc.go:116, 233 and 265); the messages
  it reads have none before the fields it wants;
- cancelled while it connects, Observe returns an error (hubble_grpc.go:40-66;
  flowsource.go:9 "ctx cancellation is not an error"); `CancelledEarly`;
- when the relay ends the stream Observe returns, and nobody calls it again
  (hubble_grpc.go:72; line 32 and flowsource.go:6 "they block until ctx is
  cancelled"); `StreamOver`;
- the status message is written only when a High destination is counted and never
  cleared, so it goes on announcing an exclusion after the destination has expired
  (egressprofile_controller.go:130; egressprofile_types.go:132 "Message holds a
  human-readable explanation of the current phase.");
- `spec.baselineWindow` is read by nobody: every entry is kept for the 24h of
  cmd/main.go:150 (README.md:96 and architecture.md:67 say that entries not seen
  within `baselineWindow` are removed);
- the last destination of a workload never leaves the saved baseline, as a
  workload without entries is not written (accumulator.go:174; README.md:96);
- `truncated` is computed after the purge, so a flow may be refused and the
  next snapshot not be flagged (accumulator.go:136 and 171);
- one name and port may be excluded through one entry and allowed through
  another (policy_generator.go:62; egresspolicyproposal_types.go:107);
- a private address without a name is neither allowed nor listed
  (policy_generator.go:86; README.md:555);
- the profile's risk counters follow rules of their own
  (egressprofile_controller.go:204; egressprofile_types.go:97).

The operator's runs switch the deadlock check off: a cluster without objects,
with all edits spent, is at rest. So does hubble, where Observe returns. The
other modules always have a step.

## Fairness

- Informers and the garbage collector: weak fairness per object. Watches are
  re-established by client-go.
- A reconcile that has begun: weak fairness of its next step. There is a timeout
  on every call, so a call ends one way or another.
- Taking up an object: strong fairness per object, because the single worker is
  busy in between; the queue is FIFO and every object returns to it after 30s
  or with backoff.
- Accumulator: `Ingest` strongly (a `select` with several ready cases picks at
  random, so a ready channel is served again and again between flushes),
  `StartFlush` and each workload's turn in the flush weakly. That the ticker is
  not starved by a busy channel is thus assumed, again from the random choice of
  `select`, and not shown. Nothing is assumed of registrations.
- Observe of the Hubble source: weak fairness of its next step (a dial has a
  timeout, RecvMsg returns what has arrived or the end of the stream), and of the
  accumulator's receive until the context is cancelled.
- Nothing is assumed of people, faults, restarts, the clock, the relay or
  cancellation; in Accumulator nothing of the source.

`UidsLeft` in the liveness properties says that the model's supply of uids is
not used up; it stands for nothing in the system.

## Proofs

`EgressOperatorProofs`: **TypeCorrect**, `Spec => []TypeOK`. The types alone are
not inductive, since a reconcile indexes policies by the name in its copy of the
profile; `TypeInv` adds that every existing copy has a resolved name.

Its second part starts with what any step can do to each place data passes
through: a cache entry becomes what the server holds (`CachesCopy`), a reconcile
reads from the caches and passes the gate only with both conditions met
(`ReconcileReads`), a policy is removed or written by a reconcile past the gate
(`PoliciesWritten`). The invariants need no case distinction over actions after
that.

- **ApprovalGate**, `Spec => []ApprovedBeforeApplied`. `GateInv`: every approved
  copy of a proposal, on the server, in the cache or in a reconcile, has a uid
  that was approved, and behind the gate the copy in hand is approved. The
  property alone says nothing of a copy read long ago.
- **ModeGate**, `Spec => []EnforcedBeforeApplied`, with `ModeInv` in the same
  way for profiles in Enforce.

`StatusProofs`:

- **PhaseEarned**, `Spec => []EnforcedPhaseIsEarned`. `PhaseInv` follows
  "Applied" from the write of the policy through the proposal's status and its
  cache into the profile reconcile's "Enforced". A status patch that lands on a
  recreated proposal is covered.
- **BaselineMonotone**, `Spec => BaselineNeverRolledBack`, an action property,
  from `VersionInv`: no stored baseline is newer than the last one written.

`ReviewGateProofs`:

- **PublishedFirst**, `Spec => []PublishedBeforeApplied`. `PublishedInv`: every
  copy of `policy.yaml`, on the server or in the cache, is on record, and behind
  the gate the generated policy is. The crux is `SavePublishes`: a patch that
  writes nothing does so because the cached copy, itself on record, had the
  policy already.
- **Refinement**, `Spec => ImplementsReviewGate`. The initial states map to each
  other, and a step that changes the policies changes one of them, under the
  name it has (`OnePolicyAtATime`, `PolicyStep`); one that changes what profiles
  report changes it for one of them and only after an apply (`ReportsWritten`,
  `ReportStep`); neither happens together with an addition to the record
  (`RecordIdle`), and everything else is a grant or a stutter (`GrantStep`). The
  invariant `RefInv` joins those of the theorems above with `RecordInv`: who is
  selected by a policy in force is on record, and an absent profile reports
  nothing.

They rest on the named assumptions of `KubeApi` and
`EgressPolicyProposalController` on the constants (`None` is not a name, modes
are modes), which TLC evaluates in every operator run.

`AccumulatorProofs`, from `NamesAssumption` and `SizesAssumption`:

- **TypeCorrect**, `Spec => []TypeOK`, the channel's capacity included.
- **Bounded**, `Spec => []InventoryBounded`, by the cardinality of what ingest
  adds and purge leaves; a snapshot is part of an inventory that was in bounds.
- **SnapshotsTrack**, `Spec => []SnapshotsTrackInventory`. It is not inductive: a
  destination that was purged comes back with the time of the flow that brings it
  back, and that flow may have waited in the channel while the old time was saved.
  `BaselineInv` therefore follows time along a flow's whole way (`TimeInv`): the
  channel is in order, and neither an entry nor a saved destination is ahead of the
  flows still to come or of the clock.
- **RecentKnown**, `Spec => []RecentStayKnown`. `HeardInv` adds that the entry of a
  destination heard from within the window is not behind its latest flow, so that a
  purge, which goes by the entry, spares it.
- **ForgetsOnlyExpired**, `Spec => BaselineForgetsOnlyExpired`, from `RecentStayKnown`
  and what a write of a snapshot does to each ConfigMap (`FlushOneEffect`), for any
  registrations.

`HubbleWireProofs`, from `WidthAssumption` (a varint has room for a word, a word
for a byte):

- **ResponsesDecode**: `decodeGetFlowsResponse` gives back what a response says,
  for every response that is `WellFormed`. It is built from below.
  - `decodeVarint` gives back what `Varint` encodes, wherever it stands in the
    data, and stops exactly behind it: the groups of a number are determined by
    its quotients by 128, byte by byte.
  - Hence `FieldAt`, at the place where a field begins, finds the field and where
    the next one begins (`FieldAtReads`), and the fields of a message lie end to
    end (`EncodeFieldsLayout`).
  - A search therefore visits exactly the places where fields begin. By induction
    from the last field to the first (`ScanReads`) it returns the first field it
    does not step over, or nothing; `ExtractFieldReads` and `ExtractVarintReads`
    say this for the two readers.
  - A field the operator reads is the only one of its number, so what is found is
    the string, the number or the message that was put there (`CarriesBytes`,
    `CarriesNum`, `CarriesSub`, `OneOf`), and one search after the other takes the
    response apart (`DecodeL4Reads`, `DecodeFlowReads`).

`HubbleSourceProofs`, from `SourceAssumption` (what the relay sends is well-formed):

- **TypeCorrect**, `Spec => []TypeOK`.
- **ReadsFaithfully**, `Spec => []DecodesFaithfully`: `ResponsesDecode` for
  whatever the relay has still to send, and the same for the operator's own
  request as the relay reads it (`RequestForEgress`).
- **FollowsContract**, `Spec => FollowsFlowSource`: each step of Observe, reading
  bytes, is one of the contract's, or one of the two named departures from it, for
  every script, namespace, capacity and moment of an end, a failure or a
  cancellation. `TransitInv` says where the flows are that
  matched and have not been pushed: the one in hand first, then those on the wire,
  each at its place (`Places`), with responses nobody wants in between.

Three limits of these results: `Field` asks of a number that it is below
`2^WordBits` and takes at most `MaxVarintLen` bytes, of which the second follows
from the first but needs facts about powers the provers do not have; fields of
fixed width are left out; and the conversion of a length to `int`
(hubble_grpc.go:225 and 264), which would turn lengths from 2^63 on negative, is not
modelled, as no message of that length fits into memory. What the reader does with
bytes that are no encoding is not stated.

`PolicyGenerationProofs`, from `KeysAssumption`, for snapshots of any length.
`SnapInv` (the entries are entries that have been seen, and no destination is
there twice) is the invariant of all five.

- **StableSort**, `Spec => []BuildIsStableSort`: induction over the loop of
  sortByRisk. `Sorts` says of the first m entries that they are sorted by risk
  and have places in the order of a stable sort; the step (`InsertedSorts`) needs
  that an entry stops exactly behind the last one whose risk is not higher.
- **AccountedFor**, `Spec => []NamedAreAccountedFor`, and **CountedExcluded**,
  `Spec => []CountedHighAreExcluded`: induction over Generate's loop (`Records`)
  gives every entry that is excluded a record of its own in the list, the sort
  keeps all entries (`SnapshotRecords`), and the address test of the profile
  controller is the narrower one.
- **LongerWatchAllowsMore**, `Spec => AllowedStaysAllowed`: credit grows and
  penalty falls with the counts (`ScoreGrows`), for an entry that was seen at
  least once; so High is never gained (`HighNotGained`). Unique keys are needed
  to know that the entry of the next snapshot is the same one, grown.
- **DriftExplains**, `Spec => DriftExplainsPolicy`: the report's identity of a
  named destination is its name, since no name is an address
  (`SameNamedDestination`).

The library states induction with an operator as its parameter, which the provers
cannot instantiate. `LoopTheorems` states it for sets instead: `LeastNatural` (from
the well-foundedness of `<`), `InductionUpTo` and `InductionDownTo`. A recursive
function is defined by a `CHOOSE`, which can be unfolded once some function is known
to solve its equation: `RecursionDown` and `RecursionUp` show this for functions on
0..n that go on with smaller or with greater arguments, whatever they jump over. The
loops of sortByRisk and Generate are of the first kind (`Iterates`), so are the
encoder's; the searches of the reader, whose jumps depend on the data, are of the
second.

Only model-checked: the liveness properties, since fairness is out of the prover's
reach (PolicyCopiesConverge, EnforcementConverges, StatusConverges,
CountersConverge, CleanupEventually, DestinationPersisted, ChannelDrains, StaleLeavesBaseline,
FlowsArrive, CancelStops).

## Not modelled

YAML and JSON layout, events, log messages, conditions, the status message and
requeue delays; the
DNS rule (constant, behind `allowDNS`) and `allowKubeSystem` (read by nobody);
`spec.baselineWindow` (read by nobody); proposals created by people;
several active processes (leader election); failing GitOps writes (logged);
the mock's script and its pauses (any flow at any time is allowed for it); the
workload resolution (no caller); malformed messages from the relay; log levels,
flags, TLS and metrics of the manager; generated code and manifests.
Equality of policies stands for an unchanged resourceVersion in `applyCNP`.

## What could follow

1. Prove the bounds of `AggregateScore` and what `computeOverallRisk` makes of it
   (no run states a property of them yet).
2. Compose the accumulator with the store and the controllers, the whole way from a
   flow to an applied rule, if the state space allows it.
3. Keep the proofs with the code: a change of a reader, a gate or a loop shows up
   in the lemma named after it.
