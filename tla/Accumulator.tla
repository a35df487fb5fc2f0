----------------------------- MODULE Accumulator -----------------------------
(***************************************************************************)
(* internal/observer/accumulator.go: the goroutine that turns the stream   *)
(* of flows into an inventory of destinations and writes it, workload by   *)
(* workload, to the profiles' ConfigMaps.  Around it: the flow source in   *)
(* its own goroutine behind a bounded channel, the reconcile workers that  *)
(* register workloads, the clock, and restarts of the process.             *)
(* The window is the one cmd/main.go:150 gives every workload; the         *)
(* baselineWindow of a profile is not read.                                *)
(***************************************************************************)
EXTENDS Naturals, Sequences, FiniteSets

CONSTANTS
  Dests,            \* destination keys (workload, fqdn, ip, port, proto)
  Workloads,        \* workload keys ("namespace/kind/name"), pods included
  ConfigMaps,       \* the baseline ConfigMaps, one for each profile
  Targets,          \* <<workload, ConfigMap>>: what profiles ever name as target
  None,             \* no workload, no ConfigMap
  PodOf,            \* the pod each destination is seen from
  OwnerOf,          \* the workload that pod belongs to; a bare pod is its own
  Hubble,           \* the flow source is Hubble Relay, and not the mock
  MaxDestinations,  \* maxDestinations: size of the inventory
  ChanCap,          \* capacity of flowCh
  Window,           \* the retention window
  SnapshotCap,      \* bound: DestEntry.Snapshots is counted up to here
  MaxTime,          \* bound: the clock
  MaxFlows,         \* bound: flows the source delivers
  MaxFaults,        \* bound: SaveSnapshot calls that fail
  MaxRestarts       \* bound: restarts of the process

ASSUME NamesAssumption == /\ PodOf \in [Dests -> Workloads]
                          /\ OwnerOf \in [Dests -> Workloads]
                          /\ Hubble \in BOOLEAN
                          /\ Targets \in SUBSET (Workloads \X ConfigMaps)
                          /\ None \notin ConfigMaps
ASSUME DestsAssumption == IsFiniteSet(Dests)
ASSUME SizesAssumption == /\ MaxDestinations \in Nat
                          /\ ChanCap \in Nat \ {0}
                          /\ Window \in Nat
                          /\ SnapshotCap \in Nat
ASSUME BoundsAssumption == /\ MaxTime \in Nat
                           /\ MaxFlows \in Nat
                           /\ MaxFaults \in Nat
                           /\ MaxRestarts \in Nat

VARIABLES
  now,        \* the clock
  source,     \* the goroutine running FlowSource.Observe
  flowCh,     \* the channel between source and accumulator
  entries,    \* the inventory
  registry,   \* the ConfigMap of each workload (RegisterWorkload), or None
  pc,         \* "select": in Start's select; "flush": in flushSnapshots
  pending,    \* the workloads flushSnapshots has yet to write
  baseline,   \* baseline.json of each ConfigMap
  heard,      \* history: when ingest last took a flow to each destination, 0
              \* for never in this process
  flows, faults, restarts   \* how much of each bound has been used

bounds == <<flows, faults, restarts>>
vars == <<now, source, flowCh, entries, registry, pc, pending, baseline,
          heard, bounds>>

-----------------------------------------------------------------------------
\* DestEntry: LastSeen, FlowCount and Snapshots.  A FlowCount of 0 marks a key
\* that is not in the inventory.
Entry == [last : Nat, count : Nat, snaps : 0..SnapshotCap]
NoEntry == [last |-> 0, count |-> 0, snaps |-> 0]

\* A saved snapshot: the workload it was taken of, its destinations, when each
\* was last seen, and the flag.
Snapshot == [workload : Workloads \cup {None}, dests : SUBSET Dests,
             last : [Dests -> Nat], truncated : BOOLEAN]
NoSnapshot == [workload |-> None, dests |-> {},
               last |-> [d \in Dests |-> 0], truncated |-> FALSE]

Flow == [dest : Dests, time : Nat]

\* SourceWorkload as the source fills it in: Hubble's decoder names the pod, the
\* mock's script the Deployment.
WorkloadOf == IF Hubble THEN PodOf ELSE OwnerOf

Known == {d \in Dests : entries[d].count > 0}
KnownOf(w) == {d \in Known : WorkloadOf[d] = w}

TypeOK ==
  /\ now \in Nat
  /\ source \in {"streaming", "ended"}
  /\ flowCh \in Seq(Flow) /\ Len(flowCh) <= ChanCap
  /\ entries \in [Dests -> Entry]
  /\ registry \in [Workloads -> ConfigMaps \cup {None}]
  /\ pc \in {"select", "flush"}
  /\ pending \in SUBSET Workloads
  /\ baseline \in [ConfigMaps -> Snapshot]
  /\ heard \in [Dests -> Nat]
  /\ flows \in Nat /\ faults \in Nat /\ restarts \in Nat

Init ==
  /\ source = "streaming"
  /\ flowCh = <<>>
  /\ entries = [d \in Dests |-> NoEntry]
  /\ registry = [w \in Workloads |-> None]
  /\ pc = "select"
  /\ pending = {}
  /\ now = 1
  /\ baseline = [c \in ConfigMaps |-> NoSnapshot]
  /\ heard = [d \in Dests |-> 0]
  /\ flows = 0 /\ faults = 0 /\ restarts = 0

-----------------------------------------------------------------------------
(* The clock and the flow source.                                          *)

Tick ==
  /\ now < MaxTime
  /\ now' = now + 1
  /\ UNCHANGED <<source, flowCh, entries, registry, pc, pending, baseline,
                 heard, bounds>>

\* Mutated form: a channel with one place more.
CanSendOffByOne == Len(flowCh) <= ChanCap

CanSend == Len(flowCh) < ChanCap

\* Observe stamps a flow and sends it; a full channel makes it wait.  The code
\* stamps before a send that may block: the flow it holds then is one more place
\* of the channel.
Observe(d) ==
  /\ source = "streaming"
  /\ CanSend
  /\ flows < MaxFlows
  /\ flowCh' = Append(flowCh, [dest |-> d, time |-> now])
  /\ flows' = flows + 1
  /\ UNCHANGED <<now, source, entries, registry, pc, pending, baseline, heard,
                 faults, restarts>>

\* Hubble's stream ends or fails: Observe returns and Start does not call it
\* again.  The mock replays its script for ever.
ObserveReturns ==
  /\ Hubble
  /\ source = "streaming"
  /\ source' = "ended"
  /\ UNCHANGED <<now, flowCh, entries, registry, pc, pending, baseline, heard,
                 bounds>>

-----------------------------------------------------------------------------
(* The accumulator's loop.                                                 *)

\* Mutated form: room for one destination more.
HasRoomOffByOne(known) == Cardinality(known) <= MaxDestinations

HasRoom(known) == Cardinality(known) < MaxDestinations

\* Mutated form: a full inventory stops the reading of flows.
CanReceiveWithRoom == flowCh # <<>> /\ HasRoom(Known)

CanReceive == flowCh # <<>>

\* Mutated form: an entry keeps the time of its first flow.
IngestedFirst(e, f) ==
  [e EXCEPT !.last = IF e.count = 0 THEN f.time ELSE @, !.count = @ + 1]

\* ingest: a known destination is refreshed, a new one added if there is room.
Ingested(e, f) == [e EXCEPT !.last = f.time, !.count = @ + 1]

Ingest ==
  /\ pc = "select"
  /\ CanReceive
  /\ LET f == Head(flowCh) IN
       IF f.dest \in Known \/ HasRoom(Known)
         THEN /\ entries' = [entries EXCEPT ![f.dest] = Ingested(@, f)]
              /\ heard' = [heard EXCEPT ![f.dest] = f.time]
         ELSE UNCHANGED <<entries, heard>>
  /\ flowCh' = Tail(flowCh)
  /\ UNCHANGED <<now, source, registry, pc, pending, baseline, bounds>>

\* purge: LastSeen.Before(now - window).
Expired(e) == e.last + Window < now

Purged == [d \in Dests |-> IF Expired(entries[d]) THEN NoEntry ELSE entries[d]]

\* flushSnapshots under its lock: every entry has been in one snapshot more.
Counted(e) ==
  IF e.count > 0 /\ e.snaps < SnapshotCap THEN [e EXCEPT !.snaps = @ + 1] ELSE e

\* The ticker fires: purge, then the part of flushSnapshots under the lock.
StartFlush ==
  /\ pc = "select"
  /\ entries' = [d \in Dests |-> Counted(Purged[d])]
  /\ pending' = {WorkloadOf[d] : d \in {k \in Dests : Purged[k].count > 0}}
  /\ pc' = IF pending' = {} THEN "select" ELSE "flush"
  /\ UNCHANGED <<now, source, flowCh, registry, baseline, heard, bounds>>

\* Mutated form: every snapshot carries the whole inventory.
DestsOfAnyone(w) == Known

\* Mutated form: only destinations that were seen more than once.
DestsOfSettled(w) == {d \in KnownOf(w) : entries[d].count > 1}

\* The destinations grouped under workload w.
DestsOf(w) == KnownOf(w)

Truncated == Cardinality(Known) >= MaxDestinations

SnapshotOf(w) ==
  [workload |-> w, dests |-> DestsOf(w),
   last |-> [d \in Dests |-> IF d \in DestsOf(w) THEN entries[d].last ELSE 0],
   truncated |-> Truncated]

\* Mutated form: the new snapshot is added to the saved one.
SavedMerged(old, new) ==
  [new EXCEPT !.dests = @ \cup old.dests,
              !.last = [d \in Dests |-> IF d \in new.dests THEN @[d]
                                                           ELSE old.last[d]]]

\* SaveSnapshot: baseline.json is replaced as a whole.
Saved(old, new) == new

\* One round of flushSnapshots' loop, in the map's random order, to the
\* ConfigMap the workload is registered with at this moment; a workload nobody
\* registered is skipped and a failing SaveSnapshot only logged.
FlushOne(w, ok) ==
  /\ pc = "flush"
  /\ w \in pending
  /\ ~ok => registry[w] # None /\ faults < MaxFaults
  /\ baseline' = IF registry[w] # None /\ ok
                   THEN [baseline EXCEPT ![registry[w]] = Saved(@, SnapshotOf(w))]
                   ELSE baseline
  /\ faults' = IF ok THEN faults ELSE faults + 1
  /\ pending' = pending \ {w}
  /\ pc' = IF pending' = {} THEN "select" ELSE "flush"
  /\ UNCHANGED <<now, source, flowCh, entries, registry, heard, flows, restarts>>

-----------------------------------------------------------------------------
(* The reconcile workers and the process.                                  *)

\* A reconcile of the profile that owns ConfigMap c registers its target.  The
\* registration of an earlier target stays, and one of another profile with the
\* same target is overwritten.  (The namespace, part of the workload's key, never
\* changes.)
RegisterWorkload(w, c) ==
  /\ registry' = [registry EXCEPT ![w] = c]
  /\ UNCHANGED <<now, source, flowCh, entries, pc, pending, baseline, heard,
                 bounds>>

\* The process stops, whenever that may be, and is started again: everything
\* but the ConfigMaps is new.
Restart ==
  /\ restarts < MaxRestarts
  /\ source' = "streaming"
  /\ flowCh' = <<>>
  /\ entries' = [d \in Dests |-> NoEntry]
  /\ registry' = [w \in Workloads |-> None]
  /\ pc' = "select"
  /\ pending' = {}
  /\ heard' = [d \in Dests |-> 0]
  /\ restarts' = restarts + 1
  /\ UNCHANGED <<now, baseline, flows, faults>>

\* flushSnapshots reads the registration maps without the lock.  A
\* RegisterWorkload at that moment is a data race: the write goes through, or
\* the runtime aborts the process ("concurrent map read and map write").
RegisterRace == pc = "flush" /\ Restart

Next ==
  \/ Tick
  \/ \E d \in Dests : Observe(d)
  \/ ObserveReturns
  \/ Ingest
  \/ StartFlush
  \/ \E w \in Workloads, ok \in BOOLEAN : FlushOne(w, ok)
  \/ \E t \in Targets : RegisterWorkload(t[1], t[2])
  \/ Restart
  \/ RegisterRace

Spec == Init /\ [][Next]_vars

\* Start's loop runs on: select serves a ready channel and the ticker in turn
\* (Go picks among ready cases at random), and a flush ends.
Fairness ==
  /\ SF_vars(Ingest)
  /\ WF_vars(StartFlush)
  /\ \A w \in Workloads : WF_vars(\E ok \in BOOLEAN : FlushOne(w, ok))

FairSpec == Spec /\ Fairness

-----------------------------------------------------------------------------
(* Properties of the code.                                                 *)

\* The inventory never exceeds maxDestinations, whatever interleaving of
\* ingest, purge and flush (accumulator.go:135), and neither does a saved
\* snapshot: it is what keeps baseline.json under the size a ConfigMap can have.
InventoryBounded ==
  /\ Cardinality(Known) <= MaxDestinations
  /\ \A c \in ConfigMaps : Cardinality(baseline[c].dests) <= MaxDestinations

\* A flow was taken to d, and not longer ago than the operator's window.
HeardRecently(d) == heard[d] > 0 /\ heard[d] + Window >= now

\* A destination to which ingest took a flow within the window, its first or a
\* later one, is in the inventory: a known destination is refreshed even when the
\* inventory is full, and a purge goes by its latest flow (accumulator.go:129-161).
\* heard records the flows themselves, not what the entries say of them.
RecentStayKnown == \A d \in Dests : HeardRecently(d) => d \in Known

\* The snapshot saved in a ConfigMap is about one workload alone, the one it
\* names, and what it says of a destination is never ahead of the inventory,
\* across purges, restarts, changes of target and flows that waited in the
\* channel (accumulator.go:129-133 and 167-183).
SnapshotsTrackInventory ==
  \A c \in ConfigMaps : \A d \in baseline[c].dests :
    /\ WorkloadOf[d] = baseline[c].workload
    /\ d \in Known => baseline[c].last[d] <= entries[d].last

\* A snapshot of the same workload replaces the one saved in ConfigMap c.
SameWorkload(c) == baseline'[c].workload = baseline[c].workload

\* A destination to which this process took a flow within the window leaves a
\* ConfigMap's baseline in one case only: another workload, registered with the
\* same ConfigMap before or after a change of its profile's target, has written
\* its own (accumulator.go:84-90 and 152-190).  Purges, refused flows and failing
\* writes make none leave.
BaselineForgetsOnlyExpired ==
  [][\A c \in ConfigMaps : \A d \in baseline[c].dests \ baseline'[c].dests :
       SameWorkload(c) => ~HeardRecently(d)]_vars

\* A destination of a registered workload gets into the baseline of the
\* ConfigMap the workload is registered with: the ticker is not starved by a
\* stream of flows and a failing write, which is only logged, does not lose the
\* destination (accumulator.go:163-190), unless it leaves the inventory first.
DestinationPersisted ==
  \A d \in Dests :
    (d \in Known /\ registry[WorkloadOf[d]] # None) ~>
      \/ \E c \in ConfigMaps : /\ registry[WorkloadOf[d]] = c
                               /\ d \in baseline[c].dests
      \/ d \notin Known

\* The source is never blocked for good on a full channel, a full inventory
\* included: a flow there is no room for is received and refused
\* (accumulator.go:107-110 and 135-137).
ChannelDrains == []<>(Len(flowCh) < ChanCap)

\* A destination that has left the inventory leaves the baseline of the
\* ConfigMap its workload is registered with, as long as the workload still has
\* another destination to be written (accumulator.go:163-190).
StaleLeavesBaseline ==
  \A d \in Dests, c \in ConfigMaps :
    <>[](/\ d \notin Known /\ KnownOf(WorkloadOf[d]) # {}
         /\ registry[WorkloadOf[d]] = c)
      => <>[](d \notin baseline[c].dests)

-----------------------------------------------------------------------------
(* What comments and documentation say and the code does not do.           *)

\* docs/limitations.md:27 "état repris depuis le ConfigMap si le snapshot
\* précédent existe" and README.md:569 "persisted state in ConfigMap is
\* preserved": after a restart too, a destination leaves the saved baseline of
\* its workload only once it has expired.
BaselineSurvivesRestart ==
  [][\A c \in ConfigMaps : \A d \in baseline[c].dests \ baseline'[c].dests :
       SameWorkload(c) => baseline[c].last[d] + Window < now]_vars

\* README.md:95 "Aggregates destinations per workload" and flow.go:9 "resolved
\* via owner refs: e.g. "Deployment/payment-api"": what a pod contacts gets into
\* the ConfigMap of the workload it belongs to, once a profile names that one.
DestinationReachesOwner ==
  \A d \in Dests :
    (d \in Known /\ registry[OwnerOf[d]] # None) ~>
      \/ \E c \in ConfigMaps : /\ registry[OwnerOf[d]] = c
                               /\ d \in baseline[c].dests
      \/ d \notin Known
=============================================================================
