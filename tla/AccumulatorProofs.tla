-------------------------- MODULE AccumulatorProofs --------------------------
(***************************************************************************)
(* What the accumulator keeps and saves, for any destinations, workloads,  *)
(* sizes, window and bounds.  The argument is about time: a flow carries   *)
(* the moment it was seen, waits in the channel, becomes an entry's        *)
(* LastSeen and, with a later flush, that of a saved destination; along    *)
(* this way no later stage is ever ahead of an earlier one.                *)
(***************************************************************************)
EXTENDS Accumulator, FiniteSetTheorems, SequenceTheorems, TLAPS

-----------------------------------------------------------------------------
(* Types.                                                                  *)

\* The workload a destination is grouped under is one of the workload keys.
LEMMA WorkloadOfType == WorkloadOf \in [Dests -> Workloads]
BY NamesAssumption DEF WorkloadOf

\* ingest stamps an entry with the flow's time and counts it.
LEMMA IngestedEntry ==
  ASSUME NEW e \in Entry, NEW f \in Flow
  PROVE  /\ Ingested(e, f) \in Entry
         /\ Ingested(e, f).last = f.time
         /\ Ingested(e, f).count > 0
<1> DEFINE stamped == [e EXCEPT !.last = f.time]
<1>1. f.time \in Nat
  BY DEF Flow
<1>2. stamped \in Entry
  BY <1>1 DEF Entry
<1>3. stamped.count + 1 \in Nat
  BY <1>2 DEF Entry
<1>4. \A g \in Entry, n \in Nat : [g EXCEPT !.count = n] \in Entry
  BY DEF Entry
<1>5. Ingested(e, f) = [stamped EXCEPT !.count = stamped.count + 1]
  BY DEF Ingested, Entry
<1>6. Ingested(e, f) \in Entry
  BY <1>2, <1>3, <1>4, <1>5
<1>7. Ingested(e, f).last = f.time
  BY <1>1 DEF Ingested, Entry
<1>8. Ingested(e, f).count = e.count + 1
  BY <1>1 DEF Ingested, Entry
<1> QED
  BY <1>6, <1>7, <1>8 DEF Entry

\* A flush changes nothing of an entry but the number of its snapshots.
LEMMA CountedEntry ==
  ASSUME NEW e \in Entry
  PROVE  /\ Counted(e) \in Entry
         /\ Counted(e).last = e.last
         /\ Counted(e).count = e.count
BY SizesAssumption DEF Counted, Entry

\* Types are kept by every step.
LEMMA TypeNext == TypeOK /\ [Next]_vars => TypeOK'
<1> SUFFICES ASSUME TypeOK, [Next]_vars PROVE TypeOK'
  OBVIOUS
<1> USE NamesAssumption, SizesAssumption, WorkloadOfType
<1>1. CASE Tick
  BY <1>1 DEF TypeOK, Tick, bounds
<1>2. CASE \E d \in Dests : Observe(d)
  <2> PICK d \in Dests : Observe(d)
    BY <1>2
  <2>1. [dest |-> d, time |-> now] \in Flow
    BY DEF TypeOK, Flow
  <2>2. flowCh' \in Seq(Flow) /\ Len(flowCh') = Len(flowCh) + 1
    BY <2>1, AppendProperties DEF TypeOK, Observe
  <2>3. Len(flowCh') <= ChanCap
    BY <2>2, LenProperties DEF TypeOK, Observe, CanSend
  <2> QED
    BY <2>2, <2>3 DEF TypeOK, Observe
<1>3. CASE ObserveReturns
  BY <1>3 DEF TypeOK, ObserveReturns, bounds
<1>4. CASE Ingest
  <2>1. /\ Head(flowCh) \in Flow
        /\ flowCh' \in Seq(Flow)
        /\ Len(flowCh') = Len(flowCh) - 1
    BY <1>4, HeadTailProperties DEF TypeOK, Ingest, CanReceive
  <2>2. Len(flowCh') <= ChanCap
    BY <2>1, LenProperties DEF TypeOK
  <2>3. \A d \in Dests : Ingested(entries[d], Head(flowCh)) \in Entry
    BY <2>1, IngestedEntry DEF TypeOK
  <2>4. Head(flowCh).dest \in Dests
    BY <2>1 DEF Flow
  <2>5. entries' \in [Dests -> Entry]
    BY <1>4, <2>3, <2>4 DEF TypeOK, Ingest
  <2>6. Head(flowCh).time \in Nat
    BY <2>1 DEF Flow
  <2>7. heard' \in [Dests -> Nat]
    BY <1>4, <2>4, <2>6 DEF TypeOK, Ingest
  <2> QED
    BY <1>4, <2>1, <2>2, <2>5, <2>7 DEF TypeOK, Ingest, bounds
<1>5. CASE StartFlush
  <2>1. \A d \in Dests : Purged[d] \in Entry
    BY DEF TypeOK, Purged, NoEntry, Entry
  <2>2. \A e \in Entry : Counted(e) \in Entry
    BY CountedEntry
  <2>3. entries' \in [Dests -> Entry]
    BY <1>5, <2>1, <2>2 DEF StartFlush
  <2>4. pending' \in SUBSET Workloads
    BY <1>5 DEF StartFlush
  <2> QED
    BY <1>5, <2>3, <2>4 DEF TypeOK, StartFlush, bounds
<1>6. CASE \E w \in Workloads, ok \in BOOLEAN : FlushOne(w, ok)
  <2> PICK w \in Workloads, ok \in BOOLEAN : FlushOne(w, ok)
    BY <1>6
  <2>1. SnapshotOf(w) \in Snapshot
    BY DEF TypeOK, SnapshotOf, Snapshot, DestsOf, KnownOf, Known, Entry,
           Truncated
  <2>2. baseline' \in [ConfigMaps -> Snapshot]
    BY <2>1 DEF TypeOK, FlushOne, Saved
  <2> QED
    BY <2>2 DEF TypeOK, FlushOne
<1>7. CASE \E t \in Targets : RegisterWorkload(t[1], t[2])
  <2> PICK t \in Targets : RegisterWorkload(t[1], t[2])
    BY <1>7
  <2>1. t[1] \in Workloads /\ t[2] \in ConfigMaps
    OBVIOUS
  <2>2. registry' \in [Workloads -> ConfigMaps \cup {None}]
    BY <2>1 DEF TypeOK, RegisterWorkload
  <2> QED
    BY <2>2 DEF TypeOK, RegisterWorkload, bounds
<1>8. CASE Restart
  BY <1>8 DEF TypeOK, Restart, NoEntry, Entry
<1>9. CASE UNCHANGED vars
  BY <1>9 DEF TypeOK, vars, bounds
<1> QED
  BY <1>1, <1>2, <1>3, <1>4, <1>5, <1>6, <1>7, <1>8, <1>9
     DEF Next, RegisterRace

\* The initial state has the types.
LEMMA TypeInit == Init => TypeOK
BY SizesAssumption
   DEF Init, TypeOK, NoEntry, Entry, NoSnapshot, Snapshot

\* Every variable of the accumulator keeps its type, and the channel between
\* source and accumulator never holds more than its capacity
\* (accumulator.go:94-118): Observe sends only when there is room.
THEOREM TypeCorrect == Spec => []TypeOK
<1> QED
  BY TypeInit, TypeNext, PTL DEF Spec

-----------------------------------------------------------------------------
(* What the two actions on the inventory do to an entry.                   *)

\* ingest touches the entry of the flow at the head of the channel, if at all,
\* and a new entry only when there is room.
LEMMA IngestEffect ==
  ASSUME TypeOK, Ingest
  PROVE  LET f == Head(flowCh) IN
         /\ f \in Flow
         /\ \A d \in Dests :
              \/ entries'[d] = entries[d] /\ heard'[d] = heard[d]
              \/ d = f.dest /\ entries'[d].last = f.time
                 /\ entries'[d].count > 0 /\ heard'[d] = f.time
         /\ \/ Known' = Known
            \/ HasRoom(Known) /\ Known' = Known \cup {f.dest}
<1> DEFINE f == Head(flowCh)
<1>1. f \in Flow
  BY HeadTailProperties DEF TypeOK, Ingest, CanReceive
<1>2. f.dest \in Dests
  BY <1>1 DEF Flow
<1>3. entries[f.dest] \in Entry
  BY <1>2 DEF TypeOK
<1>4. CASE entries' = entries /\ heard' = heard
  BY <1>1, <1>4 DEF Known
<1>5. CASE ~(entries' = entries /\ heard' = heard)
  <2>1. /\ f.dest \in Known \/ HasRoom(Known)
        /\ entries' = [entries EXCEPT ![f.dest] = Ingested(@, f)]
        /\ heard' = [heard EXCEPT ![f.dest] = f.time]
    BY <1>5 DEF Ingest
  <2> HIDE DEF f
  <2>2. \A d \in Dests : entries'[d] = IF d = f.dest
                                         THEN Ingested(entries[f.dest], f)
                                         ELSE entries[d]
    BY <1>2, <2>1 DEF TypeOK
  <2>3. /\ entries'[f.dest].last = f.time
        /\ entries'[f.dest].count > 0
    BY <1>1, <1>2, <1>3, <2>2, IngestedEntry
  <2>4. Known' = Known \cup {f.dest}
    BY <1>2, <2>2, <2>3 DEF Known
  <2>5. f.dest \in Known => Known' = Known
    BY <2>4
  <2>6. Known' = Known \/ (HasRoom(Known) /\ Known' = Known \cup {f.dest})
    BY <2>1, <2>4, <2>5
  <2>7. \A d \in Dests : heard'[d] = IF d = f.dest THEN f.time ELSE heard[d]
    BY <1>2, <2>1 DEF TypeOK
  <2>8. \A d \in Dests :
          \/ entries'[d] = entries[d] /\ heard'[d] = heard[d]
          \/ d = f.dest /\ entries'[d].last = f.time
             /\ entries'[d].count > 0 /\ heard'[d] = f.time
    BY <2>2, <2>3, <2>7
  <2> QED
    BY <1>1, <2>6, <2>8 DEF f
<1> QED
  BY <1>4, <1>5

\* purge and flushSnapshots drop what has expired and leave LastSeen and
\* FlowCount of the rest.
LEMMA FlushEffect ==
  ASSUME TypeOK, StartFlush, NEW d \in Dests
  PROVE  IF Expired(entries[d])
           THEN entries'[d].last = 0 /\ entries'[d].count = 0
           ELSE /\ entries'[d].last = entries[d].last
                /\ entries'[d].count = entries[d].count
<1>1. entries'[d] = Counted(Purged[d])
  BY DEF StartFlush
<1>2. Purged[d] = IF Expired(entries[d]) THEN NoEntry ELSE entries[d]
  BY DEF Purged
<1>3. entries[d] \in Entry /\ NoEntry \in Entry
  BY SizesAssumption DEF TypeOK, NoEntry, Entry
<1>4. NoEntry.last = 0 /\ NoEntry.count = 0
  BY DEF NoEntry
<1> QED
  BY <1>1, <1>2, <1>3, <1>4, CountedEntry

-----------------------------------------------------------------------------
(* The size of the inventory.                                              *)

\* A set of destinations is finite, and so are its parts.
LEMMA DestsCount ==
  ASSUME NEW S \in SUBSET Dests, NEW T \in SUBSET S
  PROVE  /\ IsFiniteSet(S)
         /\ Cardinality(S) \in Nat /\ Cardinality(T) \in Nat
         /\ Cardinality(T) <= Cardinality(S)
<1>1. IsFiniteSet(S)
  BY DestsAssumption, FS_Subset
<1>2. IsFiniteSet(T) /\ Cardinality(T) <= Cardinality(S)
  BY <1>1, FS_Subset
<1> QED
  BY <1>1, <1>2, FS_CardinalityType

\* No step takes the inventory, or what is saved of it, over the limit.
LEMMA BoundedNext ==
  TypeOK /\ InventoryBounded /\ [Next]_vars => InventoryBounded'
<1> SUFFICES ASSUME TypeOK, InventoryBounded, [Next]_vars
             PROVE  InventoryBounded'
  OBVIOUS
<1> USE SizesAssumption
<1>1. Known \in SUBSET Dests
  BY DEF Known
<1>2. Cardinality(Known) \in Nat
  BY <1>1, DestsCount
<1>3. CASE Ingest
  <2>1. baseline' = baseline
    BY <1>3 DEF Ingest
  <2>2. CASE Known' = Known
    BY <2>1, <2>2 DEF InventoryBounded
  <2>3. CASE /\ HasRoom(Known)
             /\ Known' = Known \cup {Head(flowCh).dest}
    <3>1. IsFiniteSet(Known)
      BY <1>1, DestsCount
    <3>2. Cardinality(Known') \in {Cardinality(Known), Cardinality(Known) + 1}
      BY <2>3, <3>1, FS_AddElement
    <3>3. Cardinality(Known') <= MaxDestinations
      BY <1>2, <2>3, <3>2 DEF HasRoom
    <3> QED
      BY <2>1, <3>3 DEF InventoryBounded
  <2> QED
    BY <1>3, <2>2, <2>3, IngestEffect
<1>4. CASE StartFlush
  <2>1. Known' \in SUBSET Known
    BY <1>4, FlushEffect DEF Known
  <2>2. Cardinality(Known') <= Cardinality(Known) /\ Cardinality(Known') \in Nat
    BY <1>1, <2>1, DestsCount
  <2>3. Cardinality(Known') <= MaxDestinations
    BY <1>2, <2>2 DEF InventoryBounded
  <2> QED
    BY <1>4, <2>3 DEF InventoryBounded, StartFlush
<1>5. CASE \E w \in Workloads, ok \in BOOLEAN : FlushOne(w, ok)
  <2> PICK w \in Workloads, ok \in BOOLEAN : FlushOne(w, ok)
    BY <1>5
  <2>1. Known' = Known
    BY DEF FlushOne, Known
  <2>2. /\ SnapshotOf(w).dests = KnownOf(w)
        /\ KnownOf(w) \in SUBSET Known
    BY DEF SnapshotOf, DestsOf, KnownOf
  <2>3. /\ Cardinality(KnownOf(w)) <= Cardinality(Known)
        /\ Cardinality(KnownOf(w)) \in Nat
    BY <1>1, <2>2, DestsCount
  <2>4. Cardinality(SnapshotOf(w).dests) <= MaxDestinations
    BY <1>2, <2>2, <2>3 DEF InventoryBounded
  <2>5. \A c \in ConfigMaps : \/ baseline'[c] = baseline[c]
                              \/ baseline'[c] = SnapshotOf(w)
    BY DEF TypeOK, FlushOne, Saved
  <2> QED
    BY <2>1, <2>4, <2>5 DEF InventoryBounded
<1>6. CASE Restart
  <2>1. Known' = {}
    BY <1>6 DEF Restart, Known, NoEntry
  <2> QED
    BY <1>6, <2>1, FS_EmptySet DEF InventoryBounded, Restart
<1>7. CASE UNCHANGED <<entries, baseline>>
  BY <1>7 DEF InventoryBounded, Known
<1> QED
  BY <1>3, <1>4, <1>5, <1>6, <1>7
     DEF Next, RegisterRace, Tick, Observe, ObserveReturns, RegisterWorkload,
         vars

\* Neither the inventory nor a saved snapshot ever has more than
\* maxDestinations entries (accumulator.go:135), for any limit, window and
\* order of flows, purges, flushes and restarts.
THEOREM Bounded == Spec => []InventoryBounded
<1>1. Init => InventoryBounded
  <2> SUFFICES ASSUME Init PROVE InventoryBounded
    OBVIOUS
  <2>1. Known = {}
    BY DEF Init, Known, NoEntry
  <2>2. \A c \in ConfigMaps : baseline[c].dests = {}
    BY DEF Init, NoSnapshot
  <2> QED
    BY <2>1, <2>2, FS_EmptySet, SizesAssumption DEF InventoryBounded
<1> QED
  BY <1>1, BoundedNext, TypeCorrect, PTL DEF Spec

-----------------------------------------------------------------------------
(* Time.                                                                   *)

\* A moment that is neither ahead of the clock nor of any flow in the channel.
NotAhead(t) ==
  /\ t <= now
  /\ \A i \in 1..Len(flowCh) : t <= flowCh[i].time

\* Flows wait in the order in which they were seen; no entry and no saved
\* destination was last seen after a flow that still waits.
TimeInv ==
  /\ \A i \in 1..Len(flowCh) : flowCh[i].time <= now
  /\ \A i, j \in 1..Len(flowCh) : i <= j => flowCh[i].time <= flowCh[j].time
  /\ \A d \in Dests : NotAhead(entries[d].last)
  /\ \A c \in ConfigMaps, d \in Dests : NotAhead(baseline[c].last[d])

\* The inductive invariant behind what is proved about baselines.
BaselineInv == TypeOK /\ TimeInv /\ SnapshotsTrackInventory

\* The channel is a queue of flows stamped by the clock.
LEMMA ChannelEffect ==
  ASSUME TypeOK, [Next]_vars
  PROVE  /\ now' \in Nat /\ now <= now'
         /\ \/ flowCh' = flowCh
            \/ flowCh' = <<>>
            \/ flowCh # <<>> /\ flowCh' = Tail(flowCh)
            \/ \E d \in Dests :
                 flowCh' = Append(flowCh, [dest |-> d, time |-> now])
<1>1. now' = now \/ now' = now + 1
  BY DEF TypeOK, Next, vars, Tick, Observe, ObserveReturns, Ingest, StartFlush,
         FlushOne, RegisterWorkload, Restart, RegisterRace
<1>2. \/ flowCh' = flowCh
      \/ flowCh' = <<>>
      \/ flowCh # <<>> /\ flowCh' = Tail(flowCh)
      \/ \E d \in Dests : flowCh' = Append(flowCh, [dest |-> d, time |-> now])
  BY DEF Next, vars, Tick, Observe, ObserveReturns, Ingest, CanReceive,
         StartFlush, FlushOne, RegisterWorkload, Restart, RegisterRace
<1>3. now' \in Nat /\ now <= now'
  BY <1>1 DEF TypeOK
<1> QED
  BY <1>2, <1>3

\* Where the flow at a place of the channel comes from.
LEMMA FlowFrom ==
  ASSUME TypeOK, [Next]_vars, NEW i \in 1..Len(flowCh')
  PROVE  \/ flowCh'[i].time = now /\ i = Len(flowCh')
         \/ i \in 1..Len(flowCh) /\ flowCh'[i] = flowCh[i]
         \/ i + 1 \in 1..Len(flowCh) /\ flowCh'[i] = flowCh[i + 1]
            /\ flowCh' = Tail(flowCh) /\ flowCh # <<>>
<1> USE DEF TypeOK
<1>1. CASE flowCh' = flowCh
  BY <1>1
<1>2. CASE flowCh' = <<>>
  BY <1>2
<1>3. CASE flowCh # <<>> /\ flowCh' = Tail(flowCh)
  BY <1>3, HeadTailProperties, LenProperties
<1>4. CASE \E d \in Dests :
             flowCh' = Append(flowCh, [dest |-> d, time |-> now])
  <2> PICK d \in Dests : flowCh' = Append(flowCh, [dest |-> d, time |-> now])
    BY <1>4
  <2>1. [dest |-> d, time |-> now] \in Flow
    BY DEF Flow
  <2>2. /\ Len(flowCh') = Len(flowCh) + 1
        /\ \A j \in 1..Len(flowCh) : flowCh'[j] = flowCh[j]
        /\ flowCh'[Len(flowCh) + 1] = [dest |-> d, time |-> now]
    BY <2>1, AppendProperties
  <2> QED
    BY <2>2, LenProperties
<1> QED
  BY <1>1, <1>2, <1>3, <1>4, ChannelEffect

\* What is not ahead stays so: the clock does not go back, and what enters the
\* channel carries its time.
LEMMA NotAheadNext ==
  ASSUME TypeOK, [Next]_vars, NEW t \in Nat, NotAhead(t)
  PROVE  NotAhead(t)'
<1>1. t <= now'
  BY ChannelEffect DEF TypeOK, NotAhead
<1>2. ASSUME NEW i \in 1..Len(flowCh') PROVE t <= flowCh'[i].time
  BY FlowFrom DEF NotAhead
<1> QED
  BY <1>1, <1>2 DEF NotAhead

\* Times are natural numbers.
LEMMA FlowTimes ==
  ASSUME TypeOK, NEW i \in 1..Len(flowCh)
  PROVE  flowCh[i].time \in Nat /\ flowCh[i].dest \in Dests
<1>1. flowCh[i] \in Flow
  BY ElementOfSeq DEF TypeOK
<1> QED
  BY <1>1 DEF Flow

\* The flow that is received is not ahead of the ones behind it.
LEMMA HeadNotAhead ==
  ASSUME TypeOK, TimeInv, Ingest, NEW t, t = Head(flowCh).time
  PROVE  NotAhead(t)'
<1>1. /\ flowCh' = Tail(flowCh) /\ flowCh # <<>> /\ now' = now
      /\ Head(flowCh) = flowCh[1]
  BY DEF Ingest, CanReceive, TypeOK
<1>2. /\ Len(flowCh') = Len(flowCh) - 1 /\ Len(flowCh) \in Nat
      /\ \A i \in 1..Len(flowCh') : flowCh'[i] = flowCh[i + 1]
  BY <1>1, HeadTailProperties, LenProperties DEF TypeOK
<1>3. Len(flowCh) >= 1
  BY <1>1, <1>2, EmptySeq DEF TypeOK
<1>4. flowCh[1].time <= now'
  BY <1>1, <1>2, <1>3 DEF TimeInv
<1>5. ASSUME NEW i \in 1..Len(flowCh') PROVE flowCh[1].time <= flowCh'[i].time
  <2>1. i + 1 \in 1..Len(flowCh) /\ 1 \in 1..Len(flowCh) /\ 1 <= i + 1
    BY <1>2, <1>3
  <2> QED
    BY <1>2, <2>1 DEF TimeInv
<1>6. t = flowCh[1].time
  BY <1>1
<1> QED
  BY <1>4, <1>5, <1>6 DEF NotAhead

\* TimeInv is inductive.
LEMMA TimeNext == TypeOK /\ TimeInv /\ [Next]_vars => TimeInv'
<1> SUFFICES ASSUME TypeOK, TimeInv, [Next]_vars PROVE TimeInv'
  OBVIOUS
<1>1. ASSUME NEW i \in 1..Len(flowCh') PROVE flowCh'[i].time <= now'
  <2>1. now \in Nat /\ now' \in Nat /\ now <= now'
    BY ChannelEffect DEF TypeOK
  <2>2. \A j \in 1..Len(flowCh) : flowCh[j].time \in Nat /\ flowCh[j].time <= now
    BY FlowTimes DEF TimeInv
  <2>3. \/ flowCh'[i].time = now
        \/ \E j \in 1..Len(flowCh) : flowCh'[i] = flowCh[j]
    BY FlowFrom
  <2> QED
    BY <2>1, <2>2, <2>3
<1>2. ASSUME NEW i \in 1..Len(flowCh'), NEW j \in 1..Len(flowCh'), i <= j
      PROVE  flowCh'[i].time <= flowCh'[j].time
  <2>1. /\ now \in Nat /\ flowCh \in Seq(Flow)
        /\ Len(flowCh) \in Nat /\ Len(flowCh') \in Nat
    BY TypeNext, LenProperties DEF TypeOK
  <2>2. CASE flowCh # <<>> /\ flowCh' = Tail(flowCh)
    <3>1. /\ i + 1 \in 1..Len(flowCh) /\ flowCh'[i] = flowCh[i + 1]
          /\ j + 1 \in 1..Len(flowCh) /\ flowCh'[j] = flowCh[j + 1]
      BY <2>1, <2>2, HeadTailProperties
    <3> QED
      BY <1>2, <3>1 DEF TimeInv
  <2>3. CASE ~(flowCh # <<>> /\ flowCh' = Tail(flowCh))
    <3>1. /\ \/ flowCh'[i].time = now /\ i = Len(flowCh')
             \/ i \in 1..Len(flowCh) /\ flowCh'[i] = flowCh[i]
          /\ \/ flowCh'[j].time = now /\ j = Len(flowCh')
             \/ j \in 1..Len(flowCh) /\ flowCh'[j] = flowCh[j]
      BY <2>3, FlowFrom
    <3>2. CASE flowCh'[i].time = now /\ i = Len(flowCh')
      BY <1>2, <2>1, <3>2
    <3>3. CASE i \in 1..Len(flowCh) /\ flowCh'[i] = flowCh[i]
      BY <1>2, <2>1, <3>1, <3>3 DEF TimeInv
    <3> QED
      BY <3>1, <3>2, <3>3
  <2> QED
    BY <2>2, <2>3
<1>3. \A t \in Nat : NotAhead(t) => NotAhead(t)'
  BY NotAheadNext
<1>4. NotAhead(0)
  <2>1. \A i \in 1..Len(flowCh) : 0 <= flowCh[i].time
    BY FlowTimes
  <2> QED
    BY <2>1 DEF TypeOK, NotAhead
<1>5. \A d \in Dests : entries[d].last \in Nat /\ NotAhead(entries[d].last)
  BY DEF TypeOK, Entry, TimeInv
<1>6. ASSUME NEW d \in Dests PROVE NotAhead(entries[d].last)'
  <2> SUFFICES ASSUME NEW t, t = entries'[d].last PROVE NotAhead(t)'
    BY DEF NotAhead
  <2>1. CASE Ingest
    BY <1>3, <1>5, <2>1, IngestEffect, HeadNotAhead
  <2>2. CASE StartFlush
    BY <1>3, <1>4, <1>5, <2>2, FlushEffect
  <2>3. CASE Restart
    <3>1. t = 0
      BY <2>3 DEF Restart, NoEntry
    <3> QED
      BY <1>3, <1>4, <3>1
  <2>4. CASE entries' = entries
    BY <1>3, <1>5, <2>4
  <2> QED
    BY <2>1, <2>2, <2>3, <2>4
       DEF Next, RegisterRace, Tick, Observe, ObserveReturns, FlushOne,
           RegisterWorkload, vars
<1>7. ASSUME NEW c \in ConfigMaps, NEW d \in Dests
      PROVE  NotAhead(baseline[c].last[d])'
  <2> SUFFICES ASSUME NEW t, t = baseline'[c].last[d] PROVE NotAhead(t)'
    BY DEF NotAhead
  <2>1. baseline[c].last[d] \in Nat /\ NotAhead(baseline[c].last[d])
    BY DEF TypeOK, Snapshot, TimeInv
  <2>2. \A w \in Workloads : SnapshotOf(w).last[d] \in {0, entries[d].last}
    BY DEF SnapshotOf
  <2>3. \/ baseline'[c] = baseline[c]
        \/ \E w \in Workloads : baseline'[c] = SnapshotOf(w)
    BY DEF TypeOK, Next, RegisterRace, Tick, Observe, ObserveReturns, Ingest,
           StartFlush, FlushOne, Saved, RegisterWorkload, Restart, vars
  <2> QED
    BY <1>3, <1>4, <1>5, <2>1, <2>2, <2>3
<1> QED
  BY <1>1, <1>2, <1>6, <1>7 DEF TimeInv

-----------------------------------------------------------------------------
(* What is saved.                                                          *)

\* The facts a step starts from, destination by destination.
LEMMA SavedFacts ==
  ASSUME BaselineInv, NEW c \in ConfigMaps, NEW d \in baseline[c].dests
  PROVE  /\ d \in Dests /\ WorkloadOf[d] = baseline[c].workload
         /\ baseline[c].last[d] \in Nat
         /\ entries[d].last \in Nat /\ entries[d].count \in Nat
         /\ d \in Known => baseline[c].last[d] <= entries[d].last
<1>1. d \in Dests /\ baseline[c].last[d] \in Nat
  BY DEF BaselineInv, TypeOK, Snapshot
<1>2. entries[d].last \in Nat /\ entries[d].count \in Nat
  BY <1>1 DEF BaselineInv, TypeOK, Entry
<1> QED
  BY <1>1, <1>2 DEF BaselineInv, SnapshotsTrackInventory

\* One round of the flush replaces at most the snapshot of the ConfigMap its
\* workload is registered with, by what is known of the workload.
LEMMA FlushOneEffect ==
  ASSUME TypeOK, NEW w \in Workloads, NEW ok \in BOOLEAN, FlushOne(w, ok),
         NEW c \in ConfigMaps
  PROVE  /\ UNCHANGED <<entries, now, heard>> /\ Known' = Known
         /\ \/ baseline'[c] = baseline[c]
            \/ /\ baseline'[c].workload = w
               /\ baseline'[c].dests = KnownOf(w)
               /\ \A d \in KnownOf(w) : baseline'[c].last[d] = entries[d].last
<1>1. UNCHANGED <<entries, now, heard>> /\ Known' = Known
  BY DEF FlushOne, Known
<1>2. baseline'[c] = baseline[c] \/ baseline'[c] = SnapshotOf(w)
  BY DEF TypeOK, FlushOne, Saved
<1>3. /\ SnapshotOf(w).workload = w
      /\ SnapshotOf(w).dests = KnownOf(w)
      /\ \A d \in KnownOf(w) : SnapshotOf(w).last[d] = entries[d].last
  BY DEF SnapshotOf, DestsOf, KnownOf, Known
<1> QED
  BY <1>1, <1>2, <1>3

\* A saved snapshot stays about its workload and behind the inventory.
LEMMA TrackNext == BaselineInv /\ [Next]_vars => SnapshotsTrackInventory'
<1> SUFFICES ASSUME BaselineInv, [Next]_vars,
                    NEW c \in ConfigMaps, NEW d \in baseline'[c].dests
             PROVE  /\ WorkloadOf[d] = baseline'[c].workload
                    /\ d \in Known' => baseline'[c].last[d] <= entries'[d].last
  BY DEF SnapshotsTrackInventory
<1> USE DEF BaselineInv
<1>1. CASE Ingest
  <2>1. baseline' = baseline
    BY <1>1 DEF Ingest
  <2>2. d \in Dests /\ WorkloadOf[d] = baseline[c].workload
    BY <2>1, SavedFacts
  <2>3. NotAhead(baseline[c].last[d])
    BY <2>2 DEF TimeInv
  <2>4. baseline[c].last[d] <= Head(flowCh).time
    <3>1. /\ flowCh \in Seq(Flow) /\ flowCh # <<>>
          /\ Head(flowCh) = flowCh[1]
      BY <1>1 DEF TypeOK, Ingest, CanReceive
    <3>2. 1 \in 1..Len(flowCh)
      BY <3>1, EmptySeq
    <3> QED
      BY <2>3, <3>1, <3>2 DEF NotAhead
  <2>5. CASE entries'[d] = entries[d]
    BY <2>1, <2>2, <2>5, SavedFacts DEF Known
  <2>6. CASE entries'[d].last = Head(flowCh).time
    BY <2>1, <2>2, <2>4, <2>6
  <2> QED
    BY <1>1, <2>2, <2>5, <2>6, IngestEffect
<1>2. CASE StartFlush
  <2>1. baseline' = baseline
    BY <1>2 DEF StartFlush
  <2>2. d \in Dests /\ WorkloadOf[d] = baseline[c].workload
    BY <2>1, SavedFacts
  <2>3. d \in Known' => d \in Known /\ entries'[d].last = entries[d].last
    BY <1>2, <2>2, FlushEffect DEF Known
  <2> QED
    BY <2>1, <2>2, <2>3, SavedFacts
<1>3. CASE \E v \in Workloads, ok \in BOOLEAN : FlushOne(v, ok)
  <2> PICK v \in Workloads, ok \in BOOLEAN : FlushOne(v, ok)
    BY <1>3
  <2>1. CASE baseline'[c] = baseline[c]
    BY <2>1, SavedFacts, FlushOneEffect
  <2>2. CASE /\ baseline'[c].workload = v
             /\ baseline'[c].dests = KnownOf(v)
             /\ \A k \in KnownOf(v) : baseline'[c].last[k] = entries[k].last
    <3>1. d \in Dests /\ WorkloadOf[d] = v
      BY <2>2 DEF KnownOf, Known
    <3>2. entries[d].last \in Nat
      BY <3>1 DEF TypeOK, Entry
    <3> QED
      BY <2>2, <3>1, <3>2, FlushOneEffect
  <2> QED
    BY <2>1, <2>2, FlushOneEffect
<1>4. CASE Restart
  <2>1. baseline' = baseline
    BY <1>4 DEF Restart
  <2>2. d \notin Known'
    BY <1>4 DEF Restart, Known, NoEntry
  <2> QED
    BY <2>1, <2>2, SavedFacts
<1>5. CASE UNCHANGED <<entries, baseline>>
  BY <1>5, SavedFacts DEF Known
<1> QED
  BY <1>1, <1>2, <1>3, <1>4, <1>5
     DEF Next, RegisterRace, Tick, Observe, ObserveReturns, RegisterWorkload,
         vars

\* The invariant holds in every behaviour.
LEMMA BaselineInvariant == Spec => []BaselineInv
<1>1. Init => BaselineInv
  <2> SUFFICES ASSUME Init PROVE BaselineInv
    OBVIOUS
  <2>1. TypeOK
    BY TypeInit
  <2>2. \A c \in ConfigMaps : /\ baseline[c].dests = {}
                              /\ \A d \in Dests : baseline[c].last[d] = 0
    BY DEF Init, NoSnapshot
  <2>3. Len(flowCh) = 0 /\ now = 1 /\ \A d \in Dests : entries[d].last = 0
    BY DEF Init, NoEntry
  <2>4. TimeInv
    BY <2>2, <2>3 DEF TimeInv, NotAhead
  <2> QED
    BY <2>1, <2>2, <2>4 DEF BaselineInv, SnapshotsTrackInventory
<1>2. BaselineInv /\ [Next]_vars => BaselineInv'
  BY TypeNext, TimeNext, TrackNext DEF BaselineInv
<1> QED
  BY <1>1, <1>2, PTL DEF Spec

\* A saved snapshot is about the workload it names alone and never ahead of the
\* inventory (accumulator.go:129-133, 167-183): flows are received in the order
\* in which they were seen, so that a destination that was purged and comes back
\* does not come back older than it was saved.
THEOREM SnapshotsTrack == Spec => []SnapshotsTrackInventory
<1>1. BaselineInv => SnapshotsTrackInventory
  BY DEF BaselineInv
<1> QED
  BY <1>1, BaselineInvariant, PTL

-----------------------------------------------------------------------------
(* What is kept: from the flows that were taken to the saved baselines.    *)

\* An entry is at least as recent as the last flow that was taken to its
\* destination, and a destination without an entry has not been heard of within
\* the window.
HeardInv ==
  \A d \in Dests : HeardRecently(d) =>
    d \in Known /\ heard[d] <= entries[d].last

\* HeardInv is inductive with the types.
LEMMA HeardNext == TypeOK /\ HeardInv /\ [Next]_vars => HeardInv'
<1> SUFFICES ASSUME TypeOK, HeardInv, [Next]_vars,
                    NEW d \in Dests, HeardRecently(d)'
             PROVE  d \in Known' /\ heard'[d] <= entries'[d].last
  BY DEF HeardInv
<1> USE SizesAssumption
<1>1. /\ now \in Nat /\ now' \in Nat /\ now <= now'
      /\ heard[d] \in Nat /\ heard'[d] \in Nat
      /\ entries[d].last \in Nat /\ entries[d].count \in Nat
  BY TypeNext, ChannelEffect DEF TypeOK, Entry
<1>2. heard'[d] = heard[d] =>
        HeardRecently(d) /\ entries[d].count > 0 /\ heard[d] <= entries[d].last
  BY <1>1 DEF HeardRecently, HeardInv, Known
<1>3. CASE Ingest
  <2>1. CASE entries'[d] = entries[d] /\ heard'[d] = heard[d]
    BY <1>2, <2>1 DEF Known
  <2>2. CASE entries'[d].last = heard'[d] /\ entries'[d].count > 0
    BY <1>1, <2>2 DEF Known
  <2> QED
    BY <1>3, <2>1, <2>2, IngestEffect
<1>4. CASE StartFlush
  <2>1. heard'[d] = heard[d]
    BY <1>4 DEF StartFlush
  <2>2. ~Expired(entries[d])
    BY <1>1, <1>2, <2>1 DEF Expired, HeardRecently
  <2> QED
    BY <1>2, <1>4, <2>1, <2>2, FlushEffect DEF Known
<1>5. CASE Restart
  BY <1>1, <1>5 DEF Restart, HeardRecently
<1>6. CASE UNCHANGED <<entries, heard>>
  BY <1>2, <1>6 DEF Known
<1> QED
  BY <1>3, <1>4, <1>5, <1>6
     DEF Next, RegisterRace, Tick, Observe, ObserveReturns, FlushOne,
         RegisterWorkload, vars

\* The inventory has every destination to which a flow was taken within the
\* window (accumulator.go:129-161), whatever is purged, refused or saved
\* meanwhile: entries are refreshed by each flow, not only by the first.
THEOREM RecentKnown == Spec => []RecentStayKnown
<1>1. Init => HeardInv
  BY DEF Init, HeardInv, HeardRecently
<1>2. HeardInv => RecentStayKnown
  BY DEF HeardInv, RecentStayKnown
<1> QED
  BY <1>1, <1>2, HeardNext, TypeCorrect, PTL DEF Spec

\* While a ConfigMap stays one workload's, a destination to which a flow was
\* taken within the window does not leave its baseline
\* (accumulator.go:152-190), whatever flows are refused, writes fail or
\* registrations come late or change.
THEOREM ForgetsOnlyExpired == Spec => BaselineForgetsOnlyExpired
<1>1. ASSUME BaselineInv, RecentStayKnown, [Next]_vars, NEW c \in ConfigMaps,
             NEW d \in baseline[c].dests \ baseline'[c].dests, SameWorkload(c)
      PROVE  ~HeardRecently(d)
  <2>1. d \in Dests /\ WorkloadOf[d] = baseline[c].workload
    BY <1>1, SavedFacts
  <2>2. PICK v \in Workloads, ok \in BOOLEAN : FlushOne(v, ok)
    BY <1>1
       DEF Next, RegisterRace, Tick, Observe, ObserveReturns, Ingest,
           StartFlush, RegisterWorkload, Restart, vars
  <2>3. baseline'[c].workload = v /\ baseline'[c].dests = KnownOf(v)
    BY <1>1, <2>2, FlushOneEffect DEF BaselineInv
  <2>4. d \notin Known
    BY <1>1, <2>1, <2>3 DEF KnownOf, SameWorkload
  <2> QED
    BY <1>1, <2>1, <2>4 DEF RecentStayKnown
<1>2. BaselineInv /\ RecentStayKnown /\ [Next]_vars =>
        [\A c \in ConfigMaps : \A d \in baseline[c].dests \ baseline'[c].dests :
           SameWorkload(c) => ~HeardRecently(d)]_vars
  BY <1>1
<1> QED
  BY <1>2, BaselineInvariant, RecentKnown, PTL
     DEF Spec, BaselineForgetsOnlyExpired
=============================================================================
