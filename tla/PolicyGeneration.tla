-------------------------- MODULE PolicyGeneration --------------------------
(***************************************************************************)
(* A baseline as it grows from one snapshot to the next, and what          *)
(* PolicyGenerator makes of it each time: destinations appear, are seen    *)
(* again and count as present in one snapshot more, and the order of the   *)
(* destinations in a snapshot is that of a Go map, any at all.             *)
(***************************************************************************)
EXTENDS PolicyGenerator, DriftReport

CONSTANTS
  Keys,       \* the destinations there are: [fqdn, ip, port, proto]
  MaxDests    \* bound: destinations in a snapshot

ASSUME KeysAssumption ==
  /\ Keys \subseteq [fqdn : Names, ip : Addresses, port : Nat,
                     proto : {"TCP", "UDP"}]
  /\ MaxDests \in Nat

VARIABLE snap

\* The counts at which Score and countRisk change their mind.
FlowSteps == <<1, 5, 10>>
SnapSteps == 3

KeyOf(e) == [fqdn |-> e.fqdn, ip |-> e.ip, port |-> e.port, proto |-> e.proto]

Init == snap = <<>>

\* A destination enters the inventory; its place in the snapshot is arbitrary.
Appear(k, i) ==
  /\ Len(snap) < MaxDests
  /\ \A e \in Range(snap) : KeyOf(e) # k
  /\ snap' = InsertAt(snap, i,
       [fqdn |-> k.fqdn, ip |-> k.ip, port |-> k.port, proto |-> k.proto,
        flows |-> 1, snaps |-> 1])

\* More flows to a known destination.
SeenAgain(i) ==
  \E j \in 2..Len(FlowSteps) :
    /\ snap[i].flows = FlowSteps[j - 1]
    /\ snap' = [snap EXCEPT ![i].flows = FlowSteps[j]]

\* Another snapshot: all entries count it (up to SnapSteps).
NextSnapshot ==
  /\ snap # <<>>
  /\ snap' = [i \in DOMAIN snap |->
               IF snap[i].snaps < SnapSteps
                 THEN [snap[i] EXCEPT !.snaps = @ + 1] ELSE snap[i]]

\* The window has passed for a destination.
Expire(i) == snap' = RemoveAt(snap, i)

Next ==
  \/ \E k \in Keys, i \in 1..(Len(snap) + 1) : Appear(k, i)
  \/ \E i \in DOMAIN snap : SeenAgain(i) \/ Expire(i)
  \/ NextSnapshot

Spec == Init /\ [][Next]_snap

-----------------------------------------------------------------------------
\* The order of a stable sort by risk.
Before(i, j) ==
  LET rank(k) == RiskOrder(Risk(snap[k]))
  IN  rank(i) < rank(j) \/ (rank(i) = rank(j) /\ i < j)

\* Build orders a snapshot as the stable sort it says it is ("Stable sort: Low
\* -> Medium -> High", builder.go:26): every entry has a place, by its risk and
\* then by its place in the snapshot, and there is nothing else.
BuildIsStableSort ==
  LET sorted == Build(snap) IN
  /\ Len(sorted) = Len(snap)
  /\ \E place \in [DOMAIN snap -> DOMAIN snap] :
       /\ \A i \in DOMAIN snap : sorted[place[i]] = snap[i]
       /\ \A i, j \in DOMAIN snap : place[i] < place[j] <=> Before(i, j)

\* Every destination that has a name is accounted for: it is allowed by a rule
\* or listed as excluded (policy_generator.go:59-89).
NamedAreAccountedFor ==
  LET result == Generate(snap) IN
  \A e \in Range(snap) : e.fqdn # "" =>
    \/ \E r \in result.rules :
         r.port = e.port /\ r.proto = e.proto /\ e.fqdn \in r.fqdns
    \/ \E x \in Range(result.excluded) :
         x.dest = e.fqdn /\ x.port = e.port

\* How many destinations the proposal lists as excluded with risk High.
HighExcluded(s) ==
  LET excluded == Generate(s).excluded
  IN  Cardinality({i \in DOMAIN excluded : excluded[i].risk = "High"})

\* Of one and the same snapshot, the proposal lists as excluded what the profile
\* counts as High in status.riskSummary, although the two controllers decide by
\* different tests what a public address is (countRisk,
\* egressprofile_controller.go:204-216, and Score, RiskLevel and
\* IsDirectPublicIP, policy_generator.go:59-89).
CountedHighAreExcluded == countRisk(snap).high <= HighExcluded(snap)

\* Watching longer never takes a destination out of the policy: as long as it
\* is in the baseline and nothing happens but more flows and more snapshots, a
\* name that is allowed stays allowed (scorer.go:16-39, thresholds and the
\* seen-once penalty), so that an enforced workload is not cut off from it.
AllowedStaysAllowed ==
  [][(\A e \in Range(snap) : \E f \in Range(snap') : KeyOf(f) = KeyOf(e))
       => Allowed(snap) \subseteq Allowed(snap')]_snap

\* What to allows and from does not is among the reported destinations, or known
\* to from with an address that is excluded there.
Explained(from, to, reported) ==
  \A a \in Allowed(to) \ Allowed(from) :
    \/ [host |-> a.fqdn, port |-> a.port, proto |-> a.proto] \in reported
    \/ \E e \in Range(from) :
         /\ e.fqdn = a.fqdn /\ e.port = a.port /\ e.proto = a.proto
         /\ IsHigh(e)

\* The drift report explains the policy: a name enters or leaves it only if
\* Detect reports it as new or removed, or if the name is in both snapshots and
\* an address behind it is scored High on the side where it is not allowed
\* (drift.go:16-51 identifies destinations by name, policy_generator.go:59-89
\* scores each address by itself).
DriftExplainsPolicy ==
  [][/\ Explained(snap, snap', Detect(snap, snap').new)
     /\ Explained(snap', snap, Detect(snap, snap').removed)]_snap

-----------------------------------------------------------------------------
(* What comments and documentation say and the code does not do.           *)

\* wildcard.go:14 "Broad TLD-level wildcards are always High", README.md:539
\* "large wildcard -> never auto-included in Enforce".
NoWildcardAllowed ==
  \A a \in Allowed(snap) : a.fqdn \notin Wildcards
=============================================================================
