--------------------------- MODULE PolicyGenerator ---------------------------
(***************************************************************************)
(* internal/baseline/builder.go and internal/cilium/policy_generator.go:   *)
(* from a snapshot, the sequence of destinations baseline.json holds, to   *)
(* the policy's rules and the list of excluded destinations.               *)
(***************************************************************************)
EXTENDS RiskScore, Sequences, SequencesExt, FiniteSets

\* Mutated form: the comparison of sortByRisk is not strict.
StopsAfterNonStrict(sorted, e) ==
  {i \in 1..Len(sorted) : RiskOrder(Risk(sorted[i])) < RiskOrder(Risk(e))}

\* sortByRisk moves an entry left past the entries of strictly higher risk.
StopsAfter(sorted, e) ==
  {i \in 1..Len(sorted) : RiskOrder(Risk(sorted[i])) <= RiskOrder(Risk(e))}

Inserted(sorted, e) ==
  InsertAt(sorted, 1 + Max({0} \cup StopsAfter(sorted, e)), e)

\* sortByRisk: what the first i entries have become.
Sorting(snap) ==
  LET sorted[i \in 0..Len(snap)] ==
        IF i = 0 THEN <<>> ELSE Inserted(sorted[i - 1], snap[i])
  IN  sorted

\* Build: the entries in the order sortByRisk leaves them.
Build(snap) == Sorting(snap)[Len(snap)]

\* The first reason for exclusion.
IsHigh(e) == Risk(e) = "High" \/ IsDirectPublicIP(e.fqdn, e.ip)

\* Mutated form: a Medium wildcard is dropped without a word.
MediumWildcardUnlisted(e) == FALSE

\* The second reason for exclusion.
IsMediumWildcard(e) == e.fqdn # "" /\ WildcardRisk(e.fqdn) = "Medium"

destHost(e) == IF e.fqdn # "" THEN e.fqdn ELSE e.ip

Excluded(e) ==
  [dest |-> destHost(e), port |-> e.port,
   risk |-> IF IsHigh(e) THEN "High" ELSE "Medium"]

\* Generate's loop: what the first i scored entries have added to the list.
Excluding(scored) ==
  LET excluded[i \in 0..Len(scored)] ==
        IF i = 0 THEN <<>>
        ELSE IF IsHigh(scored[i]) \/ IsMediumWildcard(scored[i])
          THEN Append(excluded[i - 1], Excluded(scored[i]))
          ELSE excluded[i - 1]
  IN  excluded

ExcludedDestinations(snap) == Excluding(Build(snap))[Len(snap)]

\* fqdnGroups: what is left, by name, port and protocol.
Allowed(snap) ==
  {[fqdn |-> e.fqdn, port |-> e.port, proto |-> e.proto] :
     e \in {x \in Range(snap) :
              x.fqdn # "" /\ WildcardRisk(x.fqdn) # "Medium" /\ ~IsHigh(x)}}

\* The toFQDNs rules, one for each port and protocol.  The code sorts rules and
\* names, so the sets determine the YAML.
Rules(snap) ==
  {[port |-> a.port, proto |-> a.proto,
    fqdns |-> {b.fqdn : b \in {c \in Allowed(snap) :
                 c.port = a.port /\ c.proto = a.proto}}] :
     a \in Allowed(snap)}

\* AggregateScore: the mean, excluded destinations included.
AggregateScore(snap) ==
  LET total[i \in 0..Len(snap)] ==
        IF i = 0 THEN 0 ELSE total[i - 1] + Score(snap[i])
  IN  IF snap = <<>> THEN 0 ELSE total[Len(snap)] \div Len(snap)

computeOverallRisk(snap, score) ==
  IF \E e \in Range(snap) : Risk(e) = "High"
    THEN IF score < 50 THEN "High" ELSE "Medium"
    ELSE IF score >= 80 THEN "Low"
    ELSE IF score >= 50 THEN "Medium"
    ELSE "High"

Generate(snap) ==
  [rules |-> Rules(snap), excluded |-> ExcludedDestinations(snap),
   score |-> AggregateScore(snap),
   risk |-> computeOverallRisk(snap, AggregateScore(snap))]

-----------------------------------------------------------------------------
\* egressprofile_controller.go: the profile's own count of risks.
countRisk(snap) ==
  LET high(e) == e.fqdn = "" /\ isPublicIPSimple(e.ip)
      low(e) == ~high(e) /\ e.flows >= 5 /\ e.snaps >= 2
      count(P(_)) == Cardinality({i \in DOMAIN snap : P(snap[i])})
  IN  [low |-> count(low), high |-> count(high),
       medium |-> Len(snap) - count(low) - count(high)]
=============================================================================
