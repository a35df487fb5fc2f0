----------------------------- MODULE DriftReport -----------------------------
(***************************************************************************)
(* internal/baseline/drift.go: what is new and what is gone between two    *)
(* snapshots of a baseline.                                                *)
(***************************************************************************)
EXTENDS Sequences, Functions

\* Mutated form: the address names the destination if there is one.
destIDByAddress(e) ==
  [host |-> IF e.ip # "" THEN e.ip ELSE e.fqdn, port |-> e.port,
   proto |-> e.proto]

\* destID: the addresses behind one name are one destination.
destID(e) ==
  [host |-> IF e.fqdn # "" THEN e.fqdn ELSE e.ip, port |-> e.port,
   proto |-> e.proto]

indexSnapshot(snap) == {destID(e) : e \in Range(snap)}

\* Detect; without a previous snapshot (<<>>) everything is new.
Detect(previous, current) ==
  [new |-> indexSnapshot(current) \ indexSnapshot(previous),
   removed |-> indexSnapshot(previous) \ indexSnapshot(current)]
=============================================================================
