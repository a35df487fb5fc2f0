--------------------------- MODULE ConfigMapStore ---------------------------
(***************************************************************************)
(* internal/store/configmap_store.go: the ConfigMap that carries a         *)
(* profile's baseline (baseline.json) and its generated policy             *)
(* (policy.yaml).  Three goroutines share it: both reconcilers and the     *)
(* accumulator.  Reads come from the informer cache; writes are JSON merge *)
(* patches computed against the cached copy.                               *)
(***************************************************************************)
EXTENDS KubeApi

\* EnsureConfigMap does nothing when the cache has the ConfigMap; otherwise it
\* creates it, with the profile as owner.
CreateConfigMap(p, owner, outcome) ==
  IF Owned(cm[p]) \/ outcome = "rejected"
    THEN cm
    ELSE [cm EXCEPT ![p] = [NoCM EXCEPT !.owner = owner]]

\* Mutated form: the cached copy, with the new value, replaces the object.
WholeObject(server, read, new) == [new EXCEPT !.owner = server.owner]

\* The object after client.MergeFrom(read) and a patch to new.
MergePatch(server, read, new) ==
  [owner |-> server.owner,
   baseline |-> MergedField(server.baseline, read.baseline, new.baseline),
   policy |-> MergedField(server.policy, read.policy, new.policy)]

\* patchData: a cached Get, then the patch of what was read.
PatchData(p, new, outcome) ==
  IF Owned(cCM[p]) /\ Owned(cm[p]) /\ outcome # "rejected"
    THEN [cm EXCEPT ![p] = MergePatch(cm[p], cCM[p], new)]
    ELSE cm

PatchFails(p, outcome) ==
  ~Owned(cCM[p]) \/ ~Owned(cm[p]) \/ outcome # "ok"

SaveSnapshot(p, snap, outcome) ==
  PatchData(p, [cCM[p] EXCEPT !.baseline = snap], outcome)

\* Mutated form: a policy.yaml that is there already is left alone.
SavePolicyYAMLOnce(p, policy, outcome) ==
  IF cCM[p].policy # NoPolicy
    THEN cm ELSE PatchData(p, [cCM[p] EXCEPT !.policy = policy], outcome)

SavePolicyYAML(p, policy, outcome) ==
  PatchData(p, [cCM[p] EXCEPT !.policy = policy], outcome)

\* GetSnapshot: no baseline.json key reads as the empty snapshot; a missing
\* ConfigMap is the caller's error path.
GetSnapshot(p) == cCM[p].baseline
=============================================================================
