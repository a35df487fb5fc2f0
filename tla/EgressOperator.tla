--------------------------- MODULE EgressOperator ---------------------------
(***************************************************************************)
(* The operator process (cmd/main.go): the two controllers and the         *)
(* accumulator's snapshot writes against one API server, with informer     *)
(* lag, failing and half-failing API calls, people editing the objects,    *)
(* the garbage collector, and restarts of the process.                     *)
(*                                                                         *)
(* The accumulator is reduced here to what the other parts see of it: from *)
(* time to time it saves a newer snapshot of a registered workload.  Its   *)
(* own state is the subject of Accumulator.                                *)
(***************************************************************************)
EXTENDS EgressProfileController, EgressPolicyProposalController

VARIABLES
  approvedUids,  \* history: uids of proposals that have been approved
  enforced,      \* history: profiles that have been in mode Enforce
  published,     \* history: policies that have been in a policy.yaml
  applied        \* history: profiles a policy has been applied for

historyVars == <<approvedUids, enforced, published, applied>>
vars == <<apiVars, profileVars, proposalVars, historyVars>>

TypeOK ==
  /\ ApiTypeOK
  /\ ProfileTypeOK
  /\ ProposalTypeOK
  /\ approvedUids \in SUBSET Nat
  /\ enforced \in SUBSET Profiles
  /\ published \in SUBSET Policy
  /\ applied \in SUBSET Profiles

Init ==
  /\ ApiInit
  /\ ProfileInit
  /\ ProposalInit
  /\ approvedUids = {}
  /\ enforced = {}
  /\ published = {NoPolicy}
  /\ applied = {}

-----------------------------------------------------------------------------
\* flushSnapshots for one workload: the ConfigMap registered for it gets a
\* newer snapshot.  An error is logged and the snapshot is lost.
FlushSnapshot(w, outcome) ==
  /\ registry[w] # None
  /\ spent.flushes < MaxFlushes
  /\ outcome = "ok" \/ spent.faults < MaxFaults
  /\ cm' = SaveSnapshot(registry[w],
                        [wk |-> w, ver |-> spent.flushes + 1], outcome)
  /\ spent' = [spent EXCEPT !.flushes = @ + 1,
                            !.faults = IF outcome = "ok" THEN @ ELSE @ + 1]
  /\ UNCHANGED <<profile, proposal, cnp, cacheVars, nextUid>>

\* The process dies between any two steps and is started again: reconciles in
\* progress and the accumulator's registrations are gone, the informers list
\* everything before the controllers start.
Restart ==
  /\ spent.faults < MaxFaults
  /\ spent' = [spent EXCEPT !.faults = @ + 1]
  /\ cProfile' = profile /\ cProposal' = proposal /\ cCM' = cm
  /\ preq' = ProfileIdle
  /\ registry' = [w \in Workloads |-> None]
  /\ rreq' = ProposalIdle
  /\ UNCHANGED <<serverVars, nextUid, exported>>

\* The history variables record what the new state shows.
Record ==
  /\ approvedUids' = approvedUids \cup
       {proposal'[p].uid : p \in {q \in Profiles : proposal'[q].approved}}
  /\ enforced' = enforced \cup
       {p \in Profiles : Exists(profile'[p]) /\ profile'[p].mode = "Enforce"}
  /\ published' = published \cup {cm'[p].policy : p \in Profiles}
  /\ applied' = applied \cup
       {p \in Profiles : \E n \in PolicyNames :
          Owned(cnp'[n]) /\ cnp'[n].policy.app = p}

Next ==
  /\ \/ ApiNext /\ UNCHANGED <<profileVars, proposalVars>>
     \/ ProfileNext /\ UNCHANGED proposalVars
     \/ ProposalNext /\ UNCHANGED profileVars
     \/ /\ \E w \in Workloads, outcome \in Outcomes :
             FlushSnapshot(w, outcome)
        /\ UNCHANGED <<profileVars, proposalVars>>
     \/ Restart
  /\ Record

Spec == Init /\ [][Next]_vars

FairSpec == Spec /\ ApiFairness /\ ProfileFairness /\ ProposalFairness

-----------------------------------------------------------------------------
(* Safety.                                                                 *)

\* Every CiliumNetworkPolicy in the cluster is owned by a proposal that a
\* human approved: the gate at egresspolicyproposal_controller.go:108-109
\* reads a cached proposal, yet an approval never carries over to another
\* proposal of the same name (applyCNP takes the uid of the copy it checked).
ApprovedBeforeApplied ==
  \A n \in PolicyNames : Owned(cnp[n]) => cnp[n].owner \in approvedUids

\* Every CiliumNetworkPolicy selects a profile that has been in mode Enforce:
\* neither a stale cache nor a restart between reads and write lets a policy
\* of a profile through that was only ever observed or suggested on.
EnforcedBeforeApplied ==
  \A n \in PolicyNames : Owned(cnp[n]) => cnp[n].policy.app \in enforced

\* While a ConfigMap lives its baseline never goes back to an older snapshot,
\* although the proposal controller writes policy.yaml into the same object
\* from a cached copy (configmap_store.go:110-121 patches one key).
BaselineNeverRolledBack ==
  [][\A p \in Profiles :
       Owned(cm[p]) /\ cm'[p].owner = cm[p].owner
         => cm'[p].baseline.ver >= cm[p].baseline.ver]_vars

\* A profile reports phase Enforced only if a policy selecting it was applied
\* (its phase is derived from the proposal's, which is written after applyCNP).
EnforcedPhaseIsEarned ==
  \A p \in Profiles : profile[p].phase = "Enforced" => p \in applied

\* What is in force was up for review before: every policy that is applied was
\* in policy.yaml, although a patch that is empty against a stale cached copy
\* writes nothing and the apply goes on all the same
\* (egresspolicyproposal_controller.go:84-120).
PublishedBeforeApplied ==
  \A n \in PolicyNames : cnp[n].policy \in published

\* The operator implements the abstract gate of ReviewGate.
Gate == INSTANCE ReviewGate WITH
  approved <- approvedUids, inForce <- cnp,
  reported <- {p \in Profiles : profile[p].phase = "Enforced"}

\* Through both controllers, their caches, faults and restarts, people see what
\* the gate promises and nothing else: policies come into force one at a time,
\* each published, approved and enforced before, and a profile is reported
\* Enforced only afterwards (egresspolicyproposal_controller.go:84-203,
\* egressprofile_controller.go:91-142).
ImplementsReviewGate == Gate!Spec

-----------------------------------------------------------------------------
(* Liveness, under FairSpec.                                               *)

\* The model has not run out of uids.
UidsLeft == nextUid <= MaxUid

\* The policy profile p should have now.
DesiredCNP(p) ==
  [owner |-> proposal[p].uid,
   policy |-> [app |-> p, name |-> profile[p].name, snap |-> cm[p].baseline]]

\* No other profile generates a policy of the same name.
OnlyUserOfName(p) ==
  \A q \in Profiles \ {p} :
    Exists(profile[q]) => profile[q].name # profile[p].name

\* A profile left in mode Enforce with its proposal approved ends up with the
\* policy generated from its current baseline in force and reports Enforced,
\* whatever calls failed or were half done, wherever the process died on the
\* way, and whoever used the policy's name before
\* (retries: egresspolicyproposal_controller.go:150; applyCNP: 175-203).
EnforcementConverges ==
  \A p \in Profiles :
    <>[](/\ Exists(profile[p]) /\ profile[p].mode = "Enforce"
         /\ proposal[p].approved /\ OnlyUserOfName(p) /\ UidsLeft)
      => <>[](/\ Exists(profile[p])
              /\ cnp[profile[p].name] = DesiredCNP(p)
              /\ profile[p].phase = "Enforced")

\* The copies of the generated policy that people review, policy.yaml in the
\* ConfigMap and the GitOps file named after the proposal, end up being the
\* policy of the profile's current spec and baseline, although policy.yaml is
\* patched as a diff against a cached copy and an unchanged diff writes nothing
\* (egresspolicyproposal_controller.go:84-102).
PolicyCopiesConverge ==
  \A p \in Profiles :
    <>[](Exists(profile[p]) /\ Exists(proposal[p]) /\ UidsLeft)
      => <>[](/\ cm[p].policy = DesiredCNP(p).policy
              /\ Exists(proposal[p])
              /\ exported[proposal[p].name] = DesiredCNP(p).policy)

\* A profile that is deleted for good takes its proposal, its ConfigMap and
\* its policy with it, even when a reconcile with a stale copy recreates one
\* of them after the deletion (owner references: configmap_store.go:58-67,
\* egressprofile_controller.go:176-185, egresspolicyproposal_controller.go:164).
CleanupEventually ==
  \A p \in Profiles :
    <>[](~Exists(profile[p]))
      => <>[](/\ ~Exists(proposal[p]) /\ ~Owned(cm[p])
              /\ \A n \in PolicyNames : cnp[n].policy.app # p)

\* A profile that is left alone ends up reporting the phase its mode and its
\* proposal's approval call for, although two controllers in turn derive it and
\* every status patch is a diff against a cached copy that may leave a field out
\* (egressprofile_controller.go:91-142; README.md:84-86).
StatusConverges ==
  \A p \in Profiles : \A m \in Modes, a \in BOOLEAN :
    <>[](Exists(profile[p]) /\ profile[p].mode = m
           /\ proposal[p].approved = a /\ UidsLeft)
      => <>[](profile[p].phase =
                CASE m = "Observe" -> "Observing"
                  [] m = "Suggest" -> "Proposed"
                  [] m = "Enforce" /\ ~a -> "AwaitingApproval"
                  [] m = "Enforce" /\ a -> "Enforced")

\* The destinations a profile's status counts end up being those of its current
\* baseline: a snapshot that is saved between the read and the status patch, or
\* a patch that is empty against a stale copy, is made up for by a later
\* reconcile, the phase having changed or not
\* (egressprofile_controller.go:84-89 and 119-145).
CountersConverge ==
  \A p \in Profiles :
    <>[](Exists(profile[p]) /\ UidsLeft)
      => <>[](profile[p].seen = cm[p].baseline)

-----------------------------------------------------------------------------
(* What comments and documentation say and the code does not do.           *)

\* egressprofile_types.go:45 "TargetRef identifies the workload governed by
\* this profile.": once that workload is registered, the profile's baseline is
\* never replaced by the snapshot of another one.
BaselineFollowsTarget ==
  [][\A p \in Profiles :
       (/\ Exists(profile[p]) /\ registry[profile[p].target] = p
        /\ Owned(cm'[p]) /\ cm'[p].baseline # cm[p].baseline)
         => cm'[p].baseline.wk = profile[p].target]_vars
=============================================================================
