------------------- MODULE EgressPolicyProposalController -------------------
(***************************************************************************)
(* internal/controller/egresspolicyproposal_controller.go.  The approval   *)
(* gate: Reconcile generates the policy from the baseline, stores it,      *)
(* exports it for GitOps, and applies it when the profile's mode is        *)
(* Enforce and the proposal is approved.  Proposal and profile are read    *)
(* from caches that lag independently of each other; the                   *)
(* CiliumNetworkPolicy is read from the server.                            *)
(***************************************************************************)
EXTENDS ConfigMapStore

CONSTANT GitOps   \* spec.gitOps.enabled with an outputPath, for every profile

ASSUME GitOpsAssumption == GitOps \in BOOLEAN

VARIABLES
  rreq,      \* the reconcile in progress
  exported   \* the files under spec.gitOps.outputPath, by name

proposalVars == <<rreq, exported>>

ProposalIdle == [pc |-> "idle", p |-> None, prop |-> NoProposal,
                 prof |-> NoProfile, snap |-> NoSnapshot,
                 existing |-> NoCNP, phase |-> ""]

ProposalTypeOK ==
  /\ rreq \in [pc : {"idle", "save", "applyGet", "applyWrite", "status"},
               p : Profiles \cup {None}, prop : ProposalObj,
               prof : ProfileObj, snap : Snapshot, existing : CNPObj,
               phase : ProposalPhases]
  /\ (rreq.pc # "idle" => rreq.p \in Profiles)
  /\ exported \in [PolicyNames -> Policy]

ProposalInit ==
  /\ rreq = ProposalIdle
  /\ exported = [n \in PolicyNames |-> NoPolicy]

-----------------------------------------------------------------------------
\* Mutated form: the policy goes by the name the proposal was created with.
GeneratedForProposal ==
  [app |-> rreq.p, name |-> rreq.prop.name, snap |-> rreq.snap]

\* What Generate makes of the reconcile's reads (its rules: PolicyGenerator).
Generated == [app |-> rreq.p, name |-> rreq.prof.name, snap |-> rreq.snap]

\* Mutated forms of the gate: one of its two conditions is forgotten, or a
\* proposal that says it is applied is not applied again.
GateIgnoresApproval(prop, prof) == prof.mode = "Enforce"
GateIgnoresMode(prop, prof) == prop.approved
GateSkipsApplied(prop, prof) ==
  prof.mode = "Enforce" /\ prop.approved /\ prop.phase # "Applied"

\* The gate.
MayApply(prop, prof) == prof.mode = "Enforce" /\ prop.approved

\* Mutated form: the file goes by the generated policy's own name.
ExportNameOfPolicy(prop, policy) == policy.name

\* gitops.ExportPolicy writes <proposal.spec.generatedPolicy.name>.yaml.
ExportName(prop, policy) == prop.name

\* The locals the status patch needs: the phase read and the phase to write.
AtStatusPatch(phase) ==
  [ProposalIdle EXCEPT !.pc = "status", !.p = rreq.p, !.phase = phase,
                       !.prop = [NoProposal EXCEPT !.phase = rreq.prop.phase]]

\* The three Gets; a profile or a ConfigMap the cache does not hold ends the
\* reconcile with an error, and it is retried.
ProposalGet(p) ==
  /\ rreq.pc = "idle"
  /\ Exists(cProposal[p]) /\ Exists(cProfile[p]) /\ Owned(cCM[p])
  /\ rreq' = [ProposalIdle EXCEPT !.pc = "save", !.p = p,
                !.prop = cProposal[p], !.prof = cProfile[p],
                !.snap = GetSnapshot(p)]
  /\ UNCHANGED <<apiVars, exported>>

\* SavePolicyYAML, then the GitOps file (whose errors are only logged), then
\* the decision.
ProposalSave(outcome) ==
  /\ rreq.pc = "save"
  /\ Answer(outcome)
  /\ cm' = SavePolicyYAML(rreq.p, Generated, outcome)
  /\ IF PatchFails(rreq.p, outcome)
       THEN rreq' = ProposalIdle /\ UNCHANGED exported
       ELSE /\ rreq' = IF MayApply(rreq.prop, rreq.prof)
                         THEN [rreq EXCEPT !.pc = "applyGet"]
                         ELSE AtStatusPatch("PendingApproval")
            /\ exported' = IF GitOps
                 THEN [exported EXCEPT
                         ![ExportName(rreq.prop, Generated)] = Generated]
                 ELSE exported
  /\ UNCHANGED <<profile, proposal, cnp, cacheVars, nextUid>>

\* applyCNP: a live Get of the CiliumNetworkPolicy.
ProposalApplyGet(outcome) ==
  /\ rreq.pc = "applyGet"
  /\ Answer(outcome)
  /\ rreq' = IF outcome = "ok"
               THEN [rreq EXCEPT !.pc = "applyWrite",
                                 !.existing = cnp[rreq.prof.name]]
               ELSE AtStatusPatch("Failed")
  /\ UNCHANGED <<serverVars, cacheVars, nextUid, exported>>

\* What applyCNP writes: the policy, owned by the proposal it was approved on.
AppliedCNP(prop, policy) == [owner |-> prop.uid, policy |-> policy]

\* applyCNP: Create or, under the resourceVersion that was read, Update; both
\* are refused when the object is no longer what Get returned.
ProposalApplyWrite(outcome) ==
  /\ rreq.pc = "applyWrite"
  /\ Answer(outcome)
  /\ LET accepted == cnp[rreq.prof.name] = rreq.existing IN
       /\ cnp' = IF accepted /\ outcome # "rejected"
                   THEN [cnp EXCEPT ![rreq.prof.name] =
                           AppliedCNP(rreq.prop, Generated)]
                   ELSE cnp
       /\ rreq' = AtStatusPatch(IF accepted /\ outcome = "ok" THEN "Applied"
                                                              ELSE "Failed")
  /\ UNCHANGED <<profile, proposal, cm, cacheVars, nextUid, exported>>

\* Status().Patch, by name: it lands on whatever proposal has the name now.
ProposalPatchStatus(outcome) ==
  /\ rreq.pc = "status"
  /\ Answer(outcome)
  /\ proposal' =
       IF Exists(proposal[rreq.p]) /\ outcome # "rejected"
         THEN [proposal EXCEPT ![rreq.p].phase =
                 MergedField(@, rreq.prop.phase, rreq.phase)]
         ELSE proposal
  /\ rreq' = ProposalIdle
  /\ UNCHANGED <<profile, cm, cnp, cacheVars, nextUid, exported>>

\* One step of the reconcile in progress.
ProposalStep ==
  \E outcome \in Outcomes :
    \/ ProposalSave(outcome)
    \/ ProposalApplyGet(outcome)
    \/ ProposalApplyWrite(outcome)
    \/ ProposalPatchStatus(outcome)

ProposalNext == ProposalStep \/ \E p \in Profiles : ProposalGet(p)

\* As for profiles: retried for ever, and run to the end once begun.
ProposalFairness ==
  /\ WF_<<apiVars, proposalVars>>(ProposalStep)
  /\ \A p \in Profiles : SF_<<apiVars, proposalVars>>(ProposalGet(p))
=============================================================================
