---------------------------- MODULE StatusProofs ----------------------------
(***************************************************************************)
(* What EgressOperator reports and stores, for every value of the          *)
(* constants: a profile's phase Enforced stands for a policy that was      *)
(* applied, and a stored baseline is never rolled back.                    *)
(***************************************************************************)
EXTENDS EgressOperatorProofs

-----------------------------------------------------------------------------
(* Where a phase comes from.                                               *)

\* A proposal's phase is kept, is that of a new or absent proposal, or is the
\* one a reconcile of that proposal has decided on.
LEMMA ProposalPhaseWritten ==
  ASSUME TypeInv, Next, NEW p \in Profiles
  PROVE  \/ proposal'[p].phase \in {proposal[p].phase, ""}
         \/ /\ rreq.pc = "status" /\ rreq.p = p
            /\ proposal'[p].phase = rreq.phase
<1> USE DEF TypeInv, TypeOK, ApiTypeOK
<1>0. NoProposal.phase = "" /\ proposal[p] \in ProposalObj
  BY DEF NoProposal
<1>1. ASSUME NEW q \in Profiles, NEW a \in BOOLEAN, SetApproval(q, a)
      PROVE  proposal'[p].phase = proposal[p].phase
  BY <1>1 DEF SetApproval, ProposalObj
<1>2. CASE ApiNext
  BY <1>0, <1>1, <1>2
     DEF ApiNext, SyncProfile, SyncProposal, SyncCM, CollectProposal, CollectCM,
         CollectCNP, CreateProfile, SetMode, SetTarget, SetPolicyName,
         DeleteProfile, DeleteProposal, DeleteCNP, serverVars
<1>3. ASSUME NEW outcome \in Outcomes, ProfileCreateProposal(outcome)
      PROVE  proposal'[p].phase \in {proposal[p].phase, ""}
  <2>1. NewProposal(preq.prof).phase = ""
    BY DEF NewProposal, NoProposal
  <2> QED
    BY <1>3, <2>1 DEF ProfileCreateProposal
<1>4. CASE ProfileNext
  BY <1>3, <1>4
     DEF ProfileNext, ProfileStep, ProfileGet, ProfileCreateCM,
         ProfilePatchStatus, apiVars, serverVars
<1>5. ASSUME NEW outcome \in Outcomes, ProposalPatchStatus(outcome)
      PROVE  \/ proposal'[p].phase = proposal[p].phase
             \/ /\ rreq.pc = "status" /\ rreq.p = p
                /\ proposal'[p].phase = rreq.phase
  BY <1>5 DEF ProposalPatchStatus, MergedField, ProposalObj
<1>6. CASE ProposalNext
  BY <1>5, <1>6
     DEF ProposalNext, ProposalStep, ProposalGet, ProposalSave,
         ProposalApplyGet, ProposalApplyWrite, apiVars, serverVars
<1>7. CASE \E w \in Workloads, outcome \in Outcomes : FlushSnapshot(w, outcome)
  BY <1>7 DEF FlushSnapshot
<1>8. CASE Restart
  BY <1>8 DEF Restart, serverVars
<1> QED
  BY <1>2, <1>4, <1>6, <1>7, <1>8 DEF Next

\* The same for a profile's phase.
LEMMA ProfilePhaseWritten ==
  ASSUME TypeInv, Next, NEW p \in Profiles
  PROVE  \/ profile'[p].phase \in {profile[p].phase, ""}
         \/ /\ preq.pc = "status" /\ preq.p = p
            /\ profile'[p].phase = preq.phase
<1> USE DEF TypeInv, TypeOK, ApiTypeOK
<1>0. NoProfile.phase = "" /\ profile[p] \in ProfileObj
  BY DEF NoProfile
<1>1. ASSUME NEW q \in Profiles,
             \/ \E m \in Modes : SetMode(q, m)
             \/ \E w \in Workloads : SetTarget(q, w)
             \/ \E n \in PolicyNames : SetPolicyName(q, n)
      PROVE  profile'[p].phase = profile[p].phase
  <2>1. CASE \E m \in Modes : SetMode(q, m)
    BY <2>1 DEF SetMode, ProfileObj
  <2>2. CASE \E w \in Workloads : SetTarget(q, w)
    BY <2>2 DEF SetTarget, ProfileObj
  <2>3. CASE \E n \in PolicyNames : SetPolicyName(q, n)
    BY <2>3 DEF SetPolicyName, ProfileObj
  <2> QED
    BY <1>1, <2>1, <2>2, <2>3
<1>2. ASSUME NEW q \in Profiles,
             \E m \in NewModes, w \in Workloads, n \in PolicyNames :
               CreateProfile(q, m, w, n)
      PROVE  profile'[p].phase \in {profile[p].phase, ""}
  BY <1>2 DEF CreateProfile, NoProfile
<1>3. CASE ApiNext
  BY <1>0, <1>1, <1>2, <1>3
     DEF ApiNext, SyncProfile, SyncProposal, SyncCM, CollectProposal, CollectCM,
         CollectCNP, DeleteProfile, SetApproval, DeleteProposal, DeleteCNP,
         serverVars
<1>4. ASSUME NEW outcome \in Outcomes, ProfilePatchStatus(outcome)
      PROVE  \/ profile'[p].phase = profile[p].phase
             \/ /\ preq.pc = "status" /\ preq.p = p
                /\ profile'[p].phase = preq.phase
  BY <1>4 DEF ProfilePatchStatus, Patched, MergedField, ProfileObj
<1>5. CASE ProfileNext
  BY <1>4, <1>5
     DEF ProfileNext, ProfileStep, ProfileGet, ProfileCreateCM,
         ProfileCreateProposal, apiVars, serverVars
<1>6. CASE ProposalNext
  BY <1>6
     DEF ProposalNext, ProposalStep, ProposalGet, ProposalSave,
         ProposalApplyGet, ProposalApplyWrite, ProposalPatchStatus,
         apiVars, serverVars
<1>7. CASE \E w \in Workloads, outcome \in Outcomes : FlushSnapshot(w, outcome)
  BY <1>7 DEF FlushSnapshot
<1>8. CASE Restart
  BY <1>8 DEF Restart, serverVars
<1> QED
  BY <1>3, <1>5, <1>6, <1>7, <1>8 DEF Next

\* Enforced is only ever derived from a proposal in phase Applied.
LEMMA EnforcedFromApplied ==
  ASSUME NEW mode, NEW phase, PhaseOf(mode, phase) = "Enforced"
  PROVE  phase = "Applied"
BY DEF PhaseOf

\* A profile reconcile that is about to report Enforced found its proposal in
\* phase Applied in the cache.
LEMMA ProfileDecides ==
  ASSUME TypeInv, Next, preq'.pc = "status", preq'.phase = "Enforced"
  PROVE  \/ preq' = preq
         \/ preq'.p \in Profiles /\ cProposal[preq'.p].phase = "Applied"
<1>1. CASE UNCHANGED profileVars
  BY <1>1 DEF profileVars
<1>2. ASSUME NEW p \in Profiles, NEW prof, RegisterAndRead(p, prof)
      PROVE  preq'.p \in Profiles /\ cProposal[preq'.p].phase = "Applied"
  BY <1>2, EnforcedFromApplied DEF RegisterAndRead, AtStatus
<1>3. ASSUME NEW p \in Profiles, ProfileGet(p)
      PROVE  preq'.p \in Profiles /\ cProposal[preq'.p].phase = "Applied"
  BY <1>2, <1>3 DEF ProfileGet, ProfileIdle
<1>4. ASSUME NEW outcome \in Outcomes, ProfileCreateCM(outcome)
      PROVE  preq'.p \in Profiles /\ cProposal[preq'.p].phase = "Applied"
  <2>1. preq.p \in Profiles
    BY <1>4 DEF ProfileCreateCM, TypeInv, TypeOK, ProfileTypeOK
  <2> QED
    BY <1>2, <1>4, <2>1, IdleTyped DEF ProfileCreateCM
<1>5. ASSUME NEW outcome \in Outcomes, ProfileCreateProposal(outcome)
      PROVE  FALSE
  <2>1. AtStatus(preq.p, preq.prof, preq.snap, PhaseOf(preq.prof.mode, "")).phase
          # "Enforced"
    BY EnforcedFromApplied DEF AtStatus
  <2> QED
    BY <1>5, <2>1, IdleTyped DEF ProfileCreateProposal
<1>6. ASSUME NEW outcome \in Outcomes, ProfilePatchStatus(outcome)
      PROVE  FALSE
  BY <1>6, IdleTyped DEF ProfilePatchStatus
<1>7. CASE ProfileNext
  BY <1>3, <1>4, <1>5, <1>6, <1>7 DEF ProfileNext, ProfileStep
<1>8. CASE Restart
  BY <1>8, IdleTyped DEF Restart
<1> QED
  BY <1>1, <1>7, <1>8 DEF Next

\* A proposal reconcile that is about to report Applied has just written the
\* policy.
LEMMA ProposalDecides ==
  ASSUME TypeInv, Next, rreq'.pc = "status", rreq'.phase = "Applied"
  PROVE  \/ rreq' = rreq
         \/ /\ rreq.pc = "applyWrite" /\ rreq'.p = rreq.p
            /\ rreq.prof.name \in PolicyNames
            /\ cnp'[rreq.prof.name] = AppliedCNP(rreq.prop, Generated)
<1>1. CASE UNCHANGED proposalVars
  BY <1>1 DEF proposalVars
<1>2. ASSUME NEW phase
      PROVE AtStatusPatch(phase).phase = phase /\ AtStatusPatch(phase).p = rreq.p
  BY DEF AtStatusPatch, ProposalIdle
<1>3. ASSUME NEW p \in Profiles, ProposalGet(p) PROVE FALSE
  BY <1>3 DEF ProposalGet, ProposalIdle
<1>4. ASSUME NEW outcome \in Outcomes, ProposalSave(outcome) PROVE FALSE
  <2>1. [rreq EXCEPT !.pc = "applyGet"].pc = "applyGet"
    BY DEF TypeInv, TypeOK, ProposalTypeOK
  <2>2. AtStatusPatch("PendingApproval").phase = "PendingApproval"
    BY <1>2
  <2>3. rreq' \in {ProposalIdle, [rreq EXCEPT !.pc = "applyGet"],
                   AtStatusPatch("PendingApproval")}
    BY <1>4 DEF ProposalSave
  <2> QED
    BY <2>1, <2>2, <2>3, IdleTyped
<1>5. ASSUME NEW outcome \in Outcomes, ProposalApplyGet(outcome) PROVE FALSE
  <2>1. [rreq EXCEPT !.pc = "applyWrite",
                     !.existing = cnp[rreq.prof.name]].pc = "applyWrite"
    BY DEF TypeInv, TypeOK, ProposalTypeOK
  <2>2. AtStatusPatch("Failed").phase = "Failed"
    BY <1>2
  <2>3. rreq' \in {[rreq EXCEPT !.pc = "applyWrite",
                                !.existing = cnp[rreq.prof.name]],
                   AtStatusPatch("Failed")}
    BY <1>5 DEF ProposalApplyGet
  <2> QED
    BY <2>1, <2>2, <2>3
<1>6. ASSUME NEW outcome \in Outcomes, ProposalApplyWrite(outcome)
      PROVE  /\ rreq.pc = "applyWrite" /\ rreq'.p = rreq.p
             /\ rreq.prof.name \in PolicyNames
             /\ cnp'[rreq.prof.name] = AppliedCNP(rreq.prop, Generated)
  <2>1. rreq.pc = "applyWrite" /\ rreq.prof.name \in PolicyNames
    BY <1>6 DEF ProposalApplyWrite, TypeInv, NamesResolved
  <2>2. outcome = "ok" /\ cnp[rreq.prof.name] = rreq.existing
    BY <1>2, <1>6 DEF ProposalApplyWrite
  <2>3. rreq'.p = rreq.p
    BY <1>2, <1>6 DEF ProposalApplyWrite
  <2> QED
    BY <1>6, <2>1, <2>2, <2>3
       DEF ProposalApplyWrite, TypeInv, TypeOK, ApiTypeOK
<1>7. ASSUME NEW outcome \in Outcomes, ProposalPatchStatus(outcome) PROVE FALSE
  BY <1>7, IdleTyped DEF ProposalPatchStatus
<1>8. CASE ProposalNext
  BY <1>3, <1>4, <1>5, <1>6, <1>7, <1>8 DEF ProposalNext, ProposalStep
<1>9. CASE Restart
  BY <1>9, IdleTyped DEF Restart
<1> QED
  BY <1>1, <1>8, <1>9 DEF Next

-----------------------------------------------------------------------------
(* A reported enforcement took place.                                      *)

\* Wherever a phase says that profile p is enforced or its proposal applied,
\* on the server, in the cache or in the hands of either reconcile, a policy
\* selecting p was applied.
PhaseInv ==
  /\ \A p \in Profiles :
       /\ proposal[p].phase = "Applied" => p \in applied
       /\ cProposal[p].phase = "Applied" => p \in applied
  /\ rreq.pc \in Deciding => Exists(rreq.prop)
  /\ rreq.pc = "status" /\ rreq.phase = "Applied" => rreq.p \in applied
  /\ preq.pc = "status" /\ preq.phase = "Enforced" => preq.p \in applied
  /\ EnforcedPhaseIsEarned

\* PhaseInv is inductive, given the types.
LEMMA PhaseNext == TypeInv /\ PhaseInv /\ [Next]_vars => PhaseInv'
<1> SUFFICES ASSUME TypeInv, PhaseInv, [Next]_vars PROVE PhaseInv'
  OBVIOUS
<1>1. CASE UNCHANGED vars
  BY <1>1
     DEF PhaseInv, EnforcedPhaseIsEarned, vars, apiVars, serverVars, cacheVars,
         profileVars, proposalVars, historyVars
<1>2. CASE Next
  <2>1. applied \subseteq applied'
    BY <1>2 DEF Next, Record
  <2>2. ASSUME NEW p \in Profiles, proposal'[p].phase = "Applied"
        PROVE  p \in applied'
    BY <1>2, <2>1, <2>2, ProposalPhaseWritten DEF PhaseInv
  <2>3. ASSUME NEW p \in Profiles, cProposal'[p].phase = "Applied"
        PROVE  p \in applied'
    BY <1>2, <2>1, <2>3, CachesCopy DEF PhaseInv
  <2>4. ASSUME rreq'.pc \in Deciding
        PROVE  Exists(rreq'.prop)
    BY <1>2, <2>4, ReconcileReads DEF PhaseInv
  <2>5. ASSUME rreq'.pc = "status", rreq'.phase = "Applied"
        PROVE  rreq'.p \in applied'
    <3>1. CASE rreq' = rreq
      BY <2>1, <2>5, <3>1 DEF PhaseInv
    <3>2. ASSUME rreq.pc = "applyWrite", rreq'.p = rreq.p,
                 rreq.prof.name \in PolicyNames,
                 cnp'[rreq.prof.name] = AppliedCNP(rreq.prop, Generated)
          PROVE  rreq'.p \in applied'
      <4>1. rreq.p \in Profiles
        BY <3>2 DEF TypeInv, TypeOK, ProposalTypeOK
      <4>2. Owned(cnp'[rreq.prof.name])
        BY <3>2 DEF PhaseInv, Deciding, Exists, Owned, AppliedCNP
      <4>3. cnp'[rreq.prof.name].policy.app = rreq.p
        BY <3>2 DEF AppliedCNP, Generated
      <4> QED
        BY <1>2, <3>2, <4>1, <4>2, <4>3 DEF Next, Record
    <3> QED
      BY <1>2, <2>5, <3>1, <3>2, ProposalDecides
  <2>6. ASSUME preq'.pc = "status", preq'.phase = "Enforced"
        PROVE  preq'.p \in applied'
    BY <1>2, <2>1, <2>6, ProfileDecides DEF PhaseInv
  <2>7. ASSUME NEW p \in Profiles, profile'[p].phase = "Enforced"
        PROVE  p \in applied'
    BY <1>2, <2>1, <2>7, ProfilePhaseWritten
       DEF PhaseInv, EnforcedPhaseIsEarned
  <2> QED
    BY <2>2, <2>3, <2>4, <2>5, <2>6, <2>7
       DEF PhaseInv, EnforcedPhaseIsEarned, Exists
<1> QED
  BY <1>1, <1>2

\* A profile reports Enforced only when a policy selecting it was applied
\* (egressprofile_controller.go:91-115 derives the phase from the cached
\* proposal; egresspolicyproposal_controller.go:110-120 sets that one).
THEOREM PhaseEarned == Spec => []EnforcedPhaseIsEarned
<1>1. ASSUME Init PROVE PhaseInv
  <2>1. rreq.pc = "idle" /\ preq.pc = "idle"
    BY <1>1, IdleTyped DEF Init, ProposalInit, ProfileInit
  <2>2. \A p \in Profiles : proposal[p].phase = "" /\ cProposal[p].phase = ""
    BY <1>1 DEF Init, ApiInit, NoProposal
  <2>3. \A p \in Profiles : profile[p].phase = ""
    BY <1>1 DEF Init, ApiInit, NoProfile
  <2> QED
    BY <2>1, <2>2, <2>3 DEF PhaseInv, EnforcedPhaseIsEarned, Deciding
<1>2. PhaseInv => EnforcedPhaseIsEarned
  BY DEF PhaseInv
<1> QED
  BY <1>1, <1>2, TypeInvariant, PhaseNext, PTL DEF Spec

-----------------------------------------------------------------------------
(* The stored baseline.                                                    *)

\* A patch of either key of a ConfigMap leaves its owner alone, and leaves the
\* baseline alone unless it carries a new one.
LEMMA PatchKeeps ==
  ASSUME cm \in [Profiles -> CMObj], NEW q \in Profiles, NEW p \in Profiles,
         NEW new, NEW outcome
  PROVE  LET after == PatchData(q, new, outcome)[p] IN
         /\ after.owner = cm[p].owner
         /\ \/ after.baseline = cm[p].baseline
            \/ after.baseline = new.baseline /\ new.baseline # cCM[q].baseline
BY DEF PatchData, MergePatch, MergedField

\* A ConfigMap keeps its baseline, is created or removed, or gets a snapshot
\* that is newer than all others.
LEMMA BaselineWritten ==
  ASSUME TypeInv, Next, NEW p \in Profiles
  PROVE  \/ cm'[p] = cm[p]
         \/ cm'[p].baseline = cm[p].baseline /\ cm'[p].owner = cm[p].owner
         \/ ~Owned(cm[p]) /\ cm'[p].baseline = NoSnapshot
         \/ cm'[p] = NoCM
         \/ /\ cm'[p].baseline.ver = spent.flushes + 1
            /\ spent'.flushes = spent.flushes + 1
<1> USE DEF TypeInv, TypeOK, ApiTypeOK
<1>1. CASE ApiNext
  BY <1>1
     DEF ApiNext, SyncProfile, SyncProposal, SyncCM, CollectProposal, CollectCM,
         CollectCNP, CreateProfile, SetMode, SetTarget, SetPolicyName,
         DeleteProfile, SetApproval, DeleteProposal, DeleteCNP, serverVars
<1>2. ASSUME NEW outcome \in Outcomes, ProfileCreateCM(outcome)
      PROVE  \/ cm'[p] = cm[p]
             \/ ~Owned(cm[p]) /\ cm'[p].baseline = NoSnapshot
  BY <1>2 DEF ProfileCreateCM, CreateConfigMap, NoCM
<1>3. CASE ProfileNext
  BY <1>2, <1>3
     DEF ProfileNext, ProfileStep, ProfileGet, ProfileCreateProposal,
         ProfilePatchStatus, apiVars, serverVars
<1>4. ASSUME NEW outcome \in Outcomes, ProposalSave(outcome)
      PROVE  cm'[p].baseline = cm[p].baseline /\ cm'[p].owner = cm[p].owner
  <2>1. rreq.p \in Profiles
    BY <1>4 DEF ProposalSave, ProposalTypeOK
  <2> DEFINE new == [cCM[rreq.p] EXCEPT !.policy = Generated]
  <2>2. new.baseline = cCM[rreq.p].baseline
    BY <2>1 DEF CMObj
  <2>3. cm' = PatchData(rreq.p, new, outcome)
    BY <1>4 DEF ProposalSave, SavePolicyYAML
  <2> HIDE DEF new
  <2> QED
    BY <2>1, <2>2, <2>3, PatchKeeps
<1>5. CASE ProposalNext
  BY <1>4, <1>5
     DEF ProposalNext, ProposalStep, ProposalGet, ProposalApplyGet,
         ProposalApplyWrite, ProposalPatchStatus, apiVars, serverVars
<1>6. ASSUME NEW w \in Workloads, NEW outcome \in Outcomes,
             FlushSnapshot(w, outcome)
      PROVE  \/ cm'[p].baseline = cm[p].baseline /\ cm'[p].owner = cm[p].owner
             \/ /\ cm'[p].baseline.ver = spent.flushes + 1
                /\ spent'.flushes = spent.flushes + 1
  <2>1. registry[w] \in Profiles
    BY <1>6 DEF FlushSnapshot, ProfileTypeOK
  <2> DEFINE new == [cCM[registry[w]] EXCEPT
                       !.baseline = [wk |-> w, ver |-> spent.flushes + 1]]
  <2>2. new.baseline.ver = spent.flushes + 1
    BY <2>1 DEF CMObj
  <2>3. cm' = PatchData(registry[w], new, outcome)
    BY <1>6 DEF FlushSnapshot, SaveSnapshot
  <2>4. spent'.flushes = spent.flushes + 1
    BY <1>6 DEF FlushSnapshot, Spent
  <2> HIDE DEF new
  <2> QED
    BY <2>1, <2>2, <2>3, <2>4, PatchKeeps
<1>7. CASE Restart
  BY <1>7 DEF Restart, serverVars
<1> QED
  BY <1>1, <1>3, <1>5, <1>6, <1>7 DEF Next

\* The number of snapshots written never falls.
LEMMA FlushesGrow ==
  ASSUME TypeInv, Next
  PROVE  spent'.flushes \in Nat /\ spent'.flushes >= spent.flushes
<1> USE DEF TypeInv, TypeOK, ApiTypeOK
<1>0. spent.flushes \in Nat
  BY DEF Spent
<1>1. ASSUME NEW op, Edit(op) PROVE spent'.flushes = spent.flushes
  BY <1>1 DEF Edit, Spent
<1>2. ASSUME NEW outcome, Answer(outcome) PROVE spent'.flushes = spent.flushes
  BY <1>2 DEF Answer, Spent
<1>3. ASSUME ApiNext PROVE spent' = spent \/ \E op : Edit(op)
  BY <1>3
     DEF ApiNext, SyncProfile, SyncProposal, SyncCM, CollectProposal, CollectCM,
         CollectCNP, CreateProfile, SetMode, SetTarget, SetPolicyName,
         DeleteProfile, SetApproval, DeleteProposal, DeleteCNP
<1>4. ASSUME ProfileNext PROVE spent' = spent \/ \E outcome : Answer(outcome)
  BY <1>4
     DEF ProfileNext, ProfileStep, ProfileGet, ProfileCreateCM,
         ProfileCreateProposal, ProfilePatchStatus, apiVars
<1>5. ASSUME ProposalNext PROVE spent' = spent \/ \E outcome : Answer(outcome)
  BY <1>5
     DEF ProposalNext, ProposalStep, ProposalGet, ProposalSave,
         ProposalApplyGet, ProposalApplyWrite, ProposalPatchStatus, apiVars
<1>6. ASSUME NEW w \in Workloads, NEW outcome \in Outcomes,
             FlushSnapshot(w, outcome)
      PROVE  spent'.flushes = spent.flushes + 1
  BY <1>6 DEF FlushSnapshot, Spent
<1>7. ASSUME Restart PROVE spent'.flushes = spent.flushes
  BY <1>7 DEF Restart, Spent
<1> QED
  BY <1>0, <1>1, <1>2, <1>3, <1>4, <1>5, <1>6, <1>7 DEF Next

\* No stored baseline is newer than the last one written.
VersionInv == \A p \in Profiles : cm[p].baseline.ver <= spent.flushes

\* VersionInv is inductive, given the types.
LEMMA VersionNext == TypeInv /\ VersionInv /\ [Next]_vars => VersionInv'
<1> SUFFICES ASSUME TypeInv, VersionInv, [Next]_vars PROVE VersionInv'
  OBVIOUS
<1>1. CASE UNCHANGED vars
  BY <1>1 DEF VersionInv, vars, apiVars, serverVars
<1>2. CASE Next
  <2>1. ASSUME NEW p \in Profiles
        PROVE  cm'[p].baseline.ver <= spent'.flushes
    <3>1. cm[p].baseline.ver \in Nat /\ spent.flushes \in Nat
      BY DEF TypeInv, TypeOK, ApiTypeOK, CMObj, Snapshot, Spent
    <3>2. NoSnapshot.ver = 0 /\ NoCM.baseline.ver = 0
      BY DEF NoCM, NoSnapshot
    <3> QED
      BY <1>2, <3>1, <3>2, BaselineWritten, FlushesGrow DEF VersionInv
  <2> QED
    BY <2>1 DEF VersionInv
<1> QED
  BY <1>1, <1>2

\* While a ConfigMap lives, its baseline never goes back to an older snapshot,
\* although the proposal reconcile patches the same object from a cached copy
\* of any age (configmap_store.go:74-86, 110-121).
THEOREM BaselineMonotone == Spec => BaselineNeverRolledBack
<1>1. ASSUME Init PROVE VersionInv
  BY <1>1 DEF Init, ApiInit, VersionInv, NoCM, NoSnapshot
<1>2. TypeInv /\ VersionInv /\ [Next]_vars =>
        [\A p \in Profiles :
           Owned(cm[p]) /\ cm'[p].owner = cm[p].owner
             => cm'[p].baseline.ver >= cm[p].baseline.ver]_vars
  <2> SUFFICES ASSUME TypeInv, VersionInv, Next, NEW p \in Profiles,
                      Owned(cm[p]), cm'[p].owner = cm[p].owner
               PROVE  cm'[p].baseline.ver >= cm[p].baseline.ver
    OBVIOUS
  <2>1. cm[p].baseline.ver \in Nat /\ spent.flushes \in Nat
    BY DEF TypeInv, TypeOK, ApiTypeOK, CMObj, Snapshot, Spent
  <2>2. cm'[p] # NoCM
    BY DEF Owned, NoCM
  <2> QED
    BY <2>1, <2>2, BaselineWritten DEF VersionInv
<1> QED
  BY <1>1, <1>2, TypeInvariant, VersionNext, PTL DEF Spec, BaselineNeverRolledBack
=============================================================================
