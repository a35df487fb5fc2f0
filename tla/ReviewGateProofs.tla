-------------------------- MODULE ReviewGateProofs --------------------------
(***************************************************************************)
(* EgressOperator implements ReviewGate, for every value of the constants. *)
(* On the way: a policy is in force only after it was in policy.yaml,      *)
(* although the write of policy.yaml is a diff against a cached copy and   *)
(* may leave the server's object as it is.                                 *)
(***************************************************************************)
EXTENDS StatusProofs

-----------------------------------------------------------------------------
(* What is applied was published.                                          *)

\* Every copy of a policy.yaml, on the server or in the cache, is on record;
\* and so is the policy a reconcile behind the gate is about to apply.
PublishedInv ==
  /\ \A p \in Profiles :
       cm[p].policy \in published /\ cCM[p].policy \in published
  /\ rreq.pc \in Applying => Generated \in published
  /\ NoPolicy \in published
  /\ PublishedBeforeApplied

\* A save that did not fail leaves the policy on record: the patch wrote it, or
\* it was empty because the cached copy had the policy already.
LEMMA SavePublishes ==
  ASSUME TypeInv, PublishedInv, Next, NEW outcome \in Outcomes,
         ProposalSave(outcome), ~PatchFails(rreq.p, outcome)
  PROVE  Generated \in published'
<1>1. rreq.p \in Profiles
  BY DEF ProposalSave, TypeInv, TypeOK, ProposalTypeOK
<1>2. published' = published \cup {cm'[p].policy : p \in Profiles}
  BY DEF Next, Record
<1>3. Owned(cCM[rreq.p]) /\ Owned(cm[rreq.p]) /\ outcome # "rejected"
  BY DEF PatchFails
<1> DEFINE new == [cCM[rreq.p] EXCEPT !.policy = Generated]
<1>4. new.policy = Generated
  BY <1>1 DEF TypeInv, TypeOK, ApiTypeOK, CMObj
<1>5. cm' = [cm EXCEPT ![rreq.p] = MergePatch(cm[rreq.p], cCM[rreq.p], new)]
  BY <1>3 DEF ProposalSave, SavePolicyYAML, PatchData
<1> HIDE DEF new
<1>6. cm'[rreq.p].policy =
        MergedField(cm[rreq.p].policy, cCM[rreq.p].policy, Generated)
  BY <1>1, <1>4, <1>5 DEF TypeInv, TypeOK, ApiTypeOK, MergePatch
<1>7. CASE Generated = cCM[rreq.p].policy
  BY <1>1, <1>2, <1>7 DEF PublishedInv
<1>8. CASE Generated # cCM[rreq.p].policy
  BY <1>1, <1>2, <1>6, <1>8 DEF MergedField
<1> QED
  BY <1>7, <1>8

\* PublishedInv is inductive, given the types.
LEMMA PublishedNext == TypeInv /\ PublishedInv /\ [Next]_vars => PublishedInv'
<1> SUFFICES ASSUME TypeInv, PublishedInv, [Next]_vars PROVE PublishedInv'
  OBVIOUS
<1>1. CASE UNCHANGED vars
  BY <1>1
     DEF PublishedInv, PublishedBeforeApplied, Generated, vars, apiVars,
         serverVars, cacheVars, proposalVars, historyVars
<1>2. CASE Next
  <2>1. published \subseteq published'
    BY <1>2 DEF Next, Record
  <2>2. ASSUME NEW p \in Profiles
        PROVE  cm'[p].policy \in published' /\ cCM'[p].policy \in published'
    BY <1>2, <2>1, CachesCopy DEF Next, Record, PublishedInv
  <2>3. ASSUME rreq'.pc \in Applying
        PROVE  Generated' \in published'
    <3>1. /\ rreq.pc \in Deciding /\ Generated' = Generated
          /\ rreq.pc \in Applying \/ rreq'.pc = "applyGet"
      BY <1>2, <2>3, ReconcileReads DEF Generated, Applying, Deciding
    <3>2. CASE rreq.pc \in Applying
      BY <2>1, <3>1, <3>2 DEF PublishedInv
    <3>3. CASE rreq.pc = "save"
      <4>1. PICK outcome \in Outcomes : ProposalSave(outcome)
        BY <1>2, <2>3, <3>3, IdleTyped
           DEF Next, ProposalNext, ProposalStep, ProposalGet, ProposalApplyGet,
               ProposalApplyWrite, ProposalPatchStatus, Restart, Applying,
               proposalVars
      <4>2. ~PatchFails(rreq.p, outcome)
        BY <2>3, <4>1, IdleTyped DEF ProposalSave, Applying
      <4> QED
        BY <1>2, <3>1, <4>1, <4>2, SavePublishes
    <3> QED
      BY <3>1, <3>2, <3>3 DEF Applying, Deciding
  <2>4. ASSUME NEW n \in PolicyNames
        PROVE  cnp'[n].policy \in published'
    <3>1. NoCNP.policy = NoPolicy /\ NoCM.policy = NoPolicy
      BY DEF NoCNP, NoCM
    <3>2. AppliedCNP(rreq.prop, Generated).policy = Generated
      BY DEF AppliedCNP
    <3>3. rreq.pc = "applyWrite" => Generated \in published
      BY DEF PublishedInv, Applying
    <3>4. NoPolicy \in published
      BY DEF PublishedInv
    <3> QED
      BY <1>2, <2>1, <3>1, <3>2, <3>3, <3>4, PoliciesWritten
         DEF PublishedInv, PublishedBeforeApplied
  <2> QED
    BY <2>1, <2>2, <2>3, <2>4 DEF PublishedInv, PublishedBeforeApplied
<1> QED
  BY <1>1, <1>2

\* PublishedInv holds at the start.
LEMMA PublishedInit == Init => PublishedInv
<1> SUFFICES ASSUME Init PROVE PublishedInv
  OBVIOUS
<1>1. rreq.pc = "idle"
  BY IdleTyped DEF Init, ProposalInit
<1>2. \A p \in Profiles : cm[p].policy = NoPolicy /\ cCM[p].policy = NoPolicy
  BY DEF Init, ApiInit, NoCM
<1>3. \A n \in PolicyNames : cnp[n].policy = NoPolicy
  BY DEF Init, ApiInit, NoCNP
<1> QED
  BY <1>1, <1>2, <1>3 DEF Init, PublishedInv, PublishedBeforeApplied, Applying

\* A policy is applied only after it was in policy.yaml, where people review
\* it, whatever the age of the copy the save was computed against
\* (egresspolicyproposal_controller.go:84-120, configmap_store.go:110-121).
THEOREM PublishedFirst == Spec => []PublishedBeforeApplied
<1>1. PublishedInv => PublishedBeforeApplied
  BY DEF PublishedInv
<1> QED
  BY <1>1, PublishedInit, PublishedNext, TypeInvariant, PTL DEF Spec

-----------------------------------------------------------------------------
(* The refinement.                                                         *)

\* What the history says of the present: nobody is selected by a policy in
\* force without being on record, and an absent profile reports nothing.
RecordInv ==
  /\ \A n \in PolicyNames :
       Owned(cnp[n]) /\ cnp[n].policy.app \in Profiles
         => cnp[n].policy.app \in applied
  /\ \A p \in Profiles : ~Exists(profile[p]) => profile[p].phase = ""

\* All the invariants the refinement rests on.
RefInv ==
  TypeInv /\ GateInv /\ ModeInv /\ PhaseInv /\ PublishedInv /\ RecordInv

\* How a step can change which profiles report Enforced: people add or delete
\* profiles and edit their fields, and the status patch writes a phase.
LEMMA ReportsWritten ==
  ASSUME TypeInv, RecordInv, Next
  PROVE  \/ \A p \in Profiles : profile'[p].phase = profile[p].phase
         \/ /\ \E p \in Profiles : \A q \in Profiles \ {p} :
                 profile'[q].phase = profile[q].phase
            /\ \A p \in Profiles : Exists(profile'[p]) =>
                 Exists(profile[p]) /\ profile'[p].mode = profile[p].mode
            /\ UNCHANGED <<proposal, cm, cnp>>
<1> USE DEF TypeInv, TypeOK, ApiTypeOK
<1>1. ASSUME NEW p \in Profiles,
             \/ \E m \in Modes : SetMode(p, m)
             \/ \E w \in Workloads : SetTarget(p, w)
             \/ \E n \in PolicyNames : SetPolicyName(p, n)
      PROVE  \A q \in Profiles : profile'[q].phase = profile[q].phase
  <2>1. CASE \E m \in Modes : SetMode(p, m)
    BY <2>1 DEF SetMode, ProfileObj
  <2>2. CASE \E w \in Workloads : SetTarget(p, w)
    BY <2>2 DEF SetTarget, ProfileObj
  <2>3. CASE \E n \in PolicyNames : SetPolicyName(p, n)
    BY <2>3 DEF SetPolicyName, ProfileObj
  <2> QED
    BY <1>1, <2>1, <2>2, <2>3
<1>2. ASSUME NEW p \in Profiles, NEW m \in NewModes, NEW w \in Workloads,
             NEW n \in PolicyNames, CreateProfile(p, m, w, n)
      PROVE  \A q \in Profiles : profile'[q].phase = profile[q].phase
  BY <1>2 DEF CreateProfile, NoProfile, RecordInv
<1>3. ASSUME NEW p \in Profiles, DeleteProfile(p)
      PROVE  /\ \A q \in Profiles \ {p} :
                  profile'[q].phase = profile[q].phase
             /\ \A q \in Profiles : Exists(profile'[q]) =>
                  Exists(profile[q]) /\ profile'[q].mode = profile[q].mode
             /\ UNCHANGED <<proposal, cm, cnp>>
  BY <1>3 DEF DeleteProfile, NoProfile, Exists
<1>4. ASSUME NEW outcome \in Outcomes, ProfilePatchStatus(outcome)
      PROVE  /\ preq.p \in Profiles
             /\ \A q \in Profiles \ {preq.p} :
                  profile'[q].phase = profile[q].phase
             /\ \A q \in Profiles : Exists(profile'[q]) =>
                  Exists(profile[q]) /\ profile'[q].mode = profile[q].mode
             /\ UNCHANGED <<proposal, cm, cnp>>
  <2>1. preq.p \in Profiles
    BY <1>4 DEF ProfilePatchStatus, ProfileTypeOK
  <2>2. \A q \in Profiles : profile'[q].uid = profile[q].uid
                            /\ profile'[q].mode = profile[q].mode
    BY <1>4, <2>1 DEF ProfilePatchStatus, Patched, ProfileObj
  <2>3. \A q \in Profiles \ {preq.p} : profile'[q] = profile[q]
    BY <1>4, <2>1 DEF ProfilePatchStatus
  <2> QED
    BY <1>4, <2>1, <2>2, <2>3 DEF ProfilePatchStatus, Exists
<1>5. CASE ApiNext
  BY <1>1, <1>2, <1>3, <1>5
     DEF ApiNext, SyncProfile, SyncProposal, SyncCM, CollectProposal, CollectCM,
         CollectCNP, SetApproval, DeleteProposal, DeleteCNP, serverVars
<1>6. CASE ProfileNext
  BY <1>4, <1>6
     DEF ProfileNext, ProfileStep, ProfileGet, ProfileCreateCM,
         ProfileCreateProposal, apiVars, serverVars
<1>7. CASE ProposalNext
  BY <1>7
     DEF ProposalNext, ProposalStep, ProposalGet, ProposalSave,
         ProposalApplyGet, ProposalApplyWrite, ProposalPatchStatus,
         apiVars, serverVars
<1>8. CASE \E w \in Workloads, outcome \in Outcomes : FlushSnapshot(w, outcome)
  BY <1>8 DEF FlushSnapshot
<1>9. CASE Restart
  BY <1>9 DEF Restart, serverVars
<1> QED
  BY <1>5, <1>6, <1>7, <1>8, <1>9 DEF Next

\* A step that touches a policy touches one, by removing it or by the write of a
\* reconcile behind the gate, and nothing else the gate speaks of.
LEMMA OnePolicyAtATime ==
  ASSUME TypeInv, Next
  PROVE  \/ cnp' = cnp
         \/ /\ UNCHANGED <<profile, proposal, cm>>
            /\ \/ \E n \in PolicyNames : cnp' = [cnp EXCEPT ![n] = NoCNP]
               \/ /\ rreq.pc = "applyWrite" /\ rreq.p \in Profiles
                  /\ rreq.prof.name \in PolicyNames
                  /\ cnp' = [cnp EXCEPT ![rreq.prof.name] =
                                AppliedCNP(rreq.prop, Generated)]
<1> USE DEF TypeInv, TypeOK
<1>1. CASE ApiNext
  BY <1>1
     DEF ApiNext, SyncProfile, SyncProposal, SyncCM, CollectProposal, CollectCM,
         CollectCNP, CreateProfile, SetMode, SetTarget, SetPolicyName,
         DeleteProfile, SetApproval, DeleteProposal, DeleteCNP, serverVars
<1>2. CASE ProfileNext
  BY <1>2
     DEF ProfileNext, ProfileStep, ProfileGet, ProfileCreateCM,
         ProfileCreateProposal, ProfilePatchStatus, apiVars, serverVars
<1>3. ASSUME NEW outcome \in Outcomes, ProposalApplyWrite(outcome)
      PROVE  /\ UNCHANGED <<profile, proposal, cm>>
             /\ \/ cnp' = cnp
                \/ /\ rreq.pc = "applyWrite" /\ rreq.p \in Profiles
                   /\ rreq.prof.name \in PolicyNames
                   /\ cnp' = [cnp EXCEPT ![rreq.prof.name] =
                                 AppliedCNP(rreq.prop, Generated)]
  BY <1>3 DEF ProposalApplyWrite, ProposalTypeOK, NamesResolved
<1>4. CASE ProposalNext
  BY <1>3, <1>4
     DEF ProposalNext, ProposalStep, ProposalGet, ProposalSave,
         ProposalApplyGet, ProposalPatchStatus, apiVars, serverVars
<1>5. CASE \E w \in Workloads, outcome \in Outcomes : FlushSnapshot(w, outcome)
  BY <1>5 DEF FlushSnapshot
<1>6. CASE Restart
  BY <1>6 DEF Restart, serverVars
<1> QED
  BY <1>1, <1>2, <1>4, <1>5, <1>6 DEF Next

\* A step leaves a profile alone, deletes it, or leaves it in existence.
LEMMA ProfilesLive ==
  ASSUME TypeInv, Next, NEW p \in Profiles
  PROVE  profile'[p] \in {profile[p], NoProfile} \/ Exists(profile'[p])
<1> USE DEF TypeInv, TypeOK, ApiTypeOK
<1>1. ASSUME NEW q \in Profiles,
             \/ \E m \in Modes : SetMode(q, m)
             \/ \E w \in Workloads : SetTarget(q, w)
             \/ \E n \in PolicyNames : SetPolicyName(q, n)
      PROVE  profile'[p] = profile[p] \/ Exists(profile'[p])
  <2>1. CASE \E m \in Modes : SetMode(q, m)
    BY <2>1 DEF SetMode, ProfileObj, Exists
  <2>2. CASE \E w \in Workloads : SetTarget(q, w)
    BY <2>2 DEF SetTarget, ProfileObj, Exists
  <2>3. CASE \E n \in PolicyNames : SetPolicyName(q, n)
    BY <2>3 DEF SetPolicyName, ProfileObj, Exists
  <2> QED
    BY <1>1, <2>1, <2>2, <2>3
<1>2. ASSUME NEW q \in Profiles, NEW m \in NewModes, NEW w \in Workloads,
             NEW n \in PolicyNames, CreateProfile(q, m, w, n)
      PROVE  profile'[p] = profile[p] \/ Exists(profile'[p])
  BY <1>2 DEF CreateProfile, NoProfile, Exists
<1>3. ASSUME NEW outcome \in Outcomes, ProfilePatchStatus(outcome)
      PROVE  profile'[p] = profile[p] \/ Exists(profile'[p])
  BY <1>3 DEF ProfilePatchStatus, Patched, ProfileTypeOK, ProfileObj, Exists
<1>4. CASE ApiNext
  BY <1>1, <1>2, <1>4
     DEF ApiNext, SyncProfile, SyncProposal, SyncCM, CollectProposal, CollectCM,
         CollectCNP, DeleteProfile, SetApproval, DeleteProposal, DeleteCNP,
         serverVars
<1>5. CASE ProfileNext
  BY <1>3, <1>5
     DEF ProfileNext, ProfileStep, ProfileGet, ProfileCreateCM,
         ProfileCreateProposal, apiVars, serverVars
<1>6. CASE ProposalNext
  BY <1>6
     DEF ProposalNext, ProposalStep, ProposalGet, ProposalSave,
         ProposalApplyGet, ProposalApplyWrite, ProposalPatchStatus,
         apiVars, serverVars
<1>7. CASE \E w \in Workloads, outcome \in Outcomes : FlushSnapshot(w, outcome)
  BY <1>7 DEF FlushSnapshot
<1>8. CASE Restart
  BY <1>8 DEF Restart, serverVars
<1> QED
  BY <1>4, <1>5, <1>6, <1>7, <1>8 DEF Next

\* RecordInv is inductive, given the types.
LEMMA RecordNext == TypeInv /\ RecordInv /\ [Next]_vars => RecordInv'
<1> SUFFICES ASSUME TypeInv, RecordInv, [Next]_vars PROVE RecordInv'
  OBVIOUS
<1>1. CASE UNCHANGED vars
  BY <1>1 DEF RecordInv, vars, apiVars, serverVars, historyVars
<1>2. CASE Next
  <2>1. ASSUME NEW n \in PolicyNames, Owned(cnp'[n]),
               cnp'[n].policy.app \in Profiles
        PROVE  cnp'[n].policy.app \in applied'
    BY <1>2, <2>1 DEF Next, Record
  <2>2. ASSUME NEW p \in Profiles, ~Exists(profile'[p])
        PROVE  profile'[p].phase = ""
    <3>1. profile'[p] \in {profile[p], NoProfile}
      BY <1>2, <2>2, ProfilesLive
    <3>2. NoProfile.phase = ""
      BY DEF NoProfile
    <3>3. profile'[p] = profile[p] => ~Exists(profile[p])
      BY <2>2
    <3> QED
      BY <3>1, <3>2, <3>3 DEF RecordInv
  <2> QED
    BY <2>1, <2>2 DEF RecordInv, Owned, Exists
<1> QED
  BY <1>1, <1>2

\* What is not written is not recorded again.
LEMMA RecordIdle ==
  ASSUME RefInv, Next
  PROVE  /\ proposal' = proposal => approvedUids' = approvedUids
         /\ cm' = cm => published' = published
         /\ cnp' = cnp => applied' = applied
         /\ (\A p \in Profiles : Exists(profile'[p]) =>
               Exists(profile[p]) /\ profile'[p].mode = profile[p].mode)
              => enforced' = enforced
         /\ approvedUids \subseteq approvedUids' /\ enforced \subseteq enforced'
         /\ published \subseteq published'
<1> USE DEF Next, Record, RefInv
<1>1. proposal' = proposal => approvedUids' = approvedUids
  BY DEF GateInv
<1>2. cm' = cm => published' = published
  BY DEF PublishedInv
<1>3. cnp' = cnp => applied' = applied
  BY DEF RecordInv
<1>4. ASSUME \A p \in Profiles : Exists(profile'[p]) =>
               Exists(profile[p]) /\ profile'[p].mode = profile[p].mode
      PROVE  enforced' = enforced
  BY <1>4 DEF ModeInv
<1>5. /\ approvedUids \subseteq approvedUids' /\ enforced \subseteq enforced'
      /\ published \subseteq published'
  OBVIOUS
<1> QED
  BY <1>1, <1>2, <1>3, <1>4, <1>5

\* The profiles that report Enforced: the gate's variable reported.
Reported == {p \in Profiles : profile[p].phase = "Enforced"}

\* A step in which no policy changes and nobody's report does is a Grant.
LEMMA GrantStep ==
  ASSUME RefInv, Next, cnp' = cnp, Reported' = Reported
  PROVE  Gate!Grant
BY RecordIdle DEF Gate!Grant, Reported

\* A step in which a policy changes is an Apply or a Remove.
LEMMA PolicyStep ==
  ASSUME RefInv, Next, cnp' # cnp
  PROVE  \E n \in PolicyNames : Gate!Apply(n) \/ Gate!Remove(n)
<1>1. UNCHANGED <<profile, proposal, cm>>
  BY OnePolicyAtATime DEF RefInv
<1>2. UNCHANGED <<approvedUids, enforced, published>>
  BY <1>1, RecordIdle DEF Exists
<1>3. applied' = applied \cup {p \in Profiles : \E n \in PolicyNames :
                                Owned(cnp'[n]) /\ cnp'[n].policy.app = p}
  BY DEF Next, Record
<1>4. cnp \in [PolicyNames -> CNPObj]
  BY DEF RefInv, TypeInv, TypeOK, ApiTypeOK
<1>5. ASSUME NEW n \in PolicyNames, cnp' = [cnp EXCEPT ![n] = NoCNP]
      PROVE  Gate!Remove(n)
  <2>1. applied' = applied
    BY <1>3, <1>4, <1>5 DEF RefInv, RecordInv, NoCNP, Owned
  <2> QED
    BY <1>1, <1>2, <1>5, <2>1 DEF Gate!Remove
<1>6. ASSUME rreq.pc = "applyWrite", rreq.p \in Profiles,
             rreq.prof.name \in PolicyNames,
             cnp' = [cnp EXCEPT ![rreq.prof.name] =
                       AppliedCNP(rreq.prop, Generated)]
      PROVE  Gate!Apply(rreq.prof.name)
  <2>1. rreq.prop.uid \in approvedUids /\ Generated \in published
    BY <1>6 DEF RefInv, GateInv, PublishedInv, Applying, Deciding
  <2>2. Generated.name = rreq.prof.name /\ Generated.app = rreq.p
    BY DEF Generated
  <2>3. rreq.p \in enforced /\ rreq.prop.uid # NoUid
    BY <1>6 DEF RefInv, ModeInv, PhaseInv, Applying, Deciding, Exists
  <2>4. AppliedCNP(rreq.prop, Generated) =
          [owner |-> rreq.prop.uid, policy |-> Generated]
    BY DEF AppliedCNP
  <2>5. applied' = applied \cup {Generated.app}
    <3> DEFINE name == rreq.prof.name
    <3>1. /\ cnp'[name].owner = rreq.prop.uid /\ cnp'[name].policy = Generated
          /\ \A n \in PolicyNames \ {name} : cnp'[n] = cnp[n]
      BY <1>4, <1>6, <2>4
    <3>2. Owned(cnp'[name]) /\ cnp'[name].policy.app = rreq.p
      BY <2>2, <2>3, <3>1 DEF Owned
    <3> HIDE DEF name
    <3>3. name \in PolicyNames
      BY <1>6 DEF name
    <3>4. ASSUME NEW n \in PolicyNames \ {name}, Owned(cnp'[n]),
                 cnp'[n].policy.app \in Profiles
          PROVE  cnp'[n].policy.app \in applied
      BY <3>1, <3>4 DEF RefInv, RecordInv, Owned
    <3> QED
      BY <1>3, <1>6, <2>2, <3>2, <3>3, <3>4
  <2> HIDE DEF Generated
  <2> QED
    BY <1>1, <1>2, <1>6, <2>1, <2>2, <2>3, <2>4, <2>5 DEF Gate!Apply
<1> QED
  BY <1>5, <1>6, OnePolicyAtATime DEF RefInv

\* A step in which somebody's report changes is a Report or a Retract.
LEMMA ReportStep ==
  ASSUME RefInv, Next, PhaseInv', Reported' # Reported
  PROVE  \E p \in Profiles : Gate!Report(p) \/ Gate!Retract(p)
<1>1. PICK p \in Profiles :
        /\ \A q \in Profiles \ {p} : profile'[q].phase = profile[q].phase
        /\ \A q \in Profiles : Exists(profile'[q]) =>
             Exists(profile[q]) /\ profile'[q].mode = profile[q].mode
        /\ UNCHANGED <<proposal, cm, cnp>>
  BY ReportsWritten DEF RefInv, Reported
<1>2. UNCHANGED <<approvedUids, enforced, published, cnp, applied>>
  BY <1>1, RecordIdle
<1>3. CASE profile'[p].phase = "Enforced"
  <2>1. p \in applied
    BY <1>2, <1>3 DEF PhaseInv, EnforcedPhaseIsEarned
  <2>2. Reported' = Reported \cup {p}
    BY <1>1, <1>3 DEF Reported
  <2> QED
    BY <1>2, <2>1, <2>2 DEF Gate!Report, Reported
<1>4. CASE profile'[p].phase # "Enforced"
  <2>1. Reported' = Reported \ {p}
    BY <1>1, <1>4 DEF Reported
  <2> QED
    BY <1>2, <2>1 DEF Gate!Retract, Reported
<1> QED
  BY <1>3, <1>4

\* Every reachable state satisfies the invariants above.
LEMMA RefInvariant == Spec => []RefInv
<1>1. ASSUME Init PROVE RefInv
  <2>1. TypeInv /\ PublishedInv
    BY <1>1, InitTyped, PublishedInit
  <2>2. rreq.pc = "idle" /\ preq.pc = "idle"
    BY <1>1, IdleTyped DEF Init, ProposalInit, ProfileInit
  <2>3. \A p \in Profiles :
          /\ proposal[p] = NoProposal /\ cProposal[p] = NoProposal
          /\ profile[p] = NoProfile /\ cProfile[p] = NoProfile
    BY <1>1 DEF Init, ApiInit
  <2>4. \A n \in PolicyNames : ~Owned(cnp[n])
    BY <1>1 DEF Init, ApiInit, NoCNP, Owned
  <2>5. /\ ~NoProposal.approved /\ NoProposal.phase = ""
        /\ ~Exists(NoProfile) /\ NoProfile.phase = ""
    BY DEF NoProposal, NoProfile, Exists
  <2>6. GateInv /\ ModeInv
    BY <2>2, <2>3, <2>4, <2>5
       DEF GateInv, ApprovedBeforeApplied, ModeInv, EnforcedBeforeApplied,
           Deciding, Applying
  <2>7. PhaseInv /\ RecordInv
    BY <2>2, <2>3, <2>4, <2>5
       DEF PhaseInv, EnforcedPhaseIsEarned, RecordInv, Deciding
  <2> QED
    BY <2>1, <2>6, <2>7 DEF RefInv
<1>2. RefInv /\ [Next]_vars => RefInv'
  BY NextTyped, GateNext, ModeNext, PhaseNext, PublishedNext, RecordNext
     DEF RefInv
<1> QED
  BY <1>1, <1>2, PTL DEF Spec

\* The two controllers, with their caches, API faults, restarts and the people
\* around them, implement the abstract gate: every step of the operator is a
\* step of the gate or invisible to it.
THEOREM Refinement == Spec => ImplementsReviewGate
<1>1. ASSUME Init PROVE Gate!Init
  <2>1. \A p \in Profiles : profile[p].phase = ""
    BY <1>1 DEF Init, ApiInit, NoProfile
  <2> QED
    BY <1>1, <2>1 DEF Init, ApiInit, Gate!Init
<1>2. ASSUME RefInv, RefInv', [Next]_vars PROVE [Gate!Next]_(Gate!vars)
  <2>1. CASE UNCHANGED vars
    BY <2>1 DEF vars, apiVars, serverVars, historyVars, Gate!vars
  <2>2. CASE Next
    <3>1. CASE cnp' # cnp
      BY <1>2, <2>2, <3>1, PolicyStep DEF Gate!Next
    <3>2. CASE cnp' = cnp /\ Reported' # Reported
      BY <1>2, <2>2, <3>2, ReportStep DEF Gate!Next, RefInv
    <3>3. CASE cnp' = cnp /\ Reported' = Reported
      BY <1>2, <2>2, <3>3, GrantStep DEF Gate!Next
    <3> QED
      BY <3>1, <3>2, <3>3
  <2> QED
    BY <1>2, <2>1, <2>2
<1> QED
  BY <1>1, <1>2, RefInvariant, PTL DEF Spec, ImplementsReviewGate, Gate!Spec
=============================================================================
