------------------------ MODULE EgressOperatorProofs ------------------------
(***************************************************************************)
(* The types and the two gates of EgressOperator, for any number of        *)
(* profiles, workloads, policy names, edits, faults, restarts and flushes. *)
(*                                                                         *)
(* The types alone are not inductive: a reconcile indexes the policies by  *)
(* the name in its copy of the profile, so every copy of an existing       *)
(* profile must carry a resolved name.                                     *)
(*                                                                         *)
(* The argument for a gate follows a piece of data along the way it        *)
(* travels: from the server to a cache, from the cache to the locals of a  *)
(* reconcile, from there into what the reconcile writes.  CachesCopy,      *)
(* ReconcileReads and PoliciesWritten say, for any step of the operator,   *)
(* what each stop on that way can hold afterwards; the invariants behind   *)
(* them then need no case distinction over the actions.                    *)
(***************************************************************************)
EXTENDS EgressOperator, TLAPS

\* A profile that exists, on the server, in the cache or in a proposal
\* reconcile, has a policy name.
NamesResolved ==
  /\ \A p \in Profiles :
       /\ Exists(profile[p]) => profile[p].name \in PolicyNames
       /\ Exists(cProfile[p]) => cProfile[p].name \in PolicyNames
  /\ rreq.pc \in {"save", "applyGet", "applyWrite"}
       => rreq.prof.name \in PolicyNames

\* The inductive invariant.
TypeInv == TypeOK /\ NamesResolved

\* The records that stand for absent objects are of the types.
LEMMA AbsentTyped ==
  /\ NoProfile \in ProfileObj
  /\ NoProposal \in ProposalObj
  /\ NoCM \in CMObj
  /\ NoCNP \in CNPObj
  /\ NoSnapshot \in Snapshot
  /\ NoPolicy \in Policy
BY DEF NoProfile, ProfileObj, NoProposal, ProposalObj, NoCM, CMObj, NoCNP,
       CNPObj, NoSnapshot, Snapshot, NoPolicy, Policy, NoUid, Modes,
       ProfilePhases, ProposalPhases

\* So are the locals of reconciles that are not running.
LEMMA IdleTyped ==
  /\ ProfileIdle \in [pc : {"idle", "createCM", "createProposal", "status"},
       p : Profiles \cup {None}, prof : ProfileObj, snap : Snapshot,
       phase : ProfilePhases]
  /\ ProposalIdle \in [pc : {"idle", "save", "applyGet", "applyWrite", "status"},
       p : Profiles \cup {None}, prop : ProposalObj, prof : ProfileObj,
       snap : Snapshot, existing : CNPObj, phase : ProposalPhases]
  /\ ProfileIdle.pc = "idle" /\ ProposalIdle.pc = "idle"
BY AbsentTyped DEF ProfileIdle, ProposalIdle, ProfilePhases, ProposalPhases

\* The initial states.
LEMMA InitTyped == Init => TypeInv
<1> SUFFICES ASSUME Init PROVE TypeInv
  OBVIOUS
<1> USE DEF Init
<1>1. ApiTypeOK
  BY AbsentTyped DEF ApiInit, ApiTypeOK, Spent, NoUid
<1>2. ProfileTypeOK
  BY IdleTyped DEF ProfileInit, ProfileTypeOK
<1>3. ProposalTypeOK
  BY IdleTyped, AbsentTyped DEF ProposalInit, ProposalTypeOK
<1>4. NamesResolved
  BY IdleTyped
     DEF NamesResolved, ApiInit, ProposalInit, Exists, NoProfile, NoUid
<1> QED
  BY <1>1, <1>2, <1>3, <1>4, AbsentTyped DEF TypeInv, TypeOK

\* The history variables collect uids, profiles and policies.
LEMMA RecordTyped ==
  ASSUME TypeOK, Record, proposal' \in [Profiles -> ProposalObj],
         cm' \in [Profiles -> CMObj]
  PROVE  /\ approvedUids' \in SUBSET Nat
         /\ enforced' \in SUBSET Profiles
         /\ published' \in SUBSET Policy
         /\ applied' \in SUBSET Profiles
BY DEF TypeOK, Record, ProposalObj, CMObj

\* The informers copy typed objects.
LEMMA SyncTyped ==
  ASSUME TypeInv, UNCHANGED <<profileVars, proposalVars>>,
         NEW p \in Profiles,
         SyncProfile(p) \/ SyncProposal(p) \/ SyncCM(p)
  PROVE  ApiTypeOK' /\ ProfileTypeOK' /\ ProposalTypeOK' /\ NamesResolved'
BY DEF TypeInv, TypeOK, ApiTypeOK, ProfileTypeOK, ProposalTypeOK, NamesResolved,
       SyncProfile, SyncProposal, SyncCM, serverVars, profileVars, proposalVars

\* The garbage collector, and a deleted policy, leave absent objects.
LEMMA CollectTyped ==
  ASSUME TypeInv, UNCHANGED <<profileVars, proposalVars>>,
         \/ \E p \in Profiles : CollectProposal(p) \/ CollectCM(p)
         \/ \E n \in PolicyNames : CollectCNP(n) \/ DeleteCNP(n)
  PROVE  ApiTypeOK' /\ ProfileTypeOK' /\ ProposalTypeOK' /\ NamesResolved'
BY AbsentTyped
   DEF TypeInv, TypeOK, ApiTypeOK, ProfileTypeOK, ProposalTypeOK, NamesResolved,
       CollectProposal, CollectCM, CollectCNP, DeleteCNP, Edit, Spent,
       cacheVars, profileVars, proposalVars

\* A new uid is never the one that marks absence.
LEMMA GiveUidTyped ==
  ASSUME nextUid \in Nat \ {NoUid}, GiveUid
  PROVE  nextUid' \in Nat \ {NoUid}
BY DEF GiveUid, NoUid

\* An edit is accounted for.
LEMMA EditSpends ==
  ASSUME NEW op, spent \in Spent, Edit(op)
  PROVE  spent' \in Spent
BY DEF Edit, Spent

\* Edits of the fields of a profile keep its type and its name resolved.
LEMMA FieldsTyped ==
  ASSUME profile \in [Profiles -> ProfileObj], NEW p \in Profiles,
         \/ \E m \in Modes : SetMode(p, m)
         \/ \E w \in Workloads : SetTarget(p, w)
         \/ \E n \in PolicyNames : SetPolicyName(p, n)
  PROVE  /\ profile' \in [Profiles -> ProfileObj]
         /\ \A q \in Profiles : Exists(profile'[q]) =>
              Exists(profile[q]) /\ (\/ profile'[q].name = profile[q].name
                                    \/ profile'[q].name \in PolicyNames)
<1>1. CASE \E m \in Modes : SetMode(p, m)
  BY <1>1 DEF SetMode, ProfileObj, Exists
<1>2. CASE \E w \in Workloads : SetTarget(p, w)
  BY <1>2 DEF SetTarget, ProfileObj, Exists
<1>3. CASE \E n \in PolicyNames : SetPolicyName(p, n)
  BY <1>3 DEF SetPolicyName, ProfileObj, Exists
<1> QED
  BY <1>1, <1>2, <1>3

\* The approver's edits keep the proposals' type.
LEMMA ApprovalTyped ==
  ASSUME proposal \in [Profiles -> ProposalObj], NEW p \in Profiles,
         \/ \E approved \in BOOLEAN : SetApproval(p, approved)
         \/ DeleteProposal(p)
  PROVE  proposal' \in [Profiles -> ProposalObj]
<1>1. ASSUME NEW a \in BOOLEAN, SetApproval(p, a)
      PROVE  proposal' \in [Profiles -> ProposalObj]
  <2> DEFINE new == [proposal[p] EXCEPT !.approved = a]
  <2>1. proposal[p] \in ProposalObj
    OBVIOUS
  <2>2. new \in ProposalObj
    BY <2>1 DEF ProposalObj
  <2>3. proposal' = [proposal EXCEPT ![p] = new]
    BY <1>1 DEF SetApproval
  <2> HIDE DEF new
  <2> QED
    BY <2>2, <2>3
<1>2. CASE DeleteProposal(p)
  BY <1>2, AbsentTyped DEF DeleteProposal
<1> QED
  BY <1>1, <1>2

\* Every edit people make.
LEMMA EditTyped ==
  ASSUME TypeInv, UNCHANGED <<profileVars, proposalVars>>,
         NEW p \in Profiles,
         \/ \E m \in NewModes, w \in Workloads, n \in PolicyNames :
              CreateProfile(p, m, w, n)
         \/ \E m \in Modes : SetMode(p, m)
         \/ \E w \in Workloads : SetTarget(p, w)
         \/ \E n \in PolicyNames : SetPolicyName(p, n)
         \/ DeleteProfile(p)
         \/ \E approved \in BOOLEAN : SetApproval(p, approved)
         \/ DeleteProposal(p)
  PROVE  ApiTypeOK' /\ ProfileTypeOK' /\ ProposalTypeOK' /\ NamesResolved'
<1> USE DEF TypeInv, TypeOK, cacheVars
<1>0. spent' \in Spent
  BY EditSpends
     DEF ApiTypeOK, CreateProfile, SetMode, SetTarget, SetPolicyName,
         DeleteProfile, SetApproval, DeleteProposal
<1>1. ASSUME NEW m \in NewModes, NEW w \in Workloads, NEW n \in PolicyNames,
             CreateProfile(p, m, w, n)
      PROVE  ApiTypeOK' /\ NamesResolved'
  <2> DEFINE new == [NoProfile EXCEPT !.uid = nextUid, !.mode = m, !.target = w,
                                      !.name = n]
  <2>1. new \in ProfileObj /\ new.name = n
    BY ModesAssumption, AbsentTyped DEF NoProfile, ProfileObj, Modes, ApiTypeOK
  <2>2. profile' = [profile EXCEPT ![p] = new]
    BY <1>1 DEF CreateProfile
  <2> HIDE DEF new
  <2>3. nextUid' \in Nat \ {NoUid}
    BY <1>1, GiveUidTyped DEF CreateProfile, ApiTypeOK
  <2>4. ApiTypeOK'
    BY <1>0, <1>1, <2>1, <2>2, <2>3 DEF CreateProfile, ApiTypeOK
  <2>5. NamesResolved'
    BY <1>1, <2>1, <2>2
       DEF CreateProfile, NamesResolved, ApiTypeOK, proposalVars
  <2> QED
    BY <2>4, <2>5
<1>2. ASSUME \/ \E m \in Modes : SetMode(p, m)
             \/ \E w \in Workloads : SetTarget(p, w)
             \/ \E n \in PolicyNames : SetPolicyName(p, n)
      PROVE  ApiTypeOK' /\ NamesResolved'
  <2>1. /\ profile' \in [Profiles -> ProfileObj]
        /\ \A q \in Profiles : Exists(profile'[q]) =>
             Exists(profile[q]) /\ (\/ profile'[q].name = profile[q].name
                                   \/ profile'[q].name \in PolicyNames)
    BY <1>2, FieldsTyped DEF ApiTypeOK
  <2>2. UNCHANGED <<proposal, cm, cnp, cProfile, cProposal, cCM, nextUid>>
    BY <1>2 DEF SetMode, SetTarget, SetPolicyName
  <2> QED
    BY <1>0, <2>1, <2>2 DEF ApiTypeOK, NamesResolved, proposalVars
<1>3. ASSUME DeleteProfile(p)
      PROVE  ApiTypeOK' /\ NamesResolved'
  <2>1. profile' \in [Profiles -> ProfileObj]
    BY <1>3, AbsentTyped DEF DeleteProfile, ApiTypeOK
  <2>2. ~Exists(NoProfile)
    BY DEF Exists, NoProfile
  <2> QED
    BY <1>0, <1>3, <2>1, <2>2
       DEF DeleteProfile, ApiTypeOK, NamesResolved, proposalVars
<1>4. ASSUME \/ \E approved \in BOOLEAN : SetApproval(p, approved)
             \/ DeleteProposal(p)
      PROVE  ApiTypeOK' /\ NamesResolved'
  <2>1. proposal' \in [Profiles -> ProposalObj]
    BY <1>4, ApprovalTyped DEF ApiTypeOK
  <2>2. UNCHANGED <<profile, cm, cnp, cProfile, cProposal, cCM, nextUid>>
    BY <1>4 DEF SetApproval, DeleteProposal
  <2> QED
    BY <1>0, <2>1, <2>2 DEF ApiTypeOK, NamesResolved, proposalVars
<1>5. ProfileTypeOK' /\ ProposalTypeOK'
  BY DEF ProfileTypeOK, ProposalTypeOK, profileVars, proposalVars
<1> QED
  BY <1>1, <1>2, <1>3, <1>4, <1>5

\* A fault is accounted for.
LEMMA AnswerTyped ==
  ASSUME NEW outcome, spent \in Spent, Answer(outcome)
  PROVE  spent' \in Spent
BY DEF Answer, Spent

\* The derived phase is one of the five.
LEMMA PhaseOfTyped ==
  ASSUME NEW mode, NEW phase
  PROVE  PhaseOf(mode, phase) \in ProfilePhases
BY DEF PhaseOf, ProfilePhases

\* A merge patch of ConfigMaps is a ConfigMap.
LEMMA MergePatchTyped ==
  ASSUME NEW server \in CMObj, NEW read \in CMObj, NEW new \in CMObj
  PROVE  MergePatch(server, read, new) \in CMObj
BY DEF MergePatch, MergedField, CMObj

\* The types of the locals of the two reconciles.
PreqType == [pc : {"idle", "createCM", "createProposal", "status"},
             p : Profiles \cup {None}, prof : ProfileObj, snap : Snapshot,
             phase : ProfilePhases]

\* The cached reads of the profile reconcile.
LEMMA RegisterTyped ==
  ASSUME TypeInv, NEW p \in Profiles, NEW prof \in ProfileObj,
         RegisterAndRead(p, prof)
  PROVE  ProfileTypeOK'
<1>1. GetSnapshot(p) \in Snapshot
  BY DEF TypeInv, TypeOK, ApiTypeOK, CMObj, GetSnapshot
<1>2. [NoProfile EXCEPT !.phase = prof.phase, !.seen = prof.seen] \in ProfileObj
  BY AbsentTyped DEF ProfileObj, NoProfile
<1>3. preq' \in PreqType /\ preq'.p = p
  BY <1>1, <1>2, PhaseOfTyped
     DEF RegisterAndRead, AtStatus, PreqType, ProfilePhases
<1>4. registry' \in [Workloads -> Profiles \cup {None}]
  BY DEF TypeInv, TypeOK, ProfileTypeOK, RegisterAndRead
<1> QED
  BY <1>3, <1>4 DEF ProfileTypeOK, PreqType

\* Every step of the profile reconcile.
LEMMA ProfileTyped ==
  ASSUME TypeInv, ProfileNext, UNCHANGED proposalVars
  PROVE  ApiTypeOK' /\ ProfileTypeOK' /\ ProposalTypeOK' /\ NamesResolved'
<1> USE DEF TypeInv, TypeOK
<1>1. ASSUME NEW p \in Profiles, ProfileGet(p)
      PROVE  ApiTypeOK' /\ ProfileTypeOK' /\ ProposalTypeOK' /\ NamesResolved'
  <2>1. UNCHANGED apiVars
    BY <1>1 DEF ProfileGet
  <2>2. ProfileTypeOK'
    <3>1. CASE Owned(cCM[p])
      BY <1>1, <3>1, RegisterTyped DEF ProfileGet, ApiTypeOK
    <3>2. CASE ~Owned(cCM[p])
      BY <1>1, <3>2, IdleTyped DEF ProfileGet, ProfileTypeOK, ApiTypeOK
    <3> QED
      BY <3>1, <3>2
  <2> QED
    BY <2>1, <2>2
       DEF apiVars, serverVars, cacheVars, ApiTypeOK, ProposalTypeOK,
           proposalVars, NamesResolved
<1>2. ASSUME NEW outcome \in Outcomes, ProfileCreateCM(outcome)
      PROVE  ApiTypeOK' /\ ProfileTypeOK' /\ ProposalTypeOK' /\ NamesResolved'
  <2>1. preq.p \in Profiles /\ preq.prof \in ProfileObj
    BY <1>2 DEF ProfileCreateCM, ProfileTypeOK
  <2>2. [NoCM EXCEPT !.owner = preq.prof.uid] \in CMObj
    BY <2>1, AbsentTyped DEF CMObj, NoCM, ProfileObj
  <2>3. cm' \in [Profiles -> CMObj]
    BY <1>2, <2>2 DEF ProfileCreateCM, CreateConfigMap, ApiTypeOK
  <2>4. ApiTypeOK'
    BY <1>2, <2>3, AnswerTyped DEF ProfileCreateCM, ApiTypeOK, cacheVars
  <2>5. ProfileTypeOK'
    BY <1>2, <2>1, RegisterTyped, IdleTyped DEF ProfileCreateCM, ProfileTypeOK
  <2> QED
    BY <1>2, <2>4, <2>5
       DEF ProfileCreateCM, cacheVars, ProposalTypeOK, proposalVars,
           NamesResolved
<1>3. ASSUME NEW outcome \in Outcomes, ProfileCreateProposal(outcome)
      PROVE  ApiTypeOK' /\ ProfileTypeOK' /\ ProposalTypeOK' /\ NamesResolved'
  <2>1. /\ preq.p \in Profiles /\ preq.prof \in ProfileObj
        /\ preq.snap \in Snapshot
    BY <1>3 DEF ProfileCreateProposal, ProfileTypeOK
  <2>2. NewProposal(preq.prof) \in ProposalObj
    BY <2>1, AbsentTyped
       DEF NewProposal, ProposalObj, NoProposal, ProfileObj, ApiTypeOK
  <2>3. ApiTypeOK'
    <3>1. proposal' \in [Profiles -> ProposalObj]
      BY <1>3, <2>2 DEF ProfileCreateProposal, ApiTypeOK
    <3>2. nextUid' \in Nat \ {NoUid}
      BY <1>3, GiveUidTyped DEF ProfileCreateProposal, ApiTypeOK
    <3>3. spent' \in Spent
      BY <1>3, AnswerTyped DEF ProfileCreateProposal, ApiTypeOK
    <3> QED
      BY <1>3, <3>1, <3>2, <3>3 DEF ProfileCreateProposal, ApiTypeOK, cacheVars
  <2>4. AtStatus(preq.p, preq.prof, preq.snap, PhaseOf(preq.prof.mode, ""))
          \in PreqType
    BY <2>1, PhaseOfTyped, AbsentTyped
       DEF AtStatus, PreqType, ProfileObj, NoProfile
  <2>5. ProfileTypeOK'
    BY <1>3, <2>1, <2>4, IdleTyped
       DEF ProfileCreateProposal, ProfileTypeOK, PreqType, AtStatus
  <2> QED
    BY <1>3, <2>3, <2>5
       DEF ProfileCreateProposal, cacheVars, ProposalTypeOK, proposalVars,
           NamesResolved
<1>4. ASSUME NEW outcome \in Outcomes, ProfilePatchStatus(outcome)
      PROVE  ApiTypeOK' /\ ProfileTypeOK' /\ ProposalTypeOK' /\ NamesResolved'
  <2>1. preq.p \in Profiles /\ preq.phase \in ProfilePhases
          /\ preq.snap \in Snapshot
    BY <1>4 DEF ProfilePatchStatus, ProfileTypeOK
  <2>2. profile' \in [Profiles -> ProfileObj]
    <3> DEFINE phase ==
          MergedField(profile[preq.p].phase, preq.prof.phase, preq.phase)
        seen == MergedField(profile[preq.p].seen, preq.prof.seen, preq.snap)
        new == [profile[preq.p] EXCEPT !.phase = phase, !.seen = seen]
    <3>1. profile[preq.p] \in ProfileObj
      BY <2>1 DEF ApiTypeOK
    <3>2. phase \in ProfilePhases /\ seen \in Snapshot
      BY <2>1, <3>1 DEF MergedField, ProfileObj
    <3>3. profile' = [profile EXCEPT ![preq.p] = new] \/ profile' = profile
      BY <1>4, <2>1 DEF ProfilePatchStatus, Patched, ApiTypeOK
    <3> HIDE DEF phase, seen
    <3>4. new \in ProfileObj
      BY <3>1, <3>2 DEF ProfileObj
    <3> QED
      BY <2>1, <3>3, <3>4 DEF ApiTypeOK
  <2>3. \A p \in Profiles : profile'[p].uid = profile[p].uid
                            /\ profile'[p].name = profile[p].name
    BY <1>4, <2>1 DEF ProfilePatchStatus, Patched, ApiTypeOK, ProfileObj
  <2>4. ApiTypeOK'
    BY <1>4, <2>2, AnswerTyped DEF ProfilePatchStatus, ApiTypeOK, cacheVars
  <2>5. ProfileTypeOK'
    BY <1>4, IdleTyped DEF ProfilePatchStatus, ProfileTypeOK
  <2> QED
    BY <1>4, <2>3, <2>4, <2>5
       DEF ProfilePatchStatus, cacheVars, ProposalTypeOK, proposalVars,
           NamesResolved, Exists
<1> QED
  BY <1>1, <1>2, <1>3, <1>4 DEF ProfileNext, ProfileStep

RreqType == [pc : {"idle", "save", "applyGet", "applyWrite", "status"},
             p : Profiles \cup {None}, prop : ProposalObj, prof : ProfileObj,
             snap : Snapshot, existing : CNPObj, phase : ProposalPhases]

\* The locals of a proposal reconcile that has decided on a phase.
LEMMA AtStatusPatchTyped ==
  ASSUME rreq \in RreqType, NEW phase \in ProposalPhases
  PROVE  /\ AtStatusPatch(phase) \in RreqType
         /\ AtStatusPatch(phase).pc = "status"
         /\ AtStatusPatch(phase).p = rreq.p
BY IdleTyped, AbsentTyped
   DEF AtStatusPatch, RreqType, ProposalIdle, ProposalObj, NoProposal

\* A generated policy is a policy.
LEMMA GeneratedTyped ==
  ASSUME rreq \in RreqType
  PROVE  Generated \in Policy
BY DEF Generated, RreqType, Policy, ProfileObj

\* A patch of one key keeps the ConfigMaps' type.
LEMMA PatchDataTyped ==
  ASSUME cm \in [Profiles -> CMObj], cCM \in [Profiles -> CMObj],
         NEW p \in Profiles, NEW new \in CMObj, NEW outcome
  PROVE  PatchData(p, new, outcome) \in [Profiles -> CMObj]
BY MergePatchTyped DEF PatchData

\* A patched phase is a phase.
LEMMA MergedPhaseTyped ==
  ASSUME NEW obj \in ProposalObj, NEW read, NEW phase \in ProposalPhases
  PROVE  [obj EXCEPT !.phase = MergedField(obj.phase, read, phase)]
           \in ProposalObj
<1>1. MergedField(obj.phase, read, phase) \in ProposalPhases
  BY DEF MergedField, ProposalObj
<1> QED
  BY <1>1 DEF ProposalObj

\* The status patch keeps the proposals' type.
LEMMA ProposalPhaseTyped ==
  ASSUME proposal \in [Profiles -> ProposalObj], NEW p \in Profiles,
         NEW read, NEW phase \in ProposalPhases, NEW landed \in BOOLEAN,
         proposal' = IF landed
           THEN [proposal EXCEPT ![p].phase = MergedField(@, read, phase)]
           ELSE proposal
  PROVE  proposal' \in [Profiles -> ProposalObj]
<1> DEFINE new ==
      [proposal[p] EXCEPT !.phase = MergedField(proposal[p].phase, read, phase)]
<1>1. new \in ProposalObj
  BY MergedPhaseTyped
<1>2. proposal' = [proposal EXCEPT ![p] = new] \/ proposal' = proposal
  OBVIOUS
<1> HIDE DEF new
<1> QED
  BY <1>1, <1>2

\* Two counters at once.
LEMMA TwoSpends ==
  ASSUME NEW s \in Spent, NEW flushes \in Nat, NEW faults \in Nat
  PROVE  [s EXCEPT !.flushes = flushes, !.faults = faults] \in Spent
BY DEF Spent

\* A flush, and its fault, are accounted for.
LEMMA FlushSpends ==
  ASSUME spent \in Spent, NEW ok \in BOOLEAN,
         spent' = [spent EXCEPT !.flushes = @ + 1,
                                !.faults = IF ok THEN @ ELSE @ + 1]
  PROVE  spent' \in Spent
<1>1. spent.flushes + 1 \in Nat /\ spent.faults \in Nat /\ spent.faults + 1 \in Nat
  BY DEF Spent
<1>2. (IF ok THEN spent.faults ELSE spent.faults + 1) \in Nat
  BY <1>1
<1> QED
  BY <1>1, <1>2, TwoSpends

\* Every step of the proposal reconcile.
LEMMA ProposalTyped ==
  ASSUME TypeInv, ProposalNext, UNCHANGED profileVars
  PROVE  ApiTypeOK' /\ ProfileTypeOK' /\ ProposalTypeOK' /\ NamesResolved'
<1> USE DEF TypeInv, TypeOK
<1>0. rreq \in RreqType /\ (rreq.pc # "idle" => rreq.p \in Profiles)
  BY DEF ProposalTypeOK, RreqType
<1>p. ProfileTypeOK'
  BY DEF ProfileTypeOK, profileVars
<1>1. ASSUME NEW p \in Profiles, ProposalGet(p)
      PROVE  ApiTypeOK' /\ ProposalTypeOK' /\ NamesResolved'
  <2>1. UNCHANGED apiVars /\ UNCHANGED exported
    BY <1>1 DEF ProposalGet
  <2>2. /\ cProposal[p] \in ProposalObj /\ cProfile[p] \in ProfileObj
        /\ GetSnapshot(p) \in Snapshot
        /\ cProfile[p].name \in PolicyNames
    BY <1>1 DEF ProposalGet, ApiTypeOK, GetSnapshot, CMObj, NamesResolved
  <2>3. /\ rreq' \in RreqType /\ rreq'.p = p /\ rreq'.prof = cProfile[p]
    BY <1>1, <2>2, IdleTyped DEF ProposalGet, RreqType, ProposalIdle
  <2> QED
    BY <2>1, <2>2, <2>3
       DEF apiVars, serverVars, cacheVars, ApiTypeOK, ProposalTypeOK, RreqType,
           NamesResolved
<1>2. ASSUME NEW outcome \in Outcomes, ProposalSave(outcome)
      PROVE  ApiTypeOK' /\ ProposalTypeOK' /\ NamesResolved'
  <2>1. rreq.p \in Profiles /\ Generated \in Policy
    BY <1>0, <1>2, GeneratedTyped DEF ProposalSave
  <2>2. [cCM[rreq.p] EXCEPT !.policy = Generated] \in CMObj
    BY <2>1 DEF ApiTypeOK, CMObj
  <2>3. cm' \in [Profiles -> CMObj]
    BY <1>2, <2>1, <2>2, PatchDataTyped
       DEF ProposalSave, SavePolicyYAML, ApiTypeOK
  <2>4. spent' \in Spent
    BY <1>2, AnswerTyped DEF ProposalSave, ApiTypeOK
  <2>5. ApiTypeOK'
    BY <1>2, <2>3, <2>4 DEF ProposalSave, ApiTypeOK, cacheVars
  <2>6. exported' \in [PolicyNames -> Policy]
    BY <1>2, <2>1 DEF ProposalSave, ProposalTypeOK
  <2>7. [rreq EXCEPT !.pc = "applyGet"] \in RreqType
    BY <1>0 DEF RreqType
  <2>8. /\ rreq' \in RreqType
        /\ rreq'.pc # "idle" => rreq'.p \in Profiles
        /\ rreq'.pc \in {"save", "applyGet", "applyWrite"}
             => rreq'.prof = rreq.prof
    <3>1. rreq' \in {ProposalIdle, [rreq EXCEPT !.pc = "applyGet"],
                     AtStatusPatch("PendingApproval")}
      BY <1>2 DEF ProposalSave
    <3>2. AtStatusPatch("PendingApproval") \in RreqType
           /\ AtStatusPatch("PendingApproval").pc = "status"
           /\ AtStatusPatch("PendingApproval").p = rreq.p
      BY <1>0, AtStatusPatchTyped DEF ProposalPhases
    <3> QED
      BY <1>0, <2>1, <2>7, <3>1, <3>2, IdleTyped DEF RreqType
  <2>9. rreq.prof.name \in PolicyNames
    BY <1>2 DEF ProposalSave, NamesResolved
  <2> QED
    BY <1>2, <2>5, <2>6, <2>8, <2>9
       DEF ProposalSave, cacheVars, ProposalTypeOK, RreqType, NamesResolved
<1>3. ASSUME NEW outcome \in Outcomes, ProposalApplyGet(outcome)
      PROVE  ApiTypeOK' /\ ProposalTypeOK' /\ NamesResolved'
  <2>1. rreq.p \in Profiles /\ rreq.prof.name \in PolicyNames
    BY <1>0, <1>3 DEF ProposalApplyGet, NamesResolved
  <2>2. spent' \in Spent
    BY <1>3, AnswerTyped DEF ProposalApplyGet, ApiTypeOK
  <2>3. cnp[rreq.prof.name] \in CNPObj
    BY <2>1 DEF ApiTypeOK
  <2>4. [rreq EXCEPT !.pc = "applyWrite", !.existing = cnp[rreq.prof.name]]
          \in RreqType
    BY <1>0, <2>3 DEF RreqType
  <2>5. /\ rreq' \in RreqType /\ rreq'.p = rreq.p
        /\ rreq'.pc \in {"save", "applyGet", "applyWrite"}
             => rreq'.prof = rreq.prof
    <3>1. AtStatusPatch("Failed") \in RreqType
           /\ AtStatusPatch("Failed").pc = "status"
           /\ AtStatusPatch("Failed").p = rreq.p
      BY <1>0, AtStatusPatchTyped DEF ProposalPhases
    <3> QED
      BY <1>0, <1>3, <2>4, <3>1 DEF ProposalApplyGet, RreqType
  <2> QED
    BY <1>3, <2>1, <2>2, <2>5
       DEF ProposalApplyGet, serverVars, cacheVars, ApiTypeOK, ProposalTypeOK,
           RreqType, NamesResolved
<1>4. ASSUME NEW outcome \in Outcomes, ProposalApplyWrite(outcome)
      PROVE  ApiTypeOK' /\ ProposalTypeOK' /\ NamesResolved'
  <2>1. rreq.p \in Profiles /\ Generated \in Policy
    BY <1>0, <1>4, GeneratedTyped DEF ProposalApplyWrite
  <2>2. AppliedCNP(rreq.prop, Generated) \in CNPObj
    BY <1>0, <2>1 DEF AppliedCNP, CNPObj, RreqType, ProposalObj
  <2>3. cnp' \in [PolicyNames -> CNPObj]
    BY <1>4, <2>2 DEF ProposalApplyWrite, ApiTypeOK
  <2>4. spent' \in Spent
    BY <1>4, AnswerTyped DEF ProposalApplyWrite, ApiTypeOK
  <2>5. rreq' \in RreqType /\ rreq'.p = rreq.p /\ rreq'.pc = "status"
    BY <1>0, <1>4, AtStatusPatchTyped DEF ProposalApplyWrite, ProposalPhases
  <2> QED
    BY <1>4, <2>1, <2>3, <2>4, <2>5
       DEF ProposalApplyWrite, cacheVars, ApiTypeOK, ProposalTypeOK, RreqType,
           NamesResolved
<1>5. ASSUME NEW outcome \in Outcomes, ProposalPatchStatus(outcome)
      PROVE  ApiTypeOK' /\ ProposalTypeOK' /\ NamesResolved'
  <2>1. rreq.p \in Profiles /\ rreq.phase \in ProposalPhases
    BY <1>0, <1>5 DEF ProposalPatchStatus, RreqType
  <2>2. proposal' \in [Profiles -> ProposalObj]
    BY <1>5, <2>1, ProposalPhaseTyped DEF ProposalPatchStatus, ApiTypeOK
  <2>3. spent' \in Spent
    BY <1>5, AnswerTyped DEF ProposalPatchStatus, ApiTypeOK
  <2> QED
    BY <1>5, <2>2, <2>3, IdleTyped
       DEF ProposalPatchStatus, cacheVars, ApiTypeOK, ProposalTypeOK,
           NamesResolved
<1> QED
  BY <1>p, <1>1, <1>2, <1>3, <1>4, <1>5 DEF ProposalNext, ProposalStep

\* The accumulator's snapshot write.
LEMMA FlushTyped ==
  ASSUME TypeInv, UNCHANGED <<profileVars, proposalVars>>,
         NEW w \in Workloads, NEW outcome \in Outcomes,
         FlushSnapshot(w, outcome)
  PROVE  ApiTypeOK' /\ ProfileTypeOK' /\ ProposalTypeOK' /\ NamesResolved'
<1> USE DEF TypeInv, TypeOK
<1> DEFINE snap == [wk |-> w, ver |-> spent.flushes + 1]
<1>1. registry[w] \in Profiles
  BY DEF FlushSnapshot, ProfileTypeOK
<1>2. snap \in Snapshot
  BY DEF ApiTypeOK, Spent, Snapshot
<1>3. [cCM[registry[w]] EXCEPT !.baseline = snap] \in CMObj
  BY <1>1, <1>2 DEF ApiTypeOK, CMObj
<1>4. cm' \in [Profiles -> CMObj]
  BY <1>1, <1>3, PatchDataTyped DEF FlushSnapshot, SaveSnapshot, ApiTypeOK
<1>5. spent' \in Spent
  BY FlushSpends DEF FlushSnapshot, ApiTypeOK
<1> QED
  BY <1>4, <1>5
     DEF FlushSnapshot, cacheVars, ApiTypeOK, ProfileTypeOK, ProposalTypeOK,
         NamesResolved, profileVars, proposalVars

\* A restart of the process.
LEMMA RestartTyped ==
  ASSUME TypeInv, Restart
  PROVE  ApiTypeOK' /\ ProfileTypeOK' /\ ProposalTypeOK' /\ NamesResolved'
<1> USE DEF TypeInv, TypeOK, Restart
<1>1. spent' \in Spent
  BY DEF ApiTypeOK, Spent
<1>2. ApiTypeOK'
  BY <1>1 DEF ApiTypeOK, serverVars
<1>3. ProfileTypeOK' /\ ProposalTypeOK'
  BY IdleTyped DEF ProfileTypeOK, ProposalTypeOK
<1>4. NamesResolved'
  BY IdleTyped DEF NamesResolved, serverVars
<1> QED
  BY <1>2, <1>3, <1>4

\* Every step of the API server and of people.
LEMMA ApiTyped ==
  ASSUME TypeInv, ApiNext, UNCHANGED <<profileVars, proposalVars>>
  PROVE  ApiTypeOK' /\ ProfileTypeOK' /\ ProposalTypeOK' /\ NamesResolved'
BY SyncTyped, CollectTyped, EditTyped DEF ApiNext

\* TypeInv is inductive.
LEMMA NextTyped == TypeInv /\ [Next]_vars => TypeInv'
<1> SUFFICES ASSUME TypeInv, [Next]_vars PROVE TypeInv'
  OBVIOUS
<1>1. ASSUME Next
      PROVE  ApiTypeOK' /\ ProfileTypeOK' /\ ProposalTypeOK' /\ NamesResolved'
  BY <1>1, ApiTyped, ProfileTyped, ProposalTyped, FlushTyped, RestartTyped
     DEF Next
<1>2. CASE Next
  BY <1>1, <1>2, RecordTyped DEF Next, TypeInv, TypeOK, ApiTypeOK
<1>3. CASE UNCHANGED vars
  BY <1>3
     DEF vars, apiVars, serverVars, cacheVars, profileVars, proposalVars,
         historyVars, TypeInv, TypeOK, ApiTypeOK, ProfileTypeOK, ProposalTypeOK,
         NamesResolved
<1> QED
  BY <1>2, <1>3

\* Every reachable state satisfies the inductive invariant.
LEMMA TypeInvariant == Spec => []TypeInv
<1>1. Init => TypeInv
  BY InitTyped
<1>2. TypeInv /\ [Next]_vars => TypeInv'
  BY NextTyped
<1> QED
  BY <1>1, <1>2, PTL DEF Spec

\* Every variable of the operator keeps its type, for any sets of profiles,
\* workloads and policy names and any bounds: no sequence of edits, faults,
\* restarts and stale reads makes a reconcile write a malformed object or
\* index the policies by a missing name.
THEOREM TypeCorrect == Spec => []TypeOK
<1>1. TypeInv => TypeOK
  BY DEF TypeInv
<1> QED
  BY <1>1, TypeInvariant, PTL

-----------------------------------------------------------------------------
(* The gates.                                                              *)

\* The pcs at which the proposal reconcile still holds what it has read.
Deciding == {"save", "applyGet", "applyWrite"}
\* The pcs behind the gate.
Applying == {"applyGet", "applyWrite"}

-----------------------------------------------------------------------------
(* What a step can do.                                                     *)

\* A cache entry only ever becomes what the server holds.
LEMMA CachesCopy ==
  ASSUME TypeInv, Next, NEW p \in Profiles
  PROVE  /\ cProposal'[p] \in {cProposal[p], proposal[p]}
         /\ cProfile'[p] \in {cProfile[p], profile[p]}
         /\ cCM'[p] \in {cCM[p], cm[p]}
<1> USE DEF cacheVars
<1>1. CASE ApiNext
  BY <1>1
     DEF ApiNext, SyncProfile, SyncProposal, SyncCM, CollectProposal, CollectCM,
         CollectCNP, CreateProfile, SetMode, SetTarget, SetPolicyName,
         DeleteProfile, SetApproval, DeleteProposal, DeleteCNP,
         TypeInv, TypeOK, ApiTypeOK
<1>2. CASE ProfileNext
  BY <1>2
     DEF ProfileNext, ProfileStep, ProfileGet, ProfileCreateCM,
         ProfileCreateProposal, ProfilePatchStatus, apiVars
<1>3. CASE ProposalNext
  BY <1>3
     DEF ProposalNext, ProposalStep, ProposalGet, ProposalSave,
         ProposalApplyGet, ProposalApplyWrite, ProposalPatchStatus, apiVars
<1>4. CASE \E w \in Workloads, outcome \in Outcomes : FlushSnapshot(w, outcome)
  BY <1>4 DEF FlushSnapshot
<1>5. CASE Restart
  BY <1>5 DEF Restart
<1> QED
  BY <1>1, <1>2, <1>3, <1>4, <1>5 DEF Next

\* The proposal reconcile takes its reads from the caches, passes the gate only
\* with both conditions met, and forgets what it read when it is done deciding.
LEMMA ReconcileReads ==
  ASSUME TypeInv, Next, rreq'.pc \in Deciding
  PROVE  \/ /\ rreq'.pc = "save" /\ rreq'.p \in Profiles
            /\ rreq'.prop = cProposal[rreq'.p] /\ rreq'.prof = cProfile[rreq'.p]
            /\ Exists(rreq'.prop) /\ Exists(rreq'.prof)
         \/ /\ rreq.pc \in Deciding /\ rreq'.p = rreq.p
            /\ rreq'.prop = rreq.prop /\ rreq'.prof = rreq.prof
            /\ rreq'.snap = rreq.snap
            /\ \/ rreq'.pc = rreq.pc
               \/ rreq'.pc = "applyGet" /\ MayApply(rreq.prop, rreq.prof)
               \/ rreq'.pc = "applyWrite" /\ rreq.pc = "applyGet"
<1> USE DEF Deciding
<1>0. rreq \in RreqType
  BY DEF TypeInv, TypeOK, ProposalTypeOK, RreqType
<1>1. CASE UNCHANGED proposalVars
  BY <1>1 DEF proposalVars
<1>2. ASSUME NEW p \in Profiles, ProposalGet(p)
      PROVE  /\ rreq'.pc = "save" /\ rreq'.p = p
             /\ rreq'.prop = cProposal[p] /\ rreq'.prof = cProfile[p]
             /\ Exists(rreq'.prop) /\ Exists(rreq'.prof)
  BY <1>2 DEF ProposalGet, ProposalIdle
<1>3. ASSUME NEW phase PROVE AtStatusPatch(phase).pc = "status"
  BY DEF AtStatusPatch, ProposalIdle
<1>4. ASSUME NEW outcome \in Outcomes, ProposalSave(outcome)
      PROVE  /\ rreq.pc \in Deciding /\ MayApply(rreq.prop, rreq.prof)
             /\ rreq' = [rreq EXCEPT !.pc = "applyGet"]
  BY <1>3, <1>4, IdleTyped DEF ProposalSave
<1>5. ASSUME NEW outcome \in Outcomes, ProposalApplyGet(outcome)
      PROVE  /\ rreq.pc = "applyGet"
             /\ rreq' = [rreq EXCEPT !.pc = "applyWrite",
                                     !.existing = cnp[rreq.prof.name]]
  BY <1>3, <1>5 DEF ProposalApplyGet
<1>6. ASSUME NEW outcome \in Outcomes,
             ProposalApplyWrite(outcome) \/ ProposalPatchStatus(outcome)
      PROVE  FALSE
  BY <1>3, <1>6, IdleTyped DEF ProposalApplyWrite, ProposalPatchStatus
<1>7. CASE Restart
  BY <1>7, IdleTyped DEF Restart
<1>8. CASE ProposalNext
  BY <1>0, <1>2, <1>4, <1>5, <1>6, <1>8 DEF ProposalNext, ProposalStep, RreqType
<1> QED
  BY <1>1, <1>7, <1>8 DEF Next

\* A CiliumNetworkPolicy changes by being removed or by the write of a
\* reconcile that is past the gate, under the name of the profile it read.
LEMMA PoliciesWritten ==
  ASSUME TypeInv, Next, NEW n \in PolicyNames
  PROVE  \/ cnp'[n] = cnp[n]
         \/ cnp'[n] = NoCNP
         \/ /\ rreq.pc = "applyWrite" /\ rreq.p \in Profiles
            /\ n = rreq.prof.name
            /\ cnp'[n] = AppliedCNP(rreq.prop, Generated)
<1> USE DEF TypeInv, TypeOK, ApiTypeOK
<1>1. CASE ApiNext
  BY <1>1
     DEF ApiNext, SyncProfile, SyncProposal, SyncCM, CollectProposal, CollectCM,
         CollectCNP, CreateProfile, SetMode, SetTarget, SetPolicyName,
         DeleteProfile, SetApproval, DeleteProposal, DeleteCNP, serverVars
<1>2. CASE ProfileNext
  BY <1>2
     DEF ProfileNext, ProfileStep, ProfileGet, ProfileCreateCM,
         ProfileCreateProposal, ProfilePatchStatus, apiVars, serverVars
<1>3. ASSUME NEW outcome \in Outcomes, ProposalApplyWrite(outcome)
      PROVE  \/ cnp'[n] = cnp[n]
             \/ /\ rreq.pc = "applyWrite" /\ rreq.p \in Profiles
                /\ n = rreq.prof.name
                /\ cnp'[n] = AppliedCNP(rreq.prop, Generated)
  BY <1>3 DEF ProposalApplyWrite, ProposalTypeOK
<1>4. CASE ProposalNext
  BY <1>3, <1>4
     DEF ProposalNext, ProposalStep, ProposalGet, ProposalSave,
         ProposalApplyGet, ProposalPatchStatus, apiVars, serverVars
<1>5. CASE \E w \in Workloads, outcome \in Outcomes : FlushSnapshot(w, outcome)
  BY <1>5 DEF FlushSnapshot
<1>6. CASE Restart
  BY <1>6 DEF Restart, serverVars
<1> QED
  BY <1>1, <1>2, <1>4, <1>5, <1>6 DEF Next

-----------------------------------------------------------------------------
(* An applied policy belongs to an approved proposal.                      *)

\* Wherever an approved copy of a proposal is, on the server, in the cache or
\* in the hands of a reconcile, its uid is one a human approved; and behind the
\* gate the copy in hand is an approved one.
GateInv ==
  /\ \A p \in Profiles :
       /\ proposal[p].approved => proposal[p].uid \in approvedUids
       /\ cProposal[p].approved => cProposal[p].uid \in approvedUids
  /\ rreq.pc \in Deciding /\ rreq.prop.approved
       => rreq.prop.uid \in approvedUids
  /\ rreq.pc \in Applying => rreq.prop.approved
  /\ ApprovedBeforeApplied

\* GateInv is inductive, given the types.
LEMMA GateNext == TypeInv /\ GateInv /\ [Next]_vars => GateInv'
<1> SUFFICES ASSUME TypeInv, GateInv, [Next]_vars PROVE GateInv'
  OBVIOUS
<1>1. CASE UNCHANGED vars
  BY <1>1
     DEF GateInv, ApprovedBeforeApplied, vars, apiVars, serverVars, cacheVars,
         proposalVars, historyVars
<1>2. CASE Next
  <2>1. approvedUids \subseteq approvedUids'
    BY <1>2 DEF Next, Record
  <2>2. ASSUME NEW p \in Profiles, proposal'[p].approved
        PROVE  proposal'[p].uid \in approvedUids'
    BY <1>2, <2>2 DEF Next, Record
  <2>3. ASSUME NEW p \in Profiles, cProposal'[p].approved
        PROVE  cProposal'[p].uid \in approvedUids'
    BY <1>2, <2>1, <2>3, CachesCopy DEF GateInv
  <2>4. ASSUME rreq'.pc \in Deciding, rreq'.prop.approved
        PROVE  rreq'.prop.uid \in approvedUids'
    BY <1>2, <2>1, <2>4, ReconcileReads DEF GateInv
  <2>5. ASSUME rreq'.pc \in Applying
        PROVE  rreq'.prop.approved
    BY <1>2, <2>5, ReconcileReads DEF GateInv, MayApply, Applying, Deciding
  <2>6. ASSUME NEW n \in PolicyNames, Owned(cnp'[n])
        PROVE  cnp'[n].owner \in approvedUids'
    <3>1. ~Owned(NoCNP)
      BY DEF Owned, NoCNP
    <3>2. AppliedCNP(rreq.prop, Generated).owner = rreq.prop.uid
      BY DEF AppliedCNP
    <3>3. rreq.pc = "applyWrite" => rreq.prop.uid \in approvedUids
      BY DEF GateInv, Applying, Deciding
    <3> QED
      BY <1>2, <2>1, <2>6, <3>1, <3>2, <3>3, PoliciesWritten
         DEF GateInv, ApprovedBeforeApplied
  <2> QED
    BY <2>2, <2>3, <2>4, <2>5, <2>6 DEF GateInv, ApprovedBeforeApplied, Owned
<1> QED
  BY <1>1, <1>2

\* A CiliumNetworkPolicy is owned by a proposal that was approved, whatever the
\* caches, the faults and the restarts do
\* (egresspolicyproposal_controller.go:104-120, 153-203).
THEOREM ApprovalGate == Spec => []ApprovedBeforeApplied
<1>1. ASSUME Init PROVE GateInv
  <2>1. rreq.pc = "idle"
    BY <1>1, IdleTyped DEF Init, ProposalInit
  <2>2. \A p \in Profiles : ~proposal[p].approved /\ ~cProposal[p].approved
    BY <1>1 DEF Init, ApiInit, NoProposal
  <2>3. \A n \in PolicyNames : ~Owned(cnp[n])
    BY <1>1 DEF Init, ApiInit, NoCNP, Owned
  <2> QED
    BY <2>1, <2>2, <2>3 DEF GateInv, ApprovedBeforeApplied, Deciding, Applying
<1>2. GateInv => ApprovedBeforeApplied
  BY DEF GateInv
<1> QED
  BY <1>1, <1>2, TypeInvariant, GateNext, PTL DEF Spec

-----------------------------------------------------------------------------
(* An applied policy selects a profile that was put in mode Enforce.       *)

\* Wherever a copy of a profile in mode Enforce is, that profile has been in
\* mode Enforce; and behind the gate the copy in hand is such a one.
ModeInv ==
  /\ \A p \in Profiles :
       /\ Exists(profile[p]) /\ profile[p].mode = "Enforce" => p \in enforced
       /\ Exists(cProfile[p]) /\ cProfile[p].mode = "Enforce" => p \in enforced
  /\ rreq.pc \in Deciding =>
       /\ rreq.p \in Profiles /\ Exists(rreq.prof)
       /\ rreq.prof.mode = "Enforce" => rreq.p \in enforced
  /\ rreq.pc \in Applying => rreq.prof.mode = "Enforce"
  /\ EnforcedBeforeApplied

\* ModeInv is inductive, given the types.
LEMMA ModeNext == TypeInv /\ ModeInv /\ [Next]_vars => ModeInv'
<1> SUFFICES ASSUME TypeInv, ModeInv, [Next]_vars PROVE ModeInv'
  OBVIOUS
<1>1. CASE UNCHANGED vars
  BY <1>1
     DEF ModeInv, EnforcedBeforeApplied, vars, apiVars, serverVars, cacheVars,
         proposalVars, historyVars
<1>2. CASE Next
  <2>1. enforced \subseteq enforced'
    BY <1>2 DEF Next, Record
  <2>2. ASSUME NEW p \in Profiles, Exists(profile'[p]),
               profile'[p].mode = "Enforce"
        PROVE  p \in enforced'
    BY <1>2, <2>2 DEF Next, Record
  <2>3. ASSUME NEW p \in Profiles, Exists(cProfile'[p]),
               cProfile'[p].mode = "Enforce"
        PROVE  p \in enforced'
    BY <1>2, <2>1, <2>3, CachesCopy DEF ModeInv
  <2>4. ASSUME rreq'.pc \in Deciding
        PROVE  /\ rreq'.p \in Profiles /\ Exists(rreq'.prof)
               /\ rreq'.prof.mode = "Enforce" => rreq'.p \in enforced'
    BY <1>2, <2>1, <2>4, ReconcileReads DEF ModeInv
  <2>5. ASSUME rreq'.pc \in Applying
        PROVE  rreq'.prof.mode = "Enforce"
    BY <1>2, <2>5, ReconcileReads DEF ModeInv, MayApply, Applying, Deciding
  <2>6. ASSUME NEW n \in PolicyNames, Owned(cnp'[n])
        PROVE  cnp'[n].policy.app \in enforced'
    <3>1. ~Owned(NoCNP)
      BY DEF Owned, NoCNP
    <3>2. AppliedCNP(rreq.prop, Generated).policy.app = rreq.p
      BY DEF AppliedCNP, Generated
    <3>3. rreq.pc = "applyWrite" => rreq.p \in enforced
      BY DEF ModeInv, Applying, Deciding
    <3> QED
      BY <1>2, <2>1, <2>6, <3>1, <3>2, <3>3, PoliciesWritten
         DEF ModeInv, EnforcedBeforeApplied
  <2> QED
    BY <2>2, <2>3, <2>4, <2>5, <2>6
       DEF ModeInv, EnforcedBeforeApplied, Owned, Exists
<1> QED
  BY <1>1, <1>2

\* A CiliumNetworkPolicy selects a profile that has been in mode Enforce
\* (egresspolicyproposal_controller.go:66-82, 104-120).
THEOREM ModeGate == Spec => []EnforcedBeforeApplied
<1>1. ASSUME Init PROVE ModeInv
  <2>1. rreq.pc = "idle"
    BY <1>1, IdleTyped DEF Init, ProposalInit
  <2>2. \A p \in Profiles : ~Exists(profile[p]) /\ ~Exists(cProfile[p])
    BY <1>1 DEF Init, ApiInit, NoProfile, Exists
  <2>3. \A n \in PolicyNames : ~Owned(cnp[n])
    BY <1>1 DEF Init, ApiInit, NoCNP, Owned
  <2> QED
    BY <2>1, <2>2, <2>3 DEF ModeInv, EnforcedBeforeApplied, Deciding, Applying
<1>2. ModeInv => EnforcedBeforeApplied
  BY DEF ModeInv
<1> QED
  BY <1>1, <1>2, TypeInvariant, ModeNext, PTL DEF Spec
=============================================================================
