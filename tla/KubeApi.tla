------------------------------ MODULE KubeApi ------------------------------
(***************************************************************************)
(* The Kubernetes API server as the operator sees it: the four kinds of    *)
(* object it reads and writes, the informer caches its typed reads are     *)
(* served from, the garbage collector that follows owner references, and   *)
(* the people who edit the objects.  None of this code is in the           *)
(* repository; it is modelled from how the repository's client calls use   *)
(* it.                                                                     *)
(*                                                                         *)
(* Every namespaced name the operator derives from a profile name (the     *)
(* proposal "<p>-proposal", the ConfigMap "egress-guardian-<p>") is in     *)
(* bijection with the profile name, so the objects are indexed by profile. *)
(* CiliumNetworkPolicies have names of their own.                          *)
(***************************************************************************)
EXTENDS Naturals, FiniteSets

CONSTANTS
  Profiles,     \* names of EgressProfile objects
  Workloads,    \* workload keys "namespace/kind/name"
  PolicyNames,  \* names of CiliumNetworkPolicy objects
  None,         \* stands for "no workload", "no policy", "no name"
  UserOps,      \* the kinds of edit people make
  NewModes,     \* the modes profiles are created with
  MaxEdits,     \* bound: edits people make
  MaxFaults,    \* bound: API calls that fail or whose answer is lost, and
                \* restarts of the operator
  MaxUid,       \* bound: uids given out
  MaxFlushes    \* bound: baseline snapshots written

ASSUME NoneAssumption == /\ None \notin Profiles
                         /\ None \notin Workloads
                         /\ None \notin PolicyNames
ASSUME ModesAssumption == NewModes \subseteq {"Observe", "Suggest", "Enforce"}
ASSUME BoundsAssumption == /\ MaxEdits \in Nat
                           /\ MaxFaults \in Nat
                           /\ MaxUid \in Nat
                           /\ MaxFlushes \in Nat

VARIABLES
  profile,    \* EgressProfile objects on the server
  proposal,   \* EgressPolicyProposal objects
  cm,         \* baseline ConfigMaps
  cnp,        \* CiliumNetworkPolicy objects
  cProfile, cProposal, cCM,  \* what the informer caches hold of the first three
  nextUid,    \* the next metadata.uid
  spent       \* how much of each bound has been used

serverVars == <<profile, proposal, cm, cnp>>
cacheVars == <<cProfile, cProposal, cCM>>
apiVars == <<serverVars, cacheVars, nextUid, spent>>

-----------------------------------------------------------------------------
(* The objects, reduced to the fields some condition or property reads.    *)

\* The phases the code assigns ("Draft" of a proposal and "Failed" of a profile
\* are declared and never used); "" is a status nobody has written yet.
Modes == {"Observe", "Suggest", "Enforce"}
ProfilePhases == {"", "Observing", "Proposed", "AwaitingApproval", "Enforced"}
ProposalPhases == {"", "PendingApproval", "Approved", "Applied", "Failed"}

\* uid 0 is never given out: it marks an absent object or a missing owner.
NoUid == 0

\* baseline.json: the workload it describes and its place in the order of writes.
Snapshot == [wk : Workloads \cup {None}, ver : Nat]
NoSnapshot == [wk |-> None, ver |-> 0]

\* A generated policy is determined by the profile it selects, its
\* metadata.name and the snapshot its rules were built from.
Policy == [app : Profiles \cup {None}, name : PolicyNames \cup {None},
           snap : Snapshot]
NoPolicy == [app |-> None, name |-> None, snap |-> NoSnapshot]

\* name is the resolved policy name: spec.policy.generatedPolicyName, or the
\* default made from the profile's name when that is empty.  seen stands for
\* the status counters computed from the baseline (the number of destinations,
\* the flag, the risk summary); status.message, which not every
\* reconcile writes, is left out.
ProfileObj == [uid : Nat, mode : Modes, target : Workloads \cup {None},
               name : PolicyNames \cup {None}, phase : ProfilePhases,
               seen : Snapshot]
NoProfile == [uid |-> NoUid, mode |-> "Observe", target |-> None,
              name |-> None, phase |-> "", seen |-> NoSnapshot]

ProposalObj == [uid : Nat, owner : Nat, approved : BOOLEAN,
                name : PolicyNames \cup {None}, phase : ProposalPhases]
NoProposal == [uid |-> NoUid, owner |-> NoUid, approved |-> FALSE,
               name |-> None, phase |-> ""]

\* No code reads the uid of a ConfigMap or of a CiliumNetworkPolicy, and the
\* operator never creates one without an owner.
CMObj == [owner : Nat, baseline : Snapshot, policy : Policy]
NoCM == [owner |-> NoUid, baseline |-> NoSnapshot, policy |-> NoPolicy]

CNPObj == [owner : Nat, policy : Policy]
NoCNP == [owner |-> NoUid, policy |-> NoPolicy]

Exists(obj) == obj.uid # NoUid
Owned(obj) == obj.owner # NoUid

Spent == [edits : Nat, faults : Nat, flushes : Nat]

ApiTypeOK ==
  /\ profile \in [Profiles -> ProfileObj]
  /\ proposal \in [Profiles -> ProposalObj]
  /\ cm \in [Profiles -> CMObj]
  /\ cnp \in [PolicyNames -> CNPObj]
  /\ cProfile \in [Profiles -> ProfileObj]
  /\ cProposal \in [Profiles -> ProposalObj]
  /\ cCM \in [Profiles -> CMObj]
  /\ nextUid \in Nat \ {NoUid}
  /\ spent \in Spent

ApiInit ==
  /\ profile = [p \in Profiles |-> NoProfile]
  /\ proposal = [p \in Profiles |-> NoProposal]
  /\ cm = [p \in Profiles |-> NoCM]
  /\ cnp = [n \in PolicyNames |-> NoCNP]
  /\ cProfile = profile
  /\ cProposal = proposal
  /\ cCM = cm
  /\ nextUid = 1
  /\ spent = [edits |-> 0, faults |-> 0, flushes |-> 0]

-----------------------------------------------------------------------------
(* A call of the API: it is answered, it is rejected without an effect, or *)
(* it takes effect and the answer is lost.                                 *)

Outcomes == {"ok", "rejected", "lost"}

\* What an API call costs: anything but an answer uses up a fault.
Answer(outcome) ==
  \/ outcome = "ok" /\ spent' = spent
  \/ /\ outcome \in {"rejected", "lost"}
     /\ spent.faults < MaxFaults
     /\ spent' = [spent EXCEPT !.faults = @ + 1]

\* An object is created under the next uid.
GiveUid == nextUid <= MaxUid /\ nextUid' = nextUid + 1

\* Create answers AlreadyExists when there is an object of that name (given by
\* its uid or its owner) already: the caller's cache lagged.
CreateFails(existing, outcome) == existing # NoUid \/ outcome # "ok"

\* A JSON merge patch carries the fields in which the modified copy differs
\* from the copy that was read; the server applies it without looking at the
\* uid or the resourceVersion.
MergedField(server, read, new) == IF new = read THEN server ELSE new

-----------------------------------------------------------------------------
(* Informers: the cached copy catches up with the server.                  *)

SyncProfile(p) ==
  /\ cProfile[p] # profile[p]
  /\ cProfile' = [cProfile EXCEPT ![p] = profile[p]]
  /\ UNCHANGED <<serverVars, cProposal, cCM, nextUid, spent>>

SyncProposal(p) ==
  /\ cProposal[p] # proposal[p]
  /\ cProposal' = [cProposal EXCEPT ![p] = proposal[p]]
  /\ UNCHANGED <<serverVars, cProfile, cCM, nextUid, spent>>

SyncCM(p) ==
  /\ cCM[p] # cm[p]
  /\ cCM' = [cCM EXCEPT ![p] = cm[p]]
  /\ UNCHANGED <<serverVars, cProfile, cProposal, nextUid, spent>>

-----------------------------------------------------------------------------
(* The garbage collector removes an object whose owner is gone.            *)

Orphaned(obj, live) == Owned(obj) /\ obj.owner \notin live

LiveProfiles == {profile[p].uid : p \in Profiles}
LiveProposals == {proposal[p].uid : p \in Profiles}

CollectProposal(p) ==
  /\ Orphaned(proposal[p], LiveProfiles)
  /\ proposal' = [proposal EXCEPT ![p] = NoProposal]
  /\ UNCHANGED <<profile, cm, cnp, cacheVars, nextUid, spent>>

CollectCM(p) ==
  /\ Orphaned(cm[p], LiveProfiles)
  /\ cm' = [cm EXCEPT ![p] = NoCM]
  /\ UNCHANGED <<profile, proposal, cnp, cacheVars, nextUid, spent>>

CollectCNP(n) ==
  /\ Orphaned(cnp[n], LiveProposals)
  /\ cnp' = [cnp EXCEPT ![n] = NoCNP]
  /\ UNCHANGED <<profile, proposal, cm, cacheVars, nextUid, spent>>

-----------------------------------------------------------------------------
(* People: the platform team edits profiles, the approver edits proposals. *)

Edit(op) ==
  /\ op \in UserOps
  /\ spent.edits < MaxEdits
  /\ spent' = [spent EXCEPT !.edits = @ + 1]

CreateProfile(p, m, w, n) ==
  /\ Edit("create")
  /\ ~Exists(profile[p])
  /\ profile' = [profile EXCEPT ![p] = [NoProfile EXCEPT
                   !.uid = nextUid, !.mode = m, !.target = w, !.name = n]]
  /\ GiveUid
  /\ UNCHANGED <<proposal, cm, cnp, cacheVars>>

SetMode(p, m) ==
  /\ Edit("mode")
  /\ Exists(profile[p]) /\ profile[p].mode # m
  /\ profile' = [profile EXCEPT ![p].mode = m]
  /\ UNCHANGED <<proposal, cm, cnp, cacheVars, nextUid>>

SetTarget(p, w) ==
  /\ Edit("target")
  /\ Exists(profile[p]) /\ profile[p].target # w
  /\ profile' = [profile EXCEPT ![p].target = w]
  /\ UNCHANGED <<proposal, cm, cnp, cacheVars, nextUid>>

SetPolicyName(p, n) ==
  /\ Edit("name")
  /\ Exists(profile[p]) /\ profile[p].name # n
  /\ profile' = [profile EXCEPT ![p].name = n]
  /\ UNCHANGED <<proposal, cm, cnp, cacheVars, nextUid>>

DeleteProfile(p) ==
  /\ Edit("delete")
  /\ Exists(profile[p])
  /\ profile' = [profile EXCEPT ![p] = NoProfile]
  /\ UNCHANGED <<proposal, cm, cnp, cacheVars, nextUid>>

SetApproval(p, approved) ==
  /\ Edit(IF approved THEN "approve" ELSE "revoke")
  /\ Exists(proposal[p]) /\ proposal[p].approved # approved
  /\ proposal' = [proposal EXCEPT ![p].approved = approved]
  /\ UNCHANGED <<profile, cm, cnp, cacheVars, nextUid>>

DeleteProposal(p) ==
  /\ Edit("deleteProposal")
  /\ Exists(proposal[p])
  /\ proposal' = [proposal EXCEPT ![p] = NoProposal]
  /\ UNCHANGED <<profile, cm, cnp, cacheVars, nextUid>>

DeleteCNP(n) ==
  /\ Edit("deleteCNP")
  /\ Owned(cnp[n])
  /\ cnp' = [cnp EXCEPT ![n] = NoCNP]
  /\ UNCHANGED <<profile, proposal, cm, cacheVars, nextUid>>

ApiNext ==
  \/ \E p \in Profiles :
       \/ SyncProfile(p) \/ SyncProposal(p) \/ SyncCM(p)
       \/ CollectProposal(p) \/ CollectCM(p)
       \/ \E m \in NewModes, w \in Workloads, n \in PolicyNames :
            CreateProfile(p, m, w, n)
       \/ \E m \in Modes : SetMode(p, m)
       \/ \E w \in Workloads : SetTarget(p, w)
       \/ \E n \in PolicyNames : SetPolicyName(p, n)
       \/ DeleteProfile(p)
       \/ \E approved \in BOOLEAN : SetApproval(p, approved)
       \/ DeleteProposal(p)
  \/ \E n \in PolicyNames : CollectCNP(n) \/ DeleteCNP(n)

\* Informers and the garbage collector keep running.
ApiFairness ==
  /\ \A p \in Profiles :
       /\ WF_apiVars(SyncProfile(p))
       /\ WF_apiVars(SyncProposal(p))
       /\ WF_apiVars(SyncCM(p))
       /\ WF_apiVars(CollectProposal(p))
       /\ WF_apiVars(CollectCM(p))
  /\ \A n \in PolicyNames : WF_apiVars(CollectCNP(n))
=============================================================================
