----------------------- MODULE EgressProfileController -----------------------
(***************************************************************************)
(* internal/controller/egressprofile_controller.go.  Reconcile is a        *)
(* sequence of API calls on behalf of one profile, run by one worker; what *)
(* it has read is kept in its locals (preq) while everybody else goes on.  *)
(*                                                                         *)
(* A finished reconcile is requeued after 30s and a failed one with        *)
(* backoff, so the worker may take up any profile in its cache at any time *)
(* it is idle.  Reads from the caches that follow one another are one      *)
(* step; every call of the API server is a step of its own.                *)
(***************************************************************************)
EXTENDS ConfigMapStore

VARIABLES
  preq,      \* the reconcile in progress
  registry   \* the accumulator's map from workload key to ConfigMap

profileVars == <<preq, registry>>

ProfileIdle == [pc |-> "idle", p |-> None, prof |-> NoProfile,
                snap |-> NoSnapshot, phase |-> ""]

ProfileTypeOK ==
  /\ preq \in [pc : {"idle", "createCM", "createProposal", "status"},
               p : Profiles \cup {None}, prof : ProfileObj,
               snap : Snapshot, phase : ProfilePhases]
  /\ (preq.pc # "idle" => preq.p \in Profiles)
  /\ registry \in [Workloads -> Profiles \cup {None}]

ProfileInit ==
  /\ preq = ProfileIdle
  /\ registry = [w \in Workloads |-> None]

-----------------------------------------------------------------------------
\* Mutated forms: the proposal's phase is copied; the mode is taken for its
\* effect.
PhaseCopied(mode, proposalPhase) ==
  IF mode = "Observe" THEN "Observing" ELSE proposalPhase
PhaseOfMode(mode, proposalPhase) ==
  CASE mode = "Observe" -> "Observing"
    [] mode = "Suggest" -> "Proposed"
    [] OTHER -> "Enforced"

\* The phase the profile reports, from its mode and its proposal's phase.
PhaseOf(mode, proposalPhase) ==
  CASE mode = "Observe" -> "Observing"
    [] mode # "Observe" /\ proposalPhase = "Applied" -> "Enforced"
    [] mode = "Enforce" /\ proposalPhase \in {"PendingApproval", "Approved"} ->
         "AwaitingApproval"
    [] OTHER -> "Proposed"

\* Mutated form: no owner reference.
NewProposalUnowned(prof) ==
  [NoProposal EXCEPT !.uid = nextUid, !.name = prof.name]

\* The proposal ensureProposal creates for a profile.
NewProposal(prof) ==
  [NoProposal EXCEPT !.uid = nextUid, !.owner = prof.uid, !.name = prof.name]

\* The locals the status patch needs: what was read and what is to be written.
AtStatus(p, prof, snap, phase) ==
  [pc |-> "status", p |-> p,
   prof |-> [NoProfile EXCEPT !.phase = prof.phase, !.seen = prof.seen],
   snap |-> snap, phase |-> phase]

\* Once the ConfigMap is there: RegisterWorkload, GetSnapshot (an error reads as
\* the empty snapshot), and the cached Get of ensureProposal, whose phase
\* decides the profile's.
RegisterAndRead(p, prof) ==
  /\ registry' = [registry EXCEPT ![prof.target] = p]
  /\ preq' = IF prof.mode = "Observe" \/ Exists(cProposal[p])
               THEN AtStatus(p, prof, GetSnapshot(p),
                             PhaseOf(prof.mode, cProposal[p].phase))
               ELSE [pc |-> "createProposal", p |-> p, prof |-> prof,
                     snap |-> GetSnapshot(p), phase |-> ""]

\* Get, a cached read: a profile the cache does not hold ends the reconcile.
\* Then EnsureConfigMap looks for the ConfigMap in the cache.
ProfileGet(p) ==
  /\ preq.pc = "idle"
  /\ Exists(cProfile[p])
  /\ IF Owned(cCM[p])
       THEN RegisterAndRead(p, cProfile[p])
       ELSE /\ preq' = [ProfileIdle EXCEPT !.pc = "createCM", !.p = p,
                                           !.prof = cProfile[p]]
            /\ UNCHANGED registry
  /\ UNCHANGED apiVars

\* EnsureConfigMap creates the ConfigMap; an error ends the reconcile.
ProfileCreateCM(outcome) ==
  /\ preq.pc = "createCM"
  /\ Answer(outcome)
  /\ cm' = CreateConfigMap(preq.p, preq.prof.uid, outcome)
  /\ IF CreateFails(cm[preq.p].owner, outcome)
       THEN preq' = ProfileIdle /\ UNCHANGED registry
       ELSE RegisterAndRead(preq.p, preq.prof)
  /\ UNCHANGED <<profile, proposal, cnp, cacheVars, nextUid>>

\* ensureProposal creates the proposal; Create answers AlreadyExists when the
\* cache lags, and an error ends the reconcile.
ProfileCreateProposal(outcome) ==
  /\ preq.pc = "createProposal"
  /\ Answer(outcome)
  /\ IF Exists(proposal[preq.p]) \/ outcome = "rejected"
       THEN UNCHANGED <<proposal, nextUid>>
       ELSE /\ proposal' = [proposal EXCEPT ![preq.p] = NewProposal(preq.prof)]
            /\ GiveUid
  /\ preq' = IF CreateFails(proposal[preq.p].uid, outcome)
               THEN ProfileIdle
               ELSE AtStatus(preq.p, preq.prof, preq.snap,
                             PhaseOf(preq.prof.mode, ""))
  /\ UNCHANGED <<profile, cm, cnp, cacheVars, registry>>

\* Mutated form: nothing is written while the phase is what it was.
PatchedIfPhaseDiffers(prof, req) ==
  IF req.phase = req.prof.phase THEN prof
  ELSE [prof EXCEPT !.phase = MergedField(@, req.prof.phase, req.phase),
                    !.seen = MergedField(@, req.prof.seen, req.snap)]

\* The status fields that differ from the copy Get returned.
Patched(prof, req) ==
  [prof EXCEPT !.phase = MergedField(@, req.prof.phase, req.phase),
               !.seen = MergedField(@, req.prof.seen, req.snap)]

\* Status().Patch.
ProfilePatchStatus(outcome) ==
  /\ preq.pc = "status"
  /\ Answer(outcome)
  /\ profile' =
       IF Exists(profile[preq.p]) /\ outcome # "rejected"
         THEN [profile EXCEPT ![preq.p] = Patched(@, preq)]
         ELSE profile
  /\ preq' = ProfileIdle
  /\ UNCHANGED <<proposal, cm, cnp, cacheVars, nextUid, registry>>

\* One step of the reconcile in progress.
ProfileStep ==
  \E outcome \in Outcomes :
    \/ ProfileCreateCM(outcome)
    \/ ProfileCreateProposal(outcome)
    \/ ProfilePatchStatus(outcome)

ProfileNext == ProfileStep \/ \E p \in Profiles : ProfileGet(p)

\* The queue holds every profile again after each reconcile, and a reconcile
\* that has begun runs to its end.
ProfileFairness ==
  /\ WF_<<apiVars, profileVars>>(ProfileStep)
  /\ \A p \in Profiles : SF_<<apiVars, profileVars>>(ProfileGet(p))
=============================================================================
