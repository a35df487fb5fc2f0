-------------------------- MODULE MCEgressOperator --------------------------
(* EgressOperator for TLC: the edits people make in each run.              *)
EXTENDS EgressOperator

\* Everything but edits of the profile's other fields.
Lifecycle == {"create", "mode", "approve", "revoke", "delete",
              "deleteProposal", "deleteCNP"}
\* The workflow of the README, back and forth, with the policy deleted behind
\* the operator's back.
Workflow == {"create", "mode", "approve", "revoke", "deleteCNP"}
\* Nothing but what it takes to get a policy applied and to remove it.
Removal == {"create", "approve", "delete"}
\* Edits of the other fields of the profile.
Editing == {"create", "target", "name"}

\* A cluster that has come to rest: all profiles are enforced and have one
\* target and one policy name in common, so that the policy in force is that of
\* the last to apply and the registration that of the last to register.
SettledPolicy(p) ==
  [app |-> p, name |-> CHOOSE n \in PolicyNames : TRUE, snap |-> NoSnapshot]
SettledInit ==
  LET target == CHOOSE w \in Workloads : TRUE
      name == CHOOSE n \in PolicyNames : TRUE
      uids == CHOOSE f \in [Profiles -> 1..Cardinality(Profiles)] :
                \A p, q \in Profiles : f[p] = f[q] => p = q
      n == Cardinality(Profiles)
  IN
  /\ profile = [p \in Profiles |->
       [uid |-> uids[p], mode |-> "Enforce", target |-> target, name |-> name,
        phase |-> "Enforced", seen |-> NoSnapshot]]
  /\ proposal = [p \in Profiles |->
       [uid |-> n + uids[p], owner |-> uids[p], approved |-> TRUE,
        name |-> name, phase |-> "Applied"]]
  /\ cm = [p \in Profiles |-> [owner |-> uids[p], baseline |-> NoSnapshot,
                               policy |-> SettledPolicy(p)]]
  /\ \E p \in Profiles :
       /\ cnp = [m \in PolicyNames |-> IF m = name
            THEN [owner |-> proposal[p].uid, policy |-> SettledPolicy(p)]
            ELSE NoCNP]
       /\ registry = [w \in Workloads |-> IF w = target THEN p ELSE None]
  /\ cProfile = profile /\ cProposal = proposal /\ cCM = cm
  /\ nextUid = 2 * n + 1
  /\ spent = [edits |-> 0, faults |-> 0, flushes |-> 0]
  /\ preq = ProfileIdle
  /\ rreq = ProposalIdle
  /\ exported = [m \in PolicyNames |-> IF GitOps /\ cnp[m] # NoCNP
                                         THEN cnp[m].policy ELSE NoPolicy]
  /\ approvedUids = {proposal[p].uid : p \in Profiles}
  /\ enforced = Profiles /\ applied = Profiles
  /\ published = {NoPolicy} \cup {SettledPolicy(p) : p \in Profiles}

SettledSpec ==
  SettledInit /\ [][Next]_vars
    /\ ApiFairness /\ ProfileFairness /\ ProposalFairness
=============================================================================
