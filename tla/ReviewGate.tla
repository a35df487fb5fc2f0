----------------------------- MODULE ReviewGate -----------------------------
(***************************************************************************)
(* What the operator promises ("observe -> suggest -> enforce", with a     *)
(* human in between), without controllers, caches or API calls: people     *)
(* grant, the operator publishes, and a policy comes into force only when  *)
(* everything it needs has been granted.                                   *)
(***************************************************************************)
CONSTANTS Profiles, PolicyNames, NoPolicy, NoCNP

VARIABLES
  approved,    \* uids of proposals that have been approved
  enforced,    \* profiles that have been put in mode Enforce
  published,   \* policies that have been up for review
  inForce,     \* the CiliumNetworkPolicy under each name
  applied,     \* profiles a policy has come into force for
  reported     \* profiles that say they are enforced

vars == <<approved, enforced, published, inForce, applied, reported>>

Init ==
  /\ approved = {} /\ enforced = {} /\ published = {NoPolicy}
  /\ inForce = [n \in PolicyNames |-> NoCNP]
  /\ applied = {} /\ reported = {}

\* A proposal is approved, a profile put in mode Enforce, a policy published.
\* A grant is on record for ever.
Grant ==
  /\ approved \subseteq approved'
  /\ enforced \subseteq enforced'
  /\ published \subseteq published'
  /\ UNCHANGED <<inForce, applied, reported>>

\* One policy comes into force under its own name.
Apply(n) ==
  /\ \E uid \in approved, policy \in published :
       /\ policy.name = n /\ policy.app \in enforced
       /\ inForce' = [inForce EXCEPT ![n] = [owner |-> uid, policy |-> policy]]
       /\ applied' = applied \cup {policy.app}
  /\ UNCHANGED <<approved, enforced, published, reported>>

\* A policy is removed, by somebody or by the garbage collector.
Remove(n) ==
  /\ inForce' = [inForce EXCEPT ![n] = NoCNP]
  /\ UNCHANGED <<approved, enforced, published, applied, reported>>

\* A profile starts, or stops, to say that it is enforced.
Report(p) ==
  /\ p \in applied
  /\ reported' = reported \cup {p}
  /\ UNCHANGED <<approved, enforced, published, inForce, applied>>

Retract(p) ==
  /\ reported' = reported \ {p}
  /\ UNCHANGED <<approved, enforced, published, inForce, applied>>

Next ==
  \/ Grant
  \/ \E n \in PolicyNames : Apply(n) \/ Remove(n)
  \/ \E p \in Profiles : Report(p) \/ Retract(p)

Spec == Init /\ [][Next]_vars
=============================================================================
