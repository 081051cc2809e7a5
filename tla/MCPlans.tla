-------------------------------- MODULE MCPlans --------------------------------
(***************************************************************************)
(* A small instance of Plans, in two parts: what one user creates beside   *)
(* one administrator's request, and who is on which plan while two         *)
(* administrators' requests run at once.                                   *)
(***************************************************************************)
EXTENDS Plans, TLC

CONSTANTS u1, a1   \* the user and the administrator's slot of the first part
VARIABLE part

\* The first part has limits, rows and creations; the second has none of them.
InPart ==
    \/ /\ part = "limits"
       /\ users \subseteq {u1} /\ \A a \in Administrators \ {a1} : admin[a] = Done
       /\ \A u \in Users : ahead[u] <= 1
    \/ /\ part = "subscriptions"
       /\ \A p \in PlanIds : Present(p) => \A k \in Kinds : plan[p].limit[k] = NULL
       /\ \A r \in Creations : creation[r] = NotCreating
       /\ \A u \in Users : made[u] = None /\ ahead[u] = 0

MCInit == part \in {"limits", "subscriptions"} /\ PlansInit /\ InPart
MCNext == PlansNext /\ UNCHANGED part /\ InPart'
MCSpec == MCInit /\ [][MCNext]_<<plansVars, part>>

MCSymmetry == Permutations(PlanIds) \cup Permutations(Creations)
=============================================================================
