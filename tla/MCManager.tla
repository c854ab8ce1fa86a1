------------------------------ MODULE MCManager ------------------------------
(***************************************************************************)
(* Instances of Manager: clusters of one or two nodes, one or two specs.   *)
(***************************************************************************)
EXTENDS Manager, TLC

CONSTANTS grp, ctl, n1, n2, k1, k2, X

OneGroup == <<grp>>
GroupFirst == <<grp, ctl>>

ClientSymmetry == Permutations(Clients)

(* No user calls: the specs of an earlier leader are taken over.            *)
Handover == Init /\ \A k \in Keys : stored[k] # NoSpec

HandoverSpec == Handover /\ [][Next]_vars /\ Fairness

(* ... and nothing fails but for the election.                              *)
CalmHandoverSpec == HandoverSpec /\ calm = TRUE

(* A leader that has taken over a store with nothing in it.                 *)
Leading ==
    /\ elected \in Nodes /\ calm \in BOOLEAN /\ elections = 0 /\ failures = 0
    /\ stored = [k \in Keys |-> NoSpec]
    /\ node = [n \in Nodes |-> [NewManager EXCEPT !.isLeader = n = elected]]
    /\ watched = [n \in Nodes |-> stored]
    /\ call = [k \in Clients |-> NoCall]

LeadingSafety == Leading /\ [][Next]_vars

LeadingSpec == LeadingSafety /\ Fairness
=============================================================================
