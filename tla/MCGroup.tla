------------------------------ MODULE MCGroup ------------------------------
(* Instances of the group controller for TLC.                              *)
EXTENDS GroupController, TLC

CONSTANTS A, B, L1, L2, L3, k1, k2

Scale(cfg, n) == [cfg |-> cfg, size |-> n, lids |-> {}]
Pets(cfg, ids) == [cfg |-> cfg, size |-> 0, lids |-> ids]

Up(cfg, lid) == [cfg |-> cfg, lid |-> lid, up |-> TRUE]

(* What there is at the start: nothing, or an instance that was set up before
   the group was, or the instances of a group at its size, with IDs free below
   and above theirs.                                                        *)
Nothing == [id \in IDs |-> NoInst]
OneToLabel == [id \in IDs |-> IF id = 2 THEN Up(Bootstrap, NoLID) ELSE NoInst]
TwoOfA == [id \in IDs |-> IF id \in {2, 3} THEN Up(A, NoLID) ELSE NoInst]
ThreeOfA == [id \in IDs |-> IF id \in {2, 3, 4} THEN Up(A, NoLID) ELSE NoInst]
TrioOfA == [id \in IDs |-> CASE id = 2 -> Up(A, L1) [] id = 3 -> Up(A, L2)
                              [] id = 4 -> Up(A, L3) [] OTHER -> NoInst]
Strays == [id \in IDs |-> CASE id = 2 -> Up(A, NoLID) [] id = 3 -> Up(A, L3) [] OTHER -> NoInst]

(* The specs that users commit, one class for each instance below.          *)
A2B2 == {Scale(A, 2), Scale(B, 2)}
A2B3 == {Scale(A, 2), Scale(B, 3)}
A3B2 == {Scale(A, 3), Scale(B, 2)}
A3A1 == {Scale(A, 3), Scale(A, 1)}
MixedSpecs == {Pets(A, {L1, L2}), Pets(B, {L1, L2}), Pets(B, {L1}), Scale(B, 2)}
TrioSpecs == {Pets(A, {L1, L2, L3}), Pets(B, {L1, L2, L3})}
A1B0 == {Scale(A, 1), Scale(B, 0)}

Updated == A2B3 \cup TrioSpecs
Supervised == A2B2 \cup MixedSpecs \cup A3A1

(* A group is already watched: its supervisor polls.                         *)
Managed(s, found) ==
    /\ groups = 1
    /\ ctx = [c \in Contexts |-> [settings |-> IF c = 1 THEN s ELSE NoSettings, update |-> None]]
    /\ sup = [c \in Contexts |-> IF c # 1 THEN NoSupervisor
                 ELSE [(IF s.size # 0 THEN NewScalingGroup(s) ELSE NewQuorum(s)) EXCEPT !.pc = "poll"]]
    /\ inst = found
    /\ plan = [p \in Plans |-> NoPlan]
    /\ client = [k \in Clients |-> Idle]

(* The class of the spec that the first context has: specs of one class are
   committed to a group.                                                     *)
Committed ==
    LET s == ctx[1].settings
    IN  CASE s \in TrioSpecs -> TrioSpecs
          [] s \in A3A1 -> A3A1
          [] Specs = Updated -> A2B3
          [] s \in A2B2 -> A2B2
          [] OTHER -> MixedSpecs

(* A constraint on what users ask for, which no fairness is about: they commit
   specs of one class, and free only the group of the class A3A1.            *)
OneClass ==
    /\ \A c \in Contexts : ctx'[c].settings \in Committed \cup {NoSettings}
    /\ \A k \in Clients : client'[k].spec \in Committed \cup {NoSettings}
    /\ groups' = None => Committed = A3A1

(* The instances and those being created never exceed the largest size.      *)
NoOvershoot == NoOvershootOf(Committed)

(* Supervisors, one stopped and one in charge, never take the group below the
   smallest size.                                                            *)
StableSelection == StableSelectionOf(Committed)

(* A rolling update has one instance of the group down at a time.            *)
OneDownAtATime == OneDownOf(Committed)

ClientSymmetry == Permutations(Clients)

(* Updates of a scaled group and of a quorum, over plugins that do not fail. *)
UpdateStart ==
    /\ calm = TRUE
    /\ Managed(Scale(A, 2), TwoOfA) \/ Managed(Pets(A, {L1, L2, L3}), TrioOfA)

(* Plugins that may fail, until they recover: a scaled group that has lost its
   instances, and a quorum with strays.  Plugins that do not: a group that is
   freed and committed again at another size.                                *)
SuperviseStart ==
    \/ calm = FALSE /\ Managed(Scale(A, 2), Nothing)
    \/ calm = FALSE /\ Managed(Pets(A, {L1, L2}), Strays)
    \/ calm = TRUE /\ Managed(Scale(A, 3), ThreeOfA)

UpdateSpec == UpdateStart /\ [][Next]_vars /\ Fairness
SuperviseSpec == SuperviseStart /\ [][Next]_vars /\ Fairness
CalmManaged2 == Managed(Scale(A, 2), Found) /\ calm = TRUE /\ [][Next]_vars /\ Fairness
CalmManaged3 == Managed(Scale(A, 3), Found) /\ calm = TRUE /\ [][Next]_vars /\ Fairness
=============================================================================
