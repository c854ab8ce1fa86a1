----------------------------- MODULE Supervisor -----------------------------
(***************************************************************************)
(* The supervisor goroutines: the scaler, which keeps the group at a size, *)
(* and the quorum, which keeps one instance per logical ID.  Each polls:   *)
(* it lists the instances, decides what to create and what to destroy, and *)
(* runs those operations in goroutines of their own, MaxParallelNum of     *)
(* them at a time in the scaler, before it polls again.                    *)
(***************************************************************************)
EXTENDS GroupState

(* An operation of a supervisor: n is the ID of the instance to destroy or
   the position of the instance to create; cfg is the configuration that a
   creation has read from the settings, Bootstrap until then.               *)
Task == [act : {"create", "destroy"}, n : Nat, lid : LogicalIDs \cup {NoLID},
         cfg : Configs \cup {Bootstrap}]

CreateTask(i, lid) == [act |-> "create", n |-> i, lid |-> lid, cfg |-> Bootstrap]
DestroyTask(id) == [act |-> "destroy", n |-> id, lid |-> NoLID, cfg |-> Bootstrap]

SupervisorState ==
    [kind : {"none", "scaler", "quorum"}, size : Nat, lids : SUBSET LogicalIDs, stops : Nat,
     pc : {"none", "first", "poll", "listed", "acting", "stopped"},
     list : SUBSET IDs, todo : SUBSET Task, ops : SUBSET Task]

NoSupervisor == [kind |-> "none", size |-> 0, lids |-> {}, stops |-> 0,
                 pc |-> "none", list |-> {}, todo |-> {}, ops |-> {}]

NewScalingGroup(s) == [NoSupervisor EXCEPT !.kind = "scaler", !.size = s.size, !.pc = "first"]
NewQuorum(s) == [NoSupervisor EXCEPT !.kind = "quorum", !.lids = s.lids, !.pc = "first"]

Polling(c) == sup[c].pc \in {"first", "poll"}

-----------------------------------------------------------------------------
(* scaler.converge: the list, then the comparison with the size, which may
   have been set in between.                                                *)

ScalerList(c) ==
    /\ sup[c].kind = "scaler" /\ Polling(c)
    /\ \/ labelAndList(c) /\ sup' = [sup EXCEPT ![c].pc = "listed", ![c].list = Live]
       \/ labelAndListFails(c) /\ sup' = [sup EXCEPT ![c].pc = "poll"]
    /\ UNCHANGED <<calm, groups, ctx, plan, client>>

(* Mutants: the last creation is left out; the instances to remove are not
   sorted, so which ones they are depends on the list.                      *)
ScalerTasksOneShort(actual, desiredSize) ==
    LET actualSize == Cardinality(actual)
    IN  IF actualSize > desiredSize
        THEN {DestroyTask(id) : id \in Lowest(actualSize - desiredSize, actual)}
        ELSE {CreateTask(i, NoLID) : i \in 2..(desiredSize - actualSize)}

ScalerTasksUnsorted(actual, desiredSize) ==
    LET actualSize == Cardinality(actual)
    IN  IF actualSize > desiredSize
        THEN {DestroyTask(id) : id \in
                IF actualSize % 2 = 0 THEN Lowest(actualSize - desiredSize, actual)
                                      ELSE actual \ Lowest(desiredSize, actual)}
        ELSE {CreateTask(i, NoLID) : i \in 1..(desiredSize - actualSize)}

ScalerTasks(actual, desiredSize) ==
    LET actualSize == Cardinality(actual)
    IN  IF actualSize > desiredSize
        THEN {DestroyTask(id) : id \in Lowest(actualSize - desiredSize, actual)}
        ELSE {CreateTask(i, NoLID) : i \in 1..(desiredSize - actualSize)}

ScalerDecide(c) ==
    /\ sup[c].kind = "scaler" /\ sup[c].pc = "listed"
    /\ sup' = [sup EXCEPT ![c].pc = "acting", ![c].list = {},
                          ![c].todo = ScalerTasks(sup[c].list, sup[c].size)]
    /\ UNCHANGED <<inst, calm, groups, ctx, plan, client>>

(* quorum.converge: instances without a logical ID are left alone.          *)

(* Mutant: instances with an unknown logical ID are left alone too.         *)
QuorumTasksKeepsUnknown(ids) ==
    {CreateTask(1, l) : l \in {i \in ids : \A id \in Live : inst[id].lid # i}}

QuorumTasks(ids) ==
    LET named == {id \in Live : inst[id].lid # NoLID}
    IN  {DestroyTask(id) : id \in {i \in named : inst[i].lid \notin ids}}
        \cup {CreateTask(1, l) : l \in {i \in ids : \A id \in named : inst[id].lid # i}}

QuorumConverge(c) ==
    /\ sup[c].kind = "quorum" /\ Polling(c)
    /\ \/ /\ labelAndList(c)
          /\ sup' = [sup EXCEPT ![c].pc = "acting", ![c].todo = QuorumTasks(sup[c].lids)]
       \/ labelAndListFails(c) /\ sup' = [sup EXCEPT ![c].pc = "poll"]
    /\ UNCHANGED <<calm, groups, ctx, plan, client>>

-----------------------------------------------------------------------------
(* The operations.  waitIfReachParallelLimit makes the scaler wait for all of
   the operations under way each time it has started MaxParallelNum of them;
   the quorum starts all of its operations at once.                         *)

Batch(c) ==
    IF sup[c].kind = "scaler" /\ MaxParallelNum > 0
    THEN {t \in sup[c].todo : Cardinality({u \in sup[c].todo : u.n < t.n}) < MaxParallelNum}
    ELSE sup[c].todo

StartBatch(c) ==
    /\ sup[c].pc = "acting" /\ sup[c].ops = {} /\ sup[c].todo # {}
    /\ sup' = [sup EXCEPT ![c].ops = Batch(c), ![c].todo = @ \ Batch(c)]
    /\ UNCHANGED <<inst, calm, groups, ctx, plan, client>>

(* Mutant: the supervisor polls again without waiting for its operations.   *)
ConvergeDoneEarly(c) ==
    /\ sup[c].pc = "acting" /\ sup[c].todo = {}
    /\ sup' = [sup EXCEPT ![c].pc = "poll"]
    /\ UNCHANGED <<inst, calm, groups, ctx, plan, client>>

ConvergeDone(c) ==
    /\ sup[c].pc = "acting" /\ sup[c].ops = {} /\ sup[c].todo = {}
    /\ sup' = [sup EXCEPT ![c].pc = "poll"]
    /\ UNCHANGED <<inst, calm, groups, ctx, plan, client>>

(* CreateOne reads the settings, and provisions with what it has read.      *)
CreateReads(c, t) ==
    /\ t \in sup[c].ops /\ t.act = "create" /\ t.cfg = Bootstrap
    /\ sup' = [sup EXCEPT ![c].ops =
                  (@ \ {t}) \cup {[t EXCEPT !.cfg = ctx[c].settings.cfg]}]
    /\ UNCHANGED <<inst, calm, groups, ctx, plan, client>>

CreateProvisions(c, t) ==
    /\ t \in sup[c].ops /\ t.act = "create" /\ t.cfg # Bootstrap
    /\ Provision(t.cfg, t.lid) \/ (~calm /\ UNCHANGED inst)
    /\ sup' = [sup EXCEPT ![c].ops = @ \ {t}]
    /\ UNCHANGED <<calm, groups, ctx, plan, client>>

(* scaled.Destroy with instance.Termination: a failed drain is ignored.     *)
DestroyTerminates(c, t) ==
    /\ t \in sup[c].ops /\ t.act = "destroy"
    /\ DestroySucceeds(t.n) \/ DestroyFails(t.n)
    /\ sup' = [sup EXCEPT ![c].ops = @ \ {t}]
    /\ UNCHANGED <<calm, groups, ctx, plan, client>>

SupervisorStops(c) ==
    /\ sup[c].pc = "poll" /\ sup[c].stops > 0
    /\ sup' = [sup EXCEPT ![c].pc = "stopped"]
    /\ UNCHANGED <<inst, calm, groups, ctx, plan, client>>

SupervisorStep(c) ==
    \/ ScalerList(c) \/ ScalerDecide(c) \/ QuorumConverge(c)
    \/ StartBatch(c) \/ ConvergeDone(c)
    \/ \E t \in sup[c].ops : CreateReads(c, t) \/ CreateProvisions(c, t) \/ DestroyTerminates(c, t)
=============================================================================
