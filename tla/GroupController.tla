--------------------------- MODULE GroupController ---------------------------
(***************************************************************************)
(* gController: the group API over the supervisors and the update plans.   *)
(* A client is one API call being served; p.lock is held from the first to *)
(* the last step of a CommitGroup and during a FreeGroup, and is not held  *)
(* by the calls that list and destroy instances.                           *)
(***************************************************************************)
EXTENDS Supervisor, RollingUpdate

(* A call being served: the context and the spec that it works on, and for
   the calls that destroy instances, those that are left and their number.  *)
Call == [pc : {"idle", "planning", "commit", "setSize", "dgList", "dgDestroy",
               "diDestroy", "diSize"},
         ctx : Contexts \cup {None}, spec : Settings \cup {NoSettings},
         todo : SUBSET IDs, n : Nat]

Idle == [pc |-> "idle", ctx |-> None, spec |-> NoSettings, todo |-> {}, n |-> 0]

(* No CommitGroup is under way: p.lock can be taken, to read or to write.   *)
LockFree == \A k \in Clients : client[k].pc # "planning"

Return(k) == client' = [client EXCEPT ![k] = Idle]

-----------------------------------------------------------------------------
(* CommitGroup.                                                             *)

validate(s) == (s.size = 0) = (s.lids # {})

CommitRejected(k, s) ==
    /\ LockFree /\ ~validate(s)
    /\ Return(k)
    /\ UNCHANGED <<inst, calm, groups, ctx, sup, plan>>

(* A group that is not watched: a new context, and its supervisor.          *)
CommitNew(k, s) ==
    /\ LockFree /\ validate(s) /\ groups = None
    /\ \E c \in Contexts :
        /\ sup[c].kind = "none" /\ \A d \in Contexts : d < c => sup[d].kind # "none"
        /\ groups' = c
        /\ ctx' = [ctx EXCEPT ![c] = [settings |-> s, update |-> None]]
        /\ sup' = [sup EXCEPT ![c] = IF s.size # 0 THEN NewScalingGroup(s) ELSE NewQuorum(s)]
    /\ Return(k)
    /\ UNCHANGED <<inst, calm, plan>>

(* A watched group: the update is halted, then the supervisor plans.        *)
CommitHalts(k, s) ==
    /\ LockFree /\ validate(s) /\ groups # None
    /\ \E p \in Plans : plan[p].kind = "none"
    /\ stopUpdating(groups)
    /\ client' = [client EXCEPT ![k] = [Idle EXCEPT !.pc = "planning", !.ctx = groups, !.spec = s]]
    /\ UNCHANGED <<inst, calm, groups, sup>>

(* PlanUpdate of the scaler and of the quorum: the kind of the plan, once the
   instances have been listed; the quorum refuses other logical IDs.        *)
PlanRefused(c, s) == sup[c].kind = "quorum" /\ ctx[c].settings.lids # s.lids

PlanUpdate(c, s) ==
    IF undesiredInstances(s) = {}
       /\ (sup[c].kind = "quorum" \/ s.size = ctx[c].settings.size)
    THEN "noop" ELSE "rolling"

CommitPlans(k) ==
    LET c == client[k].ctx
        s == client[k].spec
    IN
    /\ client[k].pc = "planning"
    /\ \/ /\ PlanRefused(c, s) /\ UNCHANGED <<inst, ctx, plan>>
       \/ /\ ~PlanRefused(c, s) /\ labelAndListFails(c) /\ UNCHANGED <<ctx, plan>>
       \/ /\ ~PlanRefused(c, s) /\ labelAndList(c)
          /\ \E p \in Plans :
                /\ plan[p].kind = "none" /\ \A q \in Plans : q < p => plan[q].kind # "none"
                /\ plan' = [plan EXCEPT ![p] = NewPlan(PlanUpdate(c, s), c, s)]
                /\ ctx' = [ctx EXCEPT ![c] = [settings |-> s, update |-> p]]
    /\ Return(k)
    /\ UNCHANGED <<calm, groups, sup>>

CommitGroup(k, s) == CommitRejected(k, s) \/ CommitNew(k, s) \/ CommitHalts(k, s)

(* With pretend, the plan is made and dropped; listing may label.           *)
PretendCommit(k, s) ==
    /\ LockFree /\ validate(s) /\ groups # None /\ ~PlanRefused(groups, s)
    /\ labelAndList(groups) \/ labelAndListFails(groups)
    /\ Return(k)
    /\ UNCHANGED <<calm, groups, ctx, sup, plan>>

-----------------------------------------------------------------------------
(* FreeGroup and DestroyGroup.                                              *)

(* Mutant: the supervisor is not stopped.                                   *)
doFreeKeepsSupervisor ==
    /\ LockFree /\ groups # None
    /\ stopUpdating(groups)
    /\ groups' = None
    /\ UNCHANGED sup

doFree ==
    /\ LockFree /\ groups # None
    /\ stopUpdating(groups)
    /\ sup' = [sup EXCEPT ![groups].stops = @ + 1]
    /\ groups' = None

FreeGroup(k) ==
    /\ doFree
    /\ Return(k)
    /\ UNCHANGED <<inst, calm>>

DestroyGroup(k) ==
    /\ doFree
    /\ client' = [client EXCEPT ![k] = [Idle EXCEPT !.pc = "dgList", !.ctx = groups]]
    /\ UNCHANGED <<inst, calm>>

DestroyGroupLists(k) ==
    /\ client[k].pc = "dgList"
    /\ \/ client' = [client EXCEPT ![k].pc = "dgDestroy", ![k].todo = Live]
       \/ ~calm /\ Return(k)
    /\ UNCHANGED <<inst, calm, groups, ctx, sup, plan>>

DestroyGroupDestroys(k) ==
    /\ client[k].pc = "dgDestroy"
    /\ \/ /\ client[k].todo = {} /\ Return(k) /\ UNCHANGED inst
       \/ \E id \in FirstSelfLast(client[k].todo) :
            /\ DestroySucceeds(id) \/ DestroyFails(id)
            /\ client' = [client EXCEPT ![k].todo = @ \ {id}]
    /\ UNCHANGED <<calm, groups, ctx, sup, plan>>

-----------------------------------------------------------------------------
(* SetSize reads the spec of the group, and commits it with another size: the
   lock is released in between.                                             *)

SetSizeInspects(k, n) ==
    /\ LockFree
    /\ IF groups = None \/ ctx[groups].settings.lids # {}
       THEN Return(k)
       ELSE client' = [client EXCEPT ![k] =
               [Idle EXCEPT !.pc = "commit", !.spec = [ctx[groups].settings EXCEPT !.size = n]]]
    /\ UNCHANGED <<inst, calm, groups, ctx, sup, plan>>

(* DestroyInstances: those that the group has are destroyed one by one, then
   the size is lowered by the number of those that were asked for.          *)
DestroyInstances(k, ids) ==
    /\ groups # None
    /\ \/ /\ stopUpdating(groups)
          /\ client' = [client EXCEPT ![k] = [Idle EXCEPT !.pc = "diDestroy", !.ctx = groups,
                                             !.todo = ids \cap Live, !.n = Cardinality(ids)]]
       \/ ~calm /\ Return(k) /\ UNCHANGED <<ctx, plan>>
    /\ UNCHANGED <<inst, calm, groups, sup>>

DestroyInstancesDestroys(k) ==
    /\ client[k].pc = "diDestroy"
    /\ \/ /\ client[k].todo = {} /\ UNCHANGED inst
          /\ client' = [client EXCEPT ![k].pc = "diSize"]
       \/ \E id \in client[k].todo :
            \/ DestroySucceeds(id) /\ client' = [client EXCEPT ![k].todo = @ \ {id}]
            \/ DestroyFails(id) /\ Return(k)
    /\ UNCHANGED <<calm, groups, ctx, sup, plan>>

Size(c) ==
    IF ctx[c].settings.lids # {} THEN Cardinality(ctx[c].settings.lids)
                                 ELSE ctx[c].settings.size

(* Mutant: a size below zero is not refused.                                *)
DestroyInstancesLowersSizeUnchecked(k) ==
    /\ client[k].pc = "diSize" /\ LockFree
    /\ IF groups = None
       THEN Return(k)
       ELSE client' = [client EXCEPT ![k].pc = "setSize", ![k].n = Size(groups) - client[k].n]
    /\ UNCHANGED <<inst, calm, groups, ctx, sup, plan>>

DestroyInstancesLowersSize(k) ==
    /\ client[k].pc = "diSize" /\ LockFree
    /\ IF groups = None \/ Size(groups) < client[k].n
       THEN Return(k)
       ELSE client' = [client EXCEPT ![k].pc = "setSize", ![k].n = Size(groups) - client[k].n]
    /\ UNCHANGED <<inst, calm, groups, ctx, sup, plan>>

-----------------------------------------------------------------------------
(* The calls that may arrive, and the steps of those being served.          *)

Request(k) ==
    /\ client[k].pc = "idle"
    /\ \/ "CommitGroup" \in Calls /\ \E s \in Specs : CommitGroup(k, s)
       \/ "Pretend" \in Calls /\ \E s \in Specs : PretendCommit(k, s)
       \/ "SetSize" \in Calls /\ \E n \in Sizes : SetSizeInspects(k, n)
       \/ "FreeGroup" \in Calls /\ FreeGroup(k)
       \/ "DestroyGroup" \in Calls /\ DestroyGroup(k)
       \/ "DestroyInstances" \in Calls /\ \E ids \in Targets : DestroyInstances(k, ids)

Serve(k) ==
    \/ CommitPlans(k)
    \/ client[k].pc = "commit" /\ CommitGroup(k, client[k].spec)
    \/ client[k].pc = "setSize" /\ SetSizeInspects(k, client[k].n)
    \/ DestroyGroupLists(k) \/ DestroyGroupDestroys(k)
    \/ DestroyInstancesDestroys(k) \/ DestroyInstancesLowersSize(k)

(* The environment: an instance dies; the plugins stop failing.             *)
InstanceDies(id) ==
    /\ ~calm /\ id \in Live
    /\ Remove(id)
    /\ UNCHANGED <<calm, groups, ctx, sup, plan, client>>

PluginsRecover ==
    /\ ~calm /\ calm' = TRUE
    /\ UNCHANGED <<inst, groups, ctx, sup, plan, client>>

Init ==
    /\ inst = Found
    /\ calm \in BOOLEAN
    /\ groups = None
    /\ ctx = [c \in Contexts |-> [settings |-> NoSettings, update |-> None]]
    /\ sup = [c \in Contexts |-> NoSupervisor]
    /\ plan = [p \in Plans |-> NoPlan]
    /\ client = [k \in Clients |-> Idle]

Next ==
    \/ \E k \in Clients : Request(k) \/ Serve(k)
    \/ \E c \in Contexts : SupervisorStep(c) \/ SupervisorStops(c)
    \/ \E p \in Plans : UpdateStep(p) \/ UpdateHalts(p)
    \/ \E id \in IDs : InstanceDies(id)
    \/ PluginsRecover

Spec == Init /\ [][Next]_vars

(* Goroutines make progress; a select with both a tick and a closed channel
   ready takes each of them in the end (it chooses at random).              *)
Fairness ==
    /\ \A k \in Clients : WF_vars(Serve(k))
    /\ \A c \in Contexts : WF_vars(SupervisorStep(c)) /\ SF_vars(SupervisorStops(c))
    /\ \A p \in Plans : WF_vars(UpdateStep(p)) /\ SF_vars(UpdateHalts(p))
    /\ WF_vars(PluginsRecover)

-----------------------------------------------------------------------------
(* Properties.                                                              *)

(* The state of the controller, of its goroutines and of the calls it serves
   has the shape that the structs of the package give it.                   *)
TypeOK ==
    /\ inst \in [IDs -> Instances]
    /\ calm \in BOOLEAN
    /\ groups \in Contexts \cup {None}
    /\ ctx \in [Contexts -> GroupContext]
    /\ sup \in [Contexts -> SupervisorState]
    /\ plan \in [Plans -> UpdatePlan]
    /\ client \in [Clients -> Call]

(* No channel is closed twice (that would panic), although stopUpdating is
   called by CommitGroup and FreeGroup under p.lock and by DestroyInstances
   without it, on contexts that may have been freed in the meantime.        *)
NoDoubleClose ==
    /\ \A p \in Plans : plan[p].stops <= 1
    /\ \A c \in Contexts : sup[c].stops <= 1

(* A supervisor has not been told to stop exactly when its context is the one
   that the controller watches: a group never has two supervisors in charge,
   and a watched group never loses the one it has.                          *)
WatchedIsSupervised ==
    \A c \in Contexts : (groups = c) <=> (sup[c].kind # "none" /\ sup[c].stops = 0)

(* The three that follow are about the specs S that are committed during a
   behaviour.  The instances of a group that has had one scaler, those that
   are up and those that the scaler has decided to create, never exceed the
   largest size anyone asked for.                                           *)
Creating ==
    UNION {{<<c, t>> : t \in {u \in sup[c].todo \cup sup[c].ops : u.act = "create"}} :
             c \in Contexts}

SpecSize(s) == IF s.lids = {} THEN s.size ELSE Cardinality(s.lids)

NoOvershootOf(S) ==
    (\E c \in Contexts : sup[c].kind = "scaler" /\ \A d \in Contexts \ {c} : sup[d].kind = "none")
    => \E s \in S : Cardinality(Live) + Cardinality(Creating) <= s.size

(* When the specs differ in size only, so that nothing but supervisors
   destroys instances, the group does not fall below the smallest size: lists
   may be stale and two supervisors may act at once, but their selections
   agree.                                                                   *)
StableSelectionOf(S) ==
    (\A s, t \in S : s.cfg = t.cfg) => \E s \in S : Cardinality(Live) >= SpecSize(s)

(* A rolling update has one instance of the group down at a time.           *)
OneDownOf(S) == \E s \in S : Cardinality(Live) + 1 >= SpecSize(s)

(* In the end, and from then on, a scaled group has the size that its
   supervisor was given.                                                    *)
SizeMaintained ==
    <>[](groups # None /\ sup[groups].kind = "scaler" => Cardinality(Live) = sup[groups].size)

(* In the end every instance has the committed configuration, the group has
   the committed size, and no update is under way.                          *)
Matches(s) ==
    /\ \A id \in Live : inst[id].cfg = s.cfg \/ isSelf(id)
    /\ Cardinality(Live) = SpecSize(s)

CommitTakesEffect ==
    <>[](groups # None => Matches(ctx[groups].settings) /\ ctx[groups].update = None)

(* In a quorum no two instances ever have the same logical ID.              *)
OnePerLogicalID ==
    \A l \in LogicalIDs : Cardinality({id \in Live : inst[id].lid = l}) <= 1

(* In the end, and from then on, a quorum has an instance for each of its
   logical IDs and none for any other.                                      *)
QuorumMaintained ==
    <>[](groups # None => \A l \in LogicalIDs :
           Cardinality({id \in Live : inst[id].lid = l})
             = IF l \in ctx[groups].settings.lids THEN 1 ELSE 0)

(* The instance that the controller itself runs on is not destroyed by any
   supervisor or update.                                                    *)
SelfSurvives == [][\A id \in Live : isSelf(id) => inst'[id].up]_vars

-----------------------------------------------------------------------------
(* What a comment says, and the code does not do.                           *)

(* group.go, CommitGroup: "Halt the existing update to prevent interference."
   At most one rolling update of a group has not been told to halt.         *)
UpdatesDoNotOverlap ==
    \A p, q \in {u \in Plans : plan[u].kind = "rolling" /\ plan[u].stops = 0
                                /\ plan[u].pc \notin {"ended", "done"}} :
        plan[p].ctx = plan[q].ctx => p = q
=============================================================================
