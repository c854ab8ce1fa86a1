----------------------------- MODULE GroupState -----------------------------
(***************************************************************************)
(* The state that the goroutines of the group controller share, and the    *)
(* operations of scaled.go and state.go on it.  One group ID is modelled;  *)
(* every CommitGroup of a group that is not being watched makes a new      *)
(* groupContext, so contexts are numbered.                                 *)
(*                                                                         *)
(* The instance and flavor plugins are external: inst is what they would   *)
(* report, and calm says whether they have stopped failing (calls that     *)
(* return errors, instances that die, instances that are not healthy).     *)
(***************************************************************************)
EXTENDS Naturals, FiniteSets

CONSTANTS
    IDs,              \* instance IDs; their order is the order of sortByID
    Configs,          \* hashes of instance configurations (ConfigSHATag)
    Bootstrap,        \* the tag of an instance that nobody has labelled yet
    LogicalIDs,
    NoLID,            \* no logical ID
    Self,             \* options.Self: a logical ID, or NoLID
    MaxParallelNum,   \* options.MaxParallelNum; 0 is no limit
    UpdatingCount,    \* config.Updating.Count
    UpdatingDuration, \* config.Updating.Duration, in poll intervals
    Found,            \* the instances there are at the start, by ID
    Specs,            \* the group specs that users commit
    Sizes,            \* the sizes that users pass to SetSize
    Targets,          \* the sets of IDs that users pass to DestroyInstances
    Calls,            \* the API calls that users make
    Clients,          \* callers of the API that may be served concurrently
    MaxContexts,      \* bound: contexts made during a behaviour
    MaxPlans          \* bound: update plans made during a behaviour

ASSUME IDsAssumption == IDs \subseteq Nat \ {0} /\ IsFiniteSet(IDs)
ASSUME TagsAssumption == Bootstrap \notin Configs /\ NoLID \notin LogicalIDs
ASSUME LogicalIDsAssumption == IsFiniteSet(LogicalIDs)
ASSUME SelfAssumption == Self \in LogicalIDs \cup {NoLID}
ASSUME OptionsAssumption ==
    /\ MaxParallelNum \in Nat
    /\ UpdatingCount \in Nat
    /\ UpdatingDuration \in Nat
    /\ UpdatingCount = 0 \/ UpdatingDuration = 0
ASSUME BoundsAssumption == MaxContexts \in Nat /\ MaxPlans \in Nat

Settings == [cfg : Configs, size : Nat, lids : SUBSET LogicalIDs]

ASSUME InputsAssumption ==
    /\ Specs \subseteq Settings
    /\ Sizes \subseteq Nat
    /\ \A ids \in Targets : ids \subseteq IDs /\ IsFiniteSet(ids)

NoSettings == [cfg |-> Bootstrap, size |-> 0, lids |-> {}]
NoInst == [cfg |-> Bootstrap, lid |-> NoLID, up |-> FALSE]
Instances == [cfg : Configs \cup {Bootstrap}, lid : LogicalIDs \cup {NoLID}, up : BOOLEAN]

ASSUME FoundAssumption == Found \in [IDs -> Instances]

Contexts == 1..MaxContexts
Plans == 1..MaxPlans
None == 0              \* a nil *groupContext or a nil updatePlan

GroupContext == [settings : Settings \cup {NoSettings}, update : Plans \cup {None}]

VARIABLES
    inst,     \* what DescribeInstances reports, by instance ID
    calm,     \* the plugins have stopped failing
    groups,   \* groups.byID: the context of the group, or None
    ctx,      \* the groupContexts: their settings and their update
    sup,      \* their supervisors
    plan,     \* the update plans
    client    \* the API calls being served

vars == <<inst, calm, groups, ctx, sup, plan, client>>

Live == {id \in IDs : inst[id].up}

-----------------------------------------------------------------------------
(* sortByID.  Lowest(n, S) are the first n of S in the order of the IDs;
   FirstSelfLast(S) are the candidates for the first place when the settings
   are given, which put this node's own instance last.                      *)

Lowest(n, S) == {x \in S : Cardinality({y \in S : y < x}) < n}

isSelf(id) == Self # NoLID /\ inst[id].lid = Self

FirstSelfLast(S) ==
    LET others == {id \in S : ~isSelf(id)}
    IN  IF others = {} THEN S ELSE Lowest(1, others)

-----------------------------------------------------------------------------
(* scaledGroup.  Labelling gives an instance found with the bootstrap tag
   the hash of the settings of the moment; an error may leave some of them
   labelled.                                                                *)

Unlabelled == {id \in Live : inst[id].cfg = Bootstrap}

Label(c, S) ==
    inst' = [id \in IDs |-> IF id \in S
                            THEN [inst[id] EXCEPT !.cfg = ctx[c].settings.cfg]
                            ELSE inst[id]]

labelAndList(c) == Label(c, Unlabelled)

labelAndListFails(c) == ~calm /\ \E S \in SUBSET Unlabelled : Label(c, S)

(* The instances of a list that has just been read and labelled, split by
   whether they carry the hash of settings s.                               *)
desiredInstances(s) == {id \in Live : inst'[id].cfg = s.cfg}
undesiredInstances(s) == Live \ desiredInstances(s)

(* IDs some goroutine still holds from an earlier list: the provider never
   gives a new instance the ID of one that existed.                         *)
Remembered ==
    UNION {sup[c].list \cup {t.n : t \in {u \in sup[c].todo \cup sup[c].ops :
                                           u.act = "destroy"}} : c \in Contexts}
    \cup {plan[p].victim : p \in Plans}
    \cup UNION {client[k].todo : k \in Clients}

(* instancePlugin.Provision: a new instance with the tags of the spec.       *)
Provision(cfg, lid) ==
    \E id \in IDs \ (Live \cup Remembered) :
        inst' = [inst EXCEPT ![id] = [cfg |-> cfg, lid |-> lid, up |-> TRUE]]

Remove(id) == inst' = [inst EXCEPT ![id] = NoInst]

(* instancePlugin.Destroy as the group uses it: it destroys the instance, or
   it fails; an instance that is already gone may or may not be an error.   *)
DestroySucceeds(id) == Remove(id)
DestroyFails(id) == (~calm \/ ~inst[id].up) /\ UNCHANGED inst

-----------------------------------------------------------------------------
(* groupContext.  stopUpdating closes the stop channel of a rolling plan,
   forgets the plan, and does not wait for its goroutine.                   *)

setUpdate(c, p) == ctx' = [ctx EXCEPT ![c].update = p]

Halted(c) ==
    [p \in Plans |-> IF p = ctx[c].update /\ plan[p].kind = "rolling"
                     THEN [plan[p] EXCEPT !.stops = @ + 1]
                     ELSE plan[p]]

(* Mutant: the plan is not forgotten.                                        *)
stopUpdatingRemembers(c) == plan' = Halted(c) /\ UNCHANGED ctx

stopUpdating(c) == plan' = Halted(c) /\ setUpdate(c, None)

SetSize(c, n) == sup' = [sup EXCEPT ![c].size = n]
=============================================================================
