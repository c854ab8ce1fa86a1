------------------------ MODULE GroupControllerProofs ------------------------
(***************************************************************************)
(* Proofs about the group controller, for any number of instances, specs,  *)
(* contexts, plans and concurrent API calls: the type invariant, that no   *)
(* channel is closed twice, and that the watched context is exactly the    *)
(* one with a supervisor in charge.                                        *)
(*                                                                         *)
(* The three are proved together, from an inductive invariant that says    *)
(* who owns what: the update that a context remembers belongs to that      *)
(* context and has not been told to halt (so stopUpdating closes a channel *)
(* that is open), and a goroutine or a call that is under way refers to a  *)
(* context that exists and whose settings have been committed.             *)
(***************************************************************************)
EXTENDS GroupController, FiniteSetTheorems, TLAPS

(* The update that a context remembers is its own, and is not halted.       *)
UpdateOwned ==
    \A c \in Contexts : ctx[c].update # None =>
        /\ plan[ctx[c].update].ctx = c
        /\ plan[ctx[c].update].stops = 0
        /\ plan[ctx[c].update].kind # "none"

PlansSound ==
    \A p \in Plans :
        /\ plan[p].stops <= 1
        /\ plan[p].kind = "none" => plan[p].stops = 0 /\ plan[p].pc = "none"
        /\ plan[p].pc \notin {"none", "done"} => plan[p].ctx \in Contexts

ContextsSound ==
    \A c \in Contexts :
        /\ sup[c].stops <= 1
        /\ sup[c].kind # "none" => ctx[c].settings \in Settings

CallsSound ==
    \A k \in Clients :
        /\ client[k].pc = "planning" => client[k].ctx \in Contexts
        /\ client[k].pc \in {"planning", "commit"} => client[k].spec \in Settings

IInv == /\ TypeOK /\ UpdateOwned /\ PlansSound /\ ContextsSound /\ CallsSound
        /\ WatchedIsSupervised

-----------------------------------------------------------------------------
(* Facts about the constants and the operators of the modules.              *)

(* A set of instance IDs or of logical IDs has a number of elements.        *)
LEMMA CardinalityNat ==
    ASSUME NEW S, S \subseteq IDs \/ S \subseteq LogicalIDs \/ S \in Targets
    PROVE  Cardinality(S) \in Nat
<1>1. IsFiniteSet(S)
  BY FS_Subset, IDsAssumption, LogicalIDsAssumption, InputsAssumption
<1> QED BY <1>1, FS_CardinalityType

(* Labelling instances keeps what the plugins report well formed.           *)
LEMMA LabelType ==
    ASSUME TypeOK, NEW c \in Contexts, NEW S, Label(c, S)
    PROVE  inst' \in [IDs -> Instances]
<1>1. ctx[c].settings.cfg \in Configs \cup {Bootstrap}
  BY DEF TypeOK, GroupContext, Settings, NoSettings
<1>2. \A id \in IDs : inst[id] \in Instances
  BY DEF TypeOK
<1>3. \A id \in IDs : [inst[id] EXCEPT !.cfg = ctx[c].settings.cfg] \in Instances
  BY <1>1, <1>2 DEF Instances
<1> QED BY <1>2, <1>3 DEF Label

LEMMA ListType ==
    ASSUME TypeOK, NEW c \in Contexts, labelAndList(c) \/ labelAndListFails(c)
    PROVE  inst' \in [IDs -> Instances]
BY LabelType DEF labelAndList, labelAndListFails

(* So do provisioning and destroying.                                       *)
LEMMA RemoveType ==
    ASSUME TypeOK, NEW id, Remove(id)
    PROVE  inst' \in [IDs -> Instances]
BY ZenonT(60) DEF TypeOK, Remove, NoInst, Instances

LEMMA DestroyType ==
    ASSUME TypeOK, NEW id, DestroySucceeds(id) \/ DestroyFails(id)
    PROVE  inst' \in [IDs -> Instances]
BY RemoveType DEF TypeOK, DestroySucceeds, DestroyFails

LEMMA ProvisionType ==
    ASSUME TypeOK, NEW cfg \in Configs \cup {Bootstrap},
           NEW lid \in LogicalIDs \cup {NoLID}, Provision(cfg, lid)
    PROVE  inst' \in [IDs -> Instances]
BY DEF TypeOK, Provision, Instances

(* What the supervisors decide to do are operations.                        *)
LEMMA ScalerTasksType ==
    ASSUME NEW S \in SUBSET IDs, NEW n \in Nat
    PROVE  ScalerTasks(S, n) \in SUBSET Task
<1>1. Cardinality(S) \in Nat
  BY CardinalityNat
<1>2. \A i \in 1..(n - Cardinality(S)) : CreateTask(i, NoLID) \in Task
  BY <1>1 DEF CreateTask, Task
<1>3. \A i, id : id \in Lowest(i, S) => DestroyTask(id) \in Task
  BY IDsAssumption DEF DestroyTask, Task, Lowest
<1> QED BY <1>2, <1>3 DEF ScalerTasks

LEMMA QuorumTasksType ==
    ASSUME NEW L \in SUBSET LogicalIDs
    PROVE  QuorumTasks(L) \in SUBSET Task
<1>1. \A l \in L : CreateTask(1, l) \in Task
  BY DEF CreateTask, Task
<1>2. \A id \in Live : DestroyTask(id) \in Task
  BY IDsAssumption DEF DestroyTask, Task, Live
<1> QED BY <1>1, <1>2 DEF QuorumTasks

-----------------------------------------------------------------------------
(* The supervisors.  A step of theirs changes instances and their own work. *)

SupervisorsKept ==
    /\ sup' \in [Contexts -> SupervisorState]
    /\ \A c \in Contexts : sup'[c].kind = sup[c].kind /\ sup'[c].stops = sup[c].stops

LEMMA SupervisorWork ==
    ASSUME IInv, inst' \in [IDs -> Instances], SupervisorsKept,
           UNCHANGED <<calm, groups, ctx, plan, client>>
    PROVE  IInv'
<1>1. TypeOK'
  BY DEF IInv, TypeOK, SupervisorsKept
<1>2. UpdateOwned' /\ PlansSound' /\ CallsSound'
  BY DEF IInv, UpdateOwned, PlansSound, CallsSound
<1>3. ContextsSound' /\ WatchedIsSupervised'
  BY DEF IInv, ContextsSound, WatchedIsSupervised, SupervisorsKept
<1> QED BY <1>1, <1>2, <1>3 DEF IInv

LEMMA SupervisorInductive ==
    ASSUME IInv, NEW c \in Contexts, SupervisorStep(c) \/ SupervisorStops(c)
    PROVE  IInv'
<1> USE DEF IInv
<1>0. TypeOK /\ sup[c] \in SupervisorState /\ sup \in [Contexts -> SupervisorState]
  BY DEF TypeOK
<1>9. Live \in SUBSET IDs
  BY DEF Live
<1>1. CASE ScalerList(c)
  <2>1. inst' \in [IDs -> Instances]
    BY <1>0, <1>1, ListType DEF ScalerList
  <2>2. SupervisorsKept
    BY <1>0, <1>1, <1>9 DEF ScalerList, SupervisorState, SupervisorsKept
  <2> QED BY <1>1, <2>1, <2>2, SupervisorWork DEF ScalerList
<1>2. CASE ScalerDecide(c)
  <2>1. ScalerTasks(sup[c].list, sup[c].size) \in SUBSET Task
    BY <1>0, ScalerTasksType DEF SupervisorState
  <2>2. SupervisorsKept
    BY <1>0, <1>2, <2>1, ZenonT(60) DEF ScalerDecide, SupervisorState, SupervisorsKept
  <2> QED BY <1>0, <1>2, <2>2, SupervisorWork DEF ScalerDecide, TypeOK
<1>3. CASE QuorumConverge(c)
  <2>1. QuorumTasks(sup[c].lids) \in SUBSET Task
    BY <1>0, QuorumTasksType DEF SupervisorState
  <2>2. inst' \in [IDs -> Instances]
    BY <1>0, <1>3, ListType DEF QuorumConverge
  <2>3. SupervisorsKept
    BY <1>0, <1>3, <2>1 DEF QuorumConverge, SupervisorState, SupervisorsKept
  <2> QED BY <1>3, <2>2, <2>3, SupervisorWork DEF QuorumConverge
<1>4. CASE StartBatch(c)
  <2>1. Batch(c) \in SUBSET sup[c].todo
    BY ZenonT(60) DEF Batch
  <2>2. SupervisorsKept
    BY <1>0, <1>4, <2>1, ZenonT(60) DEF StartBatch, SupervisorState, SupervisorsKept
  <2> QED BY <1>0, <1>4, <2>2, SupervisorWork DEF StartBatch, TypeOK
<1>5. CASE ConvergeDone(c) \/ SupervisorStops(c)
  <2>2. SupervisorsKept
    BY <1>0, <1>5 DEF ConvergeDone, SupervisorStops, SupervisorState, SupervisorsKept
  <2> QED BY <1>0, <1>5, <2>2, SupervisorWork DEF ConvergeDone, SupervisorStops, TypeOK
<1>6. ASSUME NEW t \in sup[c].ops, CreateReads(c, t)
      PROVE  IInv'
  <2>1. ctx[c].settings.cfg \in Configs \cup {Bootstrap}
    BY <1>0 DEF TypeOK, GroupContext, Settings, NoSettings
  <2>2. t \in Task
    BY <1>0, <1>6 DEF SupervisorState
  <2>3. [t EXCEPT !.cfg = ctx[c].settings.cfg] \in Task
    BY <2>1, <2>2, SMTT(60) DEF Task
  <2>4. SupervisorsKept
    BY <1>0, <1>6, <2>3, SMTT(60) DEF CreateReads, SupervisorState, SupervisorsKept
  <2> QED BY <1>0, <1>6, <2>4, SupervisorWork DEF CreateReads, TypeOK
<1>7. ASSUME NEW t \in sup[c].ops, CreateProvisions(c, t) \/ DestroyTerminates(c, t)
      PROVE  IInv'
  <2>1. t \in Task
    BY <1>0, <1>7 DEF SupervisorState
  <2>2. inst' \in [IDs -> Instances]
    <3>1. CASE CreateProvisions(c, t)
      BY <1>0, <2>1, <3>1, ProvisionType DEF CreateProvisions, Task, TypeOK
    <3>2. CASE DestroyTerminates(c, t)
      BY <1>0, <3>2, DestroyType DEF DestroyTerminates
    <3> QED BY <1>7, <3>1, <3>2
  <2>3. SupervisorsKept
    BY <1>0, <1>7, SMTT(60) DEF CreateProvisions, DestroyTerminates, SupervisorState, SupervisorsKept
  <2> QED BY <1>7, <2>2, <2>3, SupervisorWork DEF CreateProvisions, DestroyTerminates
<1> QED BY <1>1, <1>2, <1>3, <1>4, <1>5, <1>6, <1>7 DEF SupervisorStep

-----------------------------------------------------------------------------
(* The update goroutines.  A step before the last changes instances, the    *)
(* size of a supervisor, and its own plan, whose owner it does not change.  *)

PlansKept(p) ==
    /\ plan' \in [Plans -> UpdatePlan]
    /\ \A q \in Plans : /\ plan'[q].kind = plan[q].kind
                        /\ plan'[q].stops = plan[q].stops
                        /\ plan'[q].ctx = plan[q].ctx
                        /\ q # p => plan'[q].pc = plan[q].pc

LEMMA UpdateWork ==
    ASSUME IInv, inst' \in [IDs -> Instances], SupervisorsKept,
           NEW p \in Plans, plan[p].pc \notin {"none", "done"}, PlansKept(p),
           UNCHANGED <<calm, groups, ctx, client>>
    PROVE  IInv'
<1>1. TypeOK'
  BY DEF IInv, TypeOK, SupervisorsKept, PlansKept
<1>2. UpdateOwned'
  <2> SUFFICES ASSUME NEW c \in Contexts, ctx[c].update # None
               PROVE  /\ plan'[ctx[c].update].ctx = c
                      /\ plan'[ctx[c].update].stops = 0
                      /\ plan'[ctx[c].update].kind # "none"
    BY DEF UpdateOwned
  <2>1. ctx[c].update \in Plans
    BY DEF IInv, TypeOK, GroupContext
  <2> QED BY <2>1 DEF IInv, UpdateOwned, PlansKept
<1>3. PlansSound'
  <2> SUFFICES ASSUME NEW q \in Plans
               PROVE  /\ plan'[q].stops <= 1
                      /\ plan'[q].kind = "none" => plan'[q].stops = 0 /\ plan'[q].pc = "none"
                      /\ plan'[q].pc \notin {"none", "done"} => plan'[q].ctx \in Contexts
    BY DEF PlansSound
  <2>1. CASE q = p
    BY <2>1 DEF IInv, PlansSound, PlansKept
  <2>2. CASE q # p
    BY <2>2 DEF IInv, PlansSound, PlansKept
  <2> QED BY <2>1, <2>2
<1>4. CallsSound'
  BY DEF IInv, CallsSound
<1>5. ContextsSound' /\ WatchedIsSupervised'
  BY DEF IInv, ContextsSound, WatchedIsSupervised, SupervisorsKept
<1> QED BY <1>1, <1>2, <1>3, <1>4, <1>5 DEF IInv

LEMMA SetSizeType ==
    ASSUME TypeOK, NEW c \in Contexts, NEW n \in Nat, SetSize(c, n)
    PROVE  SupervisorsKept
BY SMTT(60) DEF TypeOK, SetSize, SupervisorState, SupervisorsKept

LEMMA UpdateInductive ==
    ASSUME IInv, NEW p \in Plans, UpdateStep(p) \/ UpdateHalts(p)
    PROVE  IInv'
<1> USE DEF IInv
<1>0. TypeOK /\ plan[p] \in UpdatePlan /\ plan \in [Plans -> UpdatePlan]
  BY DEF TypeOK
<1>a. /\ sup \in [Contexts -> SupervisorState] /\ inst \in [IDs -> Instances]
  BY DEF TypeOK
<1>b. plan[p].pc \notin {"none", "done"} => plan[p].ctx \in Contexts
  BY DEF PlansSound
<1>c. plan[p].to.size \in Nat
  BY <1>0 DEF UpdatePlan, Settings, NoSettings
<1>d. \A S : Cardinality(desiredInstances(S)) \in Nat
  BY CardinalityNat DEF desiredInstances, Live
<1>e. UNCHANGED sup => SupervisorsKept
  BY <1>a DEF SupervisorsKept
<1>1. CASE UpdateStarts(p) \/ UpdateGrows(p)
  <2>1. plan[p].pc \in {"start", "grow"} /\ UNCHANGED <<inst, calm, groups, ctx, client>>
    BY <1>1, SMTT(60) DEF UpdateStarts, UpdateGrows
  <2>2. SupervisorsKept
    BY <1>0, <1>a, <1>b, <1>c, <1>1, <2>1, SetSizeType, <1>e, SMTT(60) DEF UpdateStarts, UpdateGrows
  <2>3. PlansKept(p)
    BY <1>0, <1>1, SMTT(60) DEF UpdateStarts, UpdateGrows, Goto, UpdatePlan, PlansKept
  <2> QED BY <1>a, <1>e, <2>1, <2>2, <2>3, UpdateWork, SMTT(60)
<1>2. CASE UpdateLists(p)
  <2>1. plan[p].pc = "list" /\ UNCHANGED <<calm, groups, ctx, sup, client>>
    BY <1>2 DEF UpdateLists
  <2>2. inst' \in [IDs -> Instances]
    BY <1>0, <1>b, <1>2, <2>1, ListType, SMTT(60) DEF UpdateLists
  <2>3. PlansKept(p)
    BY <1>0, <1>d, <1>2, SMTT(60) DEF UpdateLists, Goto, UpdatePlan, PlansKept
  <2> QED BY <1>a, <1>e, <2>1, <2>2, <2>3, UpdateWork, SMTT(60)
<1>3. CASE waitUntilQuiesced(p)
  <2>1. plan[p].pc = "wait" /\ UNCHANGED <<calm, groups, ctx, sup, client>>
    BY <1>3 DEF waitUntilQuiesced
  <2>2. inst' \in [IDs -> Instances]
    BY <1>0, <1>b, <1>3, <2>1, ListType, SMTT(60) DEF waitUntilQuiesced
  <2>3. PlansKept(p)
    <3>1. \/ plan' = [plan EXCEPT ![p].healthy = 0]
          \/ plan' = [plan EXCEPT ![p].pc = "pick", ![p].healthy = 0]
          \/ plan' = [plan EXCEPT ![p].healthy = @ + 1]
          \/ plan' = [plan EXCEPT ![p].pc = "ended"]
      BY <1>3 DEF waitUntilQuiesced, Goto
    <3> QED BY <1>0, <3>1, SMTT(60) DEF UpdatePlan, PlansKept
  <2> QED BY <1>a, <1>e, <2>1, <2>2, <2>3, UpdateWork, SMTT(60)
<1>4. CASE UpdateHalts(p)
  <2>1. plan[p].pc = "wait" /\ UNCHANGED <<inst, calm, groups, ctx, sup, client>>
    BY <1>4 DEF UpdateHalts
  <2>2. PlansKept(p)
    BY <1>0, <1>4 DEF UpdateHalts, Goto, UpdatePlan, PlansKept
  <2> QED BY <1>a, <1>e, <2>1, <2>2, UpdateWork, SMTT(60)
<1>5. CASE UpdatePicks(p)
  <2>1. plan[p].pc = "pick" /\ UNCHANGED <<calm, groups, ctx, sup, client>>
    BY <1>5, ZenonT(60) DEF UpdatePicks
  <2>2. inst' \in [IDs -> Instances]
    BY <1>0, <1>b, <1>5, <2>1, ListType, ZenonT(60) DEF UpdatePicks
  <2>3. \A S, id : id \in FirstSelfLast(undesiredInstances(S)) => id \in IDs
    BY DEF FirstSelfLast, Lowest, undesiredInstances, Live
  <2>4. \A id : isSelf(id) \in BOOLEAN
    BY SMTT(60) DEF isSelf
  <2>5. PlansKept(p)
    <3>1. \/ plan' = [plan EXCEPT ![p].pc = "grow"]
          \/ plan' = [plan EXCEPT ![p].pc = "ended"]
          \/ \E id \in IDs, b \in BOOLEAN :
                plan' = [plan EXCEPT ![p].pc = "destroy", ![p].victim = id, ![p].self = b]
      BY <1>5, <2>3, <2>4, ZenonT(60) DEF UpdatePicks, Goto
    <3>2. CASE \E id \in IDs, b \in BOOLEAN :
                 plan' = [plan EXCEPT ![p].pc = "destroy", ![p].victim = id, ![p].self = b]
      <4>1. PICK id \in IDs, b \in BOOLEAN :
                 plan' = [plan EXCEPT ![p].pc = "destroy", ![p].victim = id, ![p].self = b]
        BY <3>2, ZenonT(60)
      <4> DEFINE u == [plan[p] EXCEPT !.pc = "destroy", !.victim = id, !.self = b]
      <4>2. u \in UpdatePlan
        BY <1>0, ZenonT(60) DEF UpdatePlan
      <4>3. u.kind = plan[p].kind /\ u.stops = plan[p].stops /\ u.ctx = plan[p].ctx
        BY <1>0 DEF UpdatePlan
      <4>4. plan' = [plan EXCEPT ![p] = u]
        BY <4>1, ZenonT(60)
      <4> HIDE DEF u
      <4> QED BY <1>0, <4>2, <4>3, <4>4, SMTT(60) DEF PlansKept
    <3>3. CASE plan' = [plan EXCEPT ![p].pc = "grow"] \/ plan' = [plan EXCEPT ![p].pc = "ended"]
      BY <1>0, <3>3, SMTT(60) DEF UpdatePlan, PlansKept
    <3> QED BY <3>1, <3>2, <3>3, ZenonT(60)
  <2> QED BY <1>e, <2>1, <2>2, <2>5, UpdateWork, SMTT(60)
<1>6. CASE UpdateDestroys(p)
  <2>1. plan[p].pc = "destroy" /\ UNCHANGED <<calm, groups, ctx, sup, client>>
    BY <1>6 DEF UpdateDestroys
  <2>2. inst' \in [IDs -> Instances]
    BY <1>0, <1>a, <1>6, DestroyType, SMTT(60) DEF UpdateDestroys
  <2>3. PlansKept(p)
    BY <1>0, <1>6 DEF UpdateDestroys, UpdatePlan, PlansKept
  <2> QED BY <1>a, <1>e, <2>1, <2>2, <2>3, UpdateWork, SMTT(60)
<1>7. CASE UpdateEnds(p)
  <2>1. /\ plan[p].pc = "ended" /\ plan[p].kind # "none" /\ plan[p].ctx \in Contexts
        /\ ctx' = [ctx EXCEPT ![plan[p].ctx].update = None]
        /\ UNCHANGED <<inst, calm, groups, sup, client>>
    BY <1>7, <1>b DEF UpdateEnds, setUpdate, PlansSound
  <2>2. ctx' \in [Contexts -> GroupContext]
    BY <2>1 DEF TypeOK, GroupContext
  <2>3. \A c \in Contexts : /\ ctx'[c].settings = ctx[c].settings
                            /\ ctx'[c].update = IF c = plan[p].ctx THEN None ELSE ctx[c].update
    BY <2>1 DEF TypeOK, GroupContext
  <2>4. /\ plan' \in [Plans -> UpdatePlan]
        /\ \A q \in Plans : q # p => plan'[q] = plan[q]
        /\ plan'[p].kind = plan[p].kind /\ plan'[p].stops = plan[p].stops
        /\ plan'[p].pc = "done"
    BY <1>0, <1>7, ZenonT(60) DEF UpdateEnds, NoPlan, NoSettings, UpdatePlan, None
  <2>5. TypeOK'
    BY <2>1, <2>2, <2>4 DEF TypeOK
  <2>6. UpdateOwned'
    BY <2>3, <2>4 DEF UpdateOwned, TypeOK, GroupContext, None, Plans
  <2>7. PlansSound' /\ CallsSound'
    BY <2>1, <2>4 DEF PlansSound, CallsSound
  <2>8. ContextsSound' /\ WatchedIsSupervised'
    BY <2>1, <2>3 DEF ContextsSound, WatchedIsSupervised
  <2> QED BY <2>5, <2>6, <2>7, <2>8, SMTT(60)
<1> QED BY <1>1, <1>2, <1>3, <1>4, <1>5, <1>6, <1>7 DEF UpdateStep

-----------------------------------------------------------------------------
(* The API calls.                                                           *)

(* Halting the update of a context closes an open channel, and the plan and
   the context no longer know of each other.                                *)
LEMMA StopUpdating ==
    ASSUME IInv, NEW c \in Contexts, stopUpdating(c)
    PROVE  /\ plan' \in [Plans -> UpdatePlan] /\ ctx' \in [Contexts -> GroupContext]
           /\ \A d \in Contexts : ctx'[d].settings = ctx[d].settings
           /\ UpdateOwned' /\ PlansSound'
<1>1. plan \in [Plans -> UpdatePlan] /\ ctx \in [Contexts -> GroupContext]
  BY DEF IInv, TypeOK
<1>2. /\ ctx' \in [Contexts -> GroupContext]
      /\ \A d \in Contexts : /\ ctx'[d].settings = ctx[d].settings
                             /\ d # c => ctx'[d].update = ctx[d].update
      /\ ctx'[c].update = None
  BY <1>1 DEF stopUpdating, setUpdate, GroupContext
<1>3. \A p \in Plans : /\ p # ctx[c].update => plan'[p] = plan[p]
                       /\ plan'[p] \in UpdatePlan
                       /\ plan'[p].kind = plan[p].kind
                       /\ plan'[p].pc = plan[p].pc
                       /\ plan'[p].ctx = plan[p].ctx
                       /\ plan'[p].stops \in {plan[p].stops, plan[p].stops + 1}
  BY <1>1 DEF stopUpdating, Halted, UpdatePlan
<1>4. plan' \in [Plans -> UpdatePlan]
  BY <1>3 DEF stopUpdating, Halted
<1>5. UpdateOwned'
  <2> SUFFICES ASSUME NEW d \in Contexts, ctx'[d].update # None
               PROVE  /\ plan'[ctx'[d].update].ctx = d
                      /\ plan'[ctx'[d].update].stops = 0
                      /\ plan'[ctx'[d].update].kind # "none"
    BY DEF UpdateOwned
  <2>1. d # c /\ ctx'[d].update = ctx[d].update /\ ctx[d].update \in Plans
    BY <1>1, <1>2, SMTT(60) DEF GroupContext
  <2>2. plan[ctx[d].update].ctx = d /\ plan[ctx[d].update].stops = 0
        /\ plan[ctx[d].update].kind # "none"
    BY <2>1 DEF IInv, UpdateOwned
  <2>3. ctx[d].update # ctx[c].update
    BY <2>1, <2>2, <1>1, SMTT(60) DEF IInv, UpdateOwned, GroupContext
  <2> QED BY <1>3, <2>1, <2>2, <2>3, SMTT(60)
<1>6. PlansSound'
  <2> SUFFICES ASSUME NEW q \in Plans
               PROVE  /\ plan'[q].stops <= 1
                      /\ plan'[q].kind = "none" => plan'[q].stops = 0 /\ plan'[q].pc = "none"
                      /\ plan'[q].pc \notin {"none", "done"} => plan'[q].ctx \in Contexts
    BY DEF PlansSound
  <2>1. CASE q # ctx[c].update
    BY <1>3, <2>1, SMTT(60) DEF IInv, PlansSound
  <2>2. CASE q = ctx[c].update
    <3>1. plan[q].stops = 0 /\ plan[q].kind # "none"
      BY <2>2 DEF IInv, UpdateOwned, None, Plans
    <3> QED BY <1>3, <3>1, SMTT(60) DEF IInv, PlansSound
  <2> QED BY <2>1, <2>2
<1> QED BY <1>2, <1>4, <1>5, <1>6

(* A call that is served without touching the controller's own state.       *)
LEMMA CallWork ==
    ASSUME IInv, inst' \in [IDs -> Instances], client' \in [Clients -> Call],
           CallsSound', UNCHANGED <<calm, groups, ctx, sup, plan>>
    PROVE  IInv'
<1>1. TypeOK'
  BY SMTT(60) DEF IInv, TypeOK
<1>2. UpdateOwned' /\ PlansSound' /\ ContextsSound' /\ WatchedIsSupervised'
  BY DEF IInv, UpdateOwned, PlansSound, ContextsSound, WatchedIsSupervised
<1> QED BY <1>1, <1>2 DEF IInv

(* A step of a call changes the record of that call alone.                  *)
LEMMA CallStep ==
    ASSUME IInv, NEW k \in Clients, NEW r \in Call,
           r.pc = "planning" => r.ctx \in Contexts,
           r.pc \in {"planning", "commit"} => r.spec \in Settings,
           client' = [client EXCEPT ![k] = r]
    PROVE  client' \in [Clients -> Call] /\ CallsSound'
BY DEF IInv, TypeOK, CallsSound

LEMMA ReturnType ==
    ASSUME IInv, NEW k \in Clients, Return(k)
    PROVE  client' \in [Clients -> Call] /\ CallsSound'
<1>1. Idle \in Call /\ Idle.pc = "idle"
  BY DEF Idle, Call, None
<1> QED BY <1>1, CallStep, ZenonT(60) DEF Return

(* The watched context exists, and its settings were committed.             *)
LEMMA Watched ==
    ASSUME IInv, groups # None
    PROVE  groups \in Contexts /\ ctx[groups].settings \in Settings
           /\ sup[groups].stops = 0 /\ sup[groups].kind # "none"
<1>1. groups \in Contexts
  BY DEF IInv, TypeOK
<1> QED BY <1>1 DEF IInv, ContextsSound, WatchedIsSupervised

LEMMA CommitInductive ==
    ASSUME IInv, NEW k \in Clients, NEW s \in Settings, CommitGroup(k, s)
    PROVE  IInv'
<1>t. TypeOK
  BY DEF IInv
<1>1. CASE CommitRejected(k, s)
  BY <1>1, <1>t, ReturnType, CallWork DEF CommitRejected, TypeOK
<1>2. CASE CommitNew(k, s)
  <2>1. PICK c \in Contexts :
          /\ sup[c].kind = "none" /\ groups' = c
          /\ ctx' = [ctx EXCEPT ![c] = [settings |-> s, update |-> None]]
          /\ sup' = [sup EXCEPT ![c] = IF s.size # 0 THEN NewScalingGroup(s) ELSE NewQuorum(s)]
    BY <1>2, ZenonT(60) DEF CommitNew
  <2>2. groups = None /\ Return(k) /\ UNCHANGED <<inst, calm, plan>>
    BY <1>2 DEF CommitNew
  <2>3. client' \in [Clients -> Call] /\ CallsSound'
    BY <2>2, ReturnType
  <2>4. [settings |-> s, update |-> None] \in GroupContext
    BY DEF GroupContext
  <2>5. /\ NewScalingGroup(s) \in SupervisorState /\ NewQuorum(s) \in SupervisorState
        /\ NewScalingGroup(s).kind = "scaler" /\ NewScalingGroup(s).stops = 0
        /\ NewQuorum(s).kind = "quorum" /\ NewQuorum(s).stops = 0
    BY ZenonT(60) DEF NewScalingGroup, NewQuorum, NoSupervisor, SupervisorState, Settings
  <2>6. TypeOK'
    BY <1>t, <2>1, <2>2, <2>3, <2>4, <2>5 DEF TypeOK
  <2>7. UpdateOwned'
    BY <1>t, <2>1, <2>2 DEF IInv, TypeOK, UpdateOwned
  <2>8. PlansSound'
    BY <2>2, SMTT(60) DEF IInv, PlansSound
  <2>9. /\ sup'[c].kind # "none" /\ sup'[c].stops = 0 /\ ctx'[c].settings = s
        /\ \A d \in Contexts \ {c} : sup'[d] = sup[d] /\ ctx'[d] = ctx[d]
    BY <1>t, <2>1, <2>5, SMTT(60) DEF TypeOK
  <2>10. ContextsSound'
    BY <2>9, SMTT(60) DEF IInv, ContextsSound
  <2>11. WatchedIsSupervised'
    BY <2>1, <2>2, <2>9, SMTT(60) DEF IInv, WatchedIsSupervised, None, Contexts
  <2> QED BY <2>3, <2>6, <2>7, <2>8, <2>10, <2>11 DEF IInv
<1>3. CASE CommitHalts(k, s)
  <2>1. groups # None /\ stopUpdating(groups) /\ UNCHANGED <<inst, calm, groups, sup>>
    BY <1>3 DEF CommitHalts
  <2>2. groups \in Contexts
    BY <2>1, Watched, SMTT(60)
  <2>3. /\ plan' \in [Plans -> UpdatePlan] /\ ctx' \in [Contexts -> GroupContext]
        /\ \A d \in Contexts : ctx'[d].settings = ctx[d].settings
        /\ UpdateOwned' /\ PlansSound'
    BY <2>1, <2>2, StopUpdating
  <2> DEFINE r == [Idle EXCEPT !.pc = "planning", !.ctx = groups, !.spec = s]
  <2>4. r \in Call /\ r.ctx = groups /\ r.spec = s
    BY <2>2, ZenonT(60) DEF Idle, Call
  <2>5. client' = [client EXCEPT ![k] = r]
    BY <1>3 DEF CommitHalts
  <2> HIDE DEF r
  <2>6. client' \in [Clients -> Call] /\ CallsSound'
    BY <2>2, <2>4, <2>5, CallStep, ZenonT(60)
  <2>7. TypeOK'
    BY <1>t, <2>1, <2>3, <2>6 DEF TypeOK
  <2>8. ContextsSound' /\ WatchedIsSupervised'
    BY <2>1, <2>3, SMTT(60) DEF IInv, ContextsSound, WatchedIsSupervised
  <2> QED BY <2>3, <2>6, <2>7, <2>8, SMTT(60) DEF IInv
<1> QED BY <1>1, <1>2, <1>3 DEF CommitGroup

LEMMA CommitPlansInductive ==
    ASSUME IInv, NEW k \in Clients, CommitPlans(k)
    PROVE  IInv'
<1> DEFINE c == client[k].ctx
           s == client[k].spec
<1>t. TypeOK
  BY DEF IInv
<1>1. c \in Contexts /\ s \in Settings
  BY DEF IInv, CallsSound, CommitPlans
<1>2. Return(k) /\ UNCHANGED <<calm, groups, sup>>
  BY DEF CommitPlans
<1>3. client' \in [Clients -> Call] /\ CallsSound'
  BY <1>2, ReturnType, SMTT(60)
<1>4. inst' \in [IDs -> Instances]
  BY <1>t, <1>1, ListType, SMTT(60) DEF CommitPlans, TypeOK
<1>5. CASE UNCHANGED <<ctx, plan>>
  BY <1>2, <1>3, <1>4, <1>5, CallWork, SMTT(60)
<1>6. ASSUME NEW p \in Plans, NEW kind \in {"noop", "rolling"}, plan[p].kind = "none",
             plan' = [plan EXCEPT ![p] = NewPlan(kind, c, s)],
             ctx' = [ctx EXCEPT ![c] = [settings |-> s, update |-> p]]
      PROVE  IInv'
  <2>1. ctx[c].settings \in Settings \cup {NoSettings}
    BY <1>t, <1>1, SMTT(60) DEF TypeOK, GroupContext
  <2>2. NewPlan(kind, c, s) \in UpdatePlan
    BY <1>1, <2>1, <1>6, ZenonT(60) DEF NewPlan, NoPlan, UpdatePlan
  <2>3. /\ NewPlan(kind, c, s).kind = kind /\ NewPlan(kind, c, s).ctx = c
        /\ NewPlan(kind, c, s).stops = 0 /\ NewPlan(kind, c, s).pc = "start"
    BY DEF NewPlan, NoPlan
  <2> HIDE DEF c, s
  <2>4. /\ plan' \in [Plans -> UpdatePlan] /\ plan'[p] = NewPlan(kind, c, s)
        /\ \A q \in Plans \ {p} : plan'[q] = plan[q]
    BY <1>t, <1>6, <2>2 DEF TypeOK
  <2>5. /\ ctx' \in [Contexts -> GroupContext]
        /\ ctx'[c] = [settings |-> s, update |-> p]
        /\ \A d \in Contexts \ {c} : ctx'[d] = ctx[d]
    BY <1>t, <1>1, <1>6 DEF TypeOK, GroupContext
  <2>6. TypeOK'
    BY <1>t, <1>2, <1>3, <1>4, <2>4, <2>5 DEF TypeOK
  <2>7. UpdateOwned'
    <3> SUFFICES ASSUME NEW d \in Contexts, ctx'[d].update # None
                 PROVE  /\ plan'[ctx'[d].update].ctx = d
                        /\ plan'[ctx'[d].update].stops = 0
                        /\ plan'[ctx'[d].update].kind # "none"
      BY DEF UpdateOwned
    <3>1. CASE d = c
      BY <1>6, <2>3, <2>4, <2>5, <3>1
    <3>2. CASE d # c
      <4>1. ctx'[d] = ctx[d] /\ ctx[d].update \in Plans
        BY <1>t, <2>5, <3>2, SMTT(60) DEF TypeOK, GroupContext
      <4>2. /\ plan[ctx[d].update].ctx = d /\ plan[ctx[d].update].stops = 0
            /\ plan[ctx[d].update].kind # "none"
        BY <4>1, SMTT(60) DEF IInv, UpdateOwned
      <4> QED BY <1>6, <2>4, <4>1, <4>2, SMTT(60)
    <3> QED BY <3>1, <3>2
  <2>8. PlansSound'
    <3> SUFFICES ASSUME NEW q \in Plans
                 PROVE  /\ plan'[q].stops <= 1
                        /\ plan'[q].kind = "none" => plan'[q].stops = 0 /\ plan'[q].pc = "none"
                        /\ plan'[q].pc \notin {"none", "done"} => plan'[q].ctx \in Contexts
      BY SMTT(60) DEF PlansSound
    <3>1. CASE q = p
      BY <1>1, <1>6, <2>3, <2>4, <3>1, SMTT(60)
    <3>2. CASE q # p
      BY <2>4, <3>2, SMTT(60) DEF IInv, PlansSound
    <3> QED BY <3>1, <3>2, SMTT(60)
  <2>9. ContextsSound' /\ WatchedIsSupervised'
    BY <1>1, <1>2, <2>5, SMTT(60) DEF IInv, ContextsSound, WatchedIsSupervised
  <2> QED BY <1>3, <2>6, <2>7, <2>8, <2>9, SMTT(60) DEF IInv
<1>7. PlanUpdate(c, s) \in {"noop", "rolling"}
  BY SMTT(60) DEF PlanUpdate
<1> QED BY <1>5, <1>6, <1>7, ZenonT(60) DEF CommitPlans

LEMMA FreeInductive ==
    ASSUME IInv, NEW k \in Clients, FreeGroup(k) \/ DestroyGroup(k)
    PROVE  IInv'
<1>t. TypeOK
  BY DEF IInv
<1>1. /\ groups # None /\ stopUpdating(groups) /\ groups' = None
      /\ sup' = [sup EXCEPT ![groups].stops = @ + 1]
      /\ UNCHANGED <<inst, calm>>
  BY DEF FreeGroup, DestroyGroup, doFree
<1>2. groups \in Contexts /\ sup[groups].stops = 0
  BY <1>1, Watched
<1>3. /\ plan' \in [Plans -> UpdatePlan] /\ ctx' \in [Contexts -> GroupContext]
      /\ \A d \in Contexts : ctx'[d].settings = ctx[d].settings
      /\ UpdateOwned' /\ PlansSound'
  BY <1>1, <1>2, StopUpdating
<1>4. client' \in [Clients -> Call] /\ CallsSound'
  <2>1. CASE FreeGroup(k)
    BY <2>1, ReturnType DEF FreeGroup
  <2>2. CASE DestroyGroup(k)
    <3> DEFINE r == [Idle EXCEPT !.pc = "dgList", !.ctx = groups]
    <3>1. r \in Call /\ r.pc = "dgList"
      BY <1>2, ZenonT(60) DEF Idle, Call
    <3>2. client' = [client EXCEPT ![k] = r]
      BY <2>2 DEF DestroyGroup
    <3> HIDE DEF r
    <3> QED BY <3>1, <3>2, CallStep, ZenonT(60)
  <2> QED BY <2>1, <2>2
<1>5. /\ sup' \in [Contexts -> SupervisorState] /\ sup'[groups].stops = 1
      /\ \A d \in Contexts : sup'[d].kind = sup[d].kind
      /\ \A d \in Contexts \ {groups} : sup'[d].stops = sup[d].stops
  BY <1>t, <1>1, <1>2, SMTT(60) DEF TypeOK, SupervisorState
<1>6. TypeOK'
  BY <1>t, <1>1, <1>3, <1>4, <1>5 DEF TypeOK
<1>7. ContextsSound'
  BY <1>2, <1>3, <1>5 DEF IInv, ContextsSound
<1>8. WatchedIsSupervised'
  BY <1>1, <1>2, <1>5 DEF IInv, WatchedIsSupervised, None, Contexts
<1> QED BY <1>3, <1>4, <1>6, <1>7, <1>8 DEF IInv

LEMMA DestroyGroupInductive ==
    ASSUME IInv, NEW k \in Clients, DestroyGroupLists(k) \/ DestroyGroupDestroys(k)
    PROVE  IInv'
<1>t. TypeOK /\ client[k] \in Call /\ client \in [Clients -> Call]
  BY DEF IInv, TypeOK
<1>1. UNCHANGED <<calm, groups, ctx, sup, plan>>
  BY DEF DestroyGroupLists, DestroyGroupDestroys
<1>2. inst' \in [IDs -> Instances]
  BY <1>t, DestroyType DEF DestroyGroupLists, DestroyGroupDestroys, TypeOK
<1>4. client' \in [Clients -> Call] /\ CallsSound'
  <2>1. CASE Return(k)
    BY <2>1, ReturnType, SMTT(60)
  <2>2. CASE client' = [client EXCEPT ![k].pc = "dgDestroy", ![k].todo = Live]
    <3> DEFINE r == [client[k] EXCEPT !.pc = "dgDestroy", !.todo = Live]
    <3>1. r \in Call /\ r.pc = "dgDestroy"
      BY <1>t, ZenonT(60) DEF Call, Live
    <3>2. client' = [client EXCEPT ![k] = r]
      BY <2>2, ZenonT(60)
    <3> HIDE DEF r
    <3> QED BY <3>1, <3>2, CallStep, ZenonT(60)
  <2>3. ASSUME NEW id, client[k].pc = "dgDestroy",
               client' = [client EXCEPT ![k].todo = @ \ {id}]
        PROVE  client' \in [Clients -> Call] /\ CallsSound'
    <3> DEFINE r == [client[k] EXCEPT !.todo = @ \ {id}]
    <3>1. r \in Call /\ r.pc = "dgDestroy"
      BY <1>t, <2>3 DEF Call
    <3>2. client' = [client EXCEPT ![k] = r]
      BY <2>3
    <3> HIDE DEF r
    <3> QED BY <3>1, <3>2, CallStep, ZenonT(60)
  <2> QED BY <2>1, <2>2, <2>3, SMTT(60) DEF DestroyGroupLists, DestroyGroupDestroys
<1> QED BY <1>1, <1>2, <1>4, CallWork, SMTT(60)

LEMMA SetSizeInductive ==
    ASSUME IInv, NEW k \in Clients, NEW n \in Nat, SetSizeInspects(k, n)
    PROVE  IInv'
<1>1. inst' \in [IDs -> Instances] /\ UNCHANGED <<calm, groups, ctx, sup, plan>>
  BY DEF IInv, TypeOK, SetSizeInspects
<1>2. CASE Return(k)
  BY <1>1, <1>2, ReturnType, CallWork
<1>3. CASE groups # None /\ client' = [client EXCEPT ![k] =
             [Idle EXCEPT !.pc = "commit", !.spec = [ctx[groups].settings EXCEPT !.size = n]]]
  <2> DEFINE s == [ctx[groups].settings EXCEPT !.size = n]
             r == [Idle EXCEPT !.pc = "commit", !.spec = s]
  <2>1. s \in Settings
    BY <1>3, Watched DEF Settings
  <2>2. client' = [client EXCEPT ![k] = r]
    BY <1>3
  <2> HIDE DEF s
  <2>3. r \in Call /\ r.pc = "commit" /\ r.spec = s
    BY <2>1, ZenonT(60) DEF Idle, Call, None
  <2> HIDE DEF r
  <2>4. client' \in [Clients -> Call] /\ CallsSound'
    BY <2>1, <2>2, <2>3, CallStep, ZenonT(60)
  <2> QED BY <1>1, <2>4, CallWork
<1> QED BY <1>2, <1>3 DEF SetSizeInspects

LEMMA DestroyInstancesInductive ==
    ASSUME IInv, NEW k \in Clients, NEW ids \in Targets, DestroyInstances(k, ids)
    PROVE  IInv'
<1>t. TypeOK
  BY DEF IInv
<1>1. groups # None /\ UNCHANGED <<inst, calm, groups, sup>> /\ groups \in Contexts
  BY Watched, SMTT(60) DEF DestroyInstances
<1>2. CASE Return(k) /\ UNCHANGED <<ctx, plan>>
  BY <1>t, <1>1, <1>2, ReturnType, CallWork, SMTT(60) DEF TypeOK
<1>3. CASE /\ stopUpdating(groups)
           /\ client' = [client EXCEPT ![k] = [Idle EXCEPT !.pc = "diDestroy", !.ctx = groups,
                                             !.todo = ids \cap Live, !.n = Cardinality(ids)]]
  <2>1. /\ plan' \in [Plans -> UpdatePlan] /\ ctx' \in [Contexts -> GroupContext]
        /\ \A d \in Contexts : ctx'[d].settings = ctx[d].settings
        /\ UpdateOwned' /\ PlansSound'
    BY <1>1, <1>3, StopUpdating, SMTT(60)
  <2> DEFINE r == [Idle EXCEPT !.pc = "diDestroy", !.ctx = groups,
                               !.todo = ids \cap Live, !.n = Cardinality(ids)]
  <2>2. Cardinality(ids) \in Nat /\ ids \cap Live \in SUBSET IDs
    BY CardinalityNat DEF Live
  <2>3. r \in Call /\ r.pc = "diDestroy"
    BY <1>1, <2>2, ZenonT(60) DEF Idle, Call
  <2>4. client' = [client EXCEPT ![k] = r]
    BY <1>3
  <2> HIDE DEF r
  <2>5. client' \in [Clients -> Call] /\ CallsSound'
    BY <2>3, <2>4, CallStep, ZenonT(60)
  <2>6. TypeOK'
    BY <1>t, <1>1, <2>1, <2>5 DEF TypeOK
  <2>7. ContextsSound' /\ WatchedIsSupervised'
    BY <1>1, <2>1, SMTT(60) DEF IInv, ContextsSound, WatchedIsSupervised
  <2> QED BY <2>1, <2>5, <2>6, <2>7, SMTT(60) DEF IInv
<1> QED BY <1>2, <1>3 DEF DestroyInstances

LEMMA DestroyingInductive ==
    ASSUME IInv, NEW k \in Clients,
           DestroyInstancesDestroys(k) \/ DestroyInstancesLowersSize(k)
    PROVE  IInv'
<1>t. TypeOK /\ client[k] \in Call /\ client \in [Clients -> Call]
  BY DEF IInv, TypeOK
<1>1. UNCHANGED <<calm, groups, ctx, sup, plan>>
  BY DEF DestroyInstancesDestroys, DestroyInstancesLowersSize
<1>2. inst' \in [IDs -> Instances]
  BY <1>t, DestroyType, SMTT(60) DEF DestroyInstancesDestroys, DestroyInstancesLowersSize, TypeOK
<1>3. client' \in [Clients -> Call] /\ CallsSound'
  <2>1. CASE Return(k)
    BY <2>1, ReturnType
  <2>2. CASE client' = [client EXCEPT ![k].pc = "diSize"]
    <3> DEFINE r == [client[k] EXCEPT !.pc = "diSize"]
    <3>1. r \in Call /\ r.pc = "diSize"
      BY <1>t DEF Call
    <3>2. client' = [client EXCEPT ![k] = r]
      BY <2>2
    <3> HIDE DEF r
    <3> QED BY <3>1, <3>2, CallStep, ZenonT(60)
  <2>3. ASSUME NEW id, client[k].pc = "diDestroy",
               client' = [client EXCEPT ![k].todo = @ \ {id}]
        PROVE  client' \in [Clients -> Call] /\ CallsSound'
    <3> DEFINE r == [client[k] EXCEPT !.todo = @ \ {id}]
    <3>1. r \in Call /\ r.pc = "diDestroy"
      BY <1>t, <2>3 DEF Call
    <3>2. client' = [client EXCEPT ![k] = r]
      BY <2>3
    <3> HIDE DEF r
    <3> QED BY <3>1, <3>2, CallStep, ZenonT(60)
  <2>4. CASE /\ groups # None /\ ~(Size(groups) < client[k].n)
             /\ client' = [client EXCEPT ![k].pc = "setSize",
                                         ![k].n = Size(groups) - client[k].n]
    <3>0. ctx[groups].settings \in Settings
      BY <2>4, Watched
    <3>1. Size(groups) \in Nat
      BY <3>0, CardinalityNat DEF Size, Settings
    <3>2. Size(groups) - client[k].n \in Nat
      BY <1>t, <2>4, <3>1 DEF Call
    <3> DEFINE r == [client[k] EXCEPT !.pc = "setSize", !.n = Size(groups) - client[k].n]
    <3>3. r \in Call /\ r.pc = "setSize"
      BY <1>t, <3>2, ZenonT(60) DEF Call
    <3>4. client' = [client EXCEPT ![k] = r]
      BY <2>4, ZenonT(60)
    <3> HIDE DEF r
    <3> QED BY <3>3, <3>4, CallStep, ZenonT(60)
  <2> QED BY <2>1, <2>2, <2>3, <2>4, SMTT(60) DEF DestroyInstancesDestroys, DestroyInstancesLowersSize
<1> QED BY <1>1, <1>2, <1>3, CallWork

-----------------------------------------------------------------------------
(* The inductive invariant, and what follows from it.                       *)

LEMMA InitIInv == Init => IInv
<1> SUFFICES ASSUME Init PROVE IInv
  OBVIOUS
<1>1. TypeOK
  BY FoundAssumption, ZenonT(60) DEF Init, TypeOK, GroupContext, SupervisorState, UpdatePlan, Call,
     NoSettings, NoSupervisor, NoPlan, Idle, None
<1>2. UpdateOwned /\ PlansSound /\ ContextsSound /\ CallsSound
  BY SMTT(60) DEF Init, UpdateOwned, PlansSound, ContextsSound, CallsSound, NoSupervisor, NoPlan, Idle
<1>3. WatchedIsSupervised
  BY DEF Init, WatchedIsSupervised, NoSupervisor, None, Contexts
<1> QED BY <1>1, <1>2, <1>3 DEF IInv

LEMMA NextIInv == IInv /\ [Next]_vars => IInv'
<1> SUFFICES ASSUME IInv, [Next]_vars PROVE IInv'
  BY SMTT(60)
<1>1. ASSUME NEW k \in Clients, Request(k) PROVE IInv'
  <2>1. ASSUME NEW s \in Specs, CommitGroup(k, s) PROVE IInv'
    BY <2>1, InputsAssumption, CommitInductive, SMTT(60)
  <2>2. ASSUME NEW s \in Specs, PretendCommit(k, s) PROVE IInv'
    <3>1. Return(k) /\ UNCHANGED <<calm, groups, ctx, sup, plan>> /\ groups # None
      BY <2>2, SMTT(60) DEF PretendCommit
    <3>2. inst' \in [IDs -> Instances]
      BY <2>2, <3>1, Watched, ListType, SMTT(60) DEF PretendCommit, IInv
    <3> QED BY <3>1, <3>2, ReturnType, CallWork, SMTT(60)
  <2>3. ASSUME NEW n \in Sizes, SetSizeInspects(k, n) PROVE IInv'
    BY <2>3, InputsAssumption, SetSizeInductive
  <2>4. ASSUME NEW ids \in Targets, DestroyInstances(k, ids) PROVE IInv'
    BY <2>4, DestroyInstancesInductive, SMTT(60)
  <2> QED BY <1>1, <2>1, <2>2, <2>3, <2>4, FreeInductive, SMTT(60) DEF Request
<1>2. ASSUME NEW k \in Clients, Serve(k) PROVE IInv'
  <2>1. CASE CommitPlans(k)
    BY <2>1, CommitPlansInductive, SMTT(60)
  <2>2. CASE client[k].pc = "commit" /\ CommitGroup(k, client[k].spec)
    <3>1. client[k].spec \in Settings
      BY <2>2, SMTT(60) DEF IInv, CallsSound
    <3> QED BY <2>2, <3>1, CommitInductive, SMTT(60)
  <2>3. CASE client[k].pc = "setSize" /\ SetSizeInspects(k, client[k].n)
    <3>1. client[k].n \in Nat
      BY DEF IInv, TypeOK, Call
    <3> QED BY <2>3, <3>1, SetSizeInductive, SMTT(60)
  <2>4. CASE DestroyGroupLists(k) \/ DestroyGroupDestroys(k)
    BY <2>4, DestroyGroupInductive
  <2>5. CASE DestroyInstancesDestroys(k) \/ DestroyInstancesLowersSize(k)
    BY <2>5, DestroyingInductive
  <2> QED BY <1>2, <2>1, <2>2, <2>3, <2>4, <2>5, SMTT(60) DEF Serve
<1>3. ASSUME NEW id \in IDs, InstanceDies(id) PROVE IInv'
  <2>1. inst' \in [IDs -> Instances] /\ UNCHANGED <<calm, groups, ctx, sup, plan, client>>
    BY <1>3, RemoveType, SMTT(60) DEF InstanceDies, IInv
  <2>2. SupervisorsKept
    BY <2>1, SMTT(60) DEF SupervisorsKept, IInv, TypeOK
  <2> QED BY <2>1, <2>2, SupervisorWork, SMTT(60)
<1>4. CASE PluginsRecover
  <2>1. calm' \in BOOLEAN /\ UNCHANGED <<inst, groups, ctx, sup, plan, client>>
    BY <1>4, SMTT(60) DEF PluginsRecover
  <2> QED BY <2>1 DEF IInv, TypeOK, UpdateOwned, PlansSound, ContextsSound, CallsSound,
             WatchedIsSupervised
<1>5. CASE UNCHANGED vars
  BY <1>5 DEF vars, IInv, TypeOK, UpdateOwned, PlansSound, ContextsSound, CallsSound,
     WatchedIsSupervised
<1> QED BY <1>1, <1>2, <1>3, <1>4, <1>5, SupervisorInductive, UpdateInductive, SMTT(60) DEF Next

LEMMA Invariance == Spec => []IInv
BY InitIInv, NextIInv, PTL DEF Spec

(* The structs of the controller keep the shape that TypeOK gives them, on
   every path of every call and of every goroutine.                         *)
THEOREM TypeCorrect == Spec => []TypeOK
<1>1. IInv => TypeOK
  BY SMTT(60) DEF IInv
<1> QED BY <1>1, Invariance, PTL

(* CommitGroup, FreeGroup and DestroyInstances never close the stop channel of
   an update or of a supervisor twice, however their calls interleave.      *)
THEOREM ChannelsClosedOnce == Spec => []NoDoubleClose
<1>1. IInv => NoDoubleClose
  BY SMTT(60) DEF IInv, PlansSound, ContextsSound, NoDoubleClose
<1> QED BY <1>1, Invariance, PTL

(* The context that the controller watches is the one whose supervisor has been
   started and not been told to stop: there is always one in charge of a
   watched group, and never two.                                            *)
THEOREM OneInCharge == Spec => []WatchedIsSupervised
<1>1. IInv => WatchedIsSupervised
  BY DEF IInv
<1> QED BY <1>1, Invariance, PTL
=============================================================================
