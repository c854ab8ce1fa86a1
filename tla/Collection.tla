----------------------------- MODULE Collection -----------------------------
(***************************************************************************)
(* The collections of the pool controller (pkg/controller/pool) and of the *)
(* resource controller (pkg/controller/resource), over the framework of    *)
(* pkg/controller/internal and the machines of pkg/fsm.                    *)
(*                                                                         *)
(* Each key that the spec asks for has an item with a machine.  Observers  *)
(* poll the instance plugin and report, on two channels, the instances     *)
(* that they see and those that are gone since the poll before.  The main  *)
(* loop turns the reports into signals of the machines, and acts on what   *)
(* the machines ask for: it starts calls of Provision and Destroy.         *)
(*                                                                         *)
(* The machines are the abstract ones of Machines: a signal is handled in  *)
(* one step.  A TTL runs out at any moment: nothing relates the clock of   *)
(* the machines to the pace of the other goroutines.  The main loop waits  *)
(* for a call until a deadline of its own; as the deadline may be over at  *)
(* once, it does not wait here.  Events sent to subscribers are left out.  *)
(***************************************************************************)
EXTENDS Integers, Sequences, FiniteSets, SequencesExt

CONSTANTS
    Keys,         \* of instances: those in the spec, and the strays
    Scenarios,    \* what is committed, and where
    FoundSize,    \* capacity of the observations channels
    LostSize      \* capacity of the lost channels

(* A scenario: "pool" or "resource", the keys that the spec asks for, the pairs
   <<k, d>> where the spec of k refers to d, the parallelism of a pool, the keys
   that have an instance at the start, and a bound on the instances that die and
   the calls that fail.                                                     *)
ASSUME ScenariosAssumption ==
    \A s \in Scenarios :
        /\ s.kind \in {"pool", "resource"}
        /\ s.wanted \subseteq Keys /\ s.existing \subseteq Keys
        /\ s.depends \subseteq s.wanted \X s.wanted
        /\ s.parallelism \in Nat \ {0}
        /\ s.failures \in Nat

VARIABLES
    scenario,
    instances,       \* what the plugin has: pairs of a key and a number
    created,         \* IDs of instances used so far
    last,            \* what the observers saw in their last poll
    found, lost,     \* by observer, the reports not yet handled
    mach,            \* the states of the machines; a machine is its place here
    chan,            \* the channels on which machines ask for something
    items,           \* by key the machine, 0 when there is no item
    data,            \* by key Item.Data["instance"]
    resources,       \* the keys that c.resources has
    new,             \* found by the main loop to have no item, and not yet put
    calls,           \* calls of the plugin that have not returned
    unseeded,        \* keys for which run has not yet put an item
    terminating,     \* keys of items that terminate has yet to signal
    provisionWatch,  \* pairs <<k, d>>: k waits for d to be found
    destroyWatch,    \* pairs <<d, k>>: d waits for k to be lost
    complete,        \* keys whose dependencies the loop was told are complete
    okToDestroy,
    terminated,      \* Terminate was called
    failures

(* The machines that fairness is stated for: one for each key, and for reports that
   came late.  If there were more, they would be left without it.           *)
MaxMachines == Cardinality(Keys) + 2

observer == <<instances, created, last, found, lost>>
model == <<mach, chan>>
store == <<items, data, resources>>
watches == <<provisionWatch, destroyWatch, complete, okToDestroy>>
life == <<scenario, unseeded, terminating, terminated, failures>>
vars == <<scenario, instances, created, last, found, lost, mach, chan, items, data, resources, new,
          calls, unseeded, terminating, provisionWatch, destroyWatch, complete, okToDestroy,
          terminated, failures>>

-----------------------------------------------------------------------------
(* The machines.                                                            *)

(* What BuildModel defines: moves of a state, by signal.                     *)
Moves ==
    [requested |-> [resourceFound |-> "ready", resourceLost |-> "provisioning",
                    provision |-> "provisioning"],
     provisioning |-> [dependencyMissing |-> "waiting", resourceFound |-> "ready",
                       throttle |-> "throttled", provisionError |-> "cannotProvision"],
     throttled |-> [resourceFound |-> "ready", resourceLost |-> "provisioning",
                    provision |-> "provisioning"],
     terminateThrottled |-> [resourceLost |-> "terminated", terminate |-> "terminating"],
     terminating |-> [dependencyMissing |-> "waitingTerminate", resourceLost |-> "terminated",
                      terminateError |-> "cannotTerminate", throttle |-> "terminateThrottled"],
     waiting |-> [dependencyMissing |-> "waiting", dependencyReady |-> "provisioning"],
     waitingTerminate |-> [dependencyMissing |-> "waitingTerminate",
                           dependencyReady |-> "terminating", resourceLost |-> "terminated"],
     ready |-> [resourceLost |-> "provisioning", resourceFound |-> "ready",
                terminate |-> "terminating"],
     cannotProvision |-> [resourceFound |-> "ready"],
     cannotTerminate |-> <<>>,
     unmatched |-> [terminate |-> "terminating"],
     terminated |-> [cleanup |-> "terminated"]]

(* The actions of BuildModel: the channel on which a signal asks for something. *)
Asks ==
    [requested |-> [provision |-> "provision"],
     throttled |-> [provision |-> "provision"],
     waiting |-> [dependencyReady |-> "provision"],
     ready |-> [resourceLost |-> "provision", terminate |-> "destroy"],
     terminateThrottled |-> [terminate |-> "destroy"],
     waitingTerminate |-> [dependencyReady |-> "destroy"],
     unmatched |-> [terminate |-> "destroy"],
     terminated |-> [cleanup |-> "cleanup"]]

(* For comparison: the TTL of terminated is given to ready.                  *)
ExpiryOfReady ==
    [requested |-> "provision", throttled |-> "provision", terminateThrottled |-> "terminate",
     unmatched |-> "terminate", ready |-> "terminate"]

(* The signals that the TTLs raise.                                          *)
Expiry ==
    [requested |-> "provision", throttled |-> "provision", terminateThrottled |-> "terminate",
     unmatched |-> "terminate", terminated |-> "cleanup"]

(* Machine m handles a signal; c are the channels before it.                 *)
Signal(m, signal, c) ==
    LET s == mach[m]
        asks == s \in DOMAIN Asks /\ signal \in DOMAIN Asks[s]
    IN  IF signal \in DOMAIN Moves[s]
        THEN /\ mach' = [mach EXCEPT ![m] = Moves[s][signal]]
             /\ chan' = IF asks THEN [c EXCEPT ![Asks[s][signal]] = Append(@, m)] ELSE c
        ELSE mach' = mach /\ chan' = c

InItems(m) == \E k \in Keys : items[k] = m

(* GetByFSM, where there is an item.                                         *)
KeyOf(m) == CHOOSE k \in Keys : items[k] = m

(* GetCountByState.                                                          *)
CountByState(s) == Cardinality({k \in Keys : items[k] # 0 /\ mach[items[k]] = s})

(* The TTL of machine m runs out.  A machine in terminated raises cleanup
   again and again; it is left out once it changes nothing.                 *)
Expire(m) ==
    /\ mach[m] \in DOMAIN Expiry
    /\ mach[m] = "terminated" =>
         InItems(m) /\ \A i \in DOMAIN chan.cleanup : chan.cleanup[i] # m
    /\ Signal(m, Expiry[mach[m]], chan)
    /\ UNCHANGED <<observer, store, watches, life, new, calls>>

-----------------------------------------------------------------------------
(* The observers: one for a pool, one for each key of the resources.        *)

Key(i) == i[1]
None == <<>>

Observers == IF scenario.kind = "pool" THEN {CHOOSE k \in Keys : TRUE} ELSE Keys
Selects(o, i) == scenario.kind = "pool" \/ Key(i) = o

(* A report goes onto a channel unless it is full; the goroutine that takes
   the reports on to the main loop drops the empty ones.                    *)
Report(channel, size, list) ==
    IF list = {} \/ Len(channel) = size THEN channel ELSE Append(channel, list)

(* For comparison: only what is new since the last poll is reported.         *)
PollReportsNew(o) ==
    LET seen == {i \in instances : Selects(o, i)}
        before == {i \in last : Selects(o, i)}
    IN  /\ found' = [found EXCEPT ![o] = Report(@, FoundSize, seen \ before)]
        /\ lost' = [lost EXCEPT ![o] = Report(@, LostSize, before \ seen)]
        /\ last' = (last \ before) \union seen
        /\ UNCHANGED <<instances, created, model, store, watches, life, new, calls>>

(* The work of a poll.  What is lost is the Difference by ID, and last moves on even
   when the report did not fit.                                             *)
Poll(o) ==
    LET seen == {i \in instances : Selects(o, i)}
        before == {i \in last : Selects(o, i)}
    IN  /\ found' = [found EXCEPT ![o] = Report(@, FoundSize, seen)]
        /\ lost' = [lost EXCEPT ![o] = Report(@, LostSize, before \ seen)]
        /\ last' = (last \ before) \union seen
        /\ UNCHANGED <<instances, created, model, store, watches, life, new, calls>>

-----------------------------------------------------------------------------
(* The main loop.                                                           *)

Selecting == new = {}

(* Put and Delete take the lock that terminate holds while it visits.        *)
Unlocked == terminating = {}

Pop(channel) == [chan EXCEPT ![channel] = Tail(@)]
Asked(channel) == Head(chan[channel])

(* Case Cleanup.                                                             *)
Cleanup ==
    /\ Selecting /\ Unlocked /\ chan.cleanup # <<>>
    /\ LET m == Asked("cleanup")
           gone == {k \in Keys : items[k] = m}
       IN  /\ items' = [k \in Keys |-> IF k \in gone THEN 0 ELSE items[k]]
           /\ data' = [k \in Keys |-> IF k \in gone THEN None ELSE data[k]]
    /\ chan' = Pop("cleanup")
    /\ UNCHANGED <<observer, mach, resources, watches, life, new, calls>>

(* Cases Provision and Destroy, of a machine that no item has any more.      *)
NoItem(channel) ==
    /\ Selecting /\ chan[channel] # <<>> /\ ~InItems(Asked(channel))
    /\ chan' = Pop(channel)
    /\ UNCHANGED <<observer, mach, store, watches, life, new, calls>>

ForItem(channel) ==
    /\ Selecting /\ chan[channel] # <<>> /\ InItems(Asked(channel))
    /\ UNCHANGED <<instances, last, found, lost, store, watches, life, new>>

(* For comparison: the limit does not count the machine that asks.           *)
ThrottledButSelf(s) == scenario.kind = "pool" /\ scenario.parallelism < CountByState(s) - 1

(* A pool has a limit on the items in state s.                               *)
Throttled(s) == scenario.kind = "pool" /\ scenario.parallelism < CountByState(s)

(* For comparison: nothing is missing.                                       *)
MissingNothing(k) == FALSE

(* buildSpec and populateDependencies fail when the spec refers to a key that is
   not among the resources.                                                 *)
Missing(k) == \E p \in scenario.depends : p[1] = k /\ p[2] \notin resources

(* An instance is named in its call from the start.                           *)
Call(op, m, i) == [op |-> op, mach |-> m, inst |-> i]

(* For comparison: the request of a machine that is throttled is handled again. *)
ThrottleKeepsRequest(channel, s) ==
    /\ ForItem(channel)
    /\ Throttled(s)
    /\ Signal(Asked(channel), "throttle", chan)
    /\ UNCHANGED <<created, calls>>

(* Case Provision.                                                           *)
Throttle(channel, s) ==
    /\ ForItem(channel)
    /\ Throttled(s)
    /\ Signal(Asked(channel), "throttle", Pop(channel))
    /\ UNCHANGED <<created, calls>>

ProvisionWaits ==
    /\ ForItem("provision")
    /\ ~Throttled("provisioning") /\ Missing(KeyOf(Asked("provision")))
    /\ Signal(Asked("provision"), "dependencyMissing", Pop("provision"))
    /\ UNCHANGED <<created, calls>>

ProvisionCalls ==
    LET m == Asked("provision") IN
    /\ ForItem("provision")
    /\ ~Throttled("provisioning") /\ ~Missing(KeyOf(m))
    /\ created' = created + 1
    /\ calls' = calls \union {Call("provision", m, <<KeyOf(m), created'>>)}
    /\ chan' = Pop("provision")
    /\ UNCHANGED mach

(* For comparison: the dependencies taken the other way around.              *)
BlockedByOwn(k) == k \notin okToDestroy /\ \E p \in scenario.depends : p[1] = k

(* Case Destroy.  A resource that others refer to waits until it is cleared.  *)
Blocked(k) == k \notin okToDestroy /\ \E p \in scenario.depends : p[2] = k

DestroyWaits ==
    /\ ForItem("destroy")
    /\ ~Throttled("terminating") /\ Blocked(KeyOf(Asked("destroy")))
    /\ Signal(Asked("destroy"), "dependencyMissing", Pop("destroy"))
    /\ UNCHANGED <<created, calls>>

(* Nothing is known of an instance: the request is dropped.                  *)
DestroyCalls ==
    LET m == Asked("destroy")
        k == KeyOf(m)
    IN  /\ ForItem("destroy")
        /\ ~Throttled("terminating") /\ ~Blocked(k)
        /\ calls' = IF data[k] = None THEN calls ELSE calls \union {Call("destroy", m, data[k])}
        /\ chan' = Pop("destroy")
        /\ UNCHANGED <<created, mach>>

(* What waits for what, from the specs.                                      *)
processProvisionWatches == scenario.depends
processDestroyWatches == {<<p[2], p[1]>> : p \in scenario.depends}

(* Watch.Notify: all that wait for these keys, once.                         *)
Notify(watch, keys) == {p \in watch : p[2] \notin keys}

(* FanIn: all that k waits for came.                                         *)
FanIn(watch, k) == \A p \in watch : p[1] # k

(* Machines of a list of instances handle a signal, in the order of the list, which
   is any.                                                                  *)
SignalAll(ms, signal) ==
    LET moved == {m \in ms : signal \in DOMAIN Moves[mach[m]]}
        asking == {m \in moved : mach[m] \in DOMAIN Asks /\ signal \in DOMAIN Asks[mach[m]]}
    IN  /\ mach' = [m \in DOMAIN mach |-> IF m \in moved THEN Moves[mach[m]][signal] ELSE mach[m]]
        /\ \E order \in SetToSeqs(asking) :
              chan' = IF asking = {} THEN chan ELSE [chan EXCEPT !.provision = @ \o order]

(* Case lostInstances.                                                       *)
Lost(o) ==
    /\ Selecting /\ lost[o] # <<>>
    /\ lost' = [lost EXCEPT ![o] = Tail(@)]
    /\ LET keys == {Key(i) : i \in Head(lost[o])}
           known == {k \in keys : items[k] # 0}
       IN  /\ SignalAll({items[k] : k \in known}, "resourceLost")
           /\ destroyWatch' = Notify(destroyWatch, known)
           /\ resources' = resources \ keys
    /\ UNCHANGED <<instances, created, last, found, items, data, provisionWatch, complete,
                   okToDestroy, life, new, calls>>

(* Case foundInstances: the instances that have an item, ...                 *)
Found(o) ==
    /\ Selecting /\ found[o] # <<>>
    /\ found' = [found EXCEPT ![o] = Tail(@)]
    /\ LET list == {i \in Head(found[o]) : items[Key(i)] # 0}
           keys == {Key(i) : i \in list}
       IN  /\ SignalAll({items[k] : k \in keys}, "resourceFound")
           /\ data' \in {d \in [Keys -> list \union {data[k] : k \in Keys}] :
                           \A k \in Keys : d[k] \in IF k \in keys THEN {i \in list : Key(i) = k}
                                                   ELSE {data[k]}}
           /\ resources' = resources \union keys
           /\ provisionWatch' = Notify(provisionWatch, keys)
           /\ new' = Head(found[o]) \ list
    /\ UNCHANGED <<instances, created, last, lost, items, destroyWatch, complete, okToDestroy,
                   life, calls>>

(* For comparison: the item does not get the instance.                       *)
FoundNewForgets(i) ==
    LET k == Key(i) IN
    /\ i \in new /\ Unlocked
    /\ mach' = Append(mach, "unmatched")
    /\ items' = [items EXCEPT ![k] = Len(mach')]
    /\ resources' = resources \union {k}
    /\ provisionWatch' = Notify(provisionWatch, {k})
    /\ new' = new \ {i}
    /\ UNCHANGED <<observer, chan, data, destroyWatch, complete, okToDestroy, life, calls>>

(* ... and those for which the loop saw none.  It puts one then, with an unmatched
   machine, which ignores that the instance is found.                       *)
FoundNew(i) ==
    LET k == Key(i) IN
    /\ i \in new /\ Unlocked
    /\ mach' = Append(mach, "unmatched")
    /\ items' = [items EXCEPT ![k] = Len(mach')]
    /\ data' = [data EXCEPT ![k] = i]
    /\ resources' = resources \union {k}
    /\ provisionWatch' = Notify(provisionWatch, {k})
    /\ new' = new \ {i}
    /\ UNCHANGED <<observer, chan, destroyWatch, complete, okToDestroy, life, calls>>

(* For comparison: the signal without the permission.                        *)
DestroyCompleteNotOk(k) ==
    /\ Selecting /\ <<"destroy", k>> \notin complete
    /\ \E p \in scenario.depends : p[2] = k
    /\ FanIn(destroyWatch, k)
    /\ complete' = complete \union {<<"destroy", k>>}
    /\ IF items[k] # 0 THEN Signal(items[k], "dependencyReady", chan) ELSE UNCHANGED model
    /\ UNCHANGED <<observer, store, provisionWatch, destroyWatch, okToDestroy, life, new, calls>>

(* Cases provisionDependencyComplete and destroyDependencyComplete.  *)
ProvisionComplete(k) ==
    /\ Selecting /\ <<"provision", k>> \notin complete
    /\ scenario.kind = "resource" /\ k \in scenario.wanted
    /\ FanIn(provisionWatch, k)
    /\ complete' = complete \union {<<"provision", k>>}
    /\ IF items[k] # 0 THEN Signal(items[k], "dependencyReady", chan) ELSE UNCHANGED model
    /\ UNCHANGED <<observer, store, provisionWatch, destroyWatch, okToDestroy, life, new, calls>>

DestroyComplete(k) ==
    /\ Selecting /\ <<"destroy", k>> \notin complete
    /\ \E p \in scenario.depends : p[2] = k
    /\ FanIn(destroyWatch, k)
    /\ complete' = complete \union {<<"destroy", k>>}
    /\ IF items[k] # 0
       THEN /\ okToDestroy' = okToDestroy \union {k}
            /\ Signal(items[k], "dependencyReady", chan)
       ELSE UNCHANGED <<okToDestroy, model>>
    /\ UNCHANGED <<observer, store, provisionWatch, destroyWatch, life, new, calls>>

-----------------------------------------------------------------------------
(* The calls of the plugin, in goroutines of their own.                     *)

Fail == failures' = failures + 1 /\ UNCHANGED <<scenario, unseeded, terminating, terminated>>

Provisioned(c) ==
    /\ c \in calls /\ c.op = "provision"
    /\ instances' = instances \union {c.inst}
    /\ calls' = calls \ {c}
    /\ UNCHANGED <<created, last, found, lost, model, store, watches, life, new>>

(* Provision fails; the instance may have been created all the same.         *)
ProvisionFails(c) ==
    /\ c \in calls /\ c.op = "provision" /\ failures < scenario.failures
    /\ Fail
    /\ instances' \in {instances, instances \union {c.inst}}
    /\ Signal(c.mach, "provisionError", chan)
    /\ calls' = calls \ {c}
    /\ UNCHANGED <<created, last, found, lost, store, watches, new>>

Destroyed(c) ==
    /\ c \in calls /\ c.op = "destroy"
    /\ instances' = instances \ {c.inst}
    /\ calls' = calls \ {c}
    /\ UNCHANGED <<created, last, found, lost, model, store, watches, life, new>>

(* Destroy fails, or does not know the instance.                             *)
DestroyFails(c) ==
    /\ c \in calls /\ c.op = "destroy"
    /\ IF c.inst \in instances
       THEN failures < scenario.failures /\ Fail
       ELSE UNCHANGED life
    /\ Signal(c.mach, "terminateError", chan)
    /\ calls' = calls \ {c}
    /\ UNCHANGED <<observer, store, watches, new>>

Dies(i) ==
    /\ i \in instances /\ failures < scenario.failures
    /\ Fail
    /\ instances' = instances \ {i}
    /\ UNCHANGED <<created, last, found, lost, model, store, watches, new, calls>>

-----------------------------------------------------------------------------
(* The operations of the controller.                                        *)

(* The last part of run: seed the machines of the keys in the spec.          *)
Seed(k) ==
    /\ k \in unseeded /\ Unlocked
    /\ mach' = Append(mach, "requested")
    /\ items' = [items EXCEPT ![k] = Len(mach')]
    /\ unseeded' = unseeded \ {k}
    /\ UNCHANGED <<observer, chan, data, resources, watches, scenario, terminating, terminated,
                   failures, new, calls>>

(* Commit with the operation Destroy waits for the Commit that seeds.        *)
Terminate ==
    /\ unseeded = {} /\ ~terminated
    /\ terminated' = TRUE
    /\ terminating' = {k \in Keys : items[k] # 0}
    /\ UNCHANGED <<observer, model, store, watches, scenario, unseeded, failures, new, calls>>

TerminateItem(k) ==
    /\ k \in terminating
    /\ terminating' = terminating \ {k}
    /\ Signal(items[k], "terminate", chan)
    /\ UNCHANGED <<observer, store, watches, scenario, unseeded, terminated, failures, new, calls>>

Init ==
    /\ scenario \in Scenarios
    /\ instances = {<<k, 0>> : k \in scenario.existing}
    /\ created = 0
    /\ last = {}
    /\ found = [k \in Keys |-> <<>>]
    /\ lost = [k \in Keys |-> <<>>]
    /\ mach = <<>>
    /\ chan = [provision |-> <<>>, destroy |-> <<>>, cleanup |-> <<>>]
    /\ items = [k \in Keys |-> 0]
    /\ data = [k \in Keys |-> None]
    /\ resources = {}
    /\ new = {}
    /\ calls = {}
    /\ unseeded = scenario.wanted
    /\ terminating = {}
    /\ provisionWatch = processProvisionWatches
    /\ destroyWatch = processDestroyWatches
    /\ complete = {}
    /\ okToDestroy = {}
    /\ terminated = FALSE
    /\ failures = 0

Provision ==
    \/ NoItem("provision")
    \/ Throttle("provision", "provisioning")
    \/ ProvisionWaits
    \/ ProvisionCalls

Destroy ==
    \/ NoItem("destroy")
    \/ Throttle("destroy", "terminating")
    \/ DestroyWaits
    \/ DestroyCalls

LoopNext ==
    \/ Cleanup
    \/ Provision
    \/ Destroy
    \/ \E o \in Observers : Lost(o) \/ Found(o)
    \/ \E i \in new : FoundNew(i)
    \/ \E k \in Keys : ProvisionComplete(k) \/ DestroyComplete(k)

ReturnNext == \E c \in calls : Provisioned(c) \/ Destroyed(c)

Next ==
    \/ \E o \in Observers : Poll(o)
    \/ \E m \in DOMAIN mach : Expire(m)
    \/ LoopNext
    \/ ReturnNext
    \/ \E c \in calls : ProvisionFails(c) \/ DestroyFails(c)
    \/ \E i \in instances : Dies(i)
    \/ \E k \in Keys : Seed(k) \/ TerminateItem(k)
    \/ Terminate

Spec == Init /\ [][Next]_vars

(* Each goroutine goes on, select comes to each channel that has something, the
   tickers go on, and the plugin answers.  A machine that is throttled asks again
   after a tick: that the loop does not answer each time just when it asked
   again is the strong fairness of the calls.                               *)
FairSpec ==
    /\ Spec
    /\ \A k \in Keys :
         /\ WF_vars(k \in Observers /\ Poll(k))
         /\ WF_vars(Lost(k)) /\ WF_vars(Found(k))
         /\ WF_vars(ProvisionComplete(k)) /\ WF_vars(DestroyComplete(k))
         /\ WF_vars(Seed(k)) /\ WF_vars(TerminateItem(k))
    /\ WF_vars(\E i \in new : FoundNew(i))
    /\ \A m \in 1..MaxMachines : WF_vars(m \in DOMAIN mach /\ Expire(m))
    /\ WF_vars(Cleanup) /\ WF_vars(Provision) /\ WF_vars(Destroy) /\ WF_vars(ReturnNext)
    /\ SF_vars(ProvisionCalls) /\ SF_vars(DestroyCalls)

-----------------------------------------------------------------------------
Instances(k) == {i \in instances : Key(i) = k}
Calls(op, k) == {c \in calls : c.op = op /\ Key(c.inst) = k}
State(k) == IF items[k] = 0 THEN "none" ELSE mach[items[k]]

(* Parallelism of a pool bounds the calls of Provision, and those of Destroy, that are
   under way: the loop counts machines, not calls, and goes on to the next request
   when a call takes longer than its deadline.  (A call whose instance was seen
   already, or was seen before by a report that came late, does not count.) *)
ThrottleHolds ==
    scenario.kind = "pool" =>
        /\ Cardinality({c \in calls : c.op = "provision" /\ mach[c.mach] = "provisioning"})
             <= scenario.parallelism
        /\ Cardinality({c \in calls : c.op = "destroy" /\ mach[c.mach] = "terminating"})
             <= scenario.parallelism

(* A key that the spec asks for never has two instances, nor one and a call that is to
   create another: not when a call outlives its deadline, when one that failed created
   its instance all the same, or when reports are handled late and out of order. *)
OneInstance ==
    \A k \in scenario.wanted : Cardinality(Instances(k)) + Cardinality(Calls("provision", k)) <= 1

(* An instance that the spec asks for is not destroyed unless Terminate was called: it is
   never taken for one that showed up out of band.                          *)
WantedKept == \A k \in scenario.wanted : Calls("destroy", k) # {} => terminated

(* As long as nothing fails, a resource is destroyed only after those whose specs refer
   to it are gone, also when Terminate comes while some are being provisioned; and it
   is provisioned only while those that its own spec refers to are there. *)
DependencyOrder ==
    failures = 0 =>
        \A p \in scenario.depends :
            /\ Calls("destroy", p[2]) # {} => Instances(p[1]) = {} /\ Calls("provision", p[1]) = {}
            /\ Calls("provision", p[1]) # {} => Instances(p[2]) # {}

Settled == \A k \in scenario.wanted : State(k) = "ready" /\ Cardinality(Instances(k)) = 1

(* A report that waited until its instance was destroyed, and the item cleaned up,
   makes an item for an instance that is no more, and is not going to be lost again. *)
Ghost ==
    \E k \in Keys :
        /\ State(k) \in {"unmatched", "terminating"}
        /\ data[k] \notin instances \union last \union {None}
        /\ \A o \in Keys : \A n \in DOMAIN lost[o] : data[k] \notin lost[o][n]

(* Unless something fails or Terminate is called, every key that the spec asks for comes to
   have one instance and a machine in ready, and this stays: nobody waits for a
   dependency, or is throttled, for ever.                                   *)
AllReady == <>[](failures > 0 \/ terminated \/ Settled)

(* Terminate of a collection that is ready destroys its instances, however they depend on
   each other and few at a time, unless something fails or there is a ghost, which
   counts against the parallelism of a pool for ever.                       *)
TerminateClears ==
    (Settled /\ terminated /\ scenario.wanted \subseteq terminating) ~>
        (failures > 0 \/ Ghost \/ \A k \in scenario.wanted : Instances(k) = {})

(* Instances that are not, or no longer, in the spec are found and destroyed, with the
   same exceptions.                                                         *)
StraysRemoved == <>(failures > 0 \/ Ghost \/ \A k \in Keys \ scenario.wanted : Instances(k) = {})
=============================================================================
