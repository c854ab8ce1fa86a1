------------------------------- MODULE Reaper -------------------------------
(* The garbage collection controller (pkg/controller/gc) with its swarm model: it
   matches the instances of one plugin with the nodes of another by a key, the
   host, and destroys instances whose node does not join or stays down, and nodes
   whose instance is gone.

   Two observers report what they list and what they miss.  One goroutine turns the
   reports into signals for a state machine per host, the engine of the machines
   reacts to them and to deadlines, and a third goroutine destroys what the machines
   ask it to. *)
EXTENDS Naturals, Sequences, FiniteSets, SequencesExt

CONSTANTS
    Hosts,
    ReportSize,                  \* the capacity of an observer's channels
    MaxErrors,                   \* how many calls of the plugins fail
    NoData, DockerNodeJoin, WaitDescribeInstances, WaitBeforeInstanceDestroy,
    WaitBeforeReprovision, WaitBeforeCleanup    \* in ticks

VARIABLES
    world,       \* world[o][h]: the thing that plugin o has for host h; id 0 is none
    events,      \* how many times the world may still change on its own
    errors,      \* how many calls of the plugins have failed
    last,        \* last[o]: what observer o listed before
    found, lost, \* found[o], lost[o]: the channels of observer o
    dead,        \* the observers whose poller hangs on an error
    machine,     \* machine[h]: the state and the time to live of the item's machine
    data,        \* data[h][o]: the ID in the item's data, 0 if there is none
    losing,      \* the hosts whose items are signalled, but not yet deleted
    rm,          \* rm[o]: the channel with the machines, by host, that ask for a destroy
    doomed,      \* what the gc goroutine has looked up and is about to destroy
    polled,      \* the observers that have polled since the last tick
    healthy      \* healthy[h]: for how many ticks the host has been well, up to 2

reaper == <<world, events, errors, last, found, lost, dead, machine, data, losing, rm,
            doomed, polled, healthy>>

Observers == {"node", "instance"}
None == [id |-> 0, ok |-> FALSE]
NoMachine == [state |-> "none", ttl |-> 0]
Spared == [what |-> "nothing"]

(* The specification of the machines: where a signal leads, which of the two
   channels the transition's action writes to, and what expires when. *)
Ready == "dockerNodeReady"
Down == "dockerNodeDown"
Gone == "dockerNodeGone"
OK == "instanceOK"
Lost == "instanceGone"

Leads ==
    [start |-> {<<Ready, "matchedDockerNode">>, <<Down, "matchedDockerNode">>,
                <<OK, "matchedInstance">>, <<"timeout", "removedInstance">>},
     matchedInstance |-> {<<Ready, "swarmNode">>, <<Down, "swarmNode">>,
                <<Gone, "pendingInstanceDestroy">>, <<Lost, "removedInstance">>},
     pendingInstanceDestroy |-> {<<Ready, "swarmNode">>, <<Lost, "removedInstance">>,
                <<"reap", "removedInstance">>},
     matchedDockerNode |-> {<<OK, "swarmNode">>, <<Lost, "removedInstance">>,
                <<Gone, "removedInstance">>},
     swarmNode |-> {<<Ready, "swarmNodeReady">>, <<Down, "swarmNodeDown">>,
                <<Gone, "matchedInstance">>, <<Lost, "matchedDockerNode">>},
     swarmNodeReady |-> {<<Down, "swarmNodeDown">>, <<Gone, "matchedInstance">>,
                <<Lost, "matchedDockerNode">>},
     swarmNodeDown |-> {<<Ready, "swarmNodeReady">>, <<Gone, "pendingInstanceDestroy">>,
                <<Lost, "matchedDockerNode">>},
     removedInstance |-> {<<Down, "done">>, <<"timeout", "done">>},
     done |-> {},
     none |-> {}]

Asks(o) ==
    IF o = "instance"
    THEN {<<"matchedInstance", Lost>>, <<"pendingInstanceDestroy", Lost>>,
          <<"pendingInstanceDestroy", "reap">>}
    ELSE {<<"matchedDockerNode", Lost>>, <<"removedInstance", Down>>}

Expiry ==
    [start |-> <<NoData, "timeout">>,
     matchedInstance |-> <<DockerNodeJoin, Gone>>,
     pendingInstanceDestroy |-> <<WaitBeforeInstanceDestroy, "reap">>,
     matchedDockerNode |-> <<WaitDescribeInstances, Lost>>,
     swarmNodeDown |-> <<WaitBeforeReprovision, Gone>>,
     removedInstance |-> <<WaitBeforeCleanup, "timeout">>]

(* Mutant: the time in swarmNodeDown is not limited. *)
EnterForGood(s) ==
    [state |-> s, ttl |-> IF s \in DOMAIN Expiry \ {"swarmNodeDown"} THEN Expiry[s][1] ELSE 0]

(* A machine enters a state, and its time to live starts to run. *)
Enter(s) == [state |-> s, ttl |-> IF s \in DOMAIN Expiry THEN Expiry[s][1] ELSE 0]

(* Mutant: a node that joins late does not save its instance. *)
AfterTooLate(m, sig) ==
    LET to == {t[2] : t \in {u \in Leads[m.state] : u[1] = sig}}
    IN  IF to = {} \/ (m.state = "pendingInstanceDestroy" /\ sig = Ready) THEN m
        ELSE Enter(CHOOSE s \in to : TRUE)

(* The machine after a signal; one that its state does not know is ignored. *)
After(m, sig) ==
    LET to == {t[2] : t \in {u \in Leads[m.state] : u[1] = sig}}
    IN  IF to = {} THEN m ELSE Enter(CHOOSE s \in to : TRUE)

(* Signals sig[h] to the machines ms of the hosts in hs, with their actions. *)
Signal(hs, ms, sig) ==
    /\ machine' = [h \in Hosts |-> IF h \in hs THEN After(ms[h], sig[h]) ELSE ms[h]]
    /\ rm' = [o \in Observers |->
                rm[o] \o SetToSeq({h \in hs : <<ms[h].state, sig[h]>> \in Asks(o)})]

-----------------------------------------------------------------------------
(* The plugins, and what happens to the hosts. *)

There(o, h) == world[o][h].id # 0
Well(h) == There("instance", h) /\ world["node"][h].ok

Event(h) ==
    /\ events > 0
    /\ events' = events - 1
    /\ healthy' = [healthy EXCEPT ![h] = 0]
    /\ UNCHANGED <<errors, last, found, lost, dead, machine, data, losing, rm, doomed, polled>>

(* An instance or, on a host that has one, a node shows up, with an ID that was
   not used before. *)
Joins(o, h) ==
    /\ ~There(o, h) /\ There("instance", h) = (o = "node")
    /\ world' = [world EXCEPT ![o][h] = [id |-> events, ok |-> TRUE]]
    /\ Event(h)

(* A node goes down or comes back, for as long as its host is there. *)
Turns(h) ==
    /\ There("node", h) /\ There("instance", h)
    /\ world' = [world EXCEPT !["node"][h].ok = ~@]
    /\ Event(h)

(* What is left when an instance goes, or a node: a node without a host is down. *)
Without(o, h) ==
    IF o = "node" THEN [world EXCEPT ![o][h] = None]
    ELSE [world EXCEPT ![o][h] = None, !["node"][h].ok = FALSE]

Leaves(o, h) ==
    /\ There(o, h)
    /\ world' = Without(o, h)
    /\ Event(h)

-----------------------------------------------------------------------------
(* The observers. *)

Listing(o) == {[host |-> h, id |-> world[o][h].id, ok |-> world[o][h].ok] :
                  h \in {g \in Hosts : There(o, g)}}

(* A report that does not fit into the channel is dropped. *)
Report(channel, list) ==
    IF list = {} \/ Len(channel) = ReportSize THEN channel ELSE Append(channel, list)

(* A poll reports the listing, and what the last one had and this one has not, by
   ID.  Observers poll once per tick, which by default are of the same length.  An
   error goes to the poller's error channel, where it hangs. *)
Poll(o) ==
    /\ o \notin dead \union polled
    /\ LET missing == {d \in last[o] : \A c \in Listing(o) : c.id # d.id}
       IN  /\ found' = [found EXCEPT ![o] = Report(@, Listing(o))]
           /\ lost' = [lost EXCEPT ![o] = Report(@, missing)]
    /\ last' = [last EXCEPT ![o] = Listing(o)]
    /\ polled' = polled \union {o}
    /\ UNCHANGED <<world, events, errors, dead, machine, data, losing, rm, doomed, healthy>>

PollFails(o) ==
    /\ o \notin dead \union polled /\ errors < MaxErrors
    /\ errors' = errors + 1
    /\ dead' = dead \union {o}
    /\ UNCHANGED <<world, events, last, found, lost, machine, data, losing, rm, doomed,
                   polled, healthy>>

-----------------------------------------------------------------------------
(* processObservations, which takes from the four channels in any order. *)

(* FoundNode and FoundInstance: the signal for what was found. *)
SignalFor(o, d) == IF o = "instance" THEN OK ELSE IF d.ok THEN Ready ELSE Down

(* A listing: every host gets an item and a machine unless it has them, the data is
   kept, and the machine is signalled. *)
TakeFound(o) ==
    /\ losing = {} /\ found[o] # <<>>
    /\ LET list  == Head(found[o])
           hs    == {d.host : d \in list}
           of(h) == CHOOSE d \in list : d.host = h
       IN  /\ data' = [h \in Hosts |-> IF h \in hs THEN [data[h] EXCEPT ![o] = of(h).id]
                                       ELSE data[h]]
           /\ Signal(hs, [h \in Hosts |-> IF h \in hs /\ machine[h] = NoMachine
                                          THEN Enter("start") ELSE machine[h]],
                     [h \in hs |-> SignalFor(o, of(h))])
    /\ found' = [found EXCEPT ![o] = Tail(@)]
    /\ UNCHANGED <<world, events, errors, last, lost, dead, losing, doomed, polled, healthy>>

(* A loss: the machines of the items are signalled, and then the items deleted. *)
TakeLost(o) ==
    /\ losing = {} /\ lost[o] # <<>>
    /\ LET hs == {h \in {d.host : d \in Head(lost[o])} : machine[h] # NoMachine}
       IN  /\ losing' = hs
           /\ Signal(hs, machine, [h \in hs |-> IF o = "instance" THEN Lost ELSE Gone])
    /\ lost' = [lost EXCEPT ![o] = Tail(@)]
    /\ UNCHANGED <<world, events, errors, last, found, dead, data, doomed, polled, healthy>>

(* Mutant: a request of the deleted item's machine is taken for one of the next. *)
DeleteItemsOnly ==
    /\ losing # {}
    /\ losing' = {}
    /\ machine' = [h \in Hosts |-> IF h \in losing THEN NoMachine ELSE machine[h]]
    /\ data' = [h \in Hosts |-> IF h \in losing THEN [o \in Observers |-> 0] ELSE data[h]]
    /\ UNCHANGED <<world, events, errors, last, found, lost, dead, rm, doomed, polled, healthy>>

(* Without its item a machine is never heard of again: the gc goroutine finds no
   item for it. *)
DeleteItems ==
    /\ losing # {}
    /\ losing' = {}
    /\ machine' = [h \in Hosts |-> IF h \in losing THEN NoMachine ELSE machine[h]]
    /\ data' = [h \in Hosts |-> IF h \in losing THEN [o \in Observers |-> 0] ELSE data[h]]
    /\ rm' = [o \in Observers |-> SelectSeq(rm[o], LAMBDA h : h \notin losing)]
    /\ UNCHANGED <<world, events, errors, last, found, lost, dead, doomed, polled, healthy>>

-----------------------------------------------------------------------------
(* gc: the item of the machine is looked up, and what its data names is destroyed;
   an error is only logged, and an ID that is not there is an error. *)

LookUp(o) ==
    /\ doomed = Spared /\ rm[o] # <<>>
    /\ doomed' = [what |-> o, host |-> Head(rm[o]), id |-> data[Head(rm[o])][o]]
    /\ rm' = [rm EXCEPT ![o] = Tail(@)]
    /\ UNCHANGED <<world, events, errors, last, found, lost, dead, machine, data, losing,
                   polled, healthy>>

Destroy ==
    /\ doomed # Spared
    /\ \/ /\ world' = IF world[doomed.what][doomed.host].id = doomed.id
                       THEN Without(doomed.what, doomed.host) ELSE world
          /\ UNCHANGED errors
       \/ errors < MaxErrors /\ errors' = errors + 1 /\ UNCHANGED world
    /\ doomed' = Spared
    /\ UNCHANGED <<events, last, found, lost, dead, machine, data, losing, rm, polled, healthy>>

(* A tick is as long as the longer of the poll intervals: before the next one, each
   observer polls, and the goroutines do what there is to do. *)
Quiet ==
    /\ polled \union dead = Observers
    /\ \A o \in Observers : found[o] = <<>> /\ lost[o] = <<>> /\ rm[o] = <<>>
    /\ losing = {} /\ doomed = Spared

(* The clock ticks: machines whose time in a state is up get the state's signal. *)
Tick ==
    /\ Quiet
    /\ LET due == {h \in Hosts : machine[h].ttl = 1}
           ms  == [h \in Hosts |-> [machine[h] EXCEPT !.ttl = IF @ > 1 THEN @ - 1 ELSE 0]]
       IN  Signal(due, ms, [h \in due |-> Expiry[machine[h].state][2]])
    /\ polled' = {}
    /\ healthy' = [h \in Hosts |-> IF ~Well(h) THEN 0 ELSE IF healthy[h] = 2 THEN 2 ELSE healthy[h] + 1]
    /\ UNCHANGED <<world, events, errors, last, found, lost, dead, data, losing, doomed>>

ReaperInit(initially, changes) ==
    /\ world = initially
    /\ events = changes
    /\ errors = 0
    /\ last = [o \in Observers |-> {}]
    /\ found = [o \in Observers |-> <<>>]
    /\ lost = [o \in Observers |-> <<>>]
    /\ dead = {}
    /\ machine = [h \in Hosts |-> NoMachine]
    /\ data = [h \in Hosts |-> [o \in Observers |-> 0]]
    /\ losing = {}
    /\ rm = [o \in Observers |-> <<>>]
    /\ doomed = Spared
    /\ polled = {}
    /\ healthy = [h \in Hosts |-> 0]

-----------------------------------------------------------------------------

(* An instance that runs and whose node has been ready, for two ticks and ever
   since, is not destroyed, and neither is its node: not after it was lost and came
   back, not by a request that was made before (processObservations, reaper.go:220,
   and the machines of swarm/fsm.go:231).  This needs both observers at work. *)
HealthySpared ==
    [][\A h \in Hosts : dead = {} /\ healthy[h] = 2 /\ healthy'[h] = 2 =>
          \A o \in Observers : world'[o][h] = world[o][h]]_reaper

(* When a machine asks for a destroy, the item that is looked up for it has the
   data that the lookup asserts to be there (reaper.go:154 and 166). *)
DataPresent ==
    \A o \in Observers : \A i \in DOMAIN rm[o] : data[rm[o][i]][o] # 0

(* If nothing fails, then in the end there are only hosts with an instance and a
   ready node, whatever instances never joined, and whatever nodes were down or left
   behind by their instance: the garbage is collected. *)
GarbageCollected ==
    <>[](errors = 0 => \A h \in Hosts : There("instance", h) \/ There("node", h) => Well(h))
=============================================================================
