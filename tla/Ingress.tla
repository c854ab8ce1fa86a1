------------------------------ MODULE Ingress -------------------------------
(* The ingress controller (pkg/controller/ingress): the leader keeps the routes,
   the backends and the health check of L4 load balancers in line with the
   virtual hosts of its spec.

   The poller only signals a state machine.  The engine of that machine takes the
   signals in order and runs the long synchronization as the action of a
   transition, so polls and synchronizations overlap.  The objects of two
   managers, an old and a new leader, work on the same load balancers.

   wanted is a record: routes[v] and members[v], the routes and the backend nodes
   of virtual host v, and the leaders.  actual[b] is what load balancer b holds. *)
EXTENDS Reconciler, SequencesExt

CONSTANTS
    QueueSize    \* the signals that the engine of a machine holds

Signals == {"start", "sync", "lead", "follow"}
States == {"waiting", "syncing", "follower"}

(* A route: the load balancer's port, the protocol, and the port of the backend,
   certificate and health monitor path, which a change of the route may touch. *)
PortsOf(routes) == {r.port : r \in routes}

(* The transitions of stateMachineSpec.  A signal that a state does not list is an
   error, which leaves the machine where it is. *)
Transition(s, sig) ==
    CASE s = "follower" /\ sig = "lead" -> "waiting"
      [] s = "waiting" /\ sig = "start" -> "syncing"
      [] s = "syncing" /\ sig = "sync" -> "waiting"
      [] s # "follower" /\ sig = "follow" -> "follower"
      [] OTHER -> s

(* Mutant: the poller does not ask who leads. *)
PollAnyway(p) ==
    /\ scenario.kind = "ingress" /\ RoundDue(p)
    /\ local[p].queue = <<>>
    /\ local' = [local EXCEPT ![p].queue = <<"lead", "start", "sync">>]
    /\ poller' = [poller EXCEPT ![p] = "select"]
    /\ UNCHANGED <<control, faults, actual, job>>

(* The poller: a leader signals lead, start and sync; anyone else, and a node that
   cannot tell, signals follow.  Signal blocks while the engine's queue is full. *)
PollLeader(p) ==
    /\ scenario.kind = "ingress" /\ RoundDue(p)
    /\ \E sigs \in {<<"lead", "start", "sync">>, <<"follow">>} :
          /\ Len(local[p].queue) + Len(sigs) <= QueueSize
          /\ IF (sigs # <<"follow">>) <=> (p \in wanted.leaders)
             THEN UNCHANGED faults
             ELSE p \in wanted.leaders /\ Fails
          /\ local' = [local EXCEPT ![p].queue = @ \o sigs]
    /\ poller' = [poller EXCEPT ![p] = "select"]
    /\ UNCHANGED <<control, actual, job>>

(* The virtual hosts that the action of p's machine looks after.  The action is
   set in the specification that all the machines of a process share, by the init
   of each object: the last one counts. *)
Vhosts(p) == scenario.specs[scenario.action[p]]

(* The engine takes the next signal.  The sync signal runs the action on the way
   from syncing to waiting: it reads the wanted routes first, and goes on to the
   backends where it cannot. *)
TakeSignal(p) ==
    /\ scenario.kind = "ingress"
    /\ job[p] = NoJob
    /\ local[p].queue # <<>>
    /\ LET sig == Head(local[p].queue)
           s   == local[p].state
       IN  /\ local' = [local EXCEPT ![p] = [state |-> Transition(s, sig), queue |-> Tail(@.queue)]]
           /\ IF <<s, sig>> # <<"syncing", "sync">>
              THEN UNCHANGED <<faults, job>>
              ELSE \/ /\ job' = [job EXCEPT ![p] = [at |-> "routes", todo |-> Vhosts(p),
                                                    routes |-> wanted.routes]]
                      /\ UNCHANGED faults
                   \/ /\ Fails
                      /\ job' = [job EXCEPT ![p] = [at |-> "backends", todo |-> Vhosts(p)]]
    /\ UNCHANGED <<control, poller, actual>>

(* The L4 interface, as the simulator has it: a port is published once, and only a
   published port can be unpublished. *)
Publish(b, r) ==
    /\ r.port \notin PortsOf(actual[b].routes)
    /\ actual' = [actual EXCEPT ![b].routes = @ \cup {r}]
Unpublish(b, port) ==
    /\ port \in PortsOf(actual[b].routes)
    /\ actual' = [actual EXCEPT ![b].routes = {r \in @ : r.port # port}]

(* getRouteOperation and configureL4: a published route with the port and protocol
   of a wanted one stays where it is the same and is changed otherwise; a wanted
   route without such a match is created, and what is left over is removed.  The
   operations are listed in the order in which they are carried out. *)
Matches(r, q) == r.port = q.port /\ r.proto = q.proto
Op(name, routes) ==
    LET byPort == SetToSortSeq(routes, LAMBDA r, q : r.port < q.port)
    IN  [i \in DOMAIN byPort |-> [op |-> name, route |-> byPort[i]]]
(* Mutants of configureL4: a route whose backend port differs is taken for the
   same; a route that is the same is changed all the same. *)
OperationsWithoutChange(published, desired) ==
    Op("publish", {r \in desired : \A q \in published : ~Matches(r, q)})
    \o Op("unpublish", {q \in published : \A r \in desired : ~Matches(r, q)})
OperationsAlwaysChange(published, desired) ==
    Op("unpublish", published) \o Op("publish", desired)

Operations(published, desired) ==
    LET create == {r \in desired : \A q \in published : ~Matches(r, q)}
        change == {r \in desired : \E q \in published : Matches(r, q) /\ r # q}
        remove == {q \in published : \A r \in desired : ~Matches(r, q)}
    IN  Op("publish", create)
        \o FlattenSeq([i \in DOMAIN Op("", change) |->
              LET r == {Op("", change)[i].route} IN Op("unpublish", r) \o Op("publish", r)])
        \o Op("unpublish", remove)

(* syncRoutesL4: the next load balancer, or on to the backends.  The targets are
   keyed by the client of the plugin, and every lookup makes a new client, so each
   virtual host is a target of its own. *)
NextTarget(p, todo, routes) ==
    IF todo = {} THEN [at |-> "backends", todo |-> Vhosts(p)]
    ELSE [at |-> "routes", todo |-> todo, routes |-> routes]

Proceed(p, j) == job' = [job EXCEPT ![p] = j]

ReadRoutes(p) ==
    /\ job[p].at = "routes"
    /\ \E v \in job[p].todo :
          LET todo == job[p].todo \ {v}
              ops  == Operations(actual[scenario.l4[v]].routes, job[p].routes[v])
          IN  \/ /\ Proceed(p, IF ops = <<>> THEN NextTarget(p, todo, job[p].routes)
                                ELSE [at |-> "configure", todo |-> todo, vhost |-> v,
                                      routes |-> job[p].routes, ops |-> ops])
                 /\ UNCHANGED faults
              \/ Fails /\ Proceed(p, NextTarget(p, todo, job[p].routes))
    /\ UNCHANGED <<control, poller, actual, local>>

(* configureL4: the next operation.  The first that fails ends the work on this
   load balancer. *)
Configure(p) ==
    /\ job[p].at = "configure"
    /\ LET j    == job[p]
           b    == scenario.l4[j.vhost]
           r    == Head(j.ops).route
           free == r.port \notin PortsOf(actual[b].routes)
           rest == NextTarget(p, j.todo, j.routes)
       IN  \/ /\ \/ Head(j.ops).op = "publish" /\ Publish(b, r)
                 \/ Head(j.ops).op = "unpublish" /\ Unpublish(b, r.port)
              /\ Proceed(p, IF Len(j.ops) = 1 THEN rest ELSE [j EXCEPT !.ops = Tail(@)])
              /\ UNCHANGED faults
           \/ /\ \/ (Head(j.ops).op = "publish") # free /\ UNCHANGED faults
                 \/ Fails
              /\ Proceed(p, rest)
              /\ UNCHANGED actual
    /\ UNCHANGED <<control, poller, local>>

(* Mutant: a virtual host without backends ends the loop over the others. *)
NextBackendsReturns(p, todo) == [at |-> "health", todo |-> Vhosts(p)]

NextBackends(p, todo) ==
    [at |-> IF todo = {} THEN "health" ELSE "backends",
     todo |-> IF todo = {} THEN Vhosts(p) ELSE todo]

(* syncBackends: the registered backends are read, then the members of the groups;
   a group that cannot be described ends the synchronization of the backends. *)
ReadBackends(p) ==
    /\ job[p].at = "backends"
    /\ \E v \in job[p].todo :
          LET todo == job[p].todo \ {v}
          IN  \/ /\ Proceed(p, [at |-> "members", todo |-> todo, vhost |-> v,
                                registered |-> actual[scenario.l4[v]].backends])
                 /\ UNCHANGED faults
              \/ Fails /\ Proceed(p, NextBackends(p, todo))
    /\ UNCHANGED <<control, poller, actual, local>>

(* Mutant: a group that cannot be described is taken for an empty one. *)
ReadMembersOrNone(p) ==
    /\ job[p].at = "members"
    /\ \E nodes \in {wanted.members[job[p].vhost], {}} :
          /\ nodes = {} => Fails
          /\ nodes # {} => UNCHANGED faults
          /\ Proceed(p, [at |-> "deregister", todo |-> job[p].todo, vhost |-> job[p].vhost,
                         remove |-> job[p].registered \ nodes,
                         add |-> nodes \ job[p].registered])
    /\ UNCHANGED <<control, poller, actual, local>>

ReadMembers(p) ==
    /\ job[p].at = "members"
    /\ LET j     == job[p]
           nodes == wanted.members[j.vhost]
       IN  \/ /\ Proceed(p, [at |-> "deregister", todo |-> j.todo, vhost |-> j.vhost,
                             remove |-> j.registered \ nodes, add |-> nodes \ j.registered])
              /\ UNCHANGED faults
           \/ Fails /\ Proceed(p, NextBackends(p, {}))
    /\ UNCHANGED <<control, poller, actual, local>>

(* The backends to remove are deregistered, then those to add are registered.  An
   error of either call is only logged. *)
Deregister(p) ==
    /\ job[p].at = "deregister"
    /\ \/ /\ actual' = [actual EXCEPT ![scenario.l4[job[p].vhost]].backends = @ \ job[p].remove]
          /\ UNCHANGED faults
       \/ Fails /\ UNCHANGED actual
    /\ Proceed(p, [job[p] EXCEPT !.at = "register"])
    /\ UNCHANGED <<control, poller, local>>

Register(p) ==
    /\ job[p].at = "register"
    /\ \/ /\ actual' = [actual EXCEPT ![scenario.l4[job[p].vhost]].backends = @ \cup job[p].add]
          /\ UNCHANGED faults
       \/ Fails /\ UNCHANGED actual
    /\ Proceed(p, NextBackends(p, job[p].todo))
    /\ UNCHANGED <<control, poller, local>>

(* syncHealthChecks: the check of every virtual host is configured; the first
   error ends it.  The action is over, and the engine takes its next signal. *)
ConfigureHealthCheck(p) ==
    /\ job[p].at = "health"
    /\ \E v \in job[p].todo :
          \/ /\ actual' = [actual EXCEPT ![scenario.l4[v]].health = v]
             /\ Proceed(p, IF job[p].todo = {v} THEN NoJob
                           ELSE [job[p] EXCEPT !.todo = @ \ {v}])
             /\ UNCHANGED faults
          \/ Fails /\ Proceed(p, NoJob) /\ UNCHANGED actual
    /\ UNCHANGED <<control, poller, local>>

Sync(p) == \/ ReadRoutes(p) \/ Configure(p)
           \/ ReadBackends(p) \/ ReadMembers(p) \/ Deregister(p) \/ Register(p)
           \/ ConfigureHealthCheck(p)

NoCheck == "none"        \* a load balancer without a health check

IngressInit ==
    /\ Start
    /\ scenario.kind = "ingress"
    /\ actual = scenario.actual
    /\ local = [p \in Procs |-> [state |-> "follower", queue |-> <<>>]]

-----------------------------------------------------------------------------

Serving == scenario.kind = "ingress"
InLead(p) == Serving /\ p \in wanted.leaders /\ poller[p] # "new" /\ ~closed[p]
SoleManager == Serving /\ \A p \in Running \ {1} : p \notin wanted.leaders

(* Whatever is published by hand, fails on the way or is undone by the last
   synchronization of a former leader, the load balancers of a leader's virtual
   hosts come to publish exactly the wanted routes, and to have exactly the members
   of the groups for their backends and the health check configured, and stay so
   (configureL4, l4.go:17, and syncBackends, sync.go:63). *)
IngressConverges ==
    <>[](\A p \in Procs : InLead(p) => \A v \in scenario.specs[p] :
            actual[scenario.l4[v]] = [routes |-> wanted.routes[v], backends |-> wanted.members[v],
                                      health |-> v])

(* A backend that is a member of the group is never deregistered, not even by a
   former leader that acts on lists it read before the node joined: the registered
   backends are read before the members are, and a group that cannot be described
   is left alone (sync.go:91-123).  With one manager in charge, a published route that
   is wanted as it is stays published, while others are created, changed and removed
   around it.  (No node leaves and comes back here.) *)
WantedStays ==
    [][Serving => \A v \in DOMAIN scenario.l4 :
          LET now == actual[scenario.l4[v]]
              then == actual'[scenario.l4[v]]
          IN  /\ wanted.members[v] \cap now.backends \subseteq then.backends
              /\ SoleManager => wanted.routes[v] \cap now.routes \subseteq then.routes]_vars

(* A manager that lost the lead comes to rest: the signals and the synchronization
   that it had begun are its last (the follower state, fsm.go:58). *)
FormerLeadersRest ==
    <>[](\A p \in Procs : Serving /\ p \notin wanted.leaders /\ ~closed[p] => job[p] = NoJob)
=============================================================================
