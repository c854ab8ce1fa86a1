--------------------------- MODULE MCReconcilers ----------------------------
(* The enrollment, the ingress and the garbage collection controllers and the terraform
   plugin on small instances: one of them at a time, in configurations that Init chooses
   from. *)
EXTENDS Enrollment, Ingress, Reaper, Terraform

CONSTANTS MaxEvents      \* how many things happen to the hosts

(* No host is known; or a host without an instance or with one, and with a node that
   is down, ready or not there. *)
Nowhere == [o \in Observers |-> [h \in Hosts |-> None]]
Thing(there, ok) == IF there THEN [id |-> MaxEvents + 1, ok |-> ok] ELSE None
Worlds ==
    {[instance |-> [h \in Hosts |-> Thing(i, TRUE)], node |-> [h \in Hosts |-> Thing(n, i /\ ok)]] :
        i \in BOOLEAN, n \in BOOLEAN, ok \in BOOLEAN}

Collecting == scenario.kind = "gc"

Idle == [provisions |-> 0, destroys |-> 0, faults |-> 0, losses |-> 0, moves |-> 0,
         crashes |-> 0, attach |-> FALSE, mishaps |-> "none"]

NoReaper == ReaperInit(Nowhere, 0)
NoTerraform == TerraformInit(Idle, 1, {}, {})

Init ==
    \/ (EnrollmentInit \/ IngressInit) /\ NoReaper /\ NoTerraform
    \/ /\ Start
       /\ actual = {} /\ local = [p \in Procs |-> 0]
       /\ \/ Collecting /\ NoTerraform /\ \E there \in Worlds : ReaperInit(there, MaxEvents)
          \/ /\ scenario.kind = "terraform" /\ NoReaper
             /\ TerraformInit(scenario.course, 1, scenario.up, scenario.there)

Next ==
    \/ Free /\ UNCHANGED <<reaper, tf>>
    \/ Commit /\ UNCHANGED <<reaper, tf>>
    \/ WantedChanges /\ UNCHANGED <<reaper, tf>>
    \/ Terminate /\ UNCHANGED <<reaper, tf>>
    \/ DestroyRecord /\ UNCHANGED <<reaper, tf>>
    \/ \E p \in Procs :
          \/ PollerStops(p) /\ UNCHANGED <<reaper, tf>>
          \/ ReadSource(p) /\ UNCHANGED <<reaper, tf>>
          \/ ReadEnrolled(p) /\ UNCHANGED <<reaper, tf>>
          \/ ComputeDelta(p) /\ UNCHANGED <<reaper, tf>>
          \/ Provision(p) /\ UNCHANGED <<reaper, tf>>
          \/ Unenroll(p) /\ UNCHANGED <<reaper, tf>>
          \/ PollLeader(p) /\ UNCHANGED <<reaper, tf>>
          \/ TakeSignal(p) /\ UNCHANGED <<reaper, tf>>
          \/ ReadRoutes(p) /\ UNCHANGED <<reaper, tf>>
          \/ Configure(p) /\ UNCHANGED <<reaper, tf>>
          \/ ReadBackends(p) /\ UNCHANGED <<reaper, tf>>
          \/ ReadMembers(p) /\ UNCHANGED <<reaper, tf>>
          \/ Deregister(p) /\ UNCHANGED <<reaper, tf>>
          \/ Register(p) /\ UNCHANGED <<reaper, tf>>
          \/ ConfigureHealthCheck(p) /\ UNCHANGED <<reaper, tf>>
    \/ \E o \in Observers :
          \/ Collecting /\ Poll(o) /\ UNCHANGED <<vars, tf>>
          \/ Collecting /\ PollFails(o) /\ UNCHANGED <<vars, tf>>
          \/ TakeFound(o) /\ UNCHANGED <<vars, tf>>
          \/ TakeLost(o) /\ UNCHANGED <<vars, tf>>
          \/ LookUp(o) /\ UNCHANGED <<vars, tf>>
    \/ \E h \in Hosts :
          \/ Turns(h) /\ UNCHANGED <<vars, tf>>
          \/ \E o \in Observers : Joins(o, h) /\ UNCHANGED <<vars, tf>>
          \/ \E o \in Observers : Leaves(o, h) /\ UNCHANGED <<vars, tf>>
    \/ DeleteItems /\ UNCHANGED <<vars, tf>>
    \/ Destroy /\ UNCHANGED <<vars, tf>>
    \/ Collecting /\ Tick /\ UNCHANGED <<vars, tf>>
    \/ \E p \in Nodes :
          \/ ProvisionFiles(p) /\ UNCHANGED <<vars, reaper>>
          \/ \E f \in Instances, r \in BOOLEAN : DestroyFiles(p, f, r) /\ UNCHANGED <<vars, reaper>>
          \/ DescribeInstances(p) /\ UNCHANGED <<vars, reaper>>
          \/ ImportState(p) /\ UNCHANGED <<vars, reaper>>
          \/ ImportFiles(p) /\ UNCHANGED <<vars, reaper>>
          \/ ShouldApply(p) /\ UNCHANGED <<vars, reaper>>
          \/ ListBefore(p) /\ UNCHANGED <<vars, reaper>>
          \/ Refresh(p) /\ UNCHANGED <<vars, reaper>>
          \/ ListAfter(p) /\ UNCHANGED <<vars, reaper>>
          \/ Walk(p) /\ UNCHANGED <<vars, reaper>>
          \/ \E f \in node[p].look : HandleFilePruning(p, f) /\ UNCHANGED <<vars, reaper>>
          \/ Prune(p) /\ UNCHANGED <<vars, reaper>>
          \/ Rename(p) /\ UNCHANGED <<vars, reaper>>
          \/ ApplyPlans(p) /\ UNCHANGED <<vars, reaper>>
          \/ \E f \in node[p].create \cup node[p].destroy : Acts(p, f) /\ UNCHANGED <<vars, reaper>>
          \/ Records(p) /\ UNCHANGED <<vars, reaper>>
          \/ ApplyFails(p) /\ UNCHANGED <<vars, reaper>>
          \/ ApplyEnds(p) /\ UNCHANGED <<vars, reaper>>
          \/ Wakes(p) /\ UNCHANGED <<vars, reaper>>
          \/ LeadMoves(p) /\ UNCHANGED <<vars, reaper>>
          \/ \E q \in Nodes : Crash(p, q) /\ UNCHANGED <<vars, reaper>>
    \/ \E f \in cloud : Vanishes(f) /\ UNCHANGED <<vars, reaper>>

(* The goroutines run.  A ticker and a closed stop channel that are both ready are
   chosen between at random, so the stop channel is not passed over for ever. *)
Fairness ==
    /\ WF_vars(DestroyRecord)
    /\ \A p \in Procs : /\ SF_vars(PollerStops(p))
                        /\ WF_vars(Enroll(p))
                        /\ WF_vars(PollLeader(p))
                        /\ WF_vars(TakeSignal(p) \/ Sync(p))
    /\ WF_reaper(Collecting /\ \E o \in Observers : Poll(o))
    /\ WF_reaper(Collecting /\ Tick)
    /\ WF_reaper(DeleteItems \/ Destroy)
    /\ WF_reaper(\E o \in Observers : TakeFound(o) \/ TakeLost(o) \/ LookUp(o))
    /\ \A p \in Nodes : WF_tf(Round(p))

FairSpec == Init /\ [][Next]_<<vars, reaper, tf>> /\ Fairness

-----------------------------------------------------------------------------

CONSTANTS v1, v2, b1, b2, n1, n2, n3, h1

(* Source instances come and go under calls that fail; a new spec is committed in
   the middle of a round; the object is freed or terminated; keys that cannot be
   parsed, under each policy. *)
Record(i, k, tagged) == [id |-> i, key |-> k, tagged |-> tagged]
Enrollment0 ==
    [kind |-> "enrollment", started |-> {1}, calls |-> <<>>, wanted |-> <<{1}, {1, 2}, {2}>>,
     faults |-> 0, actual |-> {}, unparsed |-> {}, labelled |-> FALSE,
     disableDestroy |-> FALSE, disableProvision |-> FALSE, destroyOnTerminate |-> TRUE]

Enrollments ==
    {[Enrollment0 EXCEPT !.faults = 2, !.actual = {Record(1, 3, TRUE)}],
     [Enrollment0 EXCEPT !.calls = <<"commit">>],
     [Enrollment0 EXCEPT !.calls = <<"free">>, !.faults = 1],
     [Enrollment0 EXCEPT !.calls = <<"terminate">>, !.faults = 1],
     [Enrollment0 EXCEPT !.calls = <<"terminate">>, !.destroyOnTerminate = FALSE]}
    \cup
    {[Enrollment0 EXCEPT !.actual = {Record(1, 1, TRUE), Record(2, 4, TRUE)}, !.unparsed = {1},
                         !.disableDestroy = d] : d \in BOOLEAN}
    \cup
    {[Enrollment0 EXCEPT !.actual = {Record(1, 1, FALSE), Record(2, 4, TRUE)},
                         !.disableProvision = d] : d \in BOOLEAN}

(* Routes are added, changed and removed, nodes join and leave, while the lead is
   handed over or calls fail; two load balancers of one manager. *)
Route(port, to) == [port |-> port, proto |-> "tcp", to |-> to]
World(leaders, routes, members) ==
    [leaders |-> leaders, routes |-> [v \in {v1, v2} |-> routes],
     members |-> [v \in {v1, v2} |-> members]]
Holds(routes, backends) == [b \in {b1, b2} |->
    [routes |-> routes, backends |-> backends, health |-> NoCheck]]
Ingress0 ==
    [kind |-> "ingress", started |-> {1, 2}, calls |-> <<>>, faults |-> 0,
     specs |-> [p \in Procs |-> {v1}], action |-> [p \in Procs |-> p],
     l4 |-> (v1 :> b1 @@ v2 :> b2), wanted |-> <<>>,
     actual |-> Holds({Route(80, 1), Route(22, 1)}, {n1})]

OldRoutes == {Route(80, 1)}
NewRoutes == {Route(80, 2), Route(443, 1)}
Ingresses ==
    {[Ingress0 EXCEPT !.wanted = <<World({1}, OldRoutes, {n1}), World({1}, NewRoutes, {n1}),
                                   World({2}, NewRoutes, {n1})>>],
     [Ingress0 EXCEPT !.wanted = <<World({1}, OldRoutes, {n1}), World({1}, OldRoutes, {n1, n2}),
                                   World({2}, OldRoutes, {n1, n2}), World({2}, OldRoutes, {n2})>>],
     [Ingress0 EXCEPT !.wanted = <<World({1}, OldRoutes, {n1}), World({1}, NewRoutes, {n2, n3})>>,
                      !.started = {1}, !.faults = 2],
     [Ingress0 EXCEPT !.wanted = <<World({1}, OldRoutes, {n1}), World({1}, NewRoutes, {n2})>>,
                      !.started = {1}, !.faults = 1, !.specs = [p \in Procs |-> {v1, v2}]],
     [Ingress0 EXCEPT !.wanted = <<World({1, 2}, OldRoutes, {n1}), World({1, 2}, NewRoutes, {n2})>>,
                      !.started = {1}, !.calls = <<"commit", "free">>]}

GC0 == [kind |-> "gc", started |-> {}, calls |-> <<>>, faults |-> 0, wanted |-> <<{}>>]

(* Instances that share a global resource are made and destroyed; with a fault, and
   a resource that vanishes; while the lead moves; with a crash; and one that exists
   is imported. *)
Plugins(limits, up, there) ==
    [kind |-> "terraform", started |-> {}, calls |-> <<>>, faults |-> 0, wanted |-> <<{}>>,
     course |-> limits, up |-> up, there |-> there]
Calls(made, gone) == [Idle EXCEPT !.provisions = made, !.destroys = gone]
Terraforms ==
    {Plugins([Calls(2, 1) EXCEPT !.attach = TRUE], {1}, {}),
     Plugins([Calls(1, 1) EXCEPT !.attach = TRUE, !.mishaps = "fault", !.faults = 1, !.losses = 1], {1}, {}),
     Plugins([Calls(1, 1) EXCEPT !.mishaps = "handover", !.moves = 1], {1, 2}, {}),
     Plugins([Calls(1, 1) EXCEPT !.mishaps = "restart", !.crashes = 1], {1, 2}, {}),
     Plugins([Calls(0, 1) EXCEPT !.mishaps = "restart", !.crashes = 1, !.faults = 1], {1}, {Instance(9)})}

Configurations == Enrollments \cup Ingresses \cup {GC0} \cup Terraforms
=============================================================================
