----------------------------- MODULE Reconciler -----------------------------
(* The loop that the enrollment and the ingress controllers are built on
   (pkg/controller/internal/poll.go) and the calls of the generic controller
   that start and stop it (pkg/controller/internal/controller.go).

   A Poller runs its work at every tick, in its own goroutine, and checks its
   stop channel only between two ticks.  Enrollment.tla and Ingress.tla give
   the work.  Both compare something wanted, which changes on its own, with
   something actual, which only the work changes, over plugins that may fail.
   The controllers share the variables, so that one model holds either. *)
EXTENDS Naturals, Sequences, FiniteSets, FiniteSetsExt

CONSTANTS
    Procs,       \* the pollers: generations of an enroller, or ingress objects
    Scenarios    \* the configurations Init chooses from

VARIABLES
    scenario,    \* the configuration; never changes
    poller,      \* poller[p]: where the goroutine of Poller.Run is
    closed,      \* closed[p]: the stop channel is closed
    calls,       \* the calls of the controller's clients still to come
    changes,     \* the values that wanted still has to take
    faults,      \* how many plugin calls may still fail
    wanted,      \* what the work has to bring about
    actual,      \* what the plugins hold
    local,       \* local[p]: the state that p keeps from round to round
    job          \* job[p]: the locals of the work, or of the call, in progress

control == <<scenario, closed, calls, changes, wanted>>
vars == <<scenario, poller, closed, calls, changes, faults, wanted,
          actual, local, job>>

Caller == 0              \* the goroutine that serves a call of the controller

NoJob == [at |-> "none"]

(* A plugin call, or the lookup of a plugin, fails. *)
Fails == /\ faults > 0
         /\ faults' = faults - 1

(* Run starts a round when it is entered, without a look at the stop channel,
   and whenever its select takes the tick.  The select picks at random among the
   channels that are ready, so a tick may win over a closed stop channel. *)
RoundDue(p) == poller[p] \in {"started", "select"}

(* The select sees the closed stop channel, and Run returns. *)
PollerStops(p) ==
    /\ poller[p] = "select"
    /\ closed[p]
    /\ poller' = [poller EXCEPT ![p] = "ended"]
    /\ UNCHANGED <<control, faults, actual, local, job>>

(* Poller.Stop closes the channel.  Closing it twice is a panic in the caller. *)
Stop(p) == closed' = [closed EXCEPT ![p] = TRUE]

(* The object that the controller holds under the name: the last one that was
   put in the place of its predecessor and enforced. *)
Running == {p \in Procs : poller[p] # "new"}
Managed == CHOOSE p \in Running : \A q \in Running : q <= p

(* The controller's lock lets in one call at a time. *)
Called(name) ==
    /\ job[Caller].at # "destroy"
    /\ calls # <<>> /\ Head(calls) = name
    /\ calls' = Tail(calls)

(* Free: the object stops its poller if it is running, which to the enroller
   and to the ingress object means that it was ever started. *)
Free ==
    /\ Called("free")
    /\ Stop(Managed)
    /\ UNCHANGED <<scenario, poller, changes, faults, wanted, actual, local, job>>

(* Commit of a spec that is already managed: the running object is stopped, a
   new one takes its place, and is enforced.  A panic in Stop ends the call. *)
Commit ==
    /\ Called("commit")
    /\ Stop(Managed)
    /\ poller' = IF closed[Managed] THEN poller
                 ELSE [poller EXCEPT ![Managed + 1] = "started"]
    /\ UNCHANGED <<scenario, changes, faults, wanted, actual, local, job>>

(* The world moves on: the group that is enrolled, the services that are
   published, the members of the backend group, or the leader change. *)
WantedChanges ==
    /\ changes # <<>>
    /\ wanted' = Head(changes)
    /\ changes' = Tail(changes)
    /\ UNCHANGED <<scenario, poller, closed, calls, faults, actual,
                   local, job>>

(* The part of the initial state that the controllers share. *)
Start ==
    /\ scenario \in Scenarios
    /\ poller = [p \in Procs |-> IF p \in scenario.started THEN "started" ELSE "new"]
    /\ closed = [p \in Procs |-> FALSE]
    /\ calls = scenario.calls
    /\ changes = Tail(scenario.wanted)
    /\ wanted = Head(scenario.wanted)
    /\ faults = scenario.faults
    /\ job = [p \in Procs \cup {Caller} |-> NoJob]
=============================================================================
