----------------------------- MODULE Enrollment -----------------------------
(* The enrollment controller (pkg/controller/enrollment): it keeps one record
   in an instance plugin for every instance of a source group.

   A source instance is a number, its ID.  A record is an instance of the plugin
   for one source; one that was made by hand does not carry the source's ID in its
   tags, and cannot be indexed. *)
EXTENDS Reconciler

CONSTANTS RecordIDs    \* the IDs that the instance plugin hands out

NoLabel == 0           \* the Labels of the spec carry no sourceID (yet)

(* getEnrolledInstances: the plugin returns the records that match the Labels of
   the spec.  Where the spec has Labels, labels() writes the sourceID of the last
   record made into that same map, and later queries are filtered by it. *)
Enrolled(p) == {r \in actual : local[p] \in {NoLabel, r.key}}
LabelsAfter(p, n) ==
    IF scenario.labelled THEN [local EXCEPT ![p] = n] ELSE local

(* Mutants of Delta: the policies are not consulted; a default policy that forgets
   to allow the removal. *)
DeltaIgnoringPolicies(list, other) ==
    LET parsed  == list \ scenario.unparsed
        indexed == {r \in other : r.tagged}
    IN  [add |-> parsed \ {r.key : r \in indexed},
         remove |-> {r \in indexed : r.key \notin parsed}]
DeltaNeverRemoving(list, other) ==
    LET parsed  == list \ scenario.unparsed
        indexed == {r \in other : r.tagged}
    IN  [add |-> parsed \ {r.key : r \in indexed},
         remove |-> {r \in indexed : list = parsed /\ r.key \notin parsed}]

(* Delta: what to add to and to remove from the records so that they match the
   list.  Instances that cannot be indexed are left out, and the parse error
   policies say whether the other side may then be changed.  The index keeps one
   record of those that have the same key. *)
Delta(list, other) ==
    LET parsed    == list \ scenario.unparsed
        indexed   == {r \in other : r.tagged}
        keys      == {r.key : r \in indexed}
        lastOf(k) == CHOOSE r \in indexed :
                        r.key = k /\ \A q \in indexed : q.key = k => q.id <= r.id
        remove    == list = parsed \/ ~scenario.disableDestroy
        add       == other = indexed \/ ~scenario.disableProvision
    IN  [add    |-> IF add THEN parsed \ keys ELSE {},
         remove |-> IF remove THEN {lastOf(k) : k \in keys \ parsed} ELSE {}]

(* The round goes on with what is left of it, or is over. *)
Continue(p, todo) ==
    IF todo.add = {} /\ todo.remove = {}
    THEN /\ job' = [job EXCEPT ![p] = NoJob]
         /\ poller' = [poller EXCEPT ![p] = "select"]
    ELSE /\ job' = [job EXCEPT ![p] = [at |-> "apply", add |-> todo.add,
                                       remove |-> todo.remove]]
         /\ UNCHANGED poller

(* sync: the source is read.  On an error the round ends. *)
ReadSource(p) ==
    /\ scenario.kind = "enrollment" /\ RoundDue(p)
    /\ \/ /\ job' = [job EXCEPT ![p] = [at |-> "source", list |-> wanted]]
          /\ poller' = [poller EXCEPT ![p] = "work"]
          /\ UNCHANGED faults
       \/ /\ Fails
          /\ poller' = [poller EXCEPT ![p] = "select"]
          /\ UNCHANGED job
    /\ UNCHANGED <<control, actual, local>>

(* sync: the records are read.  On an error the round ends. *)
ReadEnrolled(p) ==
    /\ job[p].at = "source"
    /\ \/ /\ job' = [job EXCEPT ![p] = [at |-> "delta", list |-> job[p].list,
                                        other |-> Enrolled(p)]]
          /\ UNCHANGED <<poller, faults>>
       \/ /\ Fails
          /\ job' = [job EXCEPT ![p] = NoJob]
          /\ poller' = [poller EXCEPT ![p] = "select"]
    /\ UNCHANGED <<control, actual, local>>

(* The lock of enroller p, which destroy() holds while it removes the records
   and does not give back where it cannot read them. *)
Locked(p) == p = Managed /\ job[Caller].at \in {"destroy", "leaked"}

(* sync: the delta is computed, with templates that are guarded by the lock.  An
   error of the plugin lookup that follows is returned, and Poller.Run hands it to
   a channel that nobody reads: the poller is stuck there. *)
ComputeDelta(p) ==
    /\ job[p].at = "delta"
    /\ ~Locked(p)
    /\ \/ /\ Continue(p, Delta(job[p].list, job[p].other))
          /\ UNCHANGED faults
       \/ /\ Fails
          /\ job' = [job EXCEPT ![p] = NoJob]
          /\ poller' = [poller EXCEPT ![p] = "blocked"]
    /\ UNCHANGED <<control, actual, local>>

FreshID == Min({i \in RecordIDs : \A r \in actual : r.id # i})

(* sync: the next instance is enrolled.  A failure is logged and passed over. *)
Provision(p) ==
    /\ job[p].at = "apply" /\ job[p].add # {}
    /\ ~Locked(p)
    /\ LET n == Min(job[p].add)
       IN  /\ \/ /\ actual' = actual \cup {[id |-> FreshID, key |-> n, tagged |-> TRUE]}
                 /\ UNCHANGED faults
              \/ Fails /\ UNCHANGED actual
           /\ local' = LabelsAfter(p, n)
           /\ Continue(p, [add |-> job[p].add \ {n}, remove |-> job[p].remove])
    /\ UNCHANGED control

(* sync: the next record is removed.  A failure is left to the next round. *)
Unenroll(p) ==
    /\ job[p].at = "apply" /\ job[p].add = {}
    /\ LET r == CHOOSE q \in job[p].remove : \A o \in job[p].remove : q.id <= o.id
       IN  /\ \/ actual' = actual \ {r} /\ UNCHANGED faults
              \/ Fails /\ UNCHANGED actual
           /\ Continue(p, [add |-> {}, remove |-> job[p].remove \ {r}])
    /\ UNCHANGED <<control, local>>

(* Terminate: the poller is stopped, and with DestroyOnTerminate the records are
   read under the lock; if that fails the lock is not given back. *)
Terminate ==
    /\ Called("terminate")
    /\ Stop(Managed)
    /\ \/ /\ ~scenario.destroyOnTerminate
          /\ UNCHANGED <<faults, job>>
       \/ /\ scenario.destroyOnTerminate
          /\ job' = [job EXCEPT ![Caller] = [at |-> "destroy", remove |-> Enrolled(Managed)]]
          /\ UNCHANGED faults
       \/ /\ scenario.destroyOnTerminate
          /\ Fails
          /\ job' = [job EXCEPT ![Caller] = [at |-> "leaked"]]
    /\ UNCHANGED <<scenario, poller, changes, wanted, actual, local>>

(* Mutant: destroy returns without the unlock. *)
DestroyKeepingLock ==
    /\ job[Caller].at = "destroy"
    /\ \E r \in job[Caller].remove :
          /\ actual' = actual \ {r}
          /\ job' = [job EXCEPT ![Caller].remove = @ \ {r}]
    /\ UNCHANGED <<control, faults, poller, local>>

(* destroy: one record after the other, whether or not the plugin removes it. *)
DestroyRecord ==
    /\ job[Caller].at = "destroy"
    /\ \/ /\ job[Caller].remove = {}
          /\ job' = [job EXCEPT ![Caller] = NoJob]
          /\ UNCHANGED <<faults, actual>>
       \/ \E r \in job[Caller].remove :
             /\ \/ actual' = actual \ {r} /\ UNCHANGED faults
                \/ Fails /\ UNCHANGED actual
             /\ job' = [job EXCEPT ![Caller].remove = @ \ {r}]
    /\ UNCHANGED <<control, poller, local>>

Enroll(p) == ReadSource(p) \/ ReadEnrolled(p) \/ ComputeDelta(p) \/ Provision(p) \/ Unenroll(p)

EnrollmentInit ==
    /\ Start
    /\ scenario.kind = "enrollment"
    /\ actual = scenario.actual
    /\ local = [p \in Procs |-> NoLabel]

-----------------------------------------------------------------------------

Enrolling == scenario.kind = "enrollment"

(* One enroller works alone, and nobody asked it to destroy its records. *)
Alone == Enrolling /\ Running = {1} /\ job[Caller] = NoJob

(* However the source changes and the plugin fails, sync (sync.go:102) never makes
   a second record for a source, as long as all records can be indexed or the
   policy forbids to provision while some cannot. *)
OneRecord ==
    Alone /\ ~scenario.labelled
          /\ (scenario.disableProvision \/ \A r \in actual : r.tagged) =>
        \A r, q \in actual : r.key = q.key => r = q

(* Sync never removes the record of an instance that is in the source, although it
   acts on lists that it read before: not after a failed call, and not when the
   key of the instance cannot be parsed, if the policy forbids to destroy then.
   (In the instances that are checked, no source leaves and comes back.) *)
KeepsRecords ==
    [][Alone /\ (scenario.disableDestroy \/ scenario.unparsed = {}) =>
          \A r \in actual \ actual' : r.key \notin wanted]_vars

Keys == {r.key : r \in {q \in actual : q.tagged}}
Parsed == wanted \ scenario.unparsed

(* The enroller in charge was not stopped, nor hangs on an error of its work. *)
InCharge == Enrolling /\ ~closed[Managed] /\ poller[Managed] # "blocked"

(* Failed calls and rounds of a predecessor that was stopped in the middle of one
   notwithstanding, the records come to match the source and stay so: every
   instance is enrolled and no other is, up to what the parse error policies hold
   back (sync, and Delta in set.go:13). *)
RecordsMatch ==
    <>[](InCharge =>
            /\ \/ scenario.disableProvision /\ \E r \in actual : ~r.tagged
               \/ Parsed \subseteq Keys
            /\ \/ scenario.disableDestroy /\ Parsed # wanted
               \/ Keys \subseteq Parsed)

(* An enroller that was stopped, by Free, by Terminate or by the Commit of a new
   spec, ends its round and leaves the records alone for good; unless it hangs on
   an error, or on the lock that a failed destroy() keeps. *)
StoppedEnrollersEnd ==
    \A p \in Procs :
        (Enrolling /\ closed[p]) ~>
            \/ poller[p] \in {"ended", "blocked"}
            \/ job[Caller].at = "leaked"
=============================================================================
