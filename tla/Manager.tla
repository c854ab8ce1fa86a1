------------------------------- MODULE Manager -------------------------------
(***************************************************************************)
(* The managers of a cluster: each node runs one, with a leadership poller *)
(* and its own group plugin and controllers; the specs are in a store that *)
(* the nodes share.  In each manager a control goroutine takes leadership  *)
(* events from the poller and a work goroutine executes, one at a time,    *)
(* the operations that API calls and changes of leadership have queued.    *)
(***************************************************************************)
EXTENDS Naturals, Sequences, FiniteSets, Functions

CONSTANTS
    Nodes,
    Order,         \* the keys of the specs, in the order of orderedKeys
    Groups,        \* the keys of kind "group"; the others are controllers'
    Configs,       \* what a spec says, but for the size of a group
    Sizes,
    NoSpec,
    NoNode,
    Clients,       \* API calls that may be served concurrently
    Calls,         \* the calls that users make
    CallKeys,      \* the keys that they make them for
    QueueSize,     \* the capacity of backendOps
    Retries,       \* Options.LeaderCommitSpecsRetries
    MaxElections,  \* bound: changes of the elected leader, polls that fail
    MaxFailures    \* bound: managers that are stopped or crash

Keys == {Order[i] : i \in DOMAIN Order}
ValuesOf(k) == [cfg : Configs, size : IF k \in Groups THEN Sizes ELSE {0}]
Values == UNION {ValuesOf(k) : k \in Keys}
SpecsOf == {f \in [Keys -> Values \cup {NoSpec}] : \A k \in Keys : f[k] \in ValuesOf(k) \cup {NoSpec}}

ASSUME KeysAssumption == Order \in Seq(Keys) /\ Groups \cup CallKeys \subseteq Keys /\ NoSpec \notin Values
ASSUME NodesAssumption == NoNode \notin Nodes
ASSUME LimitsAssumption == QueueSize \in Nat \ {0} /\ Retries \in Nat

VARIABLES
    stored,    \* SpecStore: the properties by key
    elected,   \* what the leader election says
    calm,      \* plugins, stores and elections have stopped failing
    elections, failures,
    node,      \* the managers
    watched,   \* by node and key, the properties its plugins enforce
    call       \* the API calls being served

vars == <<stored, elected, calm, elections, failures, node, watched, call>>

(* excused is not in the code: it names the specs that a manager gave up on,
   whose Free it had to retry, or for which it answered the last call with the
   plugin's error after it had changed the store.  Only properties use it.  *)

(* A backendOp.  Those that the manager itself queues are retried; from is the
   API call that waits for the others.                                      *)
Op == [act : {"commit", "free"}, key : Keys, val : Values \cup {NoSpec}, from : Clients \cup {"manager"}]

ManagerOp(act, k, v) == [act |-> act, key |-> k, val |-> v, from |-> "manager"]

NewManager == [poll |-> "ready", isLeader |-> FALSE, notify |-> "none", queue |-> <<>>,
               pc |-> "idle", tries |-> 0, pending |-> <<>>, op |-> <<>>, snapshot |-> <<>>,
               status |-> TRUE, stop |-> FALSE, excused |-> {}]

NoCall == [pc |-> "idle", node |-> NoNode, act |-> "none", key |-> NoSpec, val |-> NoSpec,
           snapshot |-> <<>>]

Return(k) == call' = [call EXCEPT ![k] = NoCall]
Answer(from) == IF from \in Clients THEN Return(from) ELSE UNCHANGED call

Full(n) == Len(node[n].queue) >= QueueSize

-----------------------------------------------------------------------------
(* leader.Poller.  An event is sent on an unbuffered channel: it may be old
   when it is received.                                                     *)

Poll(n) ==
    /\ node[n].poll = "ready"
    /\ \/ /\ node' = [node EXCEPT ![n].poll = IF elected = n THEN "leader" ELSE "notLeader"]
          /\ UNCHANGED elections
       \/ /\ ~calm /\ elections < MaxElections /\ elections' = elections + 1
          /\ node' = [node EXCEPT ![n].poll = "unknown"]
    /\ UNCHANGED <<stored, elected, calm, failures, watched, call>>

(* m.lock is held from the load to the save of a change of the stored specs. *)
LockFree(n) ==
    /\ node[n].pc # "saving"
    /\ \A k \in Clients : ~(call[k].node = n /\ call[k].pc = "saving")

(* Mutant: a change of leadership is dropped while the work goroutine is busy. *)
LeaderEventDropped(n) ==
    LET next == node[n].poll = "leader" IN
    /\ node[n].poll \in {"leader", "notLeader", "unknown"} /\ node[n].notify = "none" /\ LockFree(n)
    /\ node' = [node EXCEPT ![n].poll = "ready", ![n].isLeader = next,
                            ![n].notify = IF next = node[n].isLeader \/ node[n].pc # "idle" THEN "none"
                                          ELSE IF next THEN "lead" ELSE "lost"]
    /\ UNCHANGED <<stored, elected, calm, elections, failures, watched, call>>

(* The control goroutine: only a change of leadership is passed on, and the
   goroutine waits until the work goroutine takes it.                       *)
LeaderEvent(n) ==
    LET next == node[n].poll = "leader" IN
    /\ node[n].poll \in {"leader", "notLeader", "unknown"} /\ node[n].notify = "none" /\ LockFree(n)
    /\ node' = [node EXCEPT ![n].poll = "ready", ![n].isLeader = next,
                            ![n].notify = IF next = node[n].isLeader THEN "none"
                                          ELSE IF next THEN "lead" ELSE "lost"]
    /\ UNCHANGED <<stored, elected, calm, elections, failures, watched, call>>

-----------------------------------------------------------------------------
(* The work goroutine: changes of leadership.                               *)

AssumeLeadership(n) ==
    /\ node[n].pc = "idle" /\ node[n].notify = "lead"
    /\ node' = [node EXCEPT ![n].notify = "none", ![n].pc = "loading", ![n].tries = 0]
    /\ UNCHANGED <<stored, elected, calm, elections, failures, watched, call>>

CommitOps(S) ==
    LET ordered == SelectSeq(Order, LAMBDA k : k \in S)
        again == SelectSeq(ordered, LAMBDA k : k \in Groups)
    IN  [i \in 1..(Len(ordered) + Len(again)) |->
            LET k == IF i <= Len(ordered) THEN ordered[i] ELSE again[i - Len(ordered)]
            IN  ManagerOp("commit", k, stored[k])]

(* Each stored spec is queued to be committed, except those whose plugin does
   not answer; the groups are queued a second time.                         *)
LoadAndCommitSpecs(n) ==
    /\ node[n].pc = "loading"
    /\ \/ \E unreachable \in SUBSET {k \in Keys : stored[k] # NoSpec} :
            /\ calm => unreachable = {}
            /\ node' = [node EXCEPT ![n].pc = "queueing",
                           ![n].excused = unreachable \cup {k \in @ : ManagerOp("free", k, NoSpec) \in Range(node[n].queue)},
                           ![n].pending = CommitOps({k \in Keys : stored[k] # NoSpec} \ unreachable)]
       \/ /\ ~calm
          /\ node' = IF node[n].tries + 1 < Retries
                     THEN [node EXCEPT ![n].tries = @ + 1]
                     ELSE [node EXCEPT ![n].pc = "refresh", ![n].excused = Keys]
    /\ UNCHANGED <<stored, elected, calm, elections, failures, watched, call>>

(* Only the groups that the plugin has at the moment are freed.             *)
LoseLeadership(n) ==
    /\ node[n].pc = "idle" /\ node[n].notify = "lost"
    /\ \/ \E unreachable \in SUBSET Groups :
            /\ calm => unreachable = {}
            /\ LET freed == SelectSeq(Order, LAMBDA k : /\ k \in Groups \ unreachable
                                                        /\ watched[n][k] # NoSpec)
               IN  node' = [node EXCEPT ![n].notify = "none", ![n].pc = "queueing",
                               ![n].pending = [i \in DOMAIN freed |->
                                                 ManagerOp("free", freed[i], NoSpec)]]
       \/ ~calm /\ node' = [node EXCEPT ![n].notify = "none", ![n].pc = "refresh"]
    /\ UNCHANGED <<stored, elected, calm, elections, failures, watched, call>>

(* The work goroutine queues for itself: it is stuck when the queue is full. *)
QueueOps(n) ==
    /\ node[n].pc = "queueing"
    /\ \/ /\ node[n].pending = <<>>
          /\ node' = [node EXCEPT ![n].pc = "refresh"]
       \/ /\ node[n].pending # <<>> /\ ~Full(n)
          /\ node' = [node EXCEPT ![n].queue = Append(@, Head(node[n].pending)),
                                  ![n].pending = Tail(@)]
    /\ UNCHANGED <<stored, elected, calm, elections, failures, watched, call>>

(* metadataChanged: the status goroutine has to be there to take the signal. *)
MetadataChanged(n) ==
    /\ node[n].pc = "refresh" /\ node[n].status
    /\ node' = [node EXCEPT ![n].pc = "idle"]
    /\ UNCHANGED <<stored, elected, calm, elections, failures, watched, call>>

-----------------------------------------------------------------------------
(* The work goroutine: operations.  Those of a call on a group change the
   stored specs first; a controller's specs were changed by the call itself. *)

TakeOp(n) ==
    /\ node[n].pc = "idle" /\ node[n].queue # <<>>
    /\ LET op == Head(node[n].queue) IN
       node' = [node EXCEPT ![n].queue = Tail(@), ![n].op = op,
                   ![n].pc = IF op.from # "manager" /\ op.key \in Groups THEN "load" ELSE "exec"]
    /\ UNCHANGED <<stored, elected, calm, elections, failures, watched, call>>

DropOp(n) == node' = [node EXCEPT ![n].pc = "idle", ![n].op = <<>>, ![n].snapshot = <<>>]

(* updateConfig and removeConfig: the store has no transactions.            *)
LoadConfig(n) ==
    /\ node[n].pc = "load" /\ LockFree(n)
    /\ \/ node' = [node EXCEPT ![n].pc = "saving", ![n].snapshot = stored] /\ UNCHANGED call
       \/ ~calm /\ DropOp(n) /\ Return(node[n].op.from)
    /\ UNCHANGED <<stored, elected, calm, elections, failures, watched>>

(* Mutant: an operation goes on when its change could not be stored.        *)
SaveConfigIgnoresError(n) ==
    /\ node[n].pc = "saving"
    /\ \/ stored' = [node[n].snapshot EXCEPT ![node[n].op.key] = node[n].op.val]
       \/ ~calm /\ UNCHANGED stored
    /\ node' = [node EXCEPT ![n].pc = "exec", ![n].snapshot = <<>>]
    /\ UNCHANGED <<elected, calm, elections, failures, watched, call>>

SaveConfig(n) ==
    /\ node[n].pc = "saving"
    /\ \/ /\ stored' = [node[n].snapshot EXCEPT ![node[n].op.key] = node[n].op.val]
          /\ node' = [node EXCEPT ![n].pc = "exec", ![n].snapshot = <<>>]
          /\ UNCHANGED call
       \/ ~calm /\ DropOp(n) /\ Return(node[n].op.from) /\ UNCHANGED stored
    /\ UNCHANGED <<elected, calm, elections, failures, watched>>

(* Mutant: what the manager queued is not retried.                           *)
ExecOpOnce(n) ==
    LET op == node[n].op
        mine == FALSE
        unknown == op.act = "free" /\ op.key \in Groups /\ watched[n][op.key] = NoSpec
    IN
    /\ node[n].pc = "exec"
    /\ \/ /\ ~unknown
          /\ watched' = [watched EXCEPT ![n][op.key] = op.val]
          /\ node' = [node EXCEPT ![n].pc = "idle", ![n].op = <<>>,
                         ![n].excused = IF mine THEN @ ELSE @ \ {op.key}]
          /\ Answer(op.from)
       \/ /\ unknown \/ ~calm
          /\ node' = [node EXCEPT ![n].pc = IF mine THEN "requeue" ELSE "idle",
                         ![n].op = IF mine THEN @ ELSE <<>>]
          /\ Answer(op.from)
          /\ UNCHANGED watched
    /\ UNCHANGED <<stored, elected, calm, elections, failures>>

(* Mutant: what API calls queued is retried as well.                         *)
ExecOpRetries(n) ==
    LET op == node[n].op
        mine == TRUE
        unknown == op.act = "free" /\ op.key \in Groups /\ watched[n][op.key] = NoSpec
    IN
    /\ node[n].pc = "exec"
    /\ \/ /\ ~unknown
          /\ watched' = [watched EXCEPT ![n][op.key] = op.val]
          /\ node' = [node EXCEPT ![n].pc = "idle", ![n].op = <<>>,
                         ![n].excused = IF mine THEN @ ELSE @ \ {op.key}]
          /\ Answer(op.from)
       \/ /\ unknown \/ ~calm
          /\ node' = [node EXCEPT ![n].pc = IF mine THEN "requeue" ELSE "idle",
                         ![n].op = IF mine THEN @ ELSE <<>>]
          /\ UNCHANGED call
          /\ UNCHANGED watched
    /\ UNCHANGED <<stored, elected, calm, elections, failures>>

(* The plugin's Commit or Free; a group that is not watched cannot be freed. *)
ExecOp(n) ==
    LET op == node[n].op
        mine == op.from = "manager"
        unknown == op.act = "free" /\ op.key \in Groups /\ watched[n][op.key] = NoSpec
    IN
    /\ node[n].pc = "exec"
    /\ \/ /\ ~unknown
          /\ watched' = [watched EXCEPT ![n][op.key] = op.val]
          /\ node' = [node EXCEPT ![n].pc = "idle", ![n].op = <<>>,
                         ![n].excused = IF mine THEN @ ELSE @ \ {op.key}]
       \/ /\ unknown \/ ~calm
          /\ node' = [node EXCEPT ![n].pc = IF mine THEN "requeue" ELSE "idle",
                         ![n].op = IF mine THEN @ ELSE <<>>,
                         ![n].excused = IF mine => op.act = "free" THEN @ \cup {op.key} ELSE @]
          /\ UNCHANGED watched
    /\ Answer(op.from)
    /\ UNCHANGED <<stored, elected, calm, elections, failures>>

RequeueOp(n) ==
    /\ node[n].pc = "requeue" /\ ~Full(n)
    /\ node' = [node EXCEPT ![n].pc = "idle", ![n].op = <<>>, ![n].queue = Append(@, node[n].op)]
    /\ UNCHANGED <<stored, elected, calm, elections, failures, watched, call>>

-----------------------------------------------------------------------------
(* API calls.  A node that is not the leader refuses them.                  *)

Accepts(n) == node[n].isLeader /\ LockFree(n)

NewCall(k) ==
    /\ call[k].pc = "idle"
    /\ \E n \in Nodes, act \in Calls, key \in CallKeys :
      \E v \in ValuesOf(key) :
        /\ Accepts(n)
        /\ (key \in Groups) <=> (act \in {"CommitGroup", "FreeGroup", "SetSize"})
        /\ call' = [call EXCEPT ![k] =
               [NoCall EXCEPT !.node = n, !.act = act, !.key = key,
                  !.val = IF act \in {"CommitGroup", "SetSize", "Enforce"} THEN v ELSE NoSpec,
                  !.pc = CASE act = "SetSize" -> "sizing"
                           [] act \in {"Enforce", "Destroy"} -> "load"
                           [] OTHER -> "queue"]]
    /\ UNCHANGED <<stored, elected, calm, elections, failures, node, watched>>

(* SetSize commits the stored spec with another size, read without the lock. *)
SizeCall(k) ==
    LET c == call[k] IN
    /\ c.pc = "sizing"
    /\ \/ /\ stored[c.key] # NoSpec /\ Accepts(c.node)
          /\ call' = [call EXCEPT ![k].pc = "queue", ![k].val = [stored[c.key] EXCEPT !.size = c.val.size]]
       \/ /\ stored[c.key] = NoSpec \/ ~node[c.node].isLeader \/ ~calm
          /\ Return(k)
    /\ UNCHANGED <<stored, elected, calm, elections, failures, node, watched>>

(* controllerAdapter.Commit changes the stored specs before it queues.      *)
LoadSpec(k) ==
    /\ call[k].pc = "load" /\ LockFree(call[k].node)
    /\ \/ call' = [call EXCEPT ![k].pc = "saving", ![k].snapshot = stored]
       \/ ~calm /\ Return(k)
    /\ UNCHANGED <<stored, elected, calm, elections, failures, node, watched>>

SaveSpec(k) ==
    /\ call[k].pc = "saving"
    /\ \/ /\ stored' = [call[k].snapshot EXCEPT ![call[k].key] = call[k].val]
          /\ call' = [call EXCEPT ![k].pc = "queue", ![k].snapshot = <<>>]
       \/ ~calm /\ Return(k) /\ UNCHANGED stored
    /\ UNCHANGED <<elected, calm, elections, failures, node, watched>>

QueueCall(k) ==
    LET c == call[k] IN
    /\ c.pc = "queue" /\ ~Full(c.node)
    /\ node' = [node EXCEPT ![c.node].queue = Append(@,
                   [act |-> IF c.val = NoSpec THEN "free" ELSE "commit", key |-> c.key,
                    val |-> c.val, from |-> k])]
    /\ call' = [call EXCEPT ![k].pc = "waiting"]
    /\ UNCHANGED <<stored, elected, calm, elections, failures, watched>>

-----------------------------------------------------------------------------
(* Manager.Stop stops the status goroutine, closes m.stop and stops the poller,
   which closes its channel once it is not sending.  The control goroutine
   takes one or the other: only m.stop makes it stop the work goroutine.    *)
Stop(n) ==
    /\ failures < MaxFailures /\ failures' = failures + 1
    /\ ~node[n].stop
    /\ node' = [node EXCEPT ![n].stop = TRUE]
    /\ UNCHANGED <<stored, elected, calm, elections, watched, call>>

StatusStops(n) ==
    /\ node[n].stop /\ node[n].status
    /\ node' = [node EXCEPT ![n].status = FALSE]
    /\ UNCHANGED <<stored, elected, calm, elections, failures, watched, call>>

ControlStops(n) ==
    /\ node[n].stop /\ node[n].notify = "none"
    /\ \/ node' = [node EXCEPT ![n].notify = "closed"]
       \/ node[n].poll = "ready" /\ node' = [node EXCEPT ![n].notify = "left", ![n].poll = "closed"]
    /\ UNCHANGED <<stored, elected, calm, elections, failures, watched, call>>

WorkStops(n) ==
    /\ node[n].pc = "idle" /\ node[n].notify = "closed"
    /\ node' = [node EXCEPT ![n].pc = "gone"]
    /\ UNCHANGED <<stored, elected, calm, elections, failures, watched, call>>

(* The host crashes and comes back, without the state of its processes.     *)
Crash(n) ==
    /\ failures < MaxFailures /\ failures' = failures + 1
    /\ node' = [node EXCEPT ![n] = NewManager]
    /\ watched' = [watched EXCEPT ![n] = [k \in Keys |-> NoSpec]]
    /\ call' = [k \in Clients |-> IF call[k].node = n THEN NoCall ELSE call[k]]
    /\ UNCHANGED <<stored, elected, calm, elections>>

(* The election changes its mind; what failed stops failing.                *)
Elect ==
    /\ elections < MaxElections /\ elections' = elections + 1
    /\ elected' \in (Nodes \cup {NoNode}) \ {elected}
    /\ UNCHANGED <<stored, calm, failures, node, watched, call>>

Recover ==
    /\ ~calm /\ calm' = TRUE
    /\ UNCHANGED <<stored, elected, elections, failures, node, watched, call>>

-----------------------------------------------------------------------------
WorkStep(n) ==
    \/ LoadAndCommitSpecs(n) \/ QueueOps(n) \/ MetadataChanged(n) \/ TakeOp(n)
    \/ LoadConfig(n) \/ SaveConfig(n) \/ ExecOp(n) \/ RequeueOp(n)

CallStep(k) == SizeCall(k) \/ LoadSpec(k) \/ SaveSpec(k) \/ QueueCall(k)

LeadershipChange(n) == AssumeLeadership(n) \/ LoseLeadership(n)

(* The specs in the store are those of an earlier leader.                   *)
Init ==
    /\ stored \in SpecsOf
    /\ elected \in Nodes \cup {NoNode}
    /\ calm \in BOOLEAN
    /\ elections = 0 /\ failures = 0
    /\ node = [n \in Nodes |-> NewManager]
    /\ watched = [n \in Nodes |-> [k \in Keys |-> NoSpec]]
    /\ call = [k \in Clients |-> NoCall]

Next ==
    \/ \E n \in Nodes : Poll(n) \/ LeaderEvent(n) \/ LeadershipChange(n) \/ WorkStep(n)
    \/ \E n \in Nodes : Stop(n) \/ StatusStops(n) \/ ControlStops(n) \/ WorkStops(n) \/ Crash(n)
    \/ \E k \in Clients : NewCall(k) \/ CallStep(k)
    \/ Elect \/ Recover

Spec == Init /\ [][Next]_vars

(* Goroutines make progress; a select that has both an operation and a change
   of leadership ready takes the change of leadership in the end; those that
   wait for a lock or to send on a channel get it in the end.               *)
Fairness ==
    /\ \A n \in Nodes : /\ WF_vars(Poll(n)) /\ WF_vars(LeaderEvent(n)) /\ WF_vars(WorkStep(n))
                        /\ SF_vars(LeadershipChange(n))
                        /\ SF_vars(ControlStops(n)) /\ SF_vars(WorkStops(n))
    /\ \A k \in Clients : SF_vars(CallStep(k))
    /\ WF_vars(Recover)

-----------------------------------------------------------------------------
(* Properties.                                                              *)

(* In the end the leader enforces every stored spec whose plugin answered when
   it took over, after elections, crashes and failed commits, unless a Free of
   its own had to be retried.  (No user changes the stored specs meanwhile.) *)
LeaderWatchesStored ==
    <>[](\A n \in Nodes : elected = n /\ ~node[n].stop =>
           \A k \in Keys \ node[n].excused : watched[n][k] = stored[k])

(* A manager that has lost leadership and has nothing else queued frees each
   group that its plugin reported, unless it becomes leader again or stops. *)
LostLeaderFrees ==
    \A n \in Nodes, k \in Groups :
        (/\ node[n].pc = "queueing" /\ node[n].queue = <<>> /\ ~node[n].stop
         /\ ManagerOp("free", k, NoSpec) \in Range(node[n].pending))
        ~> (watched[n][k] = NoSpec \/ node[n].isLeader \/ node[n].stop)

(* A leader that has nothing to do enforces for each group what is stored for
   it, however the calls overlapped, unless the plugin failed the last one. *)
GroupsAgree ==
    \A n \in Nodes : node[n].pc = "idle" /\ node[n].queue = <<>> =>
        \A k \in Groups \ node[n].excused : watched[n][k] = stored[k]

(* Every call returns.                                                      *)
CallsReturn == \A k \in Clients : call[k].pc # "idle" ~> call[k].pc = "idle"

(* manager.go, Start: "the worst case is we stopped watching (and not have two
   masters running wild)".  In the end at most one node enforces a group.   *)
OneMaster ==
    \A k \in Groups : <>[](Cardinality({n \in Nodes : watched[n][k] # NoSpec}) <= 1)
=============================================================================
