------------------------------- MODULE FsmSet -------------------------------
(***************************************************************************)
(* The state machine engine of pkg/fsm: a Set of instances of one Spec.    *)
(*                                                                         *)
(* Two goroutines.  The input goroutine receives what callers and the      *)
(* clock send and puts it on the transactions channel, which is buffered.  *)
(* The core goroutine handles transactions one by one; it also puts the    *)
(* signals that it raises itself (TTL, visit limit, flapping) on that same *)
(* channel, and blocks when it is full.                                    *)
(*                                                                         *)
(* The deadlines are a container/heap of instances; the field index of an  *)
(* instance is its place in it, so it is not a part of the state here.     *)
(***************************************************************************)
EXTENDS Integers, Sequences, FiniteSets

CONSTANTS
    States,       \* the states that the spec defines
    Initials,     \* what callers of Add pass
    Signals,
    Transitions,  \* by state, a function from signals to states
    Errors,       \* the same, for signals whose action fails
    Actions,      \* the pairs of a state and a signal that have an action
    TTL,          \* by state: how long it may last, and the signal raised
    Visit,        \* by state: the limit on visits, and the signal raised
    Flaps,        \* pairs of states with a limit on flapping, and the signal
    BufferSize,   \* options.BufferSize
    NoState,
    MaxAdds,      \* bound: calls of Add
    MaxTicks,     \* bound: ticks of the clock
    MaxInputs     \* bound: calls of Add, Delete, Signal and of the reads

(* What Define and compile check of a spec, and what a map from pairs of
   states to limits is.                                                     *)
ASSUME SpecAssumption ==
    /\ \A s \in States : \A g \in DOMAIN Transitions[s] : Transitions[s][g] \in States
    /\ \A s \in States : \A g \in DOMAIN Errors[s] : Errors[s][g] \in States
    /\ \A a \in Actions : a[1] \in States /\ a[2] \in DOMAIN Transitions[a[1]]
    /\ \A s \in States : TTL[s].value \in Nat
    /\ \A s \in States : TTL[s].value > 0 => TTL[s].raise \in DOMAIN Transitions[s]
    /\ \A s \in States : Visit[s].value > 0 => Visit[s].raise \in DOMAIN Transitions[s]
    /\ \A f, g \in Flaps : f.states = g.states => f = g
ASSUME NoStateAssumption == NoState \notin States

(* handleAdd counts a visit of the initial state before update does.         *)
NewInstance(id, initial) ==
    [id |-> id, state |-> initial, deadline |-> 0,
     visits |-> [s \in States |-> IF s = initial THEN 1 ELSE 0], flaps |-> <<>>]

Event(id, signal) == [kind |-> "event", id |-> id, arg |-> signal]
Txn(kind, id, arg) == [kind |-> kind, id |-> id, arg |-> arg]
NoTxn == Txn("none", 0, NoState)
Ended == Txn("ended", 0, NoState)  \* the input goroutine has ended

VARIABLES
    now,           \* ticks handled so far
    next,          \* the ID of the next instance
    inst,          \* the instances there ever were, by the ID they were added with
    members,       \* the IDs in the map of members
    bystate,       \* the index of the members by state
    deadlines,     \* the heap: IDs that instances were added with
    transactions,  \* the channel
    input,         \* what the input goroutine has received and not yet sent
    core,          \* what the core goroutine does, and the event it raises
    clock,         \* the goroutine of the clock
    running,       \* FALSE once Stop was called
    inputs         \* calls received so far, for the bound

calls == <<running, inputs>>
index == <<now, next, inst, members, bystate, deadlines>>
vars == <<now, next, inst, members, bystate, deadlines, transactions, input, core, clock,
          running, inputs>>

-----------------------------------------------------------------------------
(* container/heap over the deadlines d of the instances in q.               *)

Swap(q, i, j) == [q EXCEPT ![i] = q[j], ![j] = q[i]]

HeapUp(d, q, k) ==
    LET up[s \in Seq(Nat) \X Nat] ==
            LET h == s[1]
                j == s[2]
                i == j \div 2
            IN  IF j <= 1 \/ d[h[j]] >= d[h[i]] THEN h ELSE up[<<Swap(h, i, j), i>>]
    IN  up[<<q, k>>]

HeapDown(d, q, k) ==
    LET down[s \in Seq(Nat) \X Nat] ==
            LET h == s[1]
                i == s[2]
                j == IF 2 * i + 1 <= Len(h) /\ d[h[2 * i + 1]] < d[h[2 * i]]
                     THEN 2 * i + 1 ELSE 2 * i
            IN  IF 2 * i > Len(h) \/ d[h[j]] >= d[h[i]] THEN h ELSE down[<<Swap(h, i, j), j>>]
    IN  down[<<q, k>>]

HeapFix(d, q, k) ==
    LET h == HeapDown(d, q, k) IN IF h = q THEN HeapUp(d, q, k) ELSE h

HeapPush(d, q, id) == HeapUp(d, Append(q, id), Len(q) + 1)

(* The last one takes the place of the one that goes.                       *)
HeapRemove(d, q, k) ==
    LET n == Len(q)
        h == SubSeq(Swap(q, k, n), 1, n - 1)
    IN  IF k = n THEN h ELSE HeapFix(d, h, k)

Index(id) == {k \in DOMAIN deadlines : deadlines[k] = id}

(* queue.update and queue.remove leave the instance at the root alone.      *)
queueUpdate(d, k) == IF k > 1 THEN HeapFix(d, deadlines, k) ELSE deadlines
queueRemove(d, k) == IF k > 1 THEN HeapRemove(d, deadlines, k) ELSE deadlines

-----------------------------------------------------------------------------
(* flaps: the states that an instance went back and forth between.          *)

record(h, a, b) ==
    IF h = <<>> THEN <<a, b>>
    ELSE IF SubSeq(h, Len(h) - 1, Len(h)) = <<b, a>> THEN Append(h, b) ELSE <<>>

count(h, a, b) ==
    IF Len(h) < 2 THEN 0
    ELSE LET search == IF h[Len(h)] = b THEN <<b, a, b>> ELSE <<a, b, a>>
         IN  Cardinality({i \in 3 .. Len(h) : (Len(h) - i) % 2 = 0 /\ SubSeq(h, i - 2, i) = search})

flap(a, b) == {f \in Flaps : f.states = {a, b} /\ f.count > 0}

-----------------------------------------------------------------------------
(* The handlers, run by the core goroutine.                                 *)

(* instance.update, then the place of the instance in the deadlines.        *)
Updated(i, s) ==
    [i EXCEPT !.state = s, !.visits[s] = @ + 1,
              !.deadline = IF TTL[s].value > 0 THEN now + TTL[s].value ELSE 0]

(* Mutant: an instance that is queued already is queued again.              *)
processDeadlineAgain(id, i) ==
    LET d == [j \in DOMAIN inst \cup {id} |-> IF j = id THEN i.deadline ELSE inst[j].deadline]
    IN  deadlines' = IF i.deadline > 0 THEN HeapPush(d, deadlines, id) ELSE deadlines

processDeadline(id, i) ==
    LET d == [j \in DOMAIN inst \cup {id} |-> IF j = id THEN i.deadline ELSE inst[j].deadline]
    IN  \/ /\ Index(id) = {}
           /\ deadlines' = IF i.deadline > 0 THEN HeapPush(d, deadlines, id) ELSE deadlines
        \/ \E k \in Index(id) :
              deadlines' = IF i.deadline > 0 THEN queueUpdate(d, k) ELSE queueRemove(d, k)

(* The core goroutine is done with a transaction, or has a signal to raise. *)
Done == core' = [core EXCEPT !.pc = "idle"]
raise(id, signal) == core' = [core EXCEPT !.pc = "idle", !.raise = Event(id, signal)]

(* A caller that passes an unknown state waits forever, and an ID is lost.  *)
handleAdd(initial) ==
    /\ next' = next + 1
    /\ IF initial \notin States
       THEN UNCHANGED <<inst, members, bystate, deadlines>>
       ELSE LET new == Updated(NewInstance(next, initial), initial)
            IN  /\ inst' = [id \in DOMAIN inst \cup {next} |-> IF id = next THEN new ELSE inst[id]]
                /\ processDeadline(next, new)
                /\ members' = members \cup {next}
                /\ bystate' = [bystate EXCEPT ![initial] = @ \cup {next}]
    /\ Done
    /\ UNCHANGED now

(* Mutant: the ID of an instance that is deleted is given again.            *)
handleDeleteFreesID(id) ==
    /\ id \in members
    /\ members' = members \ {id}
    /\ bystate' = [bystate EXCEPT ![inst[id].state] = @ \ {id}]
    /\ inst' = [j \in DOMAIN inst \ {id} |-> inst[j]]
    /\ next' = id
    /\ Done
    /\ UNCHANGED <<now, deadlines>>

(* The instance stays among the deadlines, with the ID 0.                   *)
handleDelete(id) ==
    /\ IF id \notin members
       THEN UNCHANGED <<inst, members, bystate>>
       ELSE /\ members' = members \ {id}
            /\ bystate' = [bystate EXCEPT ![inst[id].state] = @ \ {id}]
            /\ inst' = [inst EXCEPT ![id].id = 0]
    /\ Done
    /\ UNCHANGED <<now, next, deadlines>>

(* The action of a transition fails: the error state, if the spec has one.  *)
NextStates(s, signal) ==
    {Transitions[s][signal]}
    \cup (IF <<s, signal>> \in Actions /\ signal \in DOMAIN Errors[s]
          THEN {Errors[s][signal]} ELSE {})

(* Mutant: the instance stays in the index under its old state.             *)
reindexKeepsOld(id, s, t) == bystate' = [bystate EXCEPT ![t] = @ \cup {id}]

reindex(id, s, t) == bystate' = [bystate EXCEPT ![s] = @ \ {id}, ![t] = @ \cup {id}]

(* What follows the action: the deadline, the index and the visit limit.     *)
Land(id, i, t) ==
    LET j == Updated(i, t)
        limit == Visit[t]
    IN  /\ inst' = [inst EXCEPT ![id] = j]
        /\ processDeadline(id, j)
        /\ reindex(id, i.state, t)
        /\ IF limit.value > 0 /\ j.visits[t] = limit.value THEN raise(i.id, limit.raise) ELSE Done

handleEvent(id, signal) ==
    LET s == inst[id].state
        t == Transitions[s][signal]
        f == flap(s, t)
        h == record(inst[id].flaps, s, t)
        flapping == f # {} /\ \E l \in f : count(h, s, t) >= l.count
    IN  /\ IF id \notin members \/ signal \notin DOMAIN Transitions[s]
           THEN Done /\ UNCHANGED <<inst, bystate, deadlines>>
           ELSE LET i == IF f = {} THEN inst[id] ELSE [inst[id] EXCEPT !.flaps = h]
                IN  IF flapping
                    THEN /\ inst' = [inst EXCEPT ![id] = i]
                         /\ \E l \in f : raise(i.id, l.raise)
                         /\ UNCHANGED <<bystate, deadlines>>
                    ELSE \E n \in NextStates(s, signal) : Land(id, i, n)
        /\ UNCHANGED <<now, next, members>>

handleClockTick ==
    /\ now' = now + 1
    /\ core' = [core EXCEPT !.pc = "tick"]
    /\ UNCHANGED <<next, inst, members, bystate, deadlines>>

(* One turn of the loop of handleClockTick: what is due at the root.        *)
TickEnds == deadlines = <<>> \/ inst[deadlines[1]].deadline > now

TickPops ==
    LET i == inst[deadlines[1]]
        d == [j \in DOMAIN inst |-> inst[j].deadline]
    IN  /\ deadlines' = HeapRemove(d, deadlines, 1)
        /\ inst' = [inst EXCEPT ![deadlines[1]].deadline = -1]
        /\ IF i.deadline > 0 /\ TTL[i.state].value > 0
           THEN core' = [core EXCEPT !.raise = Event(i.id, TTL[i.state].raise)]
           ELSE UNCHANGED core
        /\ UNCHANGED <<now, next, members, bystate>>

Tick ==
    /\ core.pc = "tick" /\ core.raise = NoTxn
    /\ IF TickEnds THEN Done /\ UNCHANGED index ELSE TickPops
    /\ UNCHANGED <<transactions, input, clock, calls>>

(* The core goroutine sends to the channel that it receives from.           *)
Raise ==
    /\ core.raise # NoTxn /\ Len(transactions) < BufferSize
    /\ transactions' = Append(transactions, core.raise)
    /\ core' = [core EXCEPT !.raise = NoTxn]
    /\ UNCHANGED <<index, input, clock, calls>>

(* Mutant: the core goroutine ends when the set is stopped.                  *)
AwaitsUntilStopped == running /\ core.pc = "idle" /\ core.raise = NoTxn

Awaits == core.pc = "idle" /\ core.raise = NoTxn

Process ==
    /\ Awaits /\ transactions # <<>>
    /\ LET t == Head(transactions)
       IN  \/ t.kind = "add" /\ handleAdd(t.arg)
           \/ t.kind = "delete" /\ handleDelete(t.id)
           \/ t.kind = "event" /\ handleEvent(t.id, t.arg)
           \/ t.kind = "tick" /\ handleClockTick
           \/ t.kind = "read" /\ Done /\ UNCHANGED index
    /\ transactions' = Tail(transactions)
    /\ UNCHANGED <<input, clock, calls>>

-----------------------------------------------------------------------------
(* The input goroutine: it receives from callers and from the clock while it
   holds nothing, and ends once it sees that the set is stopped.            *)

Receives == input = NoTxn

Adds(q) == Cardinality({k \in DOMAIN q : q[k].kind = "add"})
Ticks(q) == Cardinality({k \in DOMAIN q : q[k].kind = "tick"})

Call(t) ==
    /\ Receives /\ inputs < MaxInputs
    /\ input' = t
    /\ inputs' = inputs + 1
    /\ UNCHANGED <<index, transactions, core, clock, running>>

Add(initial) == next + Adds(transactions) < MaxAdds /\ Call(Txn("add", 0, initial))
Delete(id) == Call(Txn("delete", id, NoState))
Signal(id, signal) == Call(Event(id, signal))
Read == Call(Txn("read", 0, NoState))

(* A tick that the clock sends; a clock that was stopped is a closed channel,
   from which ticks can always be received.                                 *)
ReceiveTick ==
    /\ Receives /\ clock \in {"sending", "closed"}
    /\ now + Ticks(transactions) < MaxTicks
    /\ input' = Txn("tick", 0, NoState)
    /\ clock' = IF clock = "sending" THEN "waiting" ELSE clock
    /\ UNCHANGED <<index, transactions, core, calls>>

Forward ==
    /\ input \notin {NoTxn, Ended} /\ Len(transactions) < BufferSize
    /\ transactions' = Append(transactions, input)
    /\ input' = NoTxn
    /\ UNCHANGED <<index, core, clock, calls>>

InputEnds ==
    /\ Receives /\ ~running
    /\ input' = Ended
    /\ UNCHANGED <<index, transactions, core, clock, calls>>

(* The goroutine of a Wall clock.                                           *)
ClockTicks ==
    /\ clock = "waiting" /\ clock' = "sending"
    /\ UNCHANGED <<index, transactions, input, core, calls>>

ClockStops ==
    /\ clock = "waiting" /\ ~running /\ clock' = "closed"
    /\ UNCHANGED <<index, transactions, input, core, calls>>

Stop ==
    /\ running /\ running' = FALSE
    /\ UNCHANGED <<index, transactions, input, core, clock, inputs>>

Init ==
    /\ now = 0 /\ next = 0
    /\ inst = <<>>
    /\ members = {}
    /\ bystate = [s \in States |-> {}]
    /\ deadlines = <<>> /\ transactions = <<>>
    /\ input = NoTxn
    /\ core = [pc |-> "idle", raise |-> NoTxn]
    /\ clock = "waiting"
    /\ running = TRUE
    /\ inputs = 0

CoreStep == Process \/ Tick \/ Raise

InputStep ==
    \/ \E s \in Initials : Add(s)
    \/ \E id \in DOMAIN inst : Delete(id) \/ \E g \in Signals : Signal(id, g)
    \/ Read
    \/ ReceiveTick

Next == CoreStep \/ InputStep \/ Forward \/ InputEnds \/ ClockTicks \/ ClockStops \/ Stop

Spec == Init /\ [][Next]_vars

(* Goroutines make progress.  A select with both the closed stop channel and
   something else ready takes each of them in the end.                      *)
Fairness == WF_vars(CoreStep) /\ WF_vars(Forward) /\ SF_vars(InputEnds)

FairSpec == Spec /\ Fairness

-----------------------------------------------------------------------------
(* Properties.                                                              *)

Instance ==
    [id : Nat, state : States, deadline : Int, visits : [States -> Nat],
     flaps : Seq(States)]
Txns == [kind : {"none", "add", "delete", "event", "tick", "read", "ended"}, id : Nat,
         arg : Initials \cup States \cup Signals \cup {NoState}]

(* The index by state, which CountByState and ForEachInState read, has every
   member once, under the state that the member is in.                      *)
IndexAgrees ==
    \A s \in States : bystate[s] = {id \in members : inst[id].state = s}

(* An instance whose state has a TTL is among the deadlines, whatever events
   moved it there and back, and none is there twice (index is one integer).  *)
NoDeadlineForgotten ==
    \A id \in DOMAIN inst :
        /\ inst[id].deadline > 0 => Index(id) # {}
        /\ Cardinality(Index(id)) <= 1

(* The engine implements the machines of its spec: an ID is given once, a
   member moves along the transitions and error transitions of the spec, one
   at a time, and is a member until it is deleted.                          *)
Edges ==
    {e \in States \X States :
       \/ \E g \in DOMAIN Transitions[e[1]] : Transitions[e[1]][g] = e[2]
       \/ \E g \in DOMAIN Errors[e[1]] : Errors[e[1]][g] = e[2]}

M == INSTANCE Machines WITH
        state <- [id \in DOMAIN inst |-> IF id \in members THEN inst[id].state ELSE NoState]

ImplementsMachines == M!Spec

(* Whatever was received is handled in the end, also when the channel is full
   and what was in it when the set was stopped, unless the core goroutine has
   a signal to raise and the channel that it alone receives from is full.    *)
SelfBlocked == core.raise # NoTxn /\ Len(transactions) = BufferSize

AllHandled ==
    [](transactions # <<>> => <>((transactions = <<>> /\ Awaits) \/ SelfBlocked))

-----------------------------------------------------------------------------
(* What a comment says, and the code does not do.                           *)

(* types.go, State: "TTL specifies how long this state can last before a
   signal is raised."  No member is past its deadline once a tick has been
   handled.                                                                 *)
DeadlinesHonoured ==
    core.pc = "idle" => \A id \in members : inst[id].deadline > 0 => inst[id].deadline > now
=============================================================================
