---------------------------- MODULE FsmSetProofs ----------------------------
(***************************************************************************)
(* For every spec that compile accepts, any number of instances and any    *)
(* size of the channel: the index by state agrees with the members, and    *)
(* the engine implements the machines of Machines.tla.                     *)
(*                                                                         *)
(* Neither needs to know what the heap does: the handlers change members,  *)
(* states and index, and the deadlines only decide what is raised.         *)
(***************************************************************************)
EXTENDS FsmSet, TLAPS

(* The shape of the instances that the index is about, and the index.       *)
IInv ==
    /\ now \in Nat /\ next \in Nat
    /\ inst \in [DOMAIN inst -> Instance]
    /\ \A id \in DOMAIN inst : id \in Nat /\ id < next
    /\ members \subseteq DOMAIN inst
    /\ bystate \in [States -> SUBSET Nat]
    /\ IndexAgrees

(* The state of the machines, as the instance M has it.                     *)
St == [id \in DOMAIN inst |-> IF id \in members THEN inst[id].state ELSE NoState]

-----------------------------------------------------------------------------
(* instance.update gives an instance the state, and leaves its ID.          *)
LEMMA UpdatedType ==
    ASSUME now \in Nat, NEW i \in Instance, NEW s \in States
    PROVE  /\ Updated(i, s) \in Instance
           /\ Updated(i, s).state = s
<1>1. TTL[s].value \in Nat
  BY SpecAssumption
<1>2. now + TTL[s].value \in Int
  BY <1>1
<1>3. [i.visits EXCEPT ![s] = @ + 1] \in [States -> Nat]
  BY DEF Instance
<1> DEFINE v == [i.visits EXCEPT ![s] = @ + 1]
           d == IF TTL[s].value > 0 THEN now + TTL[s].value ELSE 0
<1>4. d \in Int
  BY <1>1, <1>2
<1>5. Updated(i, s) = [i EXCEPT !.state = s, !.visits = v, !.deadline = d]
  BY DEF Updated, Instance
<1> HIDE DEF v, d
<1> QED
  BY <1>3, <1>4, <1>5, ZenonT(60) DEF Instance, v

(* A new instance is one, in the state that it was added with.              *)
LEMMA NewInstanceType ==
    ASSUME NEW id \in Nat, NEW s \in States
    PROVE  NewInstance(id, s) \in Instance
BY DEF NewInstance, Instance

(* The history of flaps is a sequence of states.                            *)
LEMMA RecordType ==
    ASSUME NEW h \in Seq(States), NEW a \in States, NEW b \in States
    PROVE  record(h, a, b) \in Seq(States)
BY DEF record

(* What may follow a state on a signal is a state, along an edge.           *)
LEMMA NextStatesType ==
    ASSUME NEW s \in States, NEW g \in DOMAIN Transitions[s], NEW t \in NextStates(s, g)
    PROVE  t \in States /\ <<s, t>> \in Edges
<1>1. CASE t = Transitions[s][g]
  BY <1>1, SpecAssumption DEF Edges
<1>2. CASE t # Transitions[s][g]
  <2>1. g \in DOMAIN Errors[s] /\ t = Errors[s][g]
    BY <1>2 DEF NextStates
  <2> QED
    BY <2>1, SpecAssumption DEF Edges
<1> QED
  BY <1>1, <1>2

-----------------------------------------------------------------------------
(* Each handler keeps the invariant and makes a step of the machines.       *)

(* handleAdd creates a machine, or does nothing when the state is unknown.  *)
LEMMA AddStep ==
    ASSUME IInv, NEW s, handleAdd(s)
    PROVE  IInv' /\ (St' = St \/ M!Next)
<1> USE DEF IInv
<1>1. CASE s \notin States
  BY <1>1 DEF handleAdd, IndexAgrees, St
<1>2. CASE s \in States
  <2> DEFINE new == Updated(NewInstance(next, s), s)
  <2>1. new \in Instance /\ new.state = s
    BY <1>2, UpdatedType, NewInstanceType
  <2>2. /\ next' = next + 1 /\ now' = now
        /\ inst' = [id \in DOMAIN inst \cup {next} |-> IF id = next THEN new ELSE inst[id]]
        /\ members' = members \cup {next}
        /\ bystate' = [bystate EXCEPT ![s] = @ \cup {next}]
    BY <1>2 DEF handleAdd
  <2> HIDE DEF new
  <2>3. DOMAIN inst' = DOMAIN inst \cup {next} /\ next \notin DOMAIN inst
    BY <2>2
  <2>4. \A id \in DOMAIN inst' : inst'[id] \in Instance /\ id \in Nat /\ id < next'
    BY <2>1, <2>2, <2>3
  <2>5. inst' \in [DOMAIN inst' -> Instance]
    BY <2>2, <2>4, ZenonT(60)
  <2>6. IndexAgrees'
    <3>1. ASSUME NEW t \in States
          PROVE  bystate'[t] = {id \in members' : inst'[id].state = t}
      <4>1. bystate[t] = {id \in members : inst[id].state = t}
        BY DEF IndexAgrees
      <4>2. \A id \in members : inst'[id] = inst[id]
        BY <2>2, <2>3
      <4>3. inst'[next].state = s
        BY <2>1, <2>2
      <4>4. bystate'[t] = IF t = s THEN bystate[t] \cup {next} ELSE bystate[t]
        BY <1>2, <2>2, ZenonT(60)
      <4> QED
        BY <4>1, <4>2, <4>3, <4>4, <2>2
    <3> QED
      BY <3>1 DEF IndexAgrees
  <2>7. IInv'
    <3>1. bystate' \in [States -> SUBSET Nat]
      BY <1>2, <2>2
    <3>2. members' \subseteq DOMAIN inst'
      BY <2>2, <2>3
    <3> QED
      BY <2>2, <2>4, <2>5, <2>6, <3>1, <3>2
  <2>8. St' = [m \in DOMAIN St \cup {next} |-> IF m = next THEN s ELSE St[m]]
    <3>1. DOMAIN St = DOMAIN inst /\ DOMAIN St' = DOMAIN inst'
      BY DEF St
    <3>2. ASSUME NEW m \in DOMAIN inst'
          PROVE  St'[m] = IF m = next THEN s ELSE St[m]
      BY <2>1, <2>2, <2>3 DEF St
    <3> QED
      BY <2>3, <3>1, <3>2, ZenonT(60) DEF St
  <2>9. next \notin DOMAIN St /\ next \in DOMAIN St'
    BY <2>3 DEF St
  <2>10. PICK n \in Nat : n = next
    OBVIOUS
  <2>11. M!Create(n)
    BY <1>2, <2>8, <2>9, <2>10, SMTT(60) DEF M!Create, St
  <2> HIDE DEF IInv
  <2>12. M!Next
    BY <2>9, <2>10, <2>11 DEF M!Next, St
  <2> QED
    BY <2>7, <2>12
<1> QED
  BY <1>1, <1>2

(* handleDelete destroys a machine, or does nothing when it is unknown.     *)
LEMMA DeleteStep ==
    ASSUME IInv, NEW id, handleDelete(id)
    PROVE  IInv' /\ (St' = St \/ M!Next)
<1> USE DEF IInv
<1>1. CASE id \notin members
  BY <1>1 DEF handleDelete, IndexAgrees, St
<1>2. CASE id \in members
  <2> DEFINE s == inst[id].state
  <2>1. /\ next' = next /\ now' = now
        /\ inst' = [inst EXCEPT ![id].id = 0]
        /\ members' = members \ {id}
        /\ bystate' = [bystate EXCEPT ![s] = @ \ {id}]
    BY <1>2 DEF handleDelete
  <2>2. DOMAIN inst' = DOMAIN inst /\ id \in DOMAIN inst /\ s \in States
    BY <1>2, <2>1 DEF Instance
  <2>3. \A j \in DOMAIN inst : inst'[j] \in Instance /\ inst'[j].state = inst[j].state
    BY <2>1, <2>2, ZenonT(60) DEF Instance
  <2>4. inst' \in [DOMAIN inst' -> Instance]
    BY <2>1, <2>2, <2>3
  <2>5. IndexAgrees'
    <3>1. ASSUME NEW t \in States
          PROVE  bystate'[t] = {j \in members' : inst'[j].state = t}
      <4>1. bystate[t] = {j \in members : inst[j].state = t}
        BY DEF IndexAgrees
      <4>2. bystate'[t] = IF t = s THEN bystate[t] \ {id} ELSE bystate[t]
        BY <2>1, <2>2, ZenonT(60)
      <4>3. members \subseteq DOMAIN inst
        OBVIOUS
      <4> QED
        BY <4>1, <4>2, <4>3, <2>1, <2>3
    <3> QED
      BY <3>1 DEF IndexAgrees
  <2>6. IInv'
    <3>1. bystate' \in [States -> SUBSET Nat]
      BY <2>1, <2>2
    <3> QED
      BY <2>1, <2>2, <2>4, <2>5, <3>1
  <2>7. St' = [St EXCEPT ![id] = NoState]
    BY <1>2, <2>1, <2>2, <2>3, ZenonT(60) DEF St
  <2>8. id \in DOMAIN St /\ St[id] # NoState /\ id \in DOMAIN St'
    BY <1>2, <2>2, NoStateAssumption DEF St
  <2>9. M!Destroy(id)
    BY <2>7, <2>8 DEF M!Destroy, St
  <2> HIDE DEF IInv
  <2>10. M!Next
    BY <2>8, <2>9 DEF M!Next, St
  <2> QED
    BY <2>6, <2>10
<1> QED
  BY <1>1, <1>2

(* A machine that lands in the next state of a transition has moved along an
   edge; the flaps recorded before do not matter.                           *)
LEMMA LandStep ==
    ASSUME IInv, NEW id \in members, NEW i \in Instance, i.state = inst[id].state,
           NEW t \in States, <<i.state, t>> \in Edges,
           Land(id, i, t), UNCHANGED <<now, next, members>>
    PROVE  IInv' /\ M!Next
<1> USE DEF IInv
<1> DEFINE j == Updated(i, t)
<1>1. j \in Instance /\ j.state = t
  BY UpdatedType
<1>2. /\ inst' = [inst EXCEPT ![id] = j]
      /\ bystate' = [bystate EXCEPT ![i.state] = @ \ {id}, ![t] = @ \cup {id}]
  BY DEF Land, reindex
<1> HIDE DEF j
<1>3. id \in DOMAIN inst /\ DOMAIN inst' = DOMAIN inst /\ i.state \in States
  BY <1>2 DEF Instance
<1>4. \A k \in DOMAIN inst : inst'[k] = IF k = id THEN j ELSE inst[k]
  BY <1>2
<1>5. inst' \in [DOMAIN inst' -> Instance]
  BY <1>1, <1>2, <1>3
<1>6. \A s \in States : bystate'[s] = IF s = t THEN (IF s = i.state THEN (bystate[s] \ {id}) \cup {id}
                                                     ELSE bystate[s] \cup {id})
                                       ELSE IF s = i.state THEN bystate[s] \ {id} ELSE bystate[s]
  BY <1>2, <1>3, ZenonT(60)
<1>7. IndexAgrees'
  <2>1. ASSUME NEW s \in States
        PROVE  bystate'[s] = {k \in members' : inst'[k].state = s}
    <3>1. bystate[s] = {k \in members : inst[k].state = s}
      BY DEF IndexAgrees
    <3>2. \A k \in members : inst'[k].state = IF k = id THEN t ELSE inst[k].state
      BY <1>1, <1>4
    <3>3. members' = members /\ id \in members /\ inst[id].state = i.state
      OBVIOUS
    <3> HIDE DEF IInv
    <3>4. CASE s = t
      <4>1. bystate'[s] = (bystate[s] \ {id}) \cup {id}
        BY <1>6, <3>4, ZenonT(60)
      <4> QED
        BY <3>1, <3>2, <3>3, <3>4, <4>1
    <3>5. CASE s # t
      <4>1. bystate'[s] = bystate[s] \ {id}
        BY <1>6, <3>1, <3>3, <3>5, ZenonT(60)
      <4> QED
        BY <3>1, <3>2, <3>3, <3>5, <4>1
    <3> QED
      BY <3>4, <3>5
  <2> QED
    BY <2>1 DEF IndexAgrees
<1>8. bystate' \in [States -> SUBSET Nat]
  BY <1>2, <1>3
<1>9. IInv'
  BY <1>3, <1>5, <1>7, <1>8
<1>10. St' = [St EXCEPT ![id] = t]
  BY <1>1, <1>3, <1>4, ZenonT(60) DEF St
<1>11. id \in DOMAIN St /\ id \in DOMAIN St' /\ St[id] = i.state
  BY <1>3 DEF St
<1>12. M!Move(id)
  BY <1>10, <1>11, ZenonT(60) DEF M!Move, St
<1> HIDE DEF IInv
<1>13. M!Next
  BY <1>11, <1>12 DEF M!Next, St
<1> QED
  BY <1>9, <1>13

(* handleEvent moves a machine, or records a flap, or does nothing.         *)
LEMMA EventStep ==
    ASSUME IInv, NEW id, NEW g, handleEvent(id, g)
    PROVE  IInv' /\ (St' = St \/ M!Next)
<1> DEFINE s == inst[id].state
           t == Transitions[s][g]
           h == record(inst[id].flaps, s, t)
           i == IF flap(s, t) = {} THEN inst[id] ELSE [inst[id] EXCEPT !.flaps = h]
<1>0. UNCHANGED <<now, next, members>>
  BY DEF handleEvent
<1>1. CASE id \notin members \/ g \notin DOMAIN Transitions[s]
  <2>1. UNCHANGED <<inst, bystate>>
    BY <1>1 DEF handleEvent
  <2> QED
    BY <1>0, <2>1, SMTT(60) DEF IInv, IndexAgrees, St
<1>2. CASE id \in members /\ g \in DOMAIN Transitions[s]
  <2>1. id \in DOMAIN inst /\ inst[id] \in Instance /\ s \in States /\ t \in States
    <3>1. id \in DOMAIN inst /\ inst[id] \in Instance
      BY <1>2 DEF IInv
    <3>2. s \in States
      BY <3>1 DEF Instance
    <3> QED
      BY <1>2, <3>1, <3>2, SpecAssumption
  <2>2. i \in Instance /\ i.state = s
    <3>1. h \in Seq(States)
      BY <2>1, RecordType DEF Instance
    <3> HIDE DEF h
    <3> QED
      BY <2>1, <3>1, ZenonT(60) DEF Instance
  <2>3. \/ inst' = [inst EXCEPT ![id] = i] /\ UNCHANGED bystate
        \/ \E n \in NextStates(s, g) : Land(id, i, n)
    BY <1>2 DEF handleEvent
  <2> HIDE DEF i, h, t
  <2>4. CASE inst' = [inst EXCEPT ![id] = i] /\ UNCHANGED bystate
    <3>1. DOMAIN inst' = DOMAIN inst /\ inst' \in [DOMAIN inst' -> Instance]
      BY <2>1, <2>2, <2>4 DEF IInv
    <3>2. \A j \in DOMAIN inst : inst'[j].state = inst[j].state
      BY <2>1, <2>2, <2>4
    <3>3. IndexAgrees'
      BY <1>0, <2>4, <3>2 DEF IInv, IndexAgrees
    <3>4. IInv'
      BY <1>0, <2>4, <3>1, <3>3 DEF IInv
    <3>5. St' = St
      BY <1>0, <3>1, <3>2 DEF St
    <3> QED
      BY <3>4, <3>5
  <2>5. ASSUME NEW n \in NextStates(s, g), Land(id, i, n)
        PROVE  IInv' /\ M!Next
    <3>1. n \in States /\ <<s, n>> \in Edges
      BY <1>2, <2>1, NextStatesType
    <3> HIDE DEF s
    <3> QED
      BY <1>0, <1>2, <2>2, <2>5, <3>1, LandStep DEF s
  <2> QED
    BY <2>3, <2>4, <2>5
<1> QED
  BY <1>1, <1>2

(* A tick changes deadlines, and no state.                                  *)
LEMMA TickStep ==
    ASSUME IInv, Tick
    PROVE  IInv' /\ St' = St
<1>1. CASE UNCHANGED index
  BY <1>1 DEF IInv, IndexAgrees, St, index
<1>2. CASE TickPops
  <2>1. /\ inst' = [inst EXCEPT ![deadlines[1]].deadline = -1]
        /\ UNCHANGED <<now, next, members, bystate>>
    BY <1>2 DEF TickPops
  <2>2. DOMAIN inst' = DOMAIN inst
    BY <2>1
  <2>3. ASSUME NEW j \in DOMAIN inst
        PROVE  inst'[j] \in Instance /\ inst'[j].state = inst[j].state
    <3>1. inst[j] \in Instance
      BY DEF IInv
    <3>2. inst'[j] = inst[j] \/ inst'[j] = [inst[j] EXCEPT !.deadline = -1]
      BY <2>1
    <3>3. -1 \in Int
      OBVIOUS
    <3> QED
      BY <3>1, <3>2, <3>3, SMTT(60) DEF Instance
  <2>4. inst' \in [DOMAIN inst' -> Instance]
    BY <2>1, <2>2, <2>3, ZenonT(60) DEF IInv
  <2>5. IndexAgrees'
    BY <2>1, <2>3 DEF IInv, IndexAgrees
  <2> QED
    BY <2>1, <2>2, <2>3, <2>4, <2>5 DEF IInv, St
<1> QED
  BY <1>1, <1>2 DEF Tick

-----------------------------------------------------------------------------
(* Every step of the engine.                                                *)
LEMMA EngineStep ==
    ASSUME IInv, [Next]_vars
    PROVE  IInv' /\ (St' = St \/ M!Next)
<1>0. ASSUME UNCHANGED index PROVE IInv' /\ St' = St
  BY <1>0 DEF IInv, IndexAgrees, St, index
<1>1. CASE Process
  <2>1. CASE UNCHANGED index
    BY <2>1, <1>0
  <2>2. CASE handleClockTick
    BY <2>2 DEF handleClockTick, IInv, IndexAgrees, St
  <2> QED
    BY <1>1, <2>1, <2>2, AddStep, DeleteStep, EventStep DEF Process
<1>2. CASE Tick
  BY <1>2, TickStep
<1>3. CASE UNCHANGED index
  BY <1>3, <1>0
<1>4. ASSUME InputStep PROVE UNCHANGED index
  BY <1>4 DEF InputStep, Add, Delete, Signal, Read, Call, ReceiveTick
<1>5. ASSUME Raise \/ Forward \/ InputEnds \/ ClockTicks \/ ClockStops \/ Stop
      PROVE  UNCHANGED index
  BY <1>5 DEF Raise, Forward, InputEnds, ClockTicks, ClockStops, Stop
<1>6. ASSUME UNCHANGED vars PROVE UNCHANGED index
  BY <1>6 DEF vars, index
<1> QED
  BY <1>1, <1>2, <1>3, <1>4, <1>5, <1>6 DEF Next, CoreStep

(* The engine starts with nothing.                                          *)
LEMMA EngineInit == Init => IInv /\ M!Init
BY DEF Init, IInv, IndexAgrees, M!Init

LEMMA EngineInvariant == Spec => []IInv
BY EngineInit, EngineStep, PTL DEF Spec

(* The index by state agrees with the members: handleAdd, handleDelete and
   handleEvent keep it, whatever the spec, the actions and their errors.    *)
THEOREM IndexCorrect == Spec => []IndexAgrees
<1>1. IInv => IndexAgrees
  BY DEF IInv
<1> QED
  BY <1>1, EngineInvariant, PTL

(* The engine implements the machines of its spec: every step of its two
   goroutines creates, moves along an edge or destroys one machine, or leaves
   them all as they are.                                                    *)
THEOREM EngineImplementsMachines == Spec => ImplementsMachines
<1>1. IInv /\ [Next]_vars => [M!Next]_St
  BY EngineStep
<1>2. St = [id \in DOMAIN inst |-> IF id \in members THEN inst[id].state ELSE NoState]
  BY DEF St
<1> QED
  BY <1>1, EngineInit, EngineInvariant, PTL DEF Spec, ImplementsMachines, M!Spec, St

=============================================================================
