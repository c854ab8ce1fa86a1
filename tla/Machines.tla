------------------------------ MODULE Machines ------------------------------
(***************************************************************************)
(* What a set of state machines promises: a machine is created under a     *)
(* name that was never used before, it moves along the edges of its        *)
(* specification one step at a time, and it may be destroyed.              *)
(***************************************************************************)
CONSTANTS States, Edges, NoState

VARIABLE state   \* by name: the state, or NoState for one that was destroyed

Create(n) ==
    /\ n \notin DOMAIN state
    /\ \E s \in States : state' = [m \in DOMAIN state \cup {n} |-> IF m = n THEN s ELSE state[m]]

Move(n) ==
    /\ n \in DOMAIN state
    /\ \E t \in States : <<state[n], t>> \in Edges /\ state' = [state EXCEPT ![n] = t]

Destroy(n) ==
    /\ n \in DOMAIN state /\ state[n] # NoState
    /\ state' = [state EXCEPT ![n] = NoState]

Init == DOMAIN state = {}

Next == \E n \in DOMAIN state' : Create(n) \/ Move(n) \/ Destroy(n)

Spec == Init /\ [][Next]_state
=============================================================================
