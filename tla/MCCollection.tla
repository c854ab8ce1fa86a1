---------------------------- MODULE MCCollection ----------------------------
(* Collections of two keys, where one key may depend on the other, one call may
   fail or one instance may die, or an instance shows up that nobody asked for. *)
EXTENDS Collection

CONSTANTS k1, k2, k3

Scenario(kind, wanted, depends, existing, n) ==
    [kind |-> kind, wanted |-> wanted, depends |-> depends, parallelism |-> 1,
     existing |-> existing, failures |-> n]

Committed ==
    {Scenario("pool", {k1, k2}, {}, {}, 1),
     Scenario("pool", {k1}, {}, {k3}, 0),
     Scenario("resource", {k1, k2}, {<<k1, k2>>}, {}, 1),
     Scenario("resource", {k1}, {}, {k3}, 0)}
=============================================================================
