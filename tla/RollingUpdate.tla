---------------------------- MODULE RollingUpdate ----------------------------
(***************************************************************************)
(* The goroutine that CommitGroup starts for an update plan: it runs       *)
(* scalerUpdatePlan.Run around rollingupdate.Run, or a no-op, and then     *)
(* forgets the update of its context.                                      *)
(***************************************************************************)
EXTENDS GroupState

UpdatePlan ==
    [kind : {"none", "noop", "rolling"}, ctx : Contexts \cup {None},
     from : Settings \cup {NoSettings}, to : Settings \cup {NoSettings}, stops : Nat,
     pc : {"none", "start", "list", "wait", "pick", "destroy", "grow", "ended", "done"},
     expected : Nat, healthy : Nat, victim : IDs \cup {0}, self : BOOLEAN]

NoPlan == [kind |-> "none", ctx |-> None, from |-> NoSettings, to |-> NoSettings,
           stops |-> 0, pc |-> "none", expected |-> 0, healthy |-> 0,
           victim |-> 0, self |-> FALSE]

NewPlan(kind, c, s) ==
    [NoPlan EXCEPT !.kind = kind, !.ctx = c, !.from = ctx[c].settings, !.to = s,
                   !.pc = "start"]

Goto(p, l) == plan' = [plan EXCEPT ![p].pc = l]

(* scalerUpdatePlan.Run lowers the size before it rolls, and raises it after;
   for a quorum both sizes are 0.                                            *)
UpdateStarts(p) ==
    LET u == plan[p] IN
    /\ u.pc = "start"
    /\ Goto(p, IF u.kind = "noop" THEN "ended" ELSE "list")
    /\ IF u.kind = "rolling" /\ u.to.size < u.from.size
       THEN SetSize(u.ctx, u.to.size)
       ELSE UNCHANGED sup
    /\ UNCHANGED <<inst, calm, groups, ctx, client>>

UpdateLists(p) ==
    /\ plan[p].pc = "list"
    /\ \/ /\ labelAndList(plan[p].ctx)
          /\ plan' = [plan EXCEPT ![p].pc = "wait", ![p].healthy = 0,
                         ![p].expected = Cardinality(desiredInstances(plan[p].to))]
       \/ labelAndListFails(plan[p].ctx) /\ Goto(p, "ended")
    /\ UNCHANGED <<calm, groups, ctx, sup, client>>

(* The number of new instances that waitUntilQuiesced is asked for.          *)
Awaited(u) ==
    LET desiredSize == IF u.to.lids = {} THEN u.to.size ELSE Cardinality(u.to.lids)
    IN  IF u.expected < desiredSize THEN u.expected ELSE desiredSize

(* n is the number of polls in a row that found enough healthy instances;
   polls are one interval apart.                                             *)
exceedsHealthyThreshold(n, awaited) ==
    \/ awaited = 0
    \/ IF UpdatingCount > 0 THEN n >= UpdatingCount ELSE n > UpdatingDuration

waitUntilQuiesced(p) ==
    LET u == plan[p]
        matching == desiredInstances(u.to)
    IN
    /\ u.pc = "wait"
    /\ \/ /\ labelAndList(u.ctx)
          /\ \E healthy \in SUBSET matching :
                /\ calm => healthy = matching
                /\ plan' = IF Cardinality(healthy) < Awaited(u)
                           THEN [plan EXCEPT ![p].healthy = 0]
                           ELSE IF exceedsHealthyThreshold(u.healthy + 1, Awaited(u))
                           THEN [plan EXCEPT ![p].pc = "pick", ![p].healthy = 0]
                           ELSE [plan EXCEPT ![p].healthy = @ + 1]
       \/ labelAndListFails(u.ctx) /\ Goto(p, "ended")
    /\ UNCHANGED <<calm, groups, ctx, sup, client>>

UpdateHalts(p) ==
    /\ plan[p].pc = "wait" /\ plan[p].stops > 0
    /\ Goto(p, "ended")
    /\ UNCHANGED <<inst, calm, groups, ctx, sup, client>>

UpdatePicks(p) ==
    LET u == plan[p]
        undesired == undesiredInstances(u.to)
    IN
    /\ u.pc = "pick"
    /\ \/ labelAndList(u.ctx) /\ undesired = {} /\ Goto(p, "grow")
       \/ /\ labelAndList(u.ctx) /\ undesired # {}
          /\ \E id \in FirstSelfLast(undesired) :
                plan' = [plan EXCEPT ![p].pc = "destroy", ![p].victim = id,
                                     ![p].self = isSelf(id)]
       \/ labelAndListFails(u.ctx) /\ Goto(p, "ended")
    /\ UNCHANGED <<calm, groups, ctx, sup, client>>

(* scaled.Destroy with instance.RollingUpdate: this node's own instance is
   drained and kept; the update has nothing to wait for after that.          *)

(* Mutants: the instance destroyed is not counted as one to be replaced; this
   node's own instance is destroyed like the others.                         *)
UpdateDestroysUncounted(p) ==
    LET u == plan[p] IN
    /\ u.pc = "destroy" /\ ~u.self /\ DestroySucceeds(u.victim)
    /\ plan' = [plan EXCEPT ![p].pc = "wait", ![p].victim = 0]
    /\ UNCHANGED <<calm, groups, ctx, sup, client>>

UpdateDestroysSelf(p) ==
    LET u == plan[p] IN
    /\ u.pc = "destroy" /\ DestroySucceeds(u.victim)
    /\ plan' = [plan EXCEPT ![p].pc = "wait", ![p].victim = 0, ![p].self = FALSE,
                            ![p].expected = @ + 1]
    /\ UNCHANGED <<calm, groups, ctx, sup, client>>

UpdateDestroys(p) ==
    LET u == plan[p] IN
    /\ u.pc = "destroy"
    /\ \/ /\ u.self /\ UNCHANGED inst
          /\ plan' = [plan EXCEPT ![p].pc = "grow", ![p].victim = 0, ![p].self = FALSE]
       \/ /\ ~u.self /\ DestroySucceeds(u.victim)
          /\ plan' = [plan EXCEPT ![p].pc = "wait", ![p].victim = 0, ![p].expected = @ + 1]
       \/ /\ (~calm /\ UNCHANGED inst) \/ (~u.self /\ DestroyFails(u.victim))
          /\ plan' = [plan EXCEPT ![p].pc = "ended", ![p].victim = 0, ![p].self = FALSE]
    /\ UNCHANGED <<calm, groups, ctx, sup, client>>

(* Mutant: the size is left as it is.                                        *)
UpdateGrowsNot(p) ==
    /\ plan[p].pc = "grow"
    /\ Goto(p, "ended")
    /\ UNCHANGED <<inst, calm, groups, ctx, sup, client>>

UpdateGrows(p) ==
    LET u == plan[p] IN
    /\ u.pc = "grow"
    /\ IF u.to.size > u.from.size THEN SetSize(u.ctx, u.to.size) ELSE UNCHANGED sup
    /\ Goto(p, "ended")
    /\ UNCHANGED <<inst, calm, groups, ctx, client>>

(* context.setUpdate(nil), whichever update the context has by now.          *)
UpdateEnds(p) ==
    /\ plan[p].pc = "ended"
    /\ setUpdate(plan[p].ctx, None)
    /\ plan' = [plan EXCEPT ![p] = [NoPlan EXCEPT !.kind = plan[p].kind,
                                      !.stops = plan[p].stops, !.pc = "done"]]
    /\ UNCHANGED <<inst, calm, groups, sup, client>>

UpdateStep(p) ==
    \/ UpdateStarts(p) \/ UpdateLists(p) \/ waitUntilQuiesced(p) \/ UpdatePicks(p)
    \/ UpdateDestroys(p) \/ UpdateGrows(p) \/ UpdateEnds(p)
=============================================================================
