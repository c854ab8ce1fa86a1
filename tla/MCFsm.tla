------------------------------- MODULE MCFsm -------------------------------
(* An instance of the engine: a machine that waits with a TTL, runs, may fail,
   and is not allowed to flap.                                              *)
EXTENDS FsmSet

CONSTANTS wait, run, dead, unknown, go, back, fail

Moves == [s \in {wait, run, dead} |->
            CASE s = wait -> [g \in {go, fail} |-> IF g = go THEN run ELSE dead]
              [] s = run -> [g \in {back, fail} |-> IF g = back THEN wait ELSE dead]
              [] s = dead -> [g \in {} |-> dead]]
OnError == [s \in {wait, run, dead} |->
              IF s = wait THEN [g \in {go} |-> dead] ELSE [g \in {} |-> dead]]
WithAction == {<<wait, go>>}
Limit(n, g) == [value |-> n, raise |-> g]
Waits == [s \in {wait, run, dead} |->
            CASE s = wait -> Limit(2, fail) [] s = run -> Limit(1, back) [] s = dead -> Limit(0, fail)]
Visits == [s \in {wait, run, dead} |-> IF s = wait THEN Limit(2, fail) ELSE Limit(0, fail)]
Flapping == {[states |-> {wait, run}, count |-> 2, raise |-> fail]}
=============================================================================
