------------------------------ MODULE MCReport ------------------------------
(* Report for two arms of two models, two tasks of two classes, a repeat,  *)
(* an arm whose cutoff is given anew, and a second corpus with a run of    *)
(* the first task.                                                         *)
EXTENDS Report

Cell(c, t, a, k) == [corpus |-> c, task |-> t, arm |-> a, repeat |-> k]
MCCells == {Cell("main", "t1", "a", 1), Cell("main", "t1", "a", 2), Cell("main", "t2", "b", 1),
            Cell("other", "t1", "b", 1)}
MCModelOf == [arm \in {"a", "b"} |-> IF arm = "a" THEN "large" ELSE "small"]
MCClassAtStart == [t \in {"t1", "t2"} |-> IF t = "t1" THEN "defect" ELSE "feature"]
MCReading == {[pass |-> TRUE, cost_usd |-> 1, wall_ms |-> 3],
              [pass |-> FALSE, cost_usd |-> 3, wall_ms |-> Unknown],
              [pass |-> TRUE, cost_usd |-> Unknown, wall_ms |-> 1]}
MCPublicSince == [t \in {"t1", "t2"} |-> IF t = "t1" THEN 12 ELSE 25]
MCCutoffs == [arm \in {"a", "b"} |-> IF arm = "a" THEN {1, 2} ELSE {0}]

=============================================================================
