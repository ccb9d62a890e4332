----------------------------- MODULE MCHomeLog -----------------------------
(* HomeLog on a small set of processes, which are interchangeable, with     *)
(* callers' lines that are longer than the log's own.                       *)
EXTENDS HomeLog, TLC

SomeLengths == [type \in Types |-> IF type = "bench" THEN {3} ELSE {2}]
Processes == Permutations(Proc)

=============================================================================
