------------------------------ MODULE BenchLog -----------------------------
(***************************************************************************)
(* The benchmark's events and what the folds of src/core/log/fold.go make  *)
(* of them, read as statements about positions instead of as loops.        *)
(*                                                                         *)
(* An event is a record whose type says which fields it has; its position  *)
(* in the sequence is its seq.  "lost" is the set of the positions a fold  *)
(* does not see: lines that do not parse, and lines log.quarantined names. *)
(* A cell is one (task, arm, repeat) of the sweep's cross product.         *)
(***************************************************************************)
EXTENDS Naturals, Sequences

\* The positions of the events of a type that a fold may read.
Usable(events, lost, type) ==
  {i \in (1..Len(events)) \ lost : events[i].type = type}

\* A bug of the next: the first run of a cell is kept.
Current_First(events, lost) ==
  {i \in Usable(events, lost, "run") :
     \A j \in Usable(events, lost, "run") : events[j].cell = events[i].cell => i <= j}

\* The runs no later run of their cell supersedes.
Current(events, lost) ==
  {i \in Usable(events, lost, "run") :
     \A j \in Usable(events, lost, "run") : events[j].cell = events[i].cell => j <= i}

\* The verdicts that follow run i and carry its cell; the last one counts.
VerdictsOf(events, lost, i) ==
  {v \in Usable(events, lost, "verdict") : i < v /\ events[v].cell = events[i].cell}

\* Runs: the current runs, each with the verdict that ended it, 0 when none has.
Runs(events, lost) ==
  {[run |-> i, verdict |-> 0] :
     i \in {j \in Current(events, lost) : VerdictsOf(events, lost, j) = {}}}
  \cup UNION {{[run |-> i, verdict |-> v] :
                 v \in {w \in VerdictsOf(events, lost, i) :
                          \A u \in VerdictsOf(events, lost, i) : u <= w}} :
              i \in Current(events, lost)}

\* The current runs that carry a verdict.
Ended(events, lost) == {r.run : r \in {q \in Runs(events, lost) : q.verdict # 0}}

\* A bug of the next: the task's content is not looked at.
IsVerified_AnyContent(events, lost, task, content) ==
  \E i \in Usable(events, lost, "verified") : events[i].task = task

\* Verified: some bench.verified certifies this content of the task.
IsVerified(events, lost, task, content) ==
  \E i \in Usable(events, lost, "verified") :
     events[i].task = task /\ events[i].content = content

=============================================================================
