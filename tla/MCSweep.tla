------------------------------ MODULE MCSweep ------------------------------
(* Sweep on one task, one arm, and an arm that runs on another harness.     *)
EXTENDS Sweep

CONSTANTS small, other, sum, haiku, opus

MCTaskSeq == << sum >>
AloneOrMixed == {<< small >>, << small, other >>}
Alone == {<< small >>}
Haiku == [a \in Arm |-> haiku]
NoRepeats == [a \in Arm |-> 0]
TwoEach == [a \in Arm |-> 2]
Adapters == [a \in Arm |-> IF a = other THEN "second" ELSE "first"]

=============================================================================
