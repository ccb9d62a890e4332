------------------------------ MODULE MCStream ------------------------------
(* Stream with a run of two calls, a probe of three, a model beside the    *)
(* arm's, and one garbled line.                                            *)
EXTENDS Stream

MCMaxCalls == [run |-> 2, probe |-> 3]
MCDurations == {-2, 0, 2, 3}

=============================================================================
