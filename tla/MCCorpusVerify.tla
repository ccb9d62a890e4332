--------------------------- MODULE MCCorpusVerify ---------------------------
(* CorpusVerify on two tasks of one repository: the base of the second is    *)
(* the commit the first landed, so that they share a suite, or would but for *)
(* their clocks.                                                             *)
EXTENDS CorpusVerify

CONSTANTS sum, parse, lint

Pinned(base, landed, clock, adds) ==
  [repo |-> "calc", base |-> base, landed |-> landed, suite |-> "npm test",
   clock |-> clock, adds |-> adds]

Records ==
  sum :> Pinned("c1", "c2", "jan", TRUE) @@
  parse :> Pinned("c2", "c3", "jan", FALSE) @@
  lint :> Pinned("c2", "c4", "feb", FALSE)

Chain == <<sum, parse, lint>>

\* Either every check is right, or each is wrong in one tree of its own in its first version.
Right == [t \in Task |-> [v \in 0..MaxEdits |-> "nowhere"]]
WrongOnce ==
  [t \in Task |-> [v \in 0..MaxEdits |->
     IF v > 0 THEN "nowhere" ELSE CASE t = sum -> "additions" [] t = parse -> "base" [] t = lint -> "landed"]]
RightOrWrong == {Right, WrongOnce}
LandedWrong == {[t \in Task |-> [v \in 0..MaxEdits |-> "landed"]]}

=============================================================================
