------------------------------ MODULE LogFile ------------------------------
(***************************************************************************)
(* What a reader makes of events.jsonl: src/core/log/scan.go, read as a    *)
(* statement about each line and its position instead of as a loop.        *)
(* LogScan.tla models the loop itself and LogScanProofs.tla proves that    *)
(* the two agree; HomeLog.tla opens logs with the operators below.         *)
(*                                                                         *)
(* A complete line is a record                                             *)
(*   usable   it parses and carries a positive seq                         *)
(*   seq      the seq it carries                                           *)
(*   newer    its envelope version is above this binary's                  *)
(*   check    "ok", "unknown" (type not in the catalogue) or "bad"         *)
(*   names    the seq a log.quarantined line names, 0 for other types      *)
(* The bytes after the last newline are not a line: a log is the sequence  *)
(* of its complete lines, and the torn tail is kept beside it.             *)
(***************************************************************************)
EXTENDS Naturals, Sequences

Line == [usable : BOOLEAN, seq : Nat, newer : BOOLEAN,
         check : {"ok", "unknown", "bad"}, names : Nat]

\* The next usable line after position i carries exactly the seq its position asks for.
\* scan accepts this as evidence that line i itself is damaged and not out of place.
Confirmed(lines, i) ==
  \E j \in (i + 1)..Len(lines) :
     /\ lines[j].usable
     /\ lines[j].seq = j
     /\ \A k \in (i + 1)..(j - 1) : ~lines[k].usable

\* Line i cannot be used and its seq is attributed by position.
Unreadable(lines, i) ==
  \/ ~lines[i].usable
  \/ ~lines[i].newer /\ lines[i].seq # i /\ Confirmed(lines, i)

\* Line i is what no repair may touch: a newer envelope, or a seq out of order.
OutOfOrder(lines, i) ==
  /\ lines[i].usable
  /\ lines[i].newer \/ (lines[i].seq # i /\ ~Confirmed(lines, i))

\* scan returns a VerifyError and no fold of the log.
Refused(lines) == \E i \in 1..Len(lines) : OutOfOrder(lines, i)

\* Line i is where its seq says it is; the three classes exclude each other.
Placed(lines, i) == lines[i].usable /\ ~lines[i].newer /\ lines[i].seq = i

Events(lines) == {i \in 1..Len(lines) : Placed(lines, i) /\ lines[i].check = "ok"}

BadSeqs(lines) ==
  {i \in 1..Len(lines) :
     Unreadable(lines, i) \/ (Placed(lines, i) /\ lines[i].check = "bad")}

\* Seqs a readable log.quarantined line already names.
Quarantined(lines) == {lines[i].names : i \in Events(lines)} \ {0}

\* A bug of the next: what was named is named again.
Unrecorded_Forgetful(lines) == BadSeqs(lines)

\* The bad lines no log.quarantined event names yet.
Unrecorded(lines) == BadSeqs(lines) \ Quarantined(lines)

\* Verify: gapless, complete to the last line, and every unreadable line quarantined.
Verifies(lines, torn) == ~Refused(lines) /\ Unrecorded(lines) = {} /\ ~torn

=============================================================================
