------------------------------ MODULE LogScan ------------------------------
(***************************************************************************)
(* The loop of scan (src/core/log/scan.go), one line per step.  It walks   *)
(* the complete lines once, holding back the unusable ones until the next  *)
(* line that is where it belongs says how many seqs they take up, and it   *)
(* stops with a VerifyError at the first line no repair may touch.         *)
(*                                                                         *)
(* The log is any sequence of lines; TLC enumerates short ones, and        *)
(* LogScanProofs.tla proves the properties of every log.                   *)
(***************************************************************************)
EXTENDS LogFile

CONSTANT Logs   \* the logs scan may be given

ASSUME LogsAssumption == Logs \subseteq Seq(Line)

VARIABLES
  lines,        \* the complete lines of the file, fixed
  at,           \* the index of the line the loop is on; Len(lines) + 1 past the end
  lastSeq,      \* s.lastSeq
  unreadable,   \* how many unusable lines were met since the last one in its place
  bad,          \* s.bad, the seqs only, in the order they are appended
  events,       \* s.events, the seqs only, in the order they are appended
  quarantined,  \* s.quarantined
  result        \* "scanning", "read", or the VerifyError "refused"

vars == <<lines, at, lastSeq, unreadable, bad, events, quarantined, result>>

Init ==
  /\ lines \in Logs
  /\ at = 1
  /\ lastSeq = 0
  /\ unreadable = 0
  /\ bad = << >>
  /\ events = << >>
  /\ quarantined = {}
  /\ result = "scanning"

-----------------------------------------------------------------------------
(* Helpers of the loop *)

line == lines[at]

\* A bug of the next: the lines held back take up no seqs.
Want_NoUnreadable == lastSeq + 1

\* The seq the line's position asks for.
Want == lastSeq + 1 + unreadable

\* A bug of the next: any later line will do.
NextUsableAgrees_AnyLine ==
  \E d \in 0..(Len(lines) - at - 1) :
     lines[at + 1 + d].usable /\ lines[at + 1 + d].seq = Want + d + 1

\* for d, n := range lines[i+1:]: the first usable line decides.
NextUsableAgrees ==
  \E d \in 0..(Len(lines) - at - 1) :
     /\ lines[at + 1 + d].usable
     /\ lines[at + 1 + d].seq = Want + d + 1
     /\ \A b \in 0..(d - 1) : ~lines[at + 1 + b].usable

\* A bug of the next: the first one takes the last line's seq.
Flushed_OffByOne == bad \o [k \in 1..unreadable |-> lastSeq + k - 1]

\* flush: each held-back line takes the next seq and joins the bad lines.
Flushed == bad \o [k \in 1..unreadable |-> lastSeq + k]

-----------------------------------------------------------------------------
(* The loop's branches *)

Scanning == result = "scanning" /\ at <= Len(lines)

\* An unparseable line, or one with no positive seq, is held back.
HoldBack ==
  /\ Scanning
  /\ ~line.usable
  /\ unreadable' = unreadable + 1
  /\ at' = at + 1
  /\ UNCHANGED <<lines, lastSeq, bad, events, quarantined, result>>

\* A newer envelope is refused, never guessed at.
RefuseVersion ==
  /\ Scanning
  /\ line.usable
  /\ line.newer
  /\ result' = "refused"
  /\ UNCHANGED <<lines, at, lastSeq, unreadable, bad, events, quarantined>>

\* A seq out of place that the next usable line shows to be damage is held back.
HoldBackDamaged ==
  /\ Scanning
  /\ line.usable /\ ~line.newer
  /\ line.seq # Want
  /\ NextUsableAgrees
  /\ unreadable' = unreadable + 1
  /\ at' = at + 1
  /\ UNCHANGED <<lines, lastSeq, bad, events, quarantined, result>>

\* Otherwise a seq out of place is a gap or a reordering.
RefuseOrder ==
  /\ Scanning
  /\ line.usable /\ ~line.newer
  /\ line.seq # Want
  /\ ~NextUsableAgrees
  /\ result' = "refused"
  /\ UNCHANGED <<lines, at, lastSeq, unreadable, bad, events, quarantined>>

\* A line in its place: flush what was held back, then judge the line by the catalogue.
Accept ==
  /\ Scanning
  /\ line.usable /\ ~line.newer
  /\ line.seq = Want
  /\ unreadable' = 0
  /\ lastSeq' = line.seq
  /\ \/ /\ line.check = "unknown"
        /\ bad' = Flushed
        /\ UNCHANGED <<events, quarantined>>
     \/ /\ line.check = "bad"
        /\ bad' = Append(Flushed, line.seq)
        /\ UNCHANGED <<events, quarantined>>
     \/ /\ line.check = "ok"
        /\ bad' = Flushed
        /\ events' = Append(events, line.seq)
        /\ quarantined' = quarantined \cup ({line.names} \ {0})
  /\ at' = at + 1
  /\ UNCHANGED <<lines, result>>

\* The lines held back at the end of the log are flushed too.
Finish ==
  /\ result = "scanning"
  /\ at = Len(lines) + 1
  /\ bad' = Flushed
  /\ lastSeq' = lastSeq + unreadable
  /\ unreadable' = 0
  /\ result' = "read"
  /\ UNCHANGED <<lines, at, events, quarantined>>

Next == HoldBack \/ RefuseVersion \/ HoldBackDamaged \/ RefuseOrder \/ Accept \/ Finish

Spec == Init /\ [][Next]_vars

-----------------------------------------------------------------------------
(* Properties *)

TypeOK ==
  /\ lines \in Logs
  /\ at \in 1..(Len(lines) + 1)
  /\ lastSeq \in Nat
  /\ unreadable \in Nat
  /\ bad \in Seq(Nat)
  /\ events \in Seq(Nat)
  /\ quarantined \subseteq Nat
  /\ result \in {"scanning", "read", "refused"}

Members(s) == {s[k] : k \in 1..Len(s)}

Increasing(s) == \A j, k \in 1..Len(s) : j < k => s[j] < s[k]

\* The loop's bookkeeping never drifts from the file: whatever mix of usable, damaged and
\* unparseable lines came before, the seq a line is asked for is the line's own position.
PositionIsSeq == result = "scanning" => lastSeq + unreadable = at - 1

\* scan refuses a log exactly when some line of it is out of order or of a newer version,
\* and a log it reads is accounted for to its last line (scan.go:35-37).
RefusesExactly ==
  /\ result = "refused" => Refused(lines)
  /\ result = "read" => ~Refused(lines) /\ lastSeq = Len(lines)

\* What scan reports of a log it reads is what the positions say: the events in strictly
\* increasing seq order, every bad line once and in order, and the seqs already named.
ReportsExactly ==
  result = "read" =>
    /\ Members(events) = Events(lines) /\ Increasing(events)
    /\ Members(bad) = BadSeqs(lines) /\ Increasing(bad)
    /\ quarantined = Quarantined(lines)

\* The line log.quarantined writes for seq s as the n-th line of a log.
QuarantineLine(n, s) ==
  [usable |-> TRUE, seq |-> n, newer |-> FALSE, check |-> "ok", names |-> s]

\* A log that is read stays read, and its first unrecorded line settled, once Open appends
\* the quarantine for it: one pass of Open's loop leaves nothing unrecorded behind.
QuarantineSettles ==
  result = "read" =>
    \A s \in Unrecorded(lines) :
       LET more == Append(lines, QuarantineLine(lastSeq + 1, s)) IN
       /\ ~Refused(more)
       /\ Unrecorded(more) = Unrecorded(lines) \ {s}

=============================================================================
