--------------------------- MODULE LogScanProofs ---------------------------
(***************************************************************************)
(* For every log, of any length: the loop of scan refuses and reports      *)
(* exactly what the positions of the lines say (LogFile.tla).              *)
(*                                                                         *)
(* The argument is the loop invariant ScanInv.  Its first part says that   *)
(* the seqs given out and the lines held back add up to the lines passed;  *)
(* with it, what the loop asks of a line is a statement about the line's   *)
(* position, and each branch adds its line to the right set.               *)
(***************************************************************************)
EXTENDS LogScan, TLAPS

\* Nothing passed was out of order, and what is held back is unreadable.
Passed ==
  /\ \A i \in 1..(at - 1) : ~OutOfOrder(lines, i)
  /\ \A i \in (lastSeq + 1)..(at - 1) : Unreadable(lines, i)

\* Up to lastSeq, the three reports are complete, and hold nothing else.
Reported ==
  /\ Members(events) = {i \in Events(lines) : i <= lastSeq}
  /\ Members(bad) = {i \in BadSeqs(lines) : i <= lastSeq}
  /\ Increasing(events)
  /\ Increasing(bad)
  /\ quarantined = {lines[i].names : i \in {j \in Events(lines) : j <= lastSeq}} \ {0}

ScanInv ==
  /\ TypeOK
  /\ result = "scanning" => lastSeq + unreadable = at - 1 /\ Passed /\ Reported
  /\ result = "refused" => at \in 1..Len(lines) /\ OutOfOrder(lines, at)
  /\ result = "read" => lastSeq = Len(lines) /\ at = Len(lines) + 1 /\ Passed /\ Reported

-----------------------------------------------------------------------------
(* The classes of lines *)

\* The loop's look ahead for the next usable line is Confirmed, once positions are seqs.
LEMMA LookAhead ==
  ASSUME lines \in Seq(Line), at \in 1..Len(lines), Want = at, Want \in Nat
  PROVE  NextUsableAgrees <=> Confirmed(lines, at)
<1>1. ASSUME NextUsableAgrees PROVE Confirmed(lines, at)
  <2>1. PICK d \in 0..(Len(lines) - at - 1) :
             /\ lines[at + 1 + d].usable
             /\ lines[at + 1 + d].seq = Want + d + 1
             /\ \A b \in 0..(d - 1) : ~lines[at + 1 + b].usable
    BY <1>1 DEF NextUsableAgrees
  <2> DEFINE j == at + 1 + d
  <2>2. j \in (at + 1)..Len(lines) /\ j = Want + d + 1
    BY <2>1
  <2>3. ASSUME NEW k \in (at + 1)..(j - 1) PROVE ~lines[k].usable
    <3>1. k - at - 1 \in 0..(d - 1) /\ at + 1 + (k - at - 1) = k
      BY <2>3, <2>1
    <3> QED BY <3>1, <2>1
  <2> QED BY <2>1, <2>2, <2>3 DEF Confirmed
<1>2. ASSUME Confirmed(lines, at) PROVE NextUsableAgrees
  <2>1. PICK j \in (at + 1)..Len(lines) :
             /\ lines[j].usable
             /\ lines[j].seq = j
             /\ \A k \in (at + 1)..(j - 1) : ~lines[k].usable
    BY <1>2 DEF Confirmed
  <2> DEFINE d == j - at - 1
  <2>2. d \in 0..(Len(lines) - at - 1) /\ at + 1 + d = j /\ Want + d + 1 = j
    BY <2>1
  <2>3. ASSUME NEW b \in 0..(d - 1) PROVE ~lines[at + 1 + b].usable
    <3>1. at + 1 + b \in (at + 1)..(j - 1)
      BY <2>2, <2>1
    <3> QED BY <3>1, <2>1
  <2> QED BY <2>1, <2>2, <2>3 DEF NextUsableAgrees
<1> QED BY <1>1, <1>2

\* Every line is exactly one of out of order, unreadable and in its place.
LEMMA Classes ==
  ASSUME NEW ls \in Seq(Line), NEW i \in 1..Len(ls)
  PROVE  /\ OutOfOrder(ls, i) \/ Unreadable(ls, i) \/ Placed(ls, i)
         /\ ~(OutOfOrder(ls, i) /\ Unreadable(ls, i))
         /\ ~(OutOfOrder(ls, i) /\ Placed(ls, i))
         /\ ~(Unreadable(ls, i) /\ Placed(ls, i))
<1>1. ls[i] \in Line
  OBVIOUS
<1> QED BY <1>1 DEF Line, OutOfOrder, Unreadable, Placed

-----------------------------------------------------------------------------
(* Increasing sequences and their members *)

\* A larger element may be added at the end of an increasing sequence.
LEMMA AppendIncreasing ==
  ASSUME NEW s \in Seq(Nat), NEW x \in Nat, Increasing(s), \A y \in Members(s) : y < x
  PROVE  /\ Append(s, x) \in Seq(Nat)
         /\ Increasing(Append(s, x))
         /\ Members(Append(s, x)) = Members(s) \cup {x}
<1> DEFINE t == Append(s, x)
<1>1. t \in Seq(Nat) /\ Len(t) = Len(s) + 1 /\ t[Len(s) + 1] = x
  OBVIOUS
<1>2. \A k \in 1..Len(s) : t[k] = s[k]
  OBVIOUS
<1>3. \A k \in 1..Len(s) : s[k] < x
  BY DEF Members
<1> HIDE DEF t
<1>4. Increasing(t)
  <2> SUFFICES ASSUME NEW j \in 1..Len(t), NEW k \in 1..Len(t), j < k PROVE t[j] < t[k]
    BY DEF Increasing
  <2>1. j \in 1..Len(s)
    BY <1>1
  <2>2. CASE k \in 1..Len(s)
    BY <2>1, <2>2, <1>2 DEF Increasing
  <2>3. CASE k = Len(s) + 1
    BY <2>1, <2>3, <1>1, <1>2, <1>3
  <2> QED BY <2>2, <2>3, <1>1
<1>5. Members(t) = Members(s) \cup {x}
  <2>1. ASSUME NEW k \in 1..Len(t) PROVE t[k] \in Members(s) \cup {x}
    <3>1. CASE k \in 1..Len(s)
      BY <3>1, <1>2 DEF Members
    <3>2. CASE k = Len(s) + 1
      BY <3>2, <1>1
    <3>3. Len(s) \in Nat
      OBVIOUS
    <3> QED BY <3>1, <3>2, <3>3, <1>1
  <2>2. ASSUME NEW k \in 1..Len(s) PROVE s[k] \in Members(t)
    BY <2>2, <1>1, <1>2 DEF Members
  <2>3. x \in Members(t)
    BY <1>1 DEF Members
  <2> QED BY <2>1, <2>2, <2>3 DEF Members
<1> QED BY <1>1, <1>4, <1>5 DEF t

\* flush adds the n seqs after m to an increasing sequence of seqs up to m.
LEMMA FlushIncreasing ==
  ASSUME NEW s \in Seq(Nat), NEW m \in Nat, NEW n \in Nat,
         Increasing(s), \A y \in Members(s) : y <= m
  PROVE  LET t == s \o [k \in 1..n |-> m + k] IN
         /\ t \in Seq(Nat)
         /\ Increasing(t)
         /\ Members(t) = Members(s) \cup (m + 1)..(m + n)
<1> DEFINE r == [k \in 1..n |-> m + k]
           t == s \o r
<1>1. r \in Seq(Nat) /\ Len(r) = n /\ \A k \in 1..n : r[k] = m + k
  OBVIOUS
<1> HIDE DEF r
<1>2. t \in Seq(Nat) /\ Len(t) = Len(s) + n
  BY <1>1
<1>3. \A k \in 1..Len(s) : t[k] = s[k] /\ s[k] <= m
  BY <1>1 DEF Members
<1>4. ASSUME NEW k \in (Len(s) + 1)..(Len(s) + n) PROVE t[k] = m + (k - Len(s))
  <2>1. t[k] = r[k - Len(s)] /\ k - Len(s) \in 1..n
    BY <1>1, <1>4
  <2> QED BY <2>1, <1>1
<1> HIDE DEF t
<1>5. Increasing(t)
  <2> SUFFICES ASSUME NEW j \in 1..Len(t), NEW k \in 1..Len(t), j < k PROVE t[j] < t[k]
    BY DEF Increasing
  <2>1. CASE k \in 1..Len(s)
    BY <2>1, <1>3 DEF Increasing
  <2>2. CASE j \in 1..Len(s) /\ k \in (Len(s) + 1)..(Len(s) + n)
    <3>1. t[j] = s[j] /\ s[j] <= m /\ t[k] = m + (k - Len(s)) /\ s[j] \in Nat
      BY <2>2, <1>3, <1>4
    <3> QED BY <3>1, <2>2
  <2>3. CASE j \in (Len(s) + 1)..(Len(s) + n) /\ k \in (Len(s) + 1)..(Len(s) + n)
    BY <2>3, <1>4
  <2> QED BY <2>1, <2>2, <2>3, <1>2
<1>6. Members(t) = Members(s) \cup (m + 1)..(m + n)
  <2>1. ASSUME NEW k \in 1..Len(t) PROVE t[k] \in Members(s) \cup (m + 1)..(m + n)
    <3>1. CASE k \in 1..Len(s)
      BY <3>1, <1>3 DEF Members
    <3>2. CASE k \in (Len(s) + 1)..(Len(s) + n)
      BY <3>2, <1>4
    <3> QED BY <3>1, <3>2, <1>2
  <2>2. ASSUME NEW k \in 1..Len(s) PROVE s[k] \in Members(t)
    <3>1. k \in 1..Len(t) /\ t[k] = s[k]
      BY <2>2, <1>2, <1>3
    <3> QED BY <3>1 DEF Members
  <2>3. ASSUME NEW y \in (m + 1)..(m + n) PROVE y \in Members(t)
    <3>1. y - m + Len(s) \in (Len(s) + 1)..(Len(s) + n)
      OBVIOUS
    <3>2. t[y - m + Len(s)] = y
      BY <3>1, <1>4
    <3>3. y - m + Len(s) \in 1..Len(t)
      BY <3>1, <1>2
    <3> QED BY <3>2, <3>3 DEF Members
  <2> QED BY <2>1, <2>2, <2>3 DEF Members
<1> QED BY <1>2, <1>5, <1>6 DEF r, t

-----------------------------------------------------------------------------
(* The loop *)

LEMMA ScanInit == Init => ScanInv
<1> SUFFICES ASSUME Init PROVE ScanInv
  OBVIOUS
<1>1. lines \in Seq(Line) /\ Len(lines) \in Nat
  BY LogsAssumption DEF Init
<1>2. TypeOK
  BY <1>1 DEF Init, TypeOK
<1>3. Passed
  BY DEF Init, Passed
<1>4. {i \in Events(lines) : i <= lastSeq} = {} /\ {i \in BadSeqs(lines) : i <= lastSeq} = {}
  BY <1>1 DEF Init, Events, BadSeqs
<1>5. Members(events) = {} /\ Members(bad) = {} /\ Increasing(events) /\ Increasing(bad)
  BY DEF Init, Members, Increasing
<1>6. Reported
  BY <1>4, <1>5 DEF Init, Reported
<1> QED BY <1>2, <1>3, <1>6 DEF Init, ScanInv

\* Lines held back are not events, and are bad: flushing them reports all that was passed.
LEMMA FlushReports ==
  ASSUME TypeOK, lastSeq + unreadable = at - 1, Passed, Reported
  PROVE  /\ Flushed \in Seq(Nat)
         /\ Increasing(Flushed)
         /\ Members(Flushed) = {i \in BadSeqs(lines) : i <= at - 1}
         /\ \A i \in Events(lines) : i <= at - 1 <=> i <= lastSeq
<1>1. lines \in Seq(Line) /\ at \in 1..(Len(lines) + 1) /\ lastSeq \in Nat /\ unreadable \in Nat
  BY LogsAssumption DEF TypeOK
<1>2. \A i \in (lastSeq + 1)..(at - 1) : i \in 1..Len(lines) /\ Unreadable(lines, i)
  BY <1>1 DEF Passed
<1>3. \A y \in Members(bad) : y <= lastSeq
  BY DEF Reported
<1>4. /\ Flushed \in Seq(Nat) /\ Increasing(Flushed)
      /\ Members(Flushed) = Members(bad) \cup (lastSeq + 1)..(lastSeq + unreadable)
  BY <1>1, <1>3, FlushIncreasing DEF Flushed, TypeOK, Reported
<1>5. \A i \in (lastSeq + 1)..(at - 1) : i \in BadSeqs(lines)
  BY <1>2 DEF BadSeqs
<1>6. {i \in BadSeqs(lines) : i <= at - 1} =
        {i \in BadSeqs(lines) : i <= lastSeq} \cup (lastSeq + 1)..(at - 1)
  <2>1. BadSeqs(lines) \subseteq Nat
    BY <1>1 DEF BadSeqs
  <2> QED BY <2>1, <1>5, <1>1
<1>7. Members(Flushed) = {i \in BadSeqs(lines) : i <= at - 1}
  BY <1>4, <1>6 DEF Reported
<1>8. ASSUME NEW i \in Events(lines), i <= at - 1, ~(i <= lastSeq) PROVE FALSE
  <2>1. i \in 1..Len(lines) /\ Placed(lines, i) /\ i \in (lastSeq + 1)..(at - 1)
    BY <1>1, <1>8 DEF Events
  <2> QED BY <2>1, <1>1, <1>2, Classes
<1>9. \A i \in Events(lines) : i <= lastSeq => i <= at - 1
  BY <1>1 DEF Events
<1> QED BY <1>4, <1>7, <1>8, <1>9

\* A line held back is unreadable, so what was passed stays accounted for.
LEMMA HoldBackStep ==
  ASSUME ScanInv, Scanning, Unreadable(lines, at),
         unreadable' = unreadable + 1, at' = at + 1,
         UNCHANGED <<lines, lastSeq, bad, events, quarantined, result>>
  PROVE  ScanInv'
<1>1. lines \in Seq(Line) /\ at \in 1..Len(lines) /\ lastSeq \in Nat /\ unreadable \in Nat
  BY LogsAssumption DEF ScanInv, TypeOK, Scanning
<1>2. result = "scanning" /\ lastSeq + unreadable = at - 1 /\ Passed /\ Reported
  BY DEF ScanInv, Scanning
<1>3. TypeOK'
  BY <1>1 DEF ScanInv, TypeOK
<1>4. Passed'
  BY <1>1, <1>2, Classes DEF Passed
<1>5. Reported'
  BY <1>2 DEF Reported
<1> QED BY <1>1, <1>2, <1>3, <1>4, <1>5 DEF ScanInv

\* A line in its place ends the run of held-back lines and joins the report it belongs to.
LEMMA AcceptStep == ASSUME ScanInv, Accept PROVE ScanInv'
<1>1. lines \in Seq(Line) /\ at \in 1..Len(lines) /\ lastSeq \in Nat /\ unreadable \in Nat
  BY LogsAssumption DEF ScanInv, TypeOK, Accept, Scanning
<1>2. result = "scanning" /\ lastSeq + unreadable = at - 1 /\ Passed /\ Reported /\ TypeOK
  BY DEF ScanInv, Accept, Scanning
<1>3. lines[at] \in Line /\ lines[at].seq = at /\ Want = at /\ Placed(lines, at)
  BY <1>1, <1>2 DEF Accept, Want, line, Placed
<1>4. lastSeq' = at /\ at' = at + 1 /\ unreadable' = 0 /\ lines' = lines /\ result' = result
  BY <1>3 DEF Accept, line
<1>5. /\ Flushed \in Seq(Nat) /\ Increasing(Flushed)
      /\ Members(Flushed) = {i \in BadSeqs(lines) : i <= at - 1}
      /\ \A i \in Events(lines) : i <= at - 1 <=> i <= lastSeq
  BY <1>2, FlushReports
<1>6. Events(lines) \subseteq Nat /\ BadSeqs(lines) \subseteq Nat
  BY <1>1 DEF Events, BadSeqs
<1>7. /\ {i \in BadSeqs(lines) : i <= at} =
           {i \in BadSeqs(lines) : i <= at - 1} \cup (IF at \in BadSeqs(lines) THEN {at} ELSE {})
      /\ {i \in Events(lines) : i <= at} =
           {i \in Events(lines) : i <= lastSeq} \cup (IF at \in Events(lines) THEN {at} ELSE {})
  BY <1>1, <1>5, <1>6
<1>8. /\ at \in BadSeqs(lines) <=> lines[at].check = "bad"
      /\ at \in Events(lines) <=> lines[at].check = "ok"
  BY <1>1, <1>3, Classes DEF BadSeqs, Events
<1>9. Passed'
  BY <1>1, <1>2, <1>3, <1>4, Classes DEF Passed
<1>10. CASE lines[at].check = "unknown"
  <2>1. bad' = Flushed /\ events' = events /\ quarantined' = quarantined
    BY <1>10 DEF Accept, line
  <2>2. Reported'
    BY <2>1, <1>2, <1>4, <1>5, <1>7, <1>8, <1>10 DEF Reported
  <2>3. TypeOK'
    BY <2>1, <1>1, <1>2, <1>4, <1>5 DEF TypeOK
  <2> QED BY <2>2, <2>3, <1>1, <1>2, <1>4, <1>9 DEF ScanInv
<1>11. CASE lines[at].check = "bad"
  <2>1. bad' = Append(Flushed, at) /\ events' = events /\ quarantined' = quarantined
    BY <1>3, <1>11 DEF Accept, line
  <2>2. \A y \in Members(Flushed) : y < at
    BY <1>1, <1>5, <1>6
  <2>3. bad' \in Seq(Nat) /\ Increasing(bad') /\ Members(bad') = Members(Flushed) \cup {at}
    BY <2>1, <2>2, <1>1, <1>5, AppendIncreasing
  <2>4. Reported'
    BY <2>1, <2>3, <1>2, <1>4, <1>5, <1>7, <1>8, <1>11 DEF Reported
  <2>5. TypeOK'
    BY <2>1, <2>3, <1>1, <1>2, <1>4 DEF TypeOK
  <2> QED BY <2>4, <2>5, <1>1, <1>2, <1>4, <1>9 DEF ScanInv
<1>12. CASE lines[at].check = "ok"
  <2>1. /\ bad' = Flushed /\ events' = Append(events, at)
        /\ quarantined' = quarantined \cup ({lines[at].names} \ {0})
    BY <1>3, <1>12 DEF Accept, line
  <2>2. \A y \in Members(events) : y < at
    BY <1>1, <1>2, <1>6 DEF Reported
  <2>3. /\ events' \in Seq(Nat) /\ Increasing(events')
        /\ Members(events') = Members(events) \cup {at}
    BY <2>1, <2>2, <1>1, <1>2, AppendIncreasing DEF TypeOK, Reported
  <2>4. {lines[i].names : i \in {j \in Events(lines) : j <= at}} =
          {lines[i].names : i \in {j \in Events(lines) : j <= lastSeq}} \cup {lines[at].names}
    BY <1>7, <1>8, <1>12
  <2>5. Reported'
    BY <2>1, <2>3, <2>4, <1>2, <1>4, <1>5, <1>7, <1>8, <1>12 DEF Reported
  <2>6. TypeOK'
    <3>1. quarantined' \subseteq Nat
      BY <2>1, <1>2, <1>3 DEF TypeOK, Line
    <3>2. lines' \in Logs /\ at' \in 1..(Len(lines') + 1) /\ result' = result
      BY <1>1, <1>2, <1>4 DEF TypeOK
    <3> QED BY <3>1, <3>2, <2>1, <2>3, <1>1, <1>2, <1>4, <1>5 DEF TypeOK
  <2> QED BY <2>5, <2>6, <1>1, <1>2, <1>4, <1>9 DEF ScanInv
<1> QED BY <1>3, <1>10, <1>11, <1>12 DEF Line

\* The end of the loop reports the lines held back at the end of the log.
LEMMA FinishStep == ASSUME ScanInv, Finish PROVE ScanInv'
<1>1. lines \in Seq(Line) /\ at = Len(lines) + 1 /\ lastSeq \in Nat /\ unreadable \in Nat
  BY LogsAssumption DEF ScanInv, TypeOK, Finish
<1>2. lastSeq + unreadable = at - 1 /\ Passed /\ Reported /\ TypeOK
  BY DEF ScanInv, Finish
<1>3. /\ Flushed \in Seq(Nat) /\ Increasing(Flushed)
      /\ Members(Flushed) = {i \in BadSeqs(lines) : i <= at - 1}
      /\ \A i \in Events(lines) : i <= at - 1 <=> i <= lastSeq
  BY <1>2, FlushReports
<1>4. lastSeq' = at - 1 /\ unreadable' = 0 /\ bad' = Flushed /\ result' = "read"
  BY <1>1, <1>2 DEF Finish
<1>5. TypeOK'
  BY <1>1, <1>2, <1>3, <1>4 DEF Finish, TypeOK
<1>6. Passed'
  BY <1>1, <1>2, <1>4 DEF Finish, Passed
<1>7. {j \in Events(lines) : j <= at - 1} = {j \in Events(lines) : j <= lastSeq}
  BY <1>3
<1>8. Reported'
  BY <1>2, <1>3, <1>4, <1>7 DEF Finish, Reported
<1> QED BY <1>1, <1>4, <1>5, <1>6, <1>8 DEF Finish, ScanInv

LEMMA ScanStep == ScanInv /\ [Next]_vars => ScanInv'
<1> SUFFICES ASSUME ScanInv, [Next]_vars PROVE ScanInv'
  OBVIOUS
<1>1. lines \in Seq(Line) /\ (Scanning => at \in 1..Len(lines))
  BY LogsAssumption DEF ScanInv, TypeOK, Scanning
<1>2. Scanning => Want = at /\ Want \in Nat
  BY <1>1 DEF ScanInv, TypeOK, Scanning, Want
<1>3. CASE HoldBack
  BY <1>3, HoldBackStep DEF HoldBack, line, Unreadable
<1>4. CASE HoldBackDamaged
  <2>1. Unreadable(lines, at)
    BY <1>1, <1>2, <1>4, LookAhead DEF HoldBackDamaged, line, Unreadable
  <2> QED BY <2>1, <1>4, HoldBackStep DEF HoldBackDamaged
<1>5. CASE RefuseVersion \/ RefuseOrder
  <2>1. OutOfOrder(lines, at)
    BY <1>1, <1>2, <1>5, LookAhead DEF RefuseVersion, RefuseOrder, line, OutOfOrder
  <2>2. Scanning /\ result' = "refused"
        /\ UNCHANGED <<lines, at, lastSeq, unreadable, bad, events, quarantined>>
    BY <1>5 DEF RefuseVersion, RefuseOrder
  <2>3. TypeOK'
    BY <2>2 DEF ScanInv, TypeOK
  <2> QED BY <2>1, <2>2, <2>3, <1>1 DEF ScanInv, OutOfOrder, Confirmed
<1>6. CASE Accept
  BY <1>6, AcceptStep
<1>7. CASE Finish
  BY <1>7, FinishStep
<1>8. CASE UNCHANGED vars
  BY <1>8 DEF vars, ScanInv, TypeOK, Passed, Reported
<1> QED BY <1>3, <1>4, <1>5, <1>6, <1>7, <1>8 DEF Next

-----------------------------------------------------------------------------
(* Theorems *)

LEMMA ScanInvariant == Spec => []ScanInv
<1> QED BY ScanInit, ScanStep, PTL DEF Spec

\* Whatever lines came before, the seq scan asks of a line is the line's own position.
THEOREM ScanPosition == Spec => []PositionIsSeq
<1>1. ScanInv => PositionIsSeq
  BY DEF ScanInv, PositionIsSeq
<1> QED BY <1>1, ScanInvariant, PTL

\* scan refuses exactly the logs with a line out of order or of a newer version.
THEOREM ScanRefuses == Spec => []RefusesExactly
<1>1. ScanInv => RefusesExactly
  <2> SUFFICES ASSUME ScanInv PROVE RefusesExactly
    OBVIOUS
  <2>1. result = "refused" => Refused(lines)
    BY DEF ScanInv, Refused
  <2>2. ASSUME result = "read" PROVE ~Refused(lines) /\ lastSeq = Len(lines)
    <3>1. lines \in Seq(Line) /\ at = Len(lines) + 1
      BY <2>2, LogsAssumption DEF ScanInv, TypeOK
    <3>2. \A i \in 1..Len(lines) : ~OutOfOrder(lines, i)
      BY <2>2, <3>1 DEF ScanInv, Passed
    <3> QED BY <2>2, <3>2 DEF ScanInv, Refused
  <2> QED BY <2>1, <2>2 DEF RefusesExactly
<1> QED BY <1>1, ScanInvariant, PTL

\* Of a log it reads, scan reports every event, every bad line once and in order, and every
\* seq already quarantined, and nothing else.
THEOREM ScanReports == Spec => []ReportsExactly
<1>1. ScanInv => ReportsExactly
  <2> SUFFICES ASSUME ScanInv, result = "read"
               PROVE  /\ Members(events) = Events(lines) /\ Increasing(events)
                      /\ Members(bad) = BadSeqs(lines) /\ Increasing(bad)
                      /\ quarantined = Quarantined(lines)
    BY DEF ReportsExactly
  <2>1. lines \in Seq(Line) /\ lastSeq = Len(lines) /\ Reported
    BY LogsAssumption DEF ScanInv, TypeOK
  <2>2. /\ {i \in Events(lines) : i <= lastSeq} = Events(lines)
        /\ {i \in BadSeqs(lines) : i <= lastSeq} = BadSeqs(lines)
    BY <2>1 DEF Events, BadSeqs
  <2> QED BY <2>1, <2>2 DEF Reported, Quarantined
<1> QED BY <1>1, ScanInvariant, PTL

\* One more quarantine line, in its place at the end of a log that is read, changes nothing for
\* the lines before it, and settles the seq it names.
LEMMA QuarantineAppended ==
  ASSUME NEW ls \in Seq(Line), ~Refused(ls), NEW s \in Unrecorded(ls)
  PROVE  LET more == Append(ls, QuarantineLine(Len(ls) + 1, s)) IN
         /\ ~Refused(more)
         /\ Unrecorded(more) = Unrecorded(ls) \ {s}
<1> DEFINE n == Len(ls) + 1
           new == QuarantineLine(n, s)
           more == Append(ls, new)
<1>1. s \in 1..Len(ls) /\ s # 0
  BY DEF Unrecorded, BadSeqs
<1>2. /\ more[n].usable /\ ~more[n].newer /\ more[n].seq = n
      /\ more[n].check = "ok" /\ more[n].names = s
  BY DEF QuarantineLine
<1>3. new \in Line
  BY <1>1 DEF QuarantineLine, Line
<1>4. more \in Seq(Line) /\ Len(more) = n /\ \A i \in 1..Len(ls) : more[i] = ls[i]
  BY <1>3
<1> HIDE DEF more, new
<1>5. ASSUME NEW i \in 1..Len(ls), Confirmed(ls, i) PROVE Confirmed(more, i)
  <2>1. PICK j \in (i + 1)..Len(ls) :
             ls[j].usable /\ ls[j].seq = j /\ \A k \in (i + 1)..(j - 1) : ~ls[k].usable
    BY <1>5 DEF Confirmed
  <2>2. j \in (i + 1)..Len(more) /\ more[j] = ls[j]
    BY <1>4
  <2>3. \A k \in (i + 1)..(j - 1) : more[k] = ls[k]
    BY <1>4
  <2> QED BY <2>1, <2>2, <2>3 DEF Confirmed
<1>6. ASSUME NEW i \in 1..Len(ls) PROVE ~OutOfOrder(more, i)
  <2>1. ~OutOfOrder(ls, i) /\ more[i] = ls[i]
    BY <1>4, <1>6 DEF Refused
  <2> QED BY <2>1, <1>5 DEF OutOfOrder
<1>7. Placed(more, n)
  BY <1>2 DEF Placed
<1>8. \A i \in 1..Len(more) : ~OutOfOrder(more, i)
  BY <1>4, <1>6, <1>7, Classes
<1>9. ASSUME NEW i \in 1..Len(ls)
      PROVE (Placed(more, i) <=> Placed(ls, i)) /\ (Unreadable(more, i) <=> Unreadable(ls, i))
  <2>1. Placed(more, i) <=> Placed(ls, i)
    BY <1>4 DEF Placed
  <2>2. i \in 1..Len(more) /\ ~OutOfOrder(ls, i) /\ ~OutOfOrder(more, i)
    BY <1>4, <1>6 DEF Refused
  <2> QED BY <2>1, <2>2, <1>4, Classes
<1>10. BadSeqs(more) = BadSeqs(ls)
  <2>1. n \notin BadSeqs(more)
    BY <1>2, <1>4, <1>7, Classes DEF BadSeqs
  <2> QED BY <2>1, <1>4, <1>9 DEF BadSeqs
<1>11. Events(more) = Events(ls) \cup {n}
  BY <1>2, <1>4, <1>7, <1>9 DEF Events
<1>12. Quarantined(more) = Quarantined(ls) \cup {s}
  <2>1. \A i \in Events(ls) : more[i] = ls[i]
    BY <1>4 DEF Events
  <2> QED BY <2>1, <1>1, <1>2, <1>11 DEF Quarantined
<1>13. ~Refused(more)
  BY <1>8 DEF Refused
<1>14. Unrecorded(more) = Unrecorded(ls) \ {s}
  BY <1>10, <1>12 DEF Unrecorded
<1> QED BY <1>13, <1>14 DEF more, new

\* Each quarantine Open appends leaves a log that is read with one unrecorded line less.
THEOREM ScanSettles == Spec => []QuarantineSettles
<1>1. ScanInv /\ RefusesExactly => QuarantineSettles
  <2> SUFFICES ASSUME ScanInv, RefusesExactly, result = "read", NEW s \in Unrecorded(lines)
               PROVE  LET more == Append(lines, QuarantineLine(lastSeq + 1, s)) IN
                      /\ ~Refused(more)
                      /\ Unrecorded(more) = Unrecorded(lines) \ {s}
    BY DEF QuarantineSettles
  <2>1. lines \in Seq(Line) /\ lastSeq = Len(lines) /\ ~Refused(lines)
    BY LogsAssumption DEF ScanInv, TypeOK, RefusesExactly
  <2> QED BY <2>1, QuarantineAppended
<1> QED BY <1>1, ScanInvariant, ScanRefuses, PTL

=============================================================================
