--------------------------- MODULE HomeLogProofs ---------------------------
(***************************************************************************)
(* For any number of processes, takeovers, appends, rotten lines and power *)
(* losses: the log of a home that only foliot touches is gapless, keeps    *)
(* what it acknowledged, and implements EventLog.                          *)
(*                                                                         *)
(* None of the three is inductive.  The invariant HomeInv adds who a       *)
(* process is (Identity), that flock elects at most one writer (Elected),  *)
(* where the lines of the file end (Measured), and that the writer's seq   *)
(* and size agree with the file until an append of its own fails           *)
(* (Follows); a failed writer never writes again.                          *)
(***************************************************************************)
EXTENDS HomeLog, TLAPS

\* The process has the flock.
Writing(p) == pc[p] \notin {"out", "try"}

\* It has scanned the log.
Loaded(p) == Writing(p) /\ pc[p] \notin Locking

IdentityOf(p) ==
  /\ pc[p] # "out" => l[p].held = lockAt /\ lockAt \in LockFile
  /\ Writing(p) => l[p].inc \in Holder
  /\ Loaded(p) => l[p].onLog = logAt
  /\ l[p].checked => pc[p] \in Appending
  /\ l[p].broken => pc[p] \in {"open", "emptying", "releasing"}

Identity == tampers = 0 /\ \A p \in Proc : IdentityOf(p)

Elected == \A p \in Proc, k \in LockFile : flock[k] = p <=> Writing(p) /\ k = lockAt

FollowsOf(p) ==
  Loaded(p) /\ ~l[p].broken =>
    l[p].seq = Len(log) /\ l[p].size = End(log) /\ (pc[p] \notin Repairing => bytes = End(log))

Follows == \A p \in Proc : FollowsOf(p)

\* The lines end one behind the other, and a file without a torn tail ends with its last line.
Measured ==
  /\ \A i, j \in 1..Len(log) : i < j => log[i].end < log[j].end
  /\ \A i \in 1..Len(log) : log[i].end <= bytes
  /\ ~Torn => bytes = End(log)

HomeInv == TypeOK /\ Identity /\ Elected /\ Measured /\ Follows /\ GaplessLog /\ AckedKept

\* A step of p leaves the other processes as they are.
Alone(p) == \A q \in Proc \ {p} : pc'[q] = pc[q] /\ l'[q] = l[q]

-----------------------------------------------------------------------------
(* Parts of the invariant *)

LEMMA Bounds ==
  /\ MaxOpens \in Nat /\ MaxAppends \in Nat /\ MaxRot \in Nat /\ MaxPower \in Nat
  /\ MaxTamper \in Nat /\ NoProc \notin Proc
<1> QED BY BoundsAssumption, NoProcAssumption

LEMMA NoLogTyped == NoLog \in Log
<1>1. 0 \in 0..MaxOpens /\ 0 \in 0..(MaxTamper + 1) /\ 0 \in 0..MaxRot
  BY Bounds
<1> QED BY <1>1 DEF NoLog, Log

LEMMA ProcTypes == TypeOK => pc \in [Proc -> Steps] /\ l \in [Proc -> Log]
<1> QED BY DEF TypeOK

LEMMA FileTypes ==
  TypeOK => /\ log \in Seq(Record) /\ rotten \subseteq 1..Len(log) /\ tail \in 0..MaxOpens
            /\ Len(log) \in Nat /\ synced \in Nat /\ synced <= Len(log)
            /\ bytes \in Nat /\ astray \in Nat
<1> SUFFICES ASSUME TypeOK
             PROVE  /\ log \in Seq(Record) /\ rotten \subseteq 1..Len(log)
                    /\ tail \in 0..MaxOpens
                    /\ Len(log) \in Nat /\ synced \in Nat /\ synced <= Len(log)
                    /\ bytes \in Nat /\ astray \in Nat
  OBVIOUS
<1>1. /\ log \in Seq(Record) /\ rotten \subseteq 1..Len(log) /\ tail \in 0..MaxOpens
      /\ bytes \in Nat /\ astray \in Nat
  BY DEF TypeOK
<1>2. Len(log) \in Nat
  BY <1>1
<1>3. synced \in 0..Len(log)
  BY DEF TypeOK
<1> QED BY <1>1, <1>2, <1>3

\* There is one writer.
LEMMA OneWriter ==
  ASSUME HomeInv, NEW p \in Proc, NEW q \in Proc, Writing(p), Writing(q)
  PROVE  p = q
<1>1. lockAt \in LockFile
  BY DEF HomeInv, Identity, IdentityOf, Writing
<1>2. flock[lockAt] = p /\ flock[lockAt] = q
  BY <1>1 DEF HomeInv, Elected
<1> QED BY <1>2

\* One process moves to a step of its code.
LEMMA Moved ==
  ASSUME pc \in [Proc -> Steps], NEW p \in Proc, NEW s \in Steps, Goto(p, s)
  PROVE  pc' \in [Proc -> Steps] /\ pc'[p] = s /\ \A q \in Proc \ {p} : pc'[q] = pc[q]
<1> QED BY DEF Goto

\* One process changes its Log.
LEMMA Updated ==
  ASSUME l \in [Proc -> Log], NEW p \in Proc, NEW r \in Log, l' = [l EXCEPT ![p] = r]
  PROVE  l' \in [Proc -> Log] /\ l'[p] = r /\ \A q \in Proc \ {p} : l'[q] = l[q]
<1> QED OBVIOUS

\* A step of p keeps Identity when it does so for p.
LEMMA IdentityKept ==
  ASSUME HomeInv, NEW p \in Proc, Alone(p), IdentityOf(p)',
         tampers' = tampers, logAt' = logAt, lockAt # 0 => lockAt' = lockAt
  PROVE  Identity'
<1>1. ASSUME NEW q \in Proc \ {p} PROVE IdentityOf(q)'
  <2>1. IdentityOf(q) /\ pc'[q] = pc[q] /\ l'[q] = l[q]
    BY <1>1 DEF HomeInv, Identity, Alone
  <2>2. 0 \notin LockFile
    BY DEF LockFile
  <2> QED BY <2>1, <2>2 DEF IdentityOf, Writing, Loaded
<1> QED BY <1>1 DEF HomeInv, Identity

\* A step of p that leaves the locks alone keeps Elected when p is a writer after it exactly
\* when it was one before.
LEMMA ElectedKept ==
  ASSUME HomeInv, NEW p \in Proc, Alone(p), UNCHANGED <<lockAt, flock>>,
         Writing(p)' <=> Writing(p)
  PROVE  Elected'
<1>1. \A q \in Proc : Writing(q)' <=> Writing(q)
  BY DEF Alone, Writing
<1> QED BY <1>1 DEF HomeInv, Elected

\* A writer's step keeps Follows when it does so for the writer: nobody else follows the log.
LEMMA FollowsKept ==
  ASSUME HomeInv, NEW p \in Proc, Alone(p), Writing(p), FollowsOf(p)'
  PROVE  Follows'
<1>1. ASSUME NEW q \in Proc \ {p} PROVE FollowsOf(q)'
  <2>1. ~Writing(q)
    BY <1>1, OneWriter
  <2> QED BY <1>1, <2>1 DEF FollowsOf, Loaded, Writing, Alone
<1> QED BY <1>1 DEF Follows

\* So does a step that leaves the log as it is.
LEMMA FollowsSame ==
  ASSUME HomeInv, NEW p \in Proc, Alone(p), UNCHANGED <<log, bytes>>, FollowsOf(p)'
  PROVE  Follows'
<1>1. ASSUME NEW q \in Proc \ {p} PROVE FollowsOf(q)'
  BY <1>1 DEF HomeInv, Follows, FollowsOf, Loaded, Writing, Alone, End
<1> QED BY <1>1 DEF Follows

\* A file that is not touched keeps its promises.
LEMMA FileSame ==
  ASSUME HomeInv, UNCHANGED <<log, bytes, tail, synced, acked>>
  PROVE  GaplessLog' /\ AckedKept' /\ Measured'
<1> QED BY DEF HomeInv, GaplessLog, AckedKept, Measured, Torn, End

\* The process's Log is gone: what Leave does to the locks and to the process.
LEMMA Left ==
  ASSUME HomeInv, NEW p \in Proc, NEW how \in {"died", "failed", "closed", "closed in error"},
         Leave(p, how), UNCHANGED <<lockAt, logAt, tampers>>
  PROVE  /\ Alone(p) /\ pc'[p] = "out" /\ l'[p] = NoLog
         /\ pc' \in [Proc -> Steps] /\ l' \in [Proc -> Log]
         /\ flock' \in [LockFile -> Proc \cup {NoProc}]
         /\ fate' \in [Holder -> {"none", "running", "died", "failed", "closed",
                                  "closed in error"}]
         /\ Identity' /\ Elected' /\ FollowsOf(p)'
<1>1. pc \in [Proc -> Steps] /\ l \in [Proc -> Log] /\ "out" \in Steps
  BY ProcTypes DEF HomeInv, Steps
<1>2. NoLog \in Log
  BY NoLogTyped
<1>3. pc' \in [Proc -> Steps] /\ pc'[p] = "out" /\ \A q \in Proc \ {p} : pc'[q] = pc[q]
  BY <1>1, Moved DEF Leave
<1>4. l' \in [Proc -> Log] /\ l'[p] = NoLog /\ \A q \in Proc \ {p} : l'[q] = l[q]
  BY <1>1, <1>2, Updated DEF Leave
<1>5. Alone(p)
  BY <1>3, <1>4 DEF Alone
<1>6. flock \in [LockFile -> Proc \cup {NoProc}]
  BY DEF HomeInv, TypeOK
<1>7. /\ flock' \in [LockFile -> Proc \cup {NoProc}]
      /\ \A k \in LockFile : flock'[k] = IF flock[k] = p THEN NoProc ELSE flock[k]
  BY <1>6 DEF Leave
<1>8. fate' \in [Holder -> {"none", "running", "died", "failed", "closed", "closed in error"}]
  <2>1. fate \in [Holder -> {"none", "running", "died", "failed", "closed", "closed in error"}]
    BY DEF HomeInv, TypeOK
  <2> QED BY <2>1 DEF Leave
<1>9. IdentityOf(p)'
  <2>1. ~NoLog.checked /\ ~NoLog.broken
    BY DEF NoLog
  <2>2. ~l'[p].checked /\ ~l'[p].broken
    BY <2>1, <1>4
  <2>3. ~Writing(p)' /\ ~Loaded(p)'
    BY <1>3 DEF Writing, Loaded
  <2> QED BY <2>2, <2>3, <1>3 DEF IdentityOf
<1>10. Identity'
  BY <1>5, <1>9, IdentityKept
<1>11. Elected'
  <2> SUFFICES ASSUME NEW q \in Proc, NEW k \in LockFile
               PROVE  flock'[k] = q <=> Writing(q)' /\ k = lockAt'
    BY DEF Elected
  <2>1. CASE q = p
    BY <2>1, <1>3, <1>7, Bounds DEF Writing
  <2>2. CASE q # p
    <3>1. Writing(q)' <=> Writing(q)
      BY <2>2, <1>3 DEF Writing
    <3>2. flock'[k] = q <=> flock[k] = q
      BY <2>2, <1>7, Bounds
    <3> QED BY <3>1, <3>2 DEF HomeInv, Elected
  <2> QED BY <2>1, <2>2
<1>12. FollowsOf(p)'
  BY <1>3 DEF FollowsOf, Loaded, Writing
<1> QED BY <1>3, <1>4, <1>5, <1>7, <1>8, <1>10, <1>11, <1>12

LEMMA InitInv == Init => HomeInv
<1> SUFFICES ASSUME Init PROVE HomeInv
  OBVIOUS
<1>1. TypeOK
  BY Bounds DEF Init, TypeOK, Log, NoLog, Steps, LockFile, Holder, Record
<1>2. Identity /\ Elected /\ Follows
  BY Bounds DEF Init, Identity, IdentityOf, Elected, Follows, FollowsOf, Writing, Loaded, NoLog
<1>3. GaplessLog /\ AckedKept /\ Measured
  BY DEF Init, GaplessLog, AckedKept, Measured, Torn, End
<1> QED BY <1>1, <1>2, <1>3 DEF HomeInv

-----------------------------------------------------------------------------
(* The file *)

\* What is known of a process that comes to its write.
LEMMA Checked ==
  ASSUME HomeInv, NEW p \in Proc, l[p].checked
  PROVE  /\ pc[p] \in Appending /\ Writing(p) /\ Loaded(p) /\ ~l[p].broken
         /\ OnFile(p) /\ Owned(p) /\ l[p].inc \in Holder
         /\ l[p].seq = Len(log) /\ l[p].size = End(log) /\ bytes = End(log)
<1>1. IdentityOf(p) /\ FollowsOf(p)
  BY DEF HomeInv, Identity, Follows
<1>2. pc[p] \in Appending
  BY <1>1 DEF IdentityOf
<1>3. /\ Writing(p) /\ Loaded(p) /\ pc[p] # "out" /\ pc[p] \notin {"open", "emptying", "releasing"}
      /\ pc[p] \notin Repairing
  BY <1>2 DEF Writing, Loaded, Appending, Announcing, Locking, Repairing
<1> QED BY <1>1, <1>2, <1>3 DEF IdentityOf, FollowsOf, OnFile, Owned

LEMMA DueTyped ==
  ASSUME TypeOK, NEW p \in Proc, pc[p] \in Appending, NEW e \in Due(p)
  PROVE  e \in Entry
<1>1. l[p] \in Log
  BY ProcTypes
<1>2. /\ l[p].torn \in Nat /\ l[p].stale \in Nat /\ l[p].inc \in Nat /\ l[p].opened \in Nat
      /\ l[p].bad \subseteq Nat
  BY <1>1, Bounds DEF Log
<1> QED BY <1>2 DEF Due, ClosingEntry, Say, Entry, Types, Appending, Announcing

\* A line has two bytes at least, and a part of one has one.
LEMMA LengthTyped ==
  ASSUME NEW e \in Entry, NEW n \in Lengths[e.type]
  PROVE  n \in Nat /\ n > 1
<1>1. e.type \in Types
  BY DEF Entry
<1> QED BY <1>1, LengthsAssumption

LEMMA PartTyped ==
  ASSUME TypeOK, NEW p \in Proc, pc[p] \in Appending, NEW k \in Part(p)
  PROVE  k \in Nat /\ k > 0
<1>1. PICK e \in Due(p) : k \in UNION {1..(n - 1) : n \in Lengths[e.type]}
  BY DEF Part
<1>2. PICK n \in Lengths[e.type] : k \in 1..(n - 1)
  BY <1>1
<1>3. n \in Nat
  BY DueTyped, LengthTyped
<1> QED BY <1>2, <1>3

LEMMA EndTyped ==
  ASSUME NEW lines \in Seq(Record)
  PROVE  End(lines) \in Nat
<1>1. CASE lines = << >>
  BY <1>1 DEF End
<1>2. CASE lines # << >>
  <2>1. lines[Len(lines)] \in Record
    BY <1>2
  <2> QED BY <2>1, <1>2 DEF End, Record
<1> QED BY <1>1, <1>2

LEMMA LineTyped ==
  ASSUME NEW lines \in Seq(Record), NEW i \in 1..Len(lines)
  PROVE  /\ lines[i] \in Record /\ lines[i].end \in Nat /\ lines[i].by \in Holder
         /\ lines[i].ref \in Nat /\ lines[i].seq \in Nat
<1>1. lines[i] \in Record
  OBVIOUS
<1> QED BY <1>1 DEF Record

\* A line more keeps the lines apart.
LEMMA MeasuredLine ==
  ASSUME TypeOK, Measured, NEW r \in Record, NEW n \in Nat, n > 0, r.end = bytes + n,
         log' = Append(log, r), bytes' = bytes + n
  PROVE  Measured' /\ End(log') = bytes'
<1>1. log \in Seq(Record) /\ Len(log) \in Nat /\ bytes \in Nat
  BY FileTypes
<1>2. /\ Len(log') = Len(log) + 1 /\ log'[Len(log')] = r /\ log' # << >>
      /\ \A i \in 1..Len(log) : log'[i] = log[i]
  BY <1>1
<1>3. \A i \in 1..Len(log) : log[i].end \in Nat /\ log[i].end <= bytes
  BY <1>1, LineTyped DEF Measured
<1>4. \A i \in 1..Len(log') : i \in 1..Len(log) \/ i = Len(log')
  BY <1>1, <1>2
<1>5. End(log') = bytes'
  BY <1>2 DEF End
<1>6. \A i \in 1..Len(log') : log'[i].end <= bytes'
  BY <1>1, <1>2, <1>3, <1>4
<1>7. ASSUME NEW i \in 1..Len(log'), NEW j \in 1..Len(log'), i < j
      PROVE  log'[i].end < log'[j].end
  <2>1. i \in 1..Len(log)
    BY <1>1, <1>2, <1>7
  <2>2. CASE j \in 1..Len(log)
    BY <2>1, <2>2, <1>2, <1>7 DEF Measured
  <2>3. CASE j = Len(log')
    BY <2>1, <2>3, <1>1, <1>2, <1>3
  <2> QED BY <2>2, <2>3, <1>4
<1> QED BY <1>5, <1>6, <1>7 DEF Measured

\* So does a part of one.
LEMMA MeasuredHalf ==
  ASSUME TypeOK, Measured, log' = log, bytes' \in Nat, bytes' >= bytes, tail' # 0
  PROVE  Measured'
<1>1. log \in Seq(Record) /\ bytes \in Nat
  BY FileTypes
<1>2. \A i \in 1..Len(log) : log[i].end \in Nat /\ log[i].end <= bytes
  BY <1>1, LineTyped DEF Measured
<1> QED BY <1>1, <1>2 DEF Measured, Torn

\* No line ends behind the last.
LEMMA LastEnds ==
  ASSUME TypeOK, Measured
  PROVE  /\ End(log) \in Nat /\ End(log) <= bytes
         /\ \A i \in 1..Len(log) : log[i].end \in Nat /\ log[i].end <= End(log)
<1>1. log \in Seq(Record) /\ Len(log) \in Nat /\ bytes \in Nat
  BY FileTypes
<1>2. End(log) \in Nat
  BY <1>1, EndTyped
<1>3. CASE log = << >>
  BY <1>1, <1>2, <1>3 DEF End
<1>4. CASE log # << >>
  <2>1. Len(log) \in 1..Len(log) /\ End(log) = log[Len(log)].end
    BY <1>1, <1>4 DEF End
  <2>2. ASSUME NEW i \in 1..Len(log) PROVE log[i].end \in Nat /\ log[i].end <= End(log)
    <3>1. log[i] \in Record
      BY <1>1
    <3>2. i = Len(log) \/ i < Len(log)
      BY <1>1
    <3>3. log[i].end \in Nat
      BY <3>1 DEF Record
    <3>4. CASE i = Len(log)
      BY <3>3, <3>4, <2>1
    <3>5. CASE i < Len(log)
      BY <3>3, <3>5, <2>1, <1>2 DEF Measured
    <3> QED BY <3>2, <3>3, <3>4, <3>5
  <2>3. End(log) <= bytes
    BY <2>1 DEF Measured
  <2> QED BY <2>2, <2>3, <1>2
<1> QED BY <1>3, <1>4

\* A cut to the end of the last line takes a torn tail and nothing else.
LEMMA CutToEnd ==
  ASSUME TypeOK, Measured, NEW p \in Proc, l[p].size = End(log), Cut(p)
  PROVE  /\ log' = log /\ rotten' = rotten /\ tail' = 0 /\ bytes' = End(log) /\ Measured'
         /\ tornAt' = tornAt /\ astray' = astray
<1>1. /\ log \in Seq(Record) /\ Len(log) \in Nat /\ bytes \in Nat
      /\ rotten \subseteq 1..Len(log)
  BY FileTypes
<1>2. /\ End(log) \in Nat /\ End(log) <= bytes
      /\ \A i \in 1..Len(log) : log[i].end \in Nat /\ log[i].end <= End(log)
  BY LastEnds
<1>3. PICK n \in 0..Len(log) :
        /\ \A i \in 1..Len(log) : i <= n <=> log[i].end <= l[p].size
        /\ log' = FirstLines(log, n)
        /\ rotten' = rotten \cap 1..n
        /\ tail' = IF End(log') = l[p].size THEN 0
                   ELSE IF n < Len(log) THEN log[n + 1].by ELSE IF Torn THEN tail ELSE l[p].inc
        /\ tornAt' = IF tail' = 0 THEN tornAt ELSE tornAt \cup {n + 1}
  BY DEF Cut
<1>4. n = Len(log)
  <2>1. Len(log) = 0 \/ Len(log) \in 1..Len(log)
    BY <1>1
  <2>2. CASE Len(log) = 0
    BY <2>2, <1>3
  <2>3. CASE Len(log) \in 1..Len(log)
    <3>1. Len(log) <= n
      BY <2>3, <1>2, <1>3
    <3> QED BY <3>1, <1>1, <1>3
  <2> QED BY <2>1, <2>2, <2>3
<1>5. log' = log /\ rotten' = rotten
  <2>1. ~(n < Len(log))
    BY <1>1, <1>4
  <2>2. log' = log
    BY <2>1, <1>3 DEF FirstLines
  <2>3. rotten' = rotten \cap 1..Len(log)
    BY <1>3, <1>4
  <2> QED BY <2>2, <2>3, <1>1
<1>6. tail' = 0 /\ tornAt' = tornAt
  BY <1>3, <1>5
<1>7. bytes' = End(log)
  BY DEF Cut
<1>8. astray' = astray
  BY <1>2, <1>7 DEF Cut, Lengthen
<1>9. Measured'
  BY <1>2, <1>5, <1>6, <1>7 DEF Measured, Torn, End
<1> QED BY <1>5, <1>6, <1>7, <1>8, <1>9

\* What a loss of power leaves of the lines and of the bytes that follow them.
LEMMA LinesLeft ==
  ASSUME TypeOK, Measured, NEW n \in 0..Len(log), log' = FirstLines(log, n),
         \A p \in Proc : l[p].checked => pc[p] \in Appending /\ l[p].inc \in Holder,
         \E t \in TailsAfter(n) : tail' = t[1] /\ bytes' = t[2]
  PROVE  /\ log' \in Seq(Record) /\ Len(log') = n /\ log' = SubSeq(log, 1, n)
         /\ \A i \in 1..n : i \in 1..Len(log) /\ log'[i] = log[i]
         /\ bytes' \in Nat /\ tail' \in 0..MaxOpens /\ Measured'
<1>1. /\ log \in Seq(Record) /\ Len(log) \in Nat /\ bytes \in Nat /\ tail \in 0..MaxOpens
      /\ n \in Nat /\ n <= Len(log)
  BY FileTypes
<1>2. log' = SubSeq(log, 1, n)
  <2>1. CASE n < Len(log)
    BY <2>1 DEF FirstLines
  <2>2. CASE n = Len(log)
    <3>1. SubSeq(log, 1, Len(log)) = log
      BY <1>1
    <3> QED BY <2>2, <3>1 DEF FirstLines
  <2> QED BY <2>1, <2>2, <1>1
<1>3. /\ log' \in Seq(Record) /\ Len(log') = n
      /\ \A i \in 1..n : i \in 1..Len(log) /\ log'[i] = log[i]
  BY <1>1, <1>2
<1> DEFINE e == End(log')
<1>4. e \in Nat
  BY <1>3, EndTyped
<1>5. \A i \in 1..n : log[i] \in Record /\ log[i].end \in Nat
  BY <1>1, <1>3, LineTyped
<1>6. \A i \in 1..n : log[i].end <= e
  <2>1. CASE n = 0
    BY <2>1
  <2>2. CASE n # 0
    <3>1. n \in 1..n /\ e = log[n].end
      BY <2>2, <1>1, <1>3 DEF End
    <3>2. \A i \in 1..n : i = n \/ i < n
      BY <1>1
    <3> QED BY <3>1, <3>2, <1>3, <1>5 DEF Measured
  <2> QED BY <2>1, <2>2
<1>7. /\ bytes' \in Nat /\ bytes' >= e /\ tail' \in 0..MaxOpens
      /\ (tail' = 0 => bytes' = e)
  <2>1. PICK t \in TailsAfter(n) : tail' = t[1] /\ bytes' = t[2]
    OBVIOUS
  <2>2. e = End(FirstLines(log, n))
    OBVIOUS
  <2> HIDE DEF e
  <2>3. CASE t = <<0, e>>
    BY <2>1, <2>3, <1>4, Bounds
  <2>4. CASE n < Len(log) /\ t \in {log[n + 1].by} \X ((e + 1)..(log[n + 1].end - 1))
    <3>1. n + 1 \in 1..Len(log)
      BY <2>4, <1>1
    <3>2. log[n + 1] \in Record
      BY <3>1, <1>1
    <3>3. log[n + 1].by \in Holder /\ log[n + 1].end \in Nat
      BY <3>2 DEF Record
    <3>4. t[1] = log[n + 1].by /\ t[2] \in (e + 1)..(log[n + 1].end - 1)
      BY <2>4
    <3> QED BY <2>1, <3>3, <3>4, <1>4, Bounds DEF Holder
  <2>5. CASE Torn /\ t \in {tail} \X ((e + 1)..bytes)
    <3>1. t[1] = tail /\ t[2] \in (e + 1)..bytes
      BY <2>5
    <3> QED BY <2>1, <2>5, <3>1, <1>1, <1>4 DEF Torn
  <2>6. CASE t \in UNION {{<<l[p].inc, e + k>> : k \in Part(p)} : p \in {q \in Proc : l[q].checked}}
    <3>p. PICK p \in Proc : l[p].checked /\ t \in {<<l[p].inc, e + k>> : k \in Part(p)}
      BY <2>6
    <3>1. PICK k \in Part(p) : l[p].checked /\ t = <<l[p].inc, e + k>>
      BY <3>p
    <3>2. pc[p] \in Appending /\ l[p].inc \in Holder
      BY <3>1
    <3>3. k \in Nat /\ k > 0
      BY <3>2, PartTyped
    <3> QED BY <2>1, <3>1, <3>2, <3>3, <1>4, Bounds DEF Holder
  <2>7. t = <<0, e>> \/ (n < Len(log) /\ t \in {log[n + 1].by} \X ((e + 1)..(log[n + 1].end - 1)))
        \/ (Torn /\ t \in {tail} \X ((e + 1)..bytes))
        \/ t \in UNION {{<<l[p].inc, e + k>> : k \in Part(p)} : p \in {q \in Proc : l[q].checked}}
    BY <2>2 DEF TailsAfter
  <2> QED BY <2>3, <2>4, <2>5, <2>6, <2>7
<1>8. Measured'
  <2>1. \A i \in 1..Len(log') : log'[i].end <= bytes'
    BY <1>3, <1>4, <1>5, <1>6, <1>7
  <2>2. \A i, j \in 1..Len(log') : i < j => log'[i].end < log'[j].end
    BY <1>3 DEF Measured
  <2> QED BY <2>1, <2>2, <1>7 DEF Measured, Torn
<1> QED BY <1>2, <1>3, <1>7, <1>8

\* The line the writer writes is the next of the log.
LEMMA LineWritten ==
  ASSUME HomeInv, NEW p \in Proc, l[p].checked, NEW e \in Due(p), NEW n \in Lengths[e.type],
         WriteLine(p, e, n)
  PROVE  /\ log' = Append(log, NewLine(p, e, n)) /\ NewLine(p, e, n) \in Record
         /\ log' \in Seq(Record) /\ Len(log') = Len(log) + 1
         /\ log'[Len(log')] = NewLine(p, e, n) /\ NewLine(p, e, n).seq = Len(log) + 1
         /\ \A i \in 1..Len(log) : log'[i] = log[i]
         /\ GaplessLog' /\ rotten' \subseteq 1..Len(log') /\ tail' \in 0..MaxOpens
         /\ strays' = strays /\ astray' = astray /\ n \in Nat
         /\ bytes' = bytes + n /\ bytes' \in Nat /\ Measured' /\ End(log') = bytes'
<1>1. /\ OnFile(p) /\ Owned(p) /\ l[p].seq = Len(log) /\ l[p].inc \in Holder
      /\ pc[p] \in Appending
  BY Checked
<1>2. /\ log \in Seq(Record) /\ Len(log) \in Nat /\ rotten \subseteq 1..Len(log)
      /\ bytes \in Nat
  BY FileTypes DEF HomeInv
<1>3. e \in Entry /\ n \in Nat /\ n > 0
  <2>1. e \in Entry
    BY <1>1, DueTyped DEF HomeInv
  <2> QED BY <2>1, LengthTyped
<1>4. /\ NewLine(p, e, n) \in Record /\ NewLine(p, e, n).seq = Len(log) + 1
      /\ NewLine(p, e, n).end = bytes + n
  BY <1>1, <1>2, <1>3 DEF NewLine, Record, Entry
<1>5. /\ log' = Append(log, NewLine(p, e, n)) /\ tail' = 0 /\ strays' = strays
      /\ bytes' = bytes + n /\ astray' = astray
  BY <1>1 DEF WriteLine, Lengthen
<1>6. rotten' \subseteq rotten \cup {Len(log) + 1}
  BY <1>1 DEF WriteLine
<1>7. /\ log' \in Seq(Record) /\ Len(log') = Len(log) + 1
      /\ log'[Len(log')] = NewLine(p, e, n)
      /\ \A i \in 1..Len(log) : log'[i] = log[i]
  BY <1>2, <1>4, <1>5
<1>8. rotten' \subseteq 1..Len(log')
  BY <1>2, <1>6, <1>7
<1>9. GaplessLog'
  <2> SUFFICES ASSUME NEW i \in 1..Len(log') PROVE log'[i].seq = i
    BY DEF GaplessLog
  <2>1. CASE i \in 1..Len(log)
    BY <2>1, <1>7 DEF HomeInv, GaplessLog
  <2>2. CASE i = Len(log')
    BY <2>2, <1>4, <1>7
  <2> QED BY <2>1, <2>2, <1>2, <1>7
<1>10. tail' \in 0..MaxOpens
  BY <1>5, Bounds
<1>11. Measured' /\ End(log') = bytes' /\ bytes' \in Nat
  BY <1>2, <1>3, <1>4, <1>5, MeasuredLine DEF HomeInv
<1> QED BY <1>3, <1>4, <1>5, <1>7, <1>8, <1>9, <1>10, <1>11

\* A log that grows keeps what was acknowledged.
LEMMA AckedGrown ==
  ASSUME HomeInv, \A i \in 1..Len(log) : log'[i] = log[i], synced' >= synced, synced' \in Nat,
         acked' = acked
  PROVE  AckedKept'
<1> SUFFICES ASSUME NEW a \in acked PROVE a.seq \in 1..synced' /\ log'[a.seq] = a
  BY DEF AckedKept
<1>1. a.seq \in 1..synced /\ log[a.seq] = a
  BY DEF HomeInv, AckedKept
<1>2. synced \in Nat /\ synced <= Len(log) /\ Len(log) \in Nat
  BY FileTypes DEF HomeInv
<1> QED BY <1>1, <1>2

-----------------------------------------------------------------------------
(* The steps of takeLock *)

LEMMA OpenLockFileStep == ASSUME HomeInv, NEW p \in Proc, OpenLockFile(p) PROVE HomeInv'
<1>1. UNCHANGED <<log, rotten, bytes, tail, synced, copies, logAt, content, flock, opens, appends,
                  rots, powers, tampers, fate, acked, strays, astray, tornAt>>
  BY DEF OpenLockFile, fileVars, countVars, histVars
<1>2. pc \in [Proc -> Steps] /\ l \in [Proc -> Log] /\ "try" \in Steps
  BY ProcTypes DEF HomeInv, Steps
<1>3. lockAt \in 0..(MaxTamper + 1) /\ tampers = 0
  BY DEF HomeInv, TypeOK, Identity
<1>4. lockAt' \in LockFile /\ lockAt' \in 0..(MaxTamper + 1) /\ (lockAt # 0 => lockAt' = lockAt)
  <2>1. lockAt' = IF lockAt = 0 THEN tampers + 1 ELSE lockAt
    BY DEF OpenLockFile
  <2> QED BY <2>1, <1>3, Bounds DEF LockFile
<1>5. pc[p] = "out" /\ pc' \in [Proc -> Steps] /\ pc'[p] = "try"
      /\ \A q \in Proc \ {p} : pc'[q] = pc[q]
  BY <1>2, Moved DEF OpenLockFile
<1>6. /\ l' \in [Proc -> Log] /\ \A q \in Proc \ {p} : l'[q] = l[q]
      /\ l'[p].held = lockAt' /\ l'[p].checked = l[p].checked /\ l'[p].broken = l[p].broken
  BY <1>2, <1>4 DEF OpenLockFile, Log
<1>7. Alone(p)
  BY <1>5, <1>6 DEF Alone
<1>8. TypeOK'
  BY <1>1, <1>4, <1>5, <1>6 DEF HomeInv, TypeOK
<1>9. IdentityOf(p)
  BY DEF HomeInv, Identity
<1>10. IdentityOf(p)'
  BY <1>4, <1>5, <1>6, <1>9
     DEF IdentityOf, Writing, Loaded, Appending, Announcing
<1>11. Identity'
  BY <1>1, <1>4, <1>7, <1>10, IdentityKept
<1>12. Elected'
  <2> SUFFICES ASSUME NEW q \in Proc, NEW k \in LockFile
               PROVE  flock'[k] = q <=> Writing(q)' /\ k = lockAt'
    BY DEF Elected
  <2>1. Writing(q)' <=> Writing(q)
    BY <1>5 DEF Writing
  <2>2. Writing(q) => lockAt \in LockFile /\ lockAt # 0
    BY DEF HomeInv, Identity, IdentityOf, Writing, LockFile
  <2>3. flock[k] = q <=> Writing(q) /\ k = lockAt
    BY DEF HomeInv, Elected
  <2> QED BY <2>1, <2>2, <2>3, <1>1, <1>4
<1>13. Follows'
  <2>1. FollowsOf(p)'
    BY <1>5 DEF FollowsOf, Loaded, Writing
  <2> QED BY <2>1, <1>1, <1>7, FollowsSame
<1> QED BY <1>1, <1>8, <1>11, <1>12, <1>13, FileSame DEF HomeInv

LEMMA TakeLockStep == ASSUME HomeInv, NEW p \in Proc, TakeLock(p) PROVE HomeInv'
<1>1. UNCHANGED <<log, rotten, bytes, tail, synced, copies, logAt, lockAt, appends, rots, powers,
                  tampers, acked, strays, astray, tornAt>>
  BY DEF TakeLock, fileVars
<1>2. pc \in [Proc -> Steps] /\ l \in [Proc -> Log] /\ "locked" \in Steps
  BY ProcTypes DEF HomeInv, Steps, Locking
<1>3. IdentityOf(p) /\ pc[p] = "try"
  BY DEF HomeInv, Identity, TakeLock
<1>4. l[p].held = lockAt /\ lockAt \in LockFile /\ ~l[p].checked /\ ~l[p].broken
  BY <1>3 DEF IdentityOf, Appending, Announcing
<1>5. opens \in 0..MaxOpens /\ opens < MaxOpens
      /\ content \in [LockFile -> 0..MaxOpens] /\ flock \in [LockFile -> Proc \cup {NoProc}]
  BY DEF HomeInv, TypeOK, TakeLock
<1>6. opens + 1 \in Holder /\ opens + 1 \in 0..MaxOpens /\ content[lockAt] \in 0..MaxOpens
  BY <1>4, <1>5, Bounds DEF Holder
<1>7. pc' \in [Proc -> Steps] /\ pc'[p] = "locked" /\ \A q \in Proc \ {p} : pc'[q] = pc[q]
  BY <1>2, Moved DEF TakeLock
<1>8. /\ l' \in [Proc -> Log] /\ \A q \in Proc \ {p} : l'[q] = l[q]
      /\ l'[p].inc = opens + 1 /\ l'[p].held = l[p].held
      /\ l'[p].checked = l[p].checked /\ l'[p].broken = l[p].broken
  <2> DEFINE c == content[l[p].held]
             r == [l[p] EXCEPT !.inc = opens + 1, !.stale = c]
  <2>1. l[p] \in Log /\ c \in 0..MaxOpens
    BY <1>2, <1>4, <1>6
  <2>2. l' = [l EXCEPT ![p] = r]
    BY <1>2 DEF TakeLock
  <2> HIDE DEF c
  <2>3. /\ r \in Log /\ r.inc = opens + 1 /\ r.held = l[p].held
        /\ r.checked = l[p].checked /\ r.broken = l[p].broken
    BY <2>1, <1>6 DEF Log
  <2> HIDE DEF r
  <2>4. l' \in [Proc -> Log] /\ l'[p] = r /\ \A q \in Proc \ {p} : l'[q] = l[q]
    BY <2>2, <2>3, <1>2, Updated
  <2> QED BY <2>3, <2>4
<1>9. Alone(p)
  BY <1>7, <1>8 DEF Alone
<1>10. /\ opens' \in 0..MaxOpens /\ content' \in [LockFile -> 0..MaxOpens]
       /\ flock' \in [LockFile -> Proc \cup {NoProc}]
  BY <1>4, <1>5, <1>6, Bounds DEF TakeLock
<1>11. fate' \in [Holder -> {"none", "running", "died", "failed", "closed", "closed in error"}]
  BY DEF HomeInv, TypeOK, TakeLock
<1>12. TypeOK'
  BY <1>1, <1>7, <1>8, <1>10, <1>11 DEF HomeInv, TypeOK
<1>13. IdentityOf(p)'
  BY <1>1, <1>4, <1>6, <1>7, <1>8 DEF IdentityOf, Loaded, Locking
<1>14. Identity'
  BY <1>1, <1>9, <1>13, IdentityKept
<1>15. Elected'
  <2> SUFFICES ASSUME NEW q \in Proc, NEW k \in LockFile
               PROVE  flock'[k] = q <=> Writing(q)' /\ k = lockAt'
    BY DEF Elected
  <2>1. flock[lockAt] = NoProc /\ flock' = [flock EXCEPT ![lockAt] = p]
    BY <1>4 DEF TakeLock
  <2>2. flock[k] = q <=> Writing(q) /\ k = lockAt
    BY DEF HomeInv, Elected
  <2>3. flock[lockAt] = q <=> Writing(q)
    BY <1>4 DEF HomeInv, Elected
  <2>4. ~Writing(q)
    BY <2>1, <2>3, Bounds
  <2>5. Writing(q)' <=> q = p
    BY <2>4, <1>7 DEF Writing
  <2> QED BY <2>1, <2>2, <2>4, <2>5, <1>1, <1>4, <1>5
<1>16. Follows'
  <2>1. FollowsOf(p)'
    BY <1>7 DEF FollowsOf, Loaded, Locking
  <2> QED BY <2>1, <1>1, <1>9, FollowsSame
<1> QED BY <1>1, <1>12, <1>14, <1>15, <1>16, FileSame DEF HomeInv

LEMMA RefuseSecondStep == ASSUME HomeInv, NEW p \in Proc, RefuseSecond(p) PROVE HomeInv'
<1>1. UNCHANGED <<log, rotten, bytes, tail, synced, copies, logAt, lockAt, content, flock, opens,
                  appends, rots, powers, tampers, fate, acked, strays, astray, tornAt>>
  BY DEF RefuseSecond, fileVars, lockVars, countVars, histVars
<1>2. pc \in [Proc -> Steps] /\ l \in [Proc -> Log] /\ "out" \in Steps /\ pc[p] = "try"
  BY ProcTypes DEF HomeInv, Steps, RefuseSecond
<1>3. pc' \in [Proc -> Steps] /\ pc'[p] = "out" /\ \A q \in Proc \ {p} : pc'[q] = pc[q]
  BY <1>2, Moved DEF RefuseSecond
<1>4. l' \in [Proc -> Log] /\ l'[p] = NoLog /\ \A q \in Proc \ {p} : l'[q] = l[q]
  BY <1>2, NoLogTyped, Updated DEF RefuseSecond
<1>5. Alone(p) /\ ~l'[p].checked /\ ~l'[p].broken
  <2>1. ~NoLog.checked /\ ~NoLog.broken
    BY DEF NoLog
  <2> QED BY <2>1, <1>3, <1>4 DEF Alone
<1>6. TypeOK'
  BY <1>1, <1>3, <1>4 DEF HomeInv, TypeOK
<1>7. Identity'
  <2>1. IdentityOf(p)'
    BY <1>3, <1>5 DEF IdentityOf, Writing, Loaded
  <2> QED BY <2>1, <1>1, <1>5, IdentityKept
<1>8. Elected'
  BY <1>1, <1>2, <1>3, <1>5, ElectedKept DEF Writing
<1>9. Follows'
  <2>1. FollowsOf(p)'
    BY <1>3 DEF FollowsOf, Loaded, Writing
  <2> QED BY <2>1, <1>1, <1>5, FollowsSame
<1> QED BY <1>1, <1>6, <1>7, <1>8, <1>9, FileSame DEF HomeInv

\* The steps that change only where a process is in its code and, maybe, the lock's content.
LEMMA WalkStep ==
  ASSUME HomeInv, NEW p \in Proc, NEW s \in Steps, Goto(p, s),
         UNCHANGED <<log, rotten, bytes, tail, synced, copies, logAt, lockAt, flock, l, tampers,
                     acked, tornAt, opens, rots, powers, strays, astray>>,
         content' \in [LockFile -> 0..MaxOpens], appends' \in 0..MaxAppends,
         fate' \in [Holder -> {"none", "running", "died", "failed", "closed",
                               "closed in error"}],
         Writing(p), s \notin {"out", "try"},
         Loaded(p) <=> s \notin Locking, pc[p] \notin Repairing,
         ~l[p].checked,
         l[p].broken => s \in {"open", "emptying", "releasing"}
  PROVE  HomeInv'
<1>1. pc \in [Proc -> Steps] /\ l \in [Proc -> Log]
  BY ProcTypes DEF HomeInv
<1>2. pc' \in [Proc -> Steps] /\ pc'[p] = s /\ \A q \in Proc \ {p} : pc'[q] = pc[q]
  BY <1>1, Moved
<1>3. Alone(p)
  BY <1>2 DEF Alone
<1>4. Writing(p)' /\ (Loaded(p)' <=> Loaded(p))
  BY <1>2 DEF Writing, Loaded
<1>5. TypeOK'
  BY <1>2 DEF HomeInv, TypeOK
<1>6. IdentityOf(p) /\ FollowsOf(p)
  BY DEF HomeInv, Identity, Follows
<1>7. IdentityOf(p)'
  BY <1>2, <1>4, <1>6 DEF IdentityOf, Writing
<1>8. Identity'
  BY <1>3, <1>7, IdentityKept
<1>9. Elected'
  BY <1>3, <1>4, ElectedKept
<1>10. Follows'
  <2>1. FollowsOf(p)'
    BY <1>4, <1>6 DEF FollowsOf, End
  <2> QED BY <2>1, <1>3, FollowsSame
<1> QED BY <1>5, <1>8, <1>9, <1>10, FileSame DEF HomeInv

LEMMA StampStep == ASSUME HomeInv, NEW p \in Proc, Stamp(p) PROVE HomeInv'
<1>1. pc[p] = "locked" /\ Writing(p) /\ ~Loaded(p) /\ pc[p] \notin Repairing
  BY DEF Stamp, Writing, Loaded, Locking, Repairing
<1>2. IdentityOf(p) /\ content \in [LockFile -> 0..MaxOpens]
  BY DEF HomeInv, Identity, TypeOK
<1>3. l[p].inc \in 0..MaxOpens /\ ~l[p].checked /\ ~l[p].broken
  BY <1>1, <1>2, Bounds DEF IdentityOf, Appending, Announcing, Holder
<1>4. content' \in [LockFile -> 0..MaxOpens]
  BY <1>2, <1>3 DEF Stamp
<1>5. UNCHANGED <<log, rotten, bytes, tail, synced, copies, logAt, lockAt, flock, l, tampers,
                  acked, tornAt, opens, rots, powers, strays, astray, appends, fate>>
  BY DEF Stamp, fileVars, countVars, histVars
<1>6. "stamped" \in Steps /\ "stamped" \in Locking /\ Goto(p, "stamped")
  BY DEF Steps, Locking, Stamp
<1>7. appends' \in 0..MaxAppends
      /\ fate' \in [Holder -> {"none", "running", "died", "failed", "closed", "closed in error"}]
  BY <1>5 DEF HomeInv, TypeOK
<1> QED BY <1>1, <1>3, <1>4, <1>5, <1>6, <1>7, WalkStep

-----------------------------------------------------------------------------
(* The steps of load and repair *)

LEMMA LoadStep1 == ASSUME HomeInv, NEW p \in Proc, Load(p) PROVE HomeInv'
<1> DEFINE unrecorded == Unrecorded(View(log, rotten))
           s == IF Torn THEN "copy" ELSE LoadStep(p, unrecorded)
<1>1. UNCHANGED <<log, rotten, bytes, tail, synced, copies, logAt, lockAt, content, flock, opens,
                  appends, rots, powers, tampers, fate, acked, strays, astray, tornAt>>
  BY DEF Load, fileVars, lockVars, countVars, histVars
<1>2. /\ pc[p] = "stamped" /\ Goto(p, s)
      /\ l' = [l EXCEPT ![p].onLog = logAt, ![p].seq = Len(log), ![p].size = End(log),
                        ![p].torn = tail, ![p].bad = unrecorded, ![p].rots = rots]
  BY DEF Load
<1>3. /\ pc \in [Proc -> Steps] /\ l \in [Proc -> Log] /\ s \in Repairing \cup Announcing
      /\ s \in Steps
  BY ProcTypes DEF HomeInv, Steps, LoadStep, Repairing, Announcing, Appending
<1>4. unrecorded \subseteq Nat
  <2>1. BadSeqs(View(log, rotten)) \subseteq Nat
    BY DEF BadSeqs
  <2> QED BY <2>1 DEF Unrecorded
<1>5. /\ Len(log) \in Nat /\ tail \in 0..MaxOpens /\ logAt \in Nat /\ rots \in 0..MaxRot
      /\ End(log) \in Nat
  BY FileTypes, EndTyped DEF HomeInv, TypeOK
<1>s. s \notin Repairing => bytes = End(log)
  BY DEF HomeInv, Measured, Repairing
<1> HIDE DEF unrecorded, s
<1>6. pc' \in [Proc -> Steps] /\ pc'[p] = s /\ \A q \in Proc \ {p} : pc'[q] = pc[q]
  BY <1>2, <1>3, Moved
<1>7. /\ l' \in [Proc -> Log] /\ \A q \in Proc \ {p} : l'[q] = l[q]
      /\ l'[p].held = l[p].held /\ l'[p].inc = l[p].inc /\ l'[p].checked = l[p].checked
      /\ l'[p].broken = l[p].broken /\ l'[p].onLog = logAt
      /\ l'[p].seq = Len(log) /\ l'[p].size = End(log)
  <2> DEFINE size == End(log)
             r == [l[p] EXCEPT !.onLog = logAt, !.seq = Len(log), !.size = size,
                               !.torn = tail, !.bad = unrecorded, !.rots = rots]
  <2>1. l[p] \in Log /\ size \in Nat
    BY <1>3, <1>5
  <2>3. l' = [l EXCEPT ![p] = r]
    BY <1>2
  <2> HIDE DEF size
  <2>2. /\ r \in Log /\ r.held = l[p].held /\ r.inc = l[p].inc /\ r.checked = l[p].checked
        /\ r.broken = l[p].broken /\ r.onLog = logAt /\ r.seq = Len(log) /\ r.size = size
    BY <2>1, <1>4, <1>5 DEF Log
  <2> HIDE DEF r
  <2>4. l' \in [Proc -> Log] /\ l'[p] = r /\ \A q \in Proc \ {p} : l'[q] = l[q]
    BY <2>2, <2>3, <1>3, Updated
  <2> QED BY <2>2, <2>4 DEF size
<1>8. Alone(p) /\ Writing(p) /\ Writing(p)'
  BY <1>2, <1>3, <1>6, <1>7 DEF Alone, Writing, Repairing, Announcing
<1>9. TypeOK'
  BY <1>1, <1>6, <1>7 DEF HomeInv, TypeOK
<1>10. IdentityOf(p)'
  <2>1. IdentityOf(p) /\ ~l[p].checked /\ ~l[p].broken
    BY <1>2 DEF HomeInv, Identity, IdentityOf, Appending, Announcing
  <2>2. pc[p] # "out"
    BY <1>2
  <2> QED BY <2>1, <2>2, <1>1, <1>7, <1>8 DEF IdentityOf
<1>11. Identity'
  BY <1>1, <1>8, <1>10, IdentityKept
<1>12. Elected'
  BY <1>1, <1>8, ElectedKept
<1>13. Follows'
  <2>1. FollowsOf(p)'
    BY <1>1, <1>6, <1>7, <1>s DEF FollowsOf, End
  <2> QED BY <2>1, <1>8, FollowsKept
<1> QED BY <1>1, <1>9, <1>11, <1>12, <1>13, FileSame DEF HomeInv

LEMMA CopyTornStep == ASSUME HomeInv, NEW p \in Proc, CopyTorn(p) PROVE HomeInv'
<1>1. UNCHANGED <<log, rotten, bytes, tail, synced, logAt, lockAt, content, flock, l, opens,
                  appends, rots, powers, tampers, fate, acked, strays, astray, tornAt>>
  BY DEF CopyTorn, lockVars, countVars, histVars
<1>2. pc[p] = "copy" /\ pc \in [Proc -> Steps] /\ l \in [Proc -> Log] /\ "cut" \in Steps
  BY ProcTypes DEF HomeInv, Steps, Repairing, CopyTorn
<1>3. pc' \in [Proc -> Steps] /\ pc'[p] = "cut" /\ \A q \in Proc \ {p} : pc'[q] = pc[q]
  BY <1>2, Moved DEF CopyTorn
<1>4. Alone(p) /\ Writing(p) /\ Writing(p)' /\ Loaded(p)
  BY <1>1, <1>2, <1>3 DEF Alone, Writing, Loaded, Locking
<1>5. copies' \subseteq 0..MaxOpens
  <2>1. l[p].torn \in 0..MaxOpens
    BY <1>2 DEF Log
  <2> QED BY <2>1 DEF HomeInv, TypeOK, CopyTorn
<1>6. TypeOK'
  BY <1>1, <1>3, <1>5 DEF HomeInv, TypeOK
<1>7. IdentityOf(p) /\ FollowsOf(p) /\ ~l[p].checked /\ ~l[p].broken
  BY <1>2 DEF HomeInv, Identity, IdentityOf, Follows, Appending, Announcing
<1>8. Identity'
  <2>1. IdentityOf(p)'
    BY <1>1, <1>2, <1>4, <1>7 DEF IdentityOf
  <2> QED BY <2>1, <1>1, <1>4, IdentityKept
<1>9. Elected' /\ Follows'
  <2>1. FollowsOf(p)'
    BY <1>1, <1>3, <1>4, <1>7 DEF FollowsOf, End, Repairing
  <2> QED BY <2>1, <1>1, <1>4, ElectedKept, FollowsSame
<1> QED BY <1>1, <1>6, <1>8, <1>9, FileSame DEF HomeInv

\* The cut removes no line: the writer's size is the end of the last one.
LEMMA CutTornStep ==
  ASSUME HomeInv, NEW p \in Proc, CutTorn(p)
  PROVE  HomeInv' /\ UNCHANGED <<log, rotten, astray, tornAt>> /\ tail' = 0
<1>1. UNCHANGED <<copies, logAt, lockAt, content, flock, l, opens,
                  appends, rots, powers, tampers, fate, acked, strays>>
  BY DEF CutTorn, lockVars, countVars
<1>2. pc[p] = "cut" /\ pc \in [Proc -> Steps] /\ l \in [Proc -> Log] /\ "record" \in Steps
  BY ProcTypes DEF HomeInv, Steps, Appending, Announcing, CutTorn
<1>3. pc' \in [Proc -> Steps] /\ pc'[p] = "record" /\ \A q \in Proc \ {p} : pc'[q] = pc[q]
  BY <1>2, Moved DEF CutTorn
<1>4. Alone(p) /\ Writing(p) /\ Writing(p)' /\ Loaded(p)
  BY <1>1, <1>2, <1>3 DEF Alone, Writing, Loaded, Locking
<1>5. IdentityOf(p) /\ FollowsOf(p) /\ ~l[p].checked /\ ~l[p].broken
  BY <1>2 DEF HomeInv, Identity, IdentityOf, Follows, Appending, Announcing
<1>6. l[p].size = End(log) /\ l[p].onLog = logAt
  BY <1>4, <1>5 DEF FollowsOf, IdentityOf
<1>7. log \in Seq(Record) /\ Len(log) \in Nat /\ rotten \subseteq 1..Len(log)
      /\ synced \in Nat /\ synced <= Len(log) /\ End(log) \in Nat
  BY FileTypes, EndTyped DEF HomeInv
<1>c. Cut(p) /\ synced' = Len(log')
  BY <1>6 DEF CutTorn, OnFile
<1>8. /\ log' = log /\ rotten' = rotten /\ tail' = 0
      /\ rotten' \subseteq 1..Len(log) /\ tail' \in 0..MaxOpens /\ synced' = Len(log)
      /\ bytes' = End(log) /\ tornAt' = tornAt /\ astray' = astray /\ Measured'
  <2>1. /\ log' = log /\ rotten' = rotten /\ tail' = 0 /\ bytes' = End(log) /\ Measured'
        /\ tornAt' = tornAt /\ astray' = astray
    BY <1>6, <1>c, CutToEnd DEF HomeInv
  <2> QED BY <2>1, <1>7, <1>c, Bounds
<1>9. synced' \in 0..Len(log)
  BY <1>7, <1>8
<1>10. TypeOK'
  BY <1>1, <1>3, <1>7, <1>8, <1>9 DEF HomeInv, TypeOK
<1>11. Identity'
  <2>1. IdentityOf(p)'
    BY <1>1, <1>2, <1>4, <1>5 DEF IdentityOf
  <2> QED BY <2>1, <1>1, <1>4, IdentityKept
<1>12. Elected' /\ Follows'
  <2>1. FollowsOf(p)'
    BY <1>1, <1>4, <1>5, <1>8 DEF FollowsOf, End
  <2> QED BY <2>1, <1>1, <1>4, ElectedKept, FollowsKept
<1>13. GaplessLog'
  BY <1>8 DEF HomeInv, GaplessLog
<1>14. AckedKept'
  BY <1>1, <1>7, <1>8, AckedGrown
<1> QED BY <1>8, <1>10, <1>11, <1>12, <1>13, <1>14 DEF HomeInv

-----------------------------------------------------------------------------
(* The ends of a Log *)

\* A process that gives up its Log, dead or alive, keeps the invariant if the file does.
LEMMA LeaveStep ==
  ASSUME HomeInv, NEW p \in Proc, NEW how \in {"died", "failed", "closed", "closed in error"},
         Leave(p, how), Writing(p) \/ UNCHANGED <<log, bytes>>,
         UNCHANGED <<copies, logAt, lockAt, content, opens, appends, rots, powers, tampers,
                     acked>>,
         log' \in Seq(Record), rotten' \subseteq 1..Len(log'), tail' \in 0..MaxOpens,
         synced' \in 0..Len(log'), tornAt' \subseteq Nat, strays' \in [Holder -> Nat],
         bytes' \in Nat, astray' \in Nat, GaplessLog', AckedKept', Measured'
  PROVE  HomeInv'
<1>1. /\ Alone(p) /\ pc' \in [Proc -> Steps] /\ l' \in [Proc -> Log]
      /\ flock' \in [LockFile -> Proc \cup {NoProc}]
      /\ fate' \in [Holder -> {"none", "running", "died", "failed", "closed",
                               "closed in error"}]
      /\ Identity' /\ Elected' /\ FollowsOf(p)'
  BY Left
<1>2. TypeOK'
  BY <1>1 DEF HomeInv, TypeOK
<1>3. Follows'
  BY <1>1, FollowsKept, FollowsSame
<1> QED BY <1>1, <1>2, <1>3 DEF HomeInv

\* The file parts of the invariant when the file is not touched.
LEMMA FileTypesSame ==
  ASSUME HomeInv, UNCHANGED <<log, rotten, bytes, tail, synced, acked, strays, astray, tornAt>>
  PROVE  /\ log' \in Seq(Record) /\ rotten' \subseteq 1..Len(log') /\ tail' \in 0..MaxOpens
         /\ synced' \in 0..Len(log') /\ tornAt' \subseteq Nat /\ strays' \in [Holder -> Nat]
         /\ bytes' \in Nat /\ astray' \in Nat
         /\ GaplessLog' /\ AckedKept' /\ Measured'
<1>1. GaplessLog' /\ AckedKept' /\ Measured'
  BY FileSame
<1> QED BY <1>1 DEF HomeInv, TypeOK

LEMMA OpenFailsStep == ASSUME HomeInv, NEW p \in Proc, OpenFails(p) PROVE HomeInv'
<1>1. UNCHANGED <<log, rotten, bytes, tail, synced, copies, logAt, lockAt, content, opens,
                  appends, rots, powers, tampers, acked, strays, astray, tornAt>>
  BY DEF OpenFails, fileVars, countVars
<1>2. Leave(p, "failed")
  BY DEF OpenFails
<1> QED BY <1>1, <1>2, FileTypesSame, LeaveStep

LEMMA ReleaseLockStep == ASSUME HomeInv, NEW p \in Proc, ReleaseLock(p) PROVE HomeInv'
<1>1. UNCHANGED <<log, rotten, bytes, tail, synced, copies, logAt, lockAt, content, opens,
                  appends, rots, powers, tampers, acked, strays, astray, tornAt>>
  BY DEF ReleaseLock, fileVars, countVars
<1>2. Leave(p, "closed in error") \/ Leave(p, "closed")
  BY DEF ReleaseLock
<1> QED BY <1>1, <1>2, FileTypesSame, LeaveStep

LEMMA CallCloseStep == ASSUME HomeInv, NEW p \in Proc, CallClose(p) PROVE HomeInv'
<1> DEFINE s == IF l[p].broken THEN "emptying" ELSE "closing"
<1>1. UNCHANGED <<log, rotten, bytes, tail, synced, copies, logAt, lockAt, content, flock, l, tampers,
                  acked, tornAt, opens, rots, powers, strays, astray, appends, fate>>
  BY DEF CallClose, fileVars, lockVars, countVars, histVars
<1>2. pc[p] = "open" /\ Goto(p, s) /\ s \in Steps /\ s \notin {"out", "try"} /\ s \notin Locking
      /\ (l[p].broken => s = "emptying")
  BY DEF CallClose, Steps, Appending, Locking
<1>3. Writing(p) /\ Loaded(p) /\ pc[p] \notin Repairing
  BY <1>2 DEF Writing, Loaded, Locking, Repairing
<1>4. ~l[p].checked
  BY <1>2 DEF HomeInv, Identity, IdentityOf, Appending, Announcing
<1>5. content' \in [LockFile -> 0..MaxOpens] /\ appends' \in 0..MaxAppends
      /\ fate' \in [Holder -> {"none", "running", "died", "failed", "closed", "closed in error"}]
  BY <1>1 DEF HomeInv, TypeOK
<1> HIDE DEF s
<1> QED BY <1>1, <1>2, <1>3, <1>4, <1>5, WalkStep

LEMMA EmptyLockStep == ASSUME HomeInv, NEW p \in Proc, EmptyLock(p) PROVE HomeInv'
<1>1. UNCHANGED <<log, rotten, bytes, tail, synced, copies, logAt, lockAt, flock, l, tampers,
                  acked, tornAt, opens, rots, powers, strays, astray, appends>>
  BY DEF EmptyLock, fileVars, countVars
<1>2. pc[p] = "emptying" /\ Goto(p, "releasing") /\ "releasing" \in Steps
      /\ "releasing" \notin Locking
  BY DEF EmptyLock, Steps, Locking
<1>3. Writing(p) /\ Loaded(p) /\ pc[p] \notin Repairing
  BY <1>2 DEF Writing, Loaded, Locking, Repairing
<1>4. ~l[p].checked
  BY <1>2 DEF HomeInv, Identity, IdentityOf, Appending, Announcing
<1>5. content' \in [LockFile -> 0..MaxOpens]
  <2>1. content \in [LockFile -> 0..MaxOpens] /\ 0 \in 0..MaxOpens
    <3>1. content \in [LockFile -> 0..MaxOpens]
      BY DEF HomeInv, TypeOK
    <3> QED BY <3>1, Bounds
  <2> QED BY <2>1 DEF EmptyLock
<1>6. fate' \in [Holder -> {"none", "running", "died", "failed", "closed", "closed in error"}]
  <2>1. fate \in [Holder -> {"none", "running", "died", "failed", "closed", "closed in error"}]
    BY DEF HomeInv, TypeOK
  <2> QED BY <2>1 DEF EmptyLock
<1>7. appends' \in 0..MaxAppends
  BY <1>1 DEF HomeInv, TypeOK
<1> QED BY <1>1, <1>2, <1>3, <1>4, <1>5, <1>6, <1>7, WalkStep

LEMMA CallAppendStep == ASSUME HomeInv, NEW p \in Proc, CallAppend(p) PROVE HomeInv'
<1>1. UNCHANGED <<log, rotten, bytes, tail, synced, copies, logAt, lockAt, content, flock, l, tampers,
                  acked, tornAt, opens, rots, powers, strays, astray, fate>>
  BY DEF CallAppend, fileVars, lockVars, histVars
<1>2. pc[p] = "open" /\ Goto(p, "append") /\ "append" \in Steps /\ "append" \notin Locking
      /\ ~l[p].broken
  BY DEF CallAppend, Steps, Locking, Appending
<1>3. Writing(p) /\ Loaded(p) /\ pc[p] \notin Repairing
  BY <1>2 DEF Writing, Loaded, Locking, Repairing
<1>4. ~l[p].checked
  BY <1>2 DEF HomeInv, Identity, IdentityOf, Appending, Announcing
<1>5. appends' \in 0..MaxAppends
  <2>1. appends \in 0..MaxAppends
    BY DEF HomeInv, TypeOK
  <2> QED BY <2>1, Bounds DEF CallAppend
<1>6. content' \in [LockFile -> 0..MaxOpens]
      /\ fate' \in [Holder -> {"none", "running", "died", "failed", "closed", "closed in error"}]
  BY <1>1 DEF HomeInv, TypeOK
<1> QED BY <1>1, <1>2, <1>3, <1>4, <1>5, <1>6, WalkStep

-----------------------------------------------------------------------------
(* Append *)

LEMMA CheckOwnedStep == ASSUME HomeInv, NEW p \in Proc, CheckOwned(p) PROVE HomeInv'
<1>1. UNCHANGED <<log, rotten, bytes, tail, synced, copies, logAt, lockAt, content, flock, pc, opens,
                  appends, rots, powers, tampers, fate, acked, strays, astray, tornAt>>
  BY DEF CheckOwned, fileVars, lockVars, countVars, histVars
<1>2. pc[p] \in Appending /\ l \in [Proc -> Log]
  BY ProcTypes DEF HomeInv, CheckOwned
<1>3. /\ l' \in [Proc -> Log] /\ \A q \in Proc \ {p} : l'[q] = l[q]
      /\ l'[p].held = l[p].held /\ l'[p].inc = l[p].inc /\ l'[p].onLog = l[p].onLog
      /\ l'[p].broken = l[p].broken /\ l'[p].seq = l[p].seq /\ l'[p].size = l[p].size
  BY <1>2 DEF CheckOwned, Log
<1>4. Alone(p) /\ (Writing(p)' <=> Writing(p)) /\ (Loaded(p)' <=> Loaded(p))
  BY <1>1, <1>3 DEF Alone, Writing, Loaded
<1>5. TypeOK'
  BY <1>1, <1>3 DEF HomeInv, TypeOK
<1>6. IdentityOf(p) /\ FollowsOf(p)
  BY DEF HomeInv, Identity, Follows
<1>7. Identity'
  <2>1. IdentityOf(p)'
    BY <1>1, <1>2, <1>3, <1>4, <1>6 DEF IdentityOf
  <2> QED BY <2>1, <1>1, <1>4, IdentityKept
<1>8. Elected' /\ Follows'
  <2>1. FollowsOf(p)'
    BY <1>1, <1>3, <1>4, <1>6 DEF FollowsOf, End
  <2> QED BY <2>1, <1>1, <1>4, ElectedKept, FollowsSame
<1> QED BY <1>1, <1>5, <1>7, <1>8, FileSame DEF HomeInv

\* The end of an append that left the process its Log: it may be broken now, and then it no
\* longer has to follow the log.
LEMMA AppendEnds ==
  ASSUME HomeInv, NEW p \in Proc, NEW s \in Steps \ ({"out", "try"} \cup Locking), Goto(p, s),
         Loaded(p), ~l[p].broken, l' \in [Proc -> Log], \A q \in Proc \ {p} : l'[q] = l[q],
         l'[p].held = l[p].held, l'[p].inc = l[p].inc, l'[p].onLog = l[p].onLog,
         ~l'[p].checked, l'[p].broken => s \in {"open", "emptying"},
         ~l'[p].broken =>
           l'[p].seq = Len(log') /\ l'[p].size = End(log') /\ bytes' = End(log'),
         UNCHANGED <<copies, logAt, lockAt, content, flock, opens, appends, rots, powers,
                     tampers, fate>>,
         log' \in Seq(Record), rotten' \subseteq 1..Len(log'), tail' \in 0..MaxOpens,
         synced' \in 0..Len(log'), tornAt' \subseteq Nat, strays' \in [Holder -> Nat],
         bytes' \in Nat, astray' \in Nat,
         acked' \subseteq Record, GaplessLog', AckedKept', Measured'
  PROVE  HomeInv'
<1>1. pc \in [Proc -> Steps]
  BY ProcTypes DEF HomeInv
<1>2. pc' \in [Proc -> Steps] /\ pc'[p] = s /\ \A q \in Proc \ {p} : pc'[q] = pc[q]
  BY <1>1, Moved
<1>3. Alone(p) /\ Writing(p) /\ Writing(p)'
  BY <1>2 DEF Alone, Writing, Loaded
<1>4. TypeOK'
  BY <1>2 DEF HomeInv, TypeOK
<1>5. Identity'
  <2>1. IdentityOf(p) /\ pc[p] # "out"
    BY <1>3 DEF HomeInv, Identity, Writing
  <2>2. IdentityOf(p)'
    BY <2>1, <1>2, <1>3 DEF IdentityOf, Writing
  <2> QED BY <2>2, <1>3, IdentityKept
<1>6. Elected'
  BY <1>3, ElectedKept
<1>7. Follows'
  <2>1. FollowsOf(p)'
    BY DEF FollowsOf
  <2> QED BY <2>1, <1>3, FollowsKept
<1> QED BY <1>4, <1>5, <1>6, <1>7 DEF HomeInv

LEMMA RefuseEntryStep == ASSUME HomeInv, NEW p \in Proc, RefuseEntry(p) PROVE HomeInv'
<1>1. UNCHANGED <<log, rotten, bytes, tail, synced, copies, logAt, lockAt, content, flock, opens,
                  appends, rots, powers, tampers, fate, acked, strays, astray, tornAt>>
  BY DEF RefuseEntry, fileVars, lockVars, countVars, histVars
<1>2. /\ Loaded(p) /\ ~l[p].broken /\ l[p].seq = Len(log) /\ l[p].size = End(log)
      /\ bytes = End(log) /\ l \in [Proc -> Log]
  BY Checked, ProcTypes DEF RefuseEntry, HomeInv
<1>3. /\ l' \in [Proc -> Log] /\ \A q \in Proc \ {p} : l'[q] = l[q]
      /\ l'[p].held = l[p].held /\ l'[p].inc = l[p].inc /\ l'[p].onLog = l[p].onLog
      /\ l'[p].broken = l[p].broken /\ l'[p].seq = l[p].seq /\ l'[p].size = l[p].size
      /\ ~l'[p].checked
  BY <1>2 DEF RefuseEntry, Log
<1>4. Goto(p, "open") /\ "open" \in Steps \ ({"out", "try"} \cup Locking)
  BY DEF RefuseEntry, Steps, Locking
<1>5. acked' \subseteq Record /\ End(log') = End(log)
  BY <1>1 DEF HomeInv, TypeOK, End
<1> QED BY <1>1, <1>2, <1>3, <1>4, <1>5, FileTypesSame, AppendEnds

LEMMA AfterAppendTyped ==
  ASSUME NEW p \in Proc, pc[p] \in Appending, NEW e
  PROVE  AfterAppend(p, e) \in Steps \ ({"out", "try"} \cup Locking)
<1> QED BY DEF AfterAppend, LoadStep, Appending, Announcing, Steps, Locking

LEMMA WriteStep == ASSUME HomeInv, NEW p \in Proc, Write(p) PROVE HomeInv'
<1>1. UNCHANGED <<copies, logAt, lockAt, content, flock, opens, appends, rots, powers, tampers,
                  fate, tornAt>>
  BY DEF Write, lockVars, countVars
<1> DEFINE Wrote(e, n) ==
        /\ WriteLine(p, e, n)
        /\ synced' = IF Durable(e.type) /\ OnFile(p) THEN Len(log') ELSE synced
        /\ acked' = IF Durable(e.type) THEN acked \cup {NewLine(p, e, n)} ELSE acked
        /\ l' = [l EXCEPT
                   ![p].seq = @ + 1, ![p].size = @ + n, ![p].checked = FALSE,
                   ![p].bad = IF pc[p] = "quarantine" THEN @ \ {e.ref} ELSE @,
                   ![p].opened = IF pc[p] = "announce" THEN l[p].seq + 1 ELSE @]
        /\ Goto(p, AfterAppend(p, e))
<1>e. PICK e \in Due(p) : \E n \in Lengths[e.type] : Wrote(e, n)
  BY DEF Write
<1>2. PICK n \in Lengths[e.type] : Wrote(e, n)
  BY <1>e
<1>3. l[p].checked /\ pc[p] \in Appending /\ l \in [Proc -> Log]
  BY ProcTypes DEF Write, HomeInv
<1>4. /\ Loaded(p) /\ ~l[p].broken /\ OnFile(p)
      /\ l[p].seq = Len(log) /\ l[p].size = bytes
  BY <1>3, Checked
<1>5. /\ NewLine(p, e, n) \in Record /\ NewLine(p, e, n).seq = Len(log) + 1
      /\ log' \in Seq(Record) /\ Len(log') = Len(log) + 1
      /\ log'[Len(log')] = NewLine(p, e, n)
      /\ \A i \in 1..Len(log) : log'[i] = log[i]
      /\ GaplessLog' /\ rotten' \subseteq 1..Len(log') /\ tail' \in 0..MaxOpens
      /\ strays' = strays /\ astray' = astray /\ n \in Nat
      /\ bytes' = bytes + n /\ bytes' \in Nat /\ Measured' /\ End(log') = bytes'
  BY <1>2, <1>3, LineWritten
<1>6. Len(log) \in Nat /\ synced \in Nat /\ synced <= Len(log) /\ bytes \in Nat
  BY FileTypes DEF HomeInv
<1>7. synced' \in 0..Len(log') /\ synced' >= synced
      /\ (Durable(e.type) => synced' = Len(log) + 1)
  BY <1>2, <1>4, <1>5, <1>6
<1>8. /\ acked' \subseteq Record /\ tornAt' \subseteq Nat /\ strays' \in [Holder -> Nat]
      /\ astray' \in Nat
  <2>1. /\ acked \subseteq Record /\ tornAt \subseteq Nat /\ strays \in [Holder -> Nat]
        /\ astray \in Nat
    BY DEF HomeInv, TypeOK
  <2> QED BY <2>1, <1>1, <1>2, <1>5
<1>9. AckedKept'
  <2> SUFFICES ASSUME NEW a \in acked' PROVE a.seq \in 1..synced' /\ log'[a.seq] = a
    BY DEF AckedKept
  <2>1. CASE a \in acked
    <3>1. a.seq \in 1..synced /\ log[a.seq] = a
      BY <2>1 DEF HomeInv, AckedKept
    <3> QED BY <3>1, <1>5, <1>6, <1>7
  <2>2. CASE a = NewLine(p, e, n) /\ Durable(e.type)
    BY <2>2, <1>5, <1>6, <1>7
  <2> QED BY <2>1, <2>2, <1>2
<1>10. /\ l' \in [Proc -> Log] /\ \A q \in Proc \ {p} : l'[q] = l[q]
       /\ l'[p].held = l[p].held /\ l'[p].inc = l[p].inc /\ l'[p].onLog = l[p].onLog
       /\ l'[p].broken = l[p].broken /\ l'[p].seq = Len(log) + 1 /\ l'[p].size = bytes'
       /\ ~l'[p].checked
  <2> DEFINE b == IF pc[p] = "quarantine" THEN l[p].bad \ {e.ref} ELSE l[p].bad
             o == IF pc[p] = "announce" THEN l[p].seq + 1 ELSE l[p].opened
             r == [l[p] EXCEPT !.seq = l[p].seq + 1, !.size = l[p].size + n, !.checked = FALSE,
                               !.bad = b, !.opened = o]
  <2>1. l[p] \in Log
    BY <1>3
  <2>2. b \in SUBSET Nat /\ o \in Nat
    BY <2>1, <1>4, <1>6 DEF Log
  <2>3. l' = [l EXCEPT ![p] = r]
    BY <1>2, <1>3
  <2> HIDE DEF b, o
  <2>4. /\ r \in Log /\ r.held = l[p].held /\ r.inc = l[p].inc /\ r.onLog = l[p].onLog
        /\ r.broken = l[p].broken /\ r.seq = Len(log) + 1 /\ r.size = bytes' /\ ~r.checked
    <3>1. l[p].seq + 1 \in Nat /\ l[p].size + n \in Nat
      BY <1>4, <1>5, <1>6
    <3>2. r \in Log
      BY <2>1, <2>2, <3>1 DEF Log
    <3>3. /\ r.held = l[p].held /\ r.inc = l[p].inc /\ r.onLog = l[p].onLog
          /\ r.broken = l[p].broken /\ r.seq = l[p].seq + 1 /\ r.size = l[p].size + n
          /\ ~r.checked
      BY <2>1 DEF Log
    <3> QED BY <3>2, <3>3, <1>4, <1>5
  <2> HIDE DEF r
  <2>5. l' \in [Proc -> Log] /\ l'[p] = r /\ \A q \in Proc \ {p} : l'[q] = l[q]
    BY <2>3, <2>4, <1>3, Updated
  <2> QED BY <2>4, <2>5
<1>11. AfterAppend(p, e) \in Steps \ ({"out", "try"} \cup Locking) /\ Goto(p, AfterAppend(p, e))
  BY <1>2, <1>3, AfterAppendTyped
<1> QED BY <1>1, <1>4, <1>5, <1>7, <1>8, <1>9, <1>10, <1>11, AppendEnds

\* A failed append that keeps the file's promises keeps the invariant, whichever call it was in.
LEMMA AppendFailedStep ==
  ASSUME HomeInv, NEW p \in Proc, pc[p] \in Appending, AppendFailed(p),
         UNCHANGED <<copies, logAt, lockAt, content, opens, appends, rots, powers, tampers,
                     acked>>,
         log' \in Seq(Record), rotten' \subseteq 1..Len(log'), tail' \in 0..MaxOpens,
         synced' \in 0..Len(log'), tornAt' \subseteq Nat, strays' \in [Holder -> Nat],
         bytes' \in Nat, astray' \in Nat, GaplessLog', AckedKept', Measured'
  PROVE  HomeInv'
<1>1. Loaded(p) /\ Writing(p) /\ ~l[p].broken
  BY DEF HomeInv, Identity, IdentityOf, Loaded, Writing, Appending, Announcing, Locking
<1>2. CASE Leave(p, "failed")
  BY <1>1, <1>2, LeaveStep
<1>3. CASE ~Leave(p, "failed")
  <2> DEFINE s == IF pc[p] = "closing" THEN "emptying" ELSE "open"
  <2>1. /\ Goto(p, s) /\ UNCHANGED <<flock, fate>>
        /\ l' = [l EXCEPT ![p].broken = TRUE, ![p].checked = FALSE]
    BY <1>3 DEF AppendFailed
  <2>2. l \in [Proc -> Log]
    BY ProcTypes DEF HomeInv
  <2>3. /\ l' \in [Proc -> Log] /\ \A q \in Proc \ {p} : l'[q] = l[q]
        /\ l'[p].held = l[p].held /\ l'[p].inc = l[p].inc /\ l'[p].onLog = l[p].onLog
        /\ ~l'[p].checked /\ l'[p].broken
    <3> DEFINE r == [l[p] EXCEPT !.broken = TRUE, !.checked = FALSE]
    <3>1. l[p] \in Log
      BY <2>2
    <3>2. l' = [l EXCEPT ![p] = r]
      BY <2>1, <2>2
    <3>3. /\ r \in Log /\ r.held = l[p].held /\ r.inc = l[p].inc /\ r.onLog = l[p].onLog
          /\ ~r.checked /\ r.broken
      BY <3>1 DEF Log
    <3> HIDE DEF r
    <3>4. l' \in [Proc -> Log] /\ l'[p] = r /\ \A q \in Proc \ {p} : l'[q] = l[q]
      BY <2>2, <3>2, <3>3, Updated
    <3> QED BY <3>3, <3>4
  <2>4. s \in Steps \ ({"out", "try"} \cup Locking) /\ s \in {"open", "emptying"}
    BY DEF Steps, Locking
  <2>5. acked' \subseteq Record
    BY DEF HomeInv, TypeOK
  <2> HIDE DEF s
  <2> QED BY <1>1, <2>1, <2>3, <2>4, <2>5, AppendEnds
<1> QED BY <1>2, <1>3

LEMMA FindNotOwnedStep == ASSUME HomeInv, NEW p \in Proc, FindNotOwned(p) PROVE HomeInv'
<1>1. UNCHANGED <<log, rotten, bytes, tail, synced, copies, logAt, lockAt, content, opens,
                  appends, rots, powers, tampers, acked, strays, astray, tornAt>>
  BY DEF FindNotOwned, fileVars, countVars
<1>2. pc[p] \in Appending /\ AppendFailed(p)
  BY DEF FindNotOwned
<1> QED BY <1>1, <1>2, FileTypesSame, AppendFailedStep

\* Half a line leaves the log's lines alone.
LEMMA HalfWritten ==
  ASSUME HomeInv, NEW p \in Proc, l[p].checked, WriteHalf(p)
  PROVE  /\ log' = log /\ rotten' = rotten /\ tail' \in 0..MaxOpens /\ tornAt' \subseteq Nat
         /\ bytes' \in Nat /\ astray' \in Nat /\ Measured'
<1>1. l[p].inc \in Holder /\ pc[p] \in Appending /\ Owned(p)
  BY Checked
<1>2. Len(log) + 1 \in Nat /\ bytes \in Nat /\ tail \in 0..MaxOpens /\ astray \in Nat
  BY FileTypes DEF HomeInv
<1>3. tornAt \subseteq Nat
  BY DEF HomeInv, TypeOK
<1>4. log' = log /\ rotten' = rotten /\ tornAt' \subseteq Nat /\ astray' = astray
  BY <1>1, <1>2, <1>3 DEF WriteHalf, Lengthen
<1>5. tail' \in 0..MaxOpens /\ tail' # 0
  BY <1>1, <1>2, Bounds DEF WriteHalf, Holder, Torn
<1>6. bytes' \in Nat /\ bytes' >= bytes
  <2>1. PICK k \in Part(p) : bytes' = bytes + k
    BY DEF WriteHalf
  <2>2. k \in Nat
    BY <1>1, PartTyped DEF HomeInv
  <2> QED BY <2>1, <2>2, <1>2
<1>7. Measured'
  BY <1>4, <1>5, <1>6, MeasuredHalf DEF HomeInv
<1> QED BY <1>2, <1>4, <1>5, <1>6, <1>7

\* The size the writer knows is the end of the last line, so cutting back a partial line of its
\* own never cuts a complete one.
LEMMA WriteFailsStep ==
  ASSUME HomeInv, NEW p \in Proc, WriteFails(p)
  PROVE  HomeInv' /\ UNCHANGED <<log, rotten, synced>>
<1>1. UNCHANGED <<copies, logAt, lockAt, content, opens, appends, rots, powers, tampers, acked,
                  strays>>
  BY DEF WriteFails, countVars
<1>2. pc[p] \in Appending /\ AppendFailed(p) /\ l[p].checked
  BY DEF WriteFails
<1>3. l[p].size = End(log)
  BY <1>2, Checked
<1>4. /\ log \in Seq(Record) /\ rotten \subseteq 1..Len(log) /\ tail \in 0..MaxOpens
      /\ Len(log) \in Nat /\ synced \in Nat /\ synced <= Len(log)
      /\ bytes \in Nat /\ astray \in Nat /\ End(log) \in Nat
  BY FileTypes, EndTyped DEF HomeInv
<1>5. tornAt \subseteq Nat /\ strays \in [Holder -> Nat]
  BY DEF HomeInv, TypeOK
<1>6. /\ log' = log /\ rotten' = rotten /\ tail' \in 0..MaxOpens /\ tornAt' \subseteq Nat
      /\ bytes' \in Nat /\ astray' \in Nat /\ Measured'
  <2>1. CASE UNCHANGED <<log, rotten, bytes, tail, astray, tornAt>>
    <3>1. Measured'
      BY <2>1 DEF HomeInv, Measured, Torn, End
    <3> QED BY <2>1, <3>1, <1>4, <1>5
  <2>2. CASE Cut(p)
    <3>1. /\ log' = log /\ rotten' = rotten /\ tail' = 0 /\ bytes' = End(log) /\ Measured'
          /\ tornAt' = tornAt /\ astray' = astray
      BY <2>2, <1>3, CutToEnd DEF HomeInv
    <3> QED BY <3>1, <1>4, <1>5, Bounds
  <2>3. CASE WriteHalf(p)
    BY <2>3, <1>2, HalfWritten
  <2> QED BY <2>1, <2>2, <2>3 DEF WriteFails
<1>7. synced' = synced
  <2>1. synced' = IF synced <= Len(log') THEN synced ELSE Len(log')
    BY DEF WriteFails
  <2> QED BY <2>1, <1>4, <1>6
<1>8. GaplessLog' /\ AckedKept'
  BY <1>1, <1>6, <1>7 DEF HomeInv, GaplessLog, AckedKept
<1>9. HomeInv'
  BY <1>1, <1>2, <1>4, <1>5, <1>6, <1>7, <1>8, AppendFailedStep
<1> QED BY <1>6, <1>7, <1>9

\* A line in the file that no fsync reached: all that a write promises but durability.
LEMMA Unsynced ==
  ASSUME HomeInv, NEW p \in Proc, l[p].checked, NEW e \in Due(p), NEW n \in Lengths[e.type],
         WriteLine(p, e, n), UNCHANGED <<synced, acked, tornAt>>
  PROVE  /\ log' \in Seq(Record) /\ rotten' \subseteq 1..Len(log') /\ tail' \in 0..MaxOpens
         /\ synced' \in 0..Len(log') /\ tornAt' \subseteq Nat /\ strays' \in [Holder -> Nat]
         /\ bytes' \in Nat /\ astray' \in Nat
         /\ GaplessLog' /\ AckedKept' /\ Measured'
<1>1. /\ log' \in Seq(Record) /\ Len(log') = Len(log) + 1
      /\ \A i \in 1..Len(log) : log'[i] = log[i]
      /\ GaplessLog' /\ rotten' \subseteq 1..Len(log') /\ tail' \in 0..MaxOpens
      /\ strays' = strays /\ astray' = astray /\ bytes' \in Nat /\ Measured'
  BY LineWritten
<1>2. Len(log) \in Nat /\ synced \in Nat /\ synced <= Len(log)
  BY FileTypes DEF HomeInv
<1>3. tornAt' \subseteq Nat /\ strays' \in [Holder -> Nat] /\ astray' \in Nat
  BY <1>1 DEF HomeInv, TypeOK
<1>4. synced' \in 0..Len(log')
  BY <1>1, <1>2
<1>5. AckedKept'
  BY <1>1, <1>2, AckedGrown
<1> QED BY <1>1, <1>3, <1>4, <1>5

LEMMA SyncFailsStep == ASSUME HomeInv, NEW p \in Proc, SyncFails(p) PROVE HomeInv'
<1>1. UNCHANGED <<synced, copies, logAt, lockAt, content, opens, appends, rots, powers, tampers,
                  acked, tornAt>>
  BY DEF SyncFails, countVars
<1>2. pc[p] \in Appending /\ AppendFailed(p) /\ l[p].checked
  BY DEF SyncFails
<1>e. PICK e \in Due(p) : \E n \in Lengths[e.type] : WriteLine(p, e, n)
  BY DEF SyncFails
<1>3. PICK n \in Lengths[e.type] : WriteLine(p, e, n)
  BY <1>e
<1> QED BY <1>1, <1>2, <1>3, Unsynced, AppendFailedStep

-----------------------------------------------------------------------------
(* Deaths, power losses and rot *)

LEMMA CrashStep == ASSUME HomeInv, NEW p \in Proc, Crash(p) PROVE HomeInv'
<1>1. UNCHANGED <<synced, copies, logAt, lockAt, content, opens, appends, rots, powers, tampers,
                  acked>>
  BY DEF Crash, countVars
<1>2. Leave(p, "died")
  BY DEF Crash
<1>3. CASE UNCHANGED <<log, rotten, bytes, tail, strays, astray, tornAt>>
  BY <1>1, <1>2, <1>3, FileTypesSame, LeaveStep
<1>4. CASE l[p].checked /\ WriteHalf(p) /\ UNCHANGED strays
  <2>1. /\ log' = log /\ rotten' = rotten /\ tail' \in 0..MaxOpens /\ tornAt' \subseteq Nat
        /\ bytes' \in Nat /\ astray' \in Nat /\ Measured'
    BY <1>4, HalfWritten
  <2>2. log' \in Seq(Record) /\ rotten' \subseteq 1..Len(log') /\ strays' \in [Holder -> Nat]
    BY <1>4, <2>1 DEF HomeInv, TypeOK
  <2>3. synced' \in 0..Len(log')
    BY <1>1, <2>1 DEF HomeInv, TypeOK
  <2>4. GaplessLog' /\ AckedKept'
    BY <1>1, <2>1 DEF HomeInv, GaplessLog, AckedKept
  <2>5. Writing(p)
    BY <1>4, Checked
  <2> QED BY <1>1, <1>2, <2>1, <2>2, <2>3, <2>4, <2>5, LeaveStep
<1>5. CASE /\ l[p].checked /\ UNCHANGED tornAt
           /\ \E e \in Due(p) : \E n \in Lengths[e.type] : WriteLine(p, e, n)
  <2>e. PICK e \in Due(p) : \E n \in Lengths[e.type] : WriteLine(p, e, n)
    BY <1>5
  <2>1. PICK n \in Lengths[e.type] : WriteLine(p, e, n)
    BY <2>e
  <2>2. Writing(p)
    BY <1>5, Checked
  <2> QED BY <1>1, <1>2, <1>5, <2>1, <2>2, Unsynced, LeaveStep
<1> QED BY <1>3, <1>4, <1>5 DEF Crash

LEMMA PowerLossStep == ASSUME HomeInv, PowerLoss PROVE HomeInv'
<1>1. UNCHANGED <<synced, copies, logAt, lockAt, opens, appends, rots, tampers, acked, strays,
                  astray>>
  BY DEF PowerLoss
<1>2. PICK n \in synced..Len(log) :
        /\ log' = FirstLines(log, n) /\ rotten' = rotten \cap 1..n
        /\ \E t \in TailsAfter(n) : tail' = t[1] /\ bytes' = t[2]
        /\ tornAt' = IF tail' = 0 THEN tornAt ELSE tornAt \cup {n + 1}
  BY DEF PowerLoss
<1>3. /\ log \in Seq(Record) /\ rotten \subseteq 1..Len(log) /\ tail \in 0..MaxOpens
      /\ Len(log) \in Nat /\ synced \in Nat /\ synced <= Len(log)
  BY FileTypes DEF HomeInv
<1>4. n \in Nat /\ synced <= n /\ n <= Len(log)
  BY <1>2, <1>3
<1>5. /\ log' \in Seq(Record) /\ Len(log') = n /\ \A i \in 1..n : log'[i] = log[i]
      /\ bytes' \in Nat /\ tail' \in 0..MaxOpens /\ Measured'
  <2>1. \A p \in Proc : l[p].checked => pc[p] \in Appending /\ l[p].inc \in Holder
    BY Checked
  <2>2. n \in 0..Len(log)
    BY <1>3, <1>4
  <2> QED BY <2>1, <2>2, <1>2, LinesLeft DEF HomeInv
<1>6. rotten' \subseteq 1..Len(log') /\ synced' \in 0..Len(log')
  BY <1>1, <1>2, <1>3, <1>4, <1>5
<1>8. tornAt' \subseteq Nat
  <2>1. tornAt \subseteq Nat
    BY DEF HomeInv, TypeOK
  <2> QED BY <2>1, <1>2, <1>4
<1>9. content' \in [LockFile -> 0..MaxOpens]
  <2>1. content \in [LockFile -> 0..MaxOpens] /\ opens \in 0..MaxOpens
    BY DEF HomeInv, TypeOK
  <2>2. PICK k \in 0..opens :
          content' = IF lockAt = 0 THEN content ELSE [content EXCEPT ![lockAt] = k]
    BY DEF PowerLoss
  <2>3. k \in 0..MaxOpens
    BY <2>1, Bounds
  <2> QED BY <2>1, <2>2, <2>3
<1>10. powers' \in 0..MaxPower
  <2>1. powers \in 0..MaxPower /\ powers < MaxPower /\ powers' = powers + 1
    BY DEF HomeInv, TypeOK, PowerLoss
  <2> QED BY <2>1, Bounds
<1>11. /\ pc' = [p \in Proc |-> "out"] /\ l' = [p \in Proc |-> NoLog]
       /\ flock' = [k \in LockFile |-> NoProc]
       /\ fate' = [k \in Holder |-> IF fate[k] = "running" THEN "died" ELSE fate[k]]
  BY DEF PowerLoss
<1>12. pc' \in [Proc -> Steps] /\ l' \in [Proc -> Log]
       /\ flock' \in [LockFile -> Proc \cup {NoProc}]
  <2>1. "out" \in Steps
    BY DEF Steps
  <2> QED BY <2>1, <1>11, NoLogTyped
<1>13. fate' \in [Holder -> {"none", "running", "died", "failed", "closed", "closed in error"}]
  <2>1. fate \in [Holder -> {"none", "running", "died", "failed", "closed", "closed in error"}]
    BY DEF HomeInv, TypeOK
  <2> QED BY <2>1, <1>11
<1>14. TypeOK'
  <2>1. /\ copies' \subseteq 0..MaxOpens /\ logAt' \in Nat /\ lockAt' \in 0..(MaxTamper + 1)
        /\ opens' \in 0..MaxOpens /\ appends' \in 0..MaxAppends /\ rots' \in 0..MaxRot
        /\ tampers' \in 0..MaxTamper /\ acked' \subseteq Record /\ strays' \in [Holder -> Nat]
        /\ astray' \in Nat
    BY <1>1 DEF HomeInv, TypeOK
  <2> QED BY <2>1, <1>5, <1>6, <1>8, <1>9, <1>10, <1>12, <1>13 DEF TypeOK
<1>15. \A p \in Proc : pc'[p] = "out" /\ ~l'[p].checked /\ ~l'[p].broken
  <2>1. ~NoLog.checked /\ ~NoLog.broken
    BY DEF NoLog
  <2>2. \A p \in Proc : pc'[p] = "out" /\ l'[p] = NoLog
    BY <1>11
  <2> QED BY <2>1, <2>2
<1>16. Identity'
  <2>1. tampers' = 0
    BY <1>1 DEF HomeInv, Identity
  <2> QED BY <2>1, <1>15 DEF Identity, IdentityOf, Writing, Loaded
<1>17. Elected'
  BY <1>11, <1>15, Bounds DEF Elected, Writing
<1>18. Follows'
  BY <1>15 DEF Follows, FollowsOf, Loaded, Writing
<1>19. GaplessLog'
  <2>1. \A i \in 1..Len(log') : i \in 1..Len(log) /\ log'[i] = log[i]
    BY <1>3, <1>4, <1>5
  <2> QED BY <2>1 DEF HomeInv, GaplessLog
<1>20. AckedKept'
  <2> SUFFICES ASSUME NEW a \in acked PROVE a.seq \in 1..synced /\ log'[a.seq] = a
    BY <1>1 DEF AckedKept
  <2>1. a.seq \in 1..synced /\ log[a.seq] = a
    BY DEF HomeInv, AckedKept
  <2> QED BY <2>1, <1>3, <1>4, <1>5
<1> QED BY <1>5, <1>14, <1>16, <1>17, <1>18, <1>19, <1>20 DEF HomeInv

LEMMA RotStep == ASSUME HomeInv, NEW i \in 1..Len(log), Rot(i) PROVE HomeInv'
<1>1. UNCHANGED <<log, bytes, tail, synced, copies, logAt, lockAt, content, flock, pc, l,
                  opens, appends, powers, tampers, fate, acked, strays, astray, tornAt>>
  BY DEF Rot, lockVars, histVars
<1>2. rots' \in 0..MaxRot
  <2>1. rots \in 0..MaxRot /\ rots < MaxRot /\ rots' = rots + 1
    BY DEF HomeInv, TypeOK, Rot
  <2> QED BY <2>1, Bounds
<1>3. rotten' \subseteq 1..Len(log)
  <2>1. rotten \subseteq 1..Len(log) /\ rotten' = rotten \cup {i}
    BY DEF HomeInv, TypeOK, Rot
  <2> QED BY <2>1
<1>4. TypeOK'
  BY <1>1, <1>2, <1>3 DEF HomeInv, TypeOK
<1>5. Identity' /\ Elected' /\ Follows'
  BY <1>1 DEF HomeInv, Identity, IdentityOf, Elected, Follows, FollowsOf, Writing, Loaded, End
<1> QED BY <1>1, <1>4, <1>5, FileSame DEF HomeInv

-----------------------------------------------------------------------------
(* The invariant *)

LEMMA StutterStep == ASSUME HomeInv, UNCHANGED vars PROVE HomeInv'
<1>1. UNCHANGED <<log, rotten, bytes, tail, synced, copies, logAt, lockAt, content, flock, pc, l,
                  opens, appends, rots, powers, tampers, fate, acked, strays, astray, tornAt>>
  BY DEF vars, fileVars, lockVars, countVars, histVars
<1>2. TypeOK'
  BY <1>1 DEF HomeInv, TypeOK
<1>3. Identity' /\ Elected' /\ Follows'
  BY <1>1 DEF HomeInv, Identity, IdentityOf, Elected, Follows, FollowsOf, Writing, Loaded, End
<1> QED BY <1>1, <1>2, <1>3, FileSame DEF HomeInv

LEMMA NextInv == HomeInv /\ [Next]_vars => HomeInv'
<1> SUFFICES ASSUME HomeInv, [Next]_vars PROVE HomeInv'
  OBVIOUS
<1>1. ASSUME NEW p \in Proc, Calling(p) PROVE HomeInv'
  BY <1>1, OpenLockFileStep, CallAppendStep, CallCloseStep DEF Calling
<1>2. ASSUME NEW p \in Proc, Working(p) PROVE HomeInv'
  BY <1>2, TakeLockStep, RefuseSecondStep, StampStep, LoadStep1, CopyTornStep, CutTornStep,
     OpenFailsStep, CheckOwnedStep, RefuseEntryStep, WriteStep, FindNotOwnedStep,
     WriteFailsStep, SyncFailsStep, EmptyLockStep, ReleaseLockStep DEF Working
<1>3. ASSUME NEW p \in Proc, Crash(p) PROVE HomeInv'
  BY <1>3, CrashStep
<1> QED BY <1>1, <1>2, <1>3, PowerLossStep, RotStep, StutterStep DEF Next

LEMMA Invariance == Spec => []HomeInv
<1> QED BY InitInv, NextInv, PTL DEF Spec

\* Every variable keeps to its type: the counters to their bounds, the holders to their numbers.
THEOREM HomeTypes == Spec => []TypeOK
<1>1. HomeInv => TypeOK
  BY DEF HomeInv
<1> QED BY <1>1, Invariance, PTL

\* Whatever processes race, die and fail, the log has no gap and no seq twice.
THEOREM HomeGapless == Spec => []GaplessLog
<1>1. HomeInv => GaplessLog
  BY DEF HomeInv
<1> QED BY <1>1, Invariance, PTL

\* What a synced append acknowledged is on the log as it was written, for ever after.
THEOREM HomeKeepsAcked == Spec => []AckedKept
<1>1. HomeInv => AckedKept
  BY DEF HomeInv
<1> QED BY <1>1, Invariance, PTL

-----------------------------------------------------------------------------
(* The home implements EventLog *)

\* The writer, when there is one, is the owner.
OwnerFacts ==
  /\ \A p \in Proc : Writing(p) => Owner = p
  /\ (\A p \in Proc : ~Writing(p)) => Owner = NoProc

LEMMA OwnerIs == HomeInv => OwnerFacts
<1> SUFFICES ASSUME HomeInv PROVE OwnerFacts
  OBVIOUS
<1>1. ASSUME NEW p \in Proc, Writing(p) PROVE Owner = p
  <2>1. lockAt \in LockFile
    BY <1>1 DEF HomeInv, Identity, IdentityOf, Writing
  <2>2. flock[lockAt] = p
    BY <1>1, <2>1 DEF HomeInv, Elected
  <2> QED BY <2>1, <2>2 DEF Owner, LockFile
<1>2. ASSUME \A p \in Proc : ~Writing(p), lockAt # 0 PROVE Owner = NoProc
  <2>1. lockAt \in LockFile
    <3>1. lockAt \in 0..(MaxTamper + 1)
      BY DEF HomeInv, TypeOK
    <3> QED BY <3>1, <1>2, Bounds DEF LockFile
  <2>2. flock[lockAt] \in Proc \cup {NoProc}
    BY <2>1 DEF HomeInv, TypeOK
  <2>3. \A p \in Proc : flock[lockAt] # p
    BY <2>1, <1>2 DEF HomeInv, Elected
  <2> QED BY <2>2, <2>3, <1>2 DEF Owner
<1> QED BY <1>1, <1>2 DEF OwnerFacts, Owner

LEMMA OwnerIsAfter == HomeInv' => OwnerFacts'
<1> QED BY OwnerIs, PTL

\* After a step of the writer, the owner is the writer still or nobody.
LEMMA OwnerAfter ==
  ASSUME HomeInv, HomeInv', NEW p \in Proc, Writing(p), \A q \in Proc \ {p} : pc'[q] = pc[q]
  PROVE  Owner = p /\ Owner' \in {p, NoProc} /\ (Writing(p)' => Owner' = p)
<1>1. Owner = p
  BY OwnerIs DEF OwnerFacts
<1>2. \A q \in Proc \ {p} : ~Writing(q)'
  <2>1. \A q \in Proc \ {p} : ~Writing(q)
    BY OneWriter
  <2> QED BY <2>1 DEF Writing
<1>3. CASE Writing(p)'
  BY <1>1, <1>3, OwnerIsAfter DEF OwnerFacts
<1>4. CASE ~Writing(p)'
  <2>1. \A q \in Proc : ~Writing(q)'
    BY <1>2, <1>4
  <2> QED BY <2>1, <1>1, <1>4, OwnerIsAfter DEF OwnerFacts
<1> QED BY <1>3, <1>4

\* A step of the writer that leaves the lines as they are maps to a stutter or a Release.
LEMMA WriterQuiet ==
  ASSUME HomeInv, HomeInv', NEW p \in Proc, Writing(p), \A q \in Proc \ {p} : pc'[q] = pc[q],
         log' = log, synced' = synced
  PROVE  [Promise!Next]_(Promise!vars)
<1> QED BY OwnerAfter DEF Promise!Next, Promise!Release, Promise!vars

\* A step of a process that is no writer before it or after it maps to a stutter.
LEMMA OthersQuiet ==
  ASSUME HomeInv, HomeInv', NEW p \in Proc, ~Writing(p), ~Writing(p)',
         \A q \in Proc \ {p} : pc'[q] = pc[q], log' = log, synced' = synced
  PROVE  [Promise!Next]_(Promise!vars)
<1>1. \A q \in Proc : Writing(q)' <=> Writing(q)
  BY DEF Writing
<1>2. Owner' = Owner
  BY <1>1, OwnerIs, OwnerIsAfter DEF OwnerFacts
<1> QED BY <1>2 DEF Promise!vars

\* A step of the writer that writes its line maps to an Emit.
LEMMA WriterEmits ==
  ASSUME HomeInv, HomeInv', NEW p \in Proc, Writing(p), \A q \in Proc \ {p} : pc'[q] = pc[q],
         l[p].checked, NEW e \in Due(p), NEW n \in Lengths[e.type], WriteLine(p, e, n),
         synced' \in {synced, Len(log')}
  PROVE  [Promise!Next]_(Promise!vars)
<1>1. /\ log' = Append(log, NewLine(p, e, n)) /\ Len(log') = Len(log) + 1
      /\ log'[Len(log')] = NewLine(p, e, n) /\ NewLine(p, e, n).seq = Len(log) + 1
  BY LineWritten
<1>2. Owner = p /\ Owner' \in {Owner, NoProc} /\ Owner # NoProc
  BY OwnerAfter, Bounds
<1>3. Promise!Emit
  BY <1>1, <1>2 DEF Promise!Emit
<1> QED BY <1>3 DEF Promise!Next

LEMMA Others ==
  ASSUME HomeInv, NEW p \in Proc, NEW s, Goto(p, s)
  PROVE  \A q \in Proc \ {p} : pc'[q] = pc[q]
<1> QED BY DEF Goto, HomeInv, TypeOK

\* What a process is doing when its action is enabled, and what the action leaves alone.
LEMMA CallingMaps ==
  ASSUME HomeInv, HomeInv', NEW p \in Proc, Calling(p)
  PROVE  [Promise!Next]_(Promise!vars)
<1>1. CASE OpenLockFile(p)
  <2>1. \A q \in Proc \ {p} : pc'[q] = pc[q]
    BY <1>1, Others DEF OpenLockFile
  <2>2. pc[p] = "out" /\ pc'[p] = "try" /\ log' = log /\ synced' = synced
    BY <1>1 DEF OpenLockFile, fileVars, Goto, HomeInv, TypeOK
  <2> QED BY <2>1, <2>2, OthersQuiet DEF Writing
<1>2. CASE CallAppend(p)
  <2>1. \A q \in Proc \ {p} : pc'[q] = pc[q]
    BY <1>2, Others DEF CallAppend
  <2>2. pc[p] = "open" /\ log' = log /\ synced' = synced
    BY <1>2 DEF CallAppend, fileVars
  <2> QED BY <2>1, <2>2, WriterQuiet DEF Writing
<1>3. CASE CallClose(p)
  <2>1. \A q \in Proc \ {p} : pc'[q] = pc[q]
    BY <1>3, Others DEF CallClose
  <2>2. pc[p] = "open" /\ log' = log /\ synced' = synced
    BY <1>3 DEF CallClose, fileVars
  <2> QED BY <2>1, <2>2, WriterQuiet DEF Writing
<1> QED BY <1>1, <1>2, <1>3 DEF Calling

\* Taking the flock maps to Acquire: before it nobody was the writer.
LEMMA TakeLockMaps ==
  ASSUME HomeInv, HomeInv', NEW p \in Proc, TakeLock(p)
  PROVE  [Promise!Next]_(Promise!vars)
<1>1. pc[p] = "try" /\ flock[l[p].held] = NoProc /\ log' = log /\ synced' = synced
      /\ pc'[p] = "locked"
  BY DEF TakeLock, fileVars, Goto, HomeInv, TypeOK
<1>2. l[p].held = lockAt /\ lockAt \in LockFile
  BY <1>1 DEF HomeInv, Identity, IdentityOf
<1>3. Owner = NoProc
  BY <1>1, <1>2 DEF Owner
<1>4. Writing(p)'
  BY <1>1 DEF Writing
<1>5. Owner' = p
  BY <1>4, OwnerIsAfter DEF OwnerFacts
<1>6. Promise!Acquire
  BY <1>1, <1>3, <1>5 DEF Promise!Acquire
<1> QED BY <1>6 DEF Promise!Next

\* So does nothing else of Open; the cut of a torn tail, synced, maps to Settle.
LEMMA OpeningMaps ==
  ASSUME HomeInv, HomeInv', NEW p \in Proc,
         \/ RefuseSecond(p) \/ Stamp(p) \/ Load(p) \/ CopyTorn(p) \/ CutTorn(p) \/ OpenFails(p)
  PROVE  [Promise!Next]_(Promise!vars)
<1>1. CASE RefuseSecond(p)
  <2>1. \A q \in Proc \ {p} : pc'[q] = pc[q]
    BY <1>1, Others DEF RefuseSecond
  <2>2. pc[p] = "try" /\ pc'[p] = "out" /\ log' = log /\ synced' = synced
    BY <1>1 DEF RefuseSecond, fileVars, Goto, HomeInv, TypeOK
  <2> QED BY <2>1, <2>2, OthersQuiet DEF Writing
<1>2. CASE Stamp(p)
  <2>1. \A q \in Proc \ {p} : pc'[q] = pc[q]
    BY <1>2, Others DEF Stamp
  <2>2. pc[p] = "locked" /\ log' = log /\ synced' = synced
    BY <1>2 DEF Stamp, fileVars
  <2> QED BY <2>1, <2>2, WriterQuiet DEF Writing
<1>3. CASE Load(p)
  <2>1. \E s : Goto(p, s)
    BY <1>3 DEF Load
  <2>2. \A q \in Proc \ {p} : pc'[q] = pc[q]
    BY <2>1, Others
  <2>3. pc[p] = "stamped" /\ log' = log /\ synced' = synced
    BY <1>3 DEF Load, fileVars
  <2> QED BY <2>2, <2>3, WriterQuiet DEF Writing
<1>4. CASE CopyTorn(p)
  <2>1. \A q \in Proc \ {p} : pc'[q] = pc[q]
    BY <1>4, Others DEF CopyTorn
  <2>2. pc[p] = "copy" /\ log' = log /\ synced' = synced
    BY <1>4 DEF CopyTorn
  <2> QED BY <2>1, <2>2, WriterQuiet DEF Writing
<1>5. CASE CutTorn(p)
  <2>1. \A q \in Proc \ {p} : pc'[q] = pc[q]
    BY <1>5, Others DEF CutTorn
  <2>2. pc[p] = "cut" /\ pc'[p] = "record"
    BY <1>5 DEF CutTorn, Goto, HomeInv, TypeOK
  <2>3. log' = log
    BY <1>5, CutTornStep
  <2>4. l[p].onLog = logAt
    BY <2>2 DEF HomeInv, Identity, IdentityOf, Loaded, Writing, Locking
  <2>5. synced' = Len(log)
    BY <1>5, <2>3, <2>4 DEF CutTorn, OnFile
  <2>6. Writing(p) /\ Writing(p)'
    BY <2>2 DEF Writing
  <2>7. Owner = p /\ Owner' = p
    BY <2>1, <2>6, OwnerAfter
  <2>8. Promise!Settle
    BY <2>3, <2>5, <2>7, Bounds DEF Promise!Settle
  <2> QED BY <2>8 DEF Promise!Next
<1>6. CASE OpenFails(p)
  <2>1. \A q \in Proc \ {p} : pc'[q] = pc[q]
    BY <1>6, Others DEF OpenFails, Leave
  <2>2. Writing(p) /\ log' = log /\ synced' = synced
    BY <1>6 DEF OpenFails, fileVars, Writing, Locking, Repairing, Announcing
  <2> QED BY <2>1, <2>2, WriterQuiet
<1> QED BY <1>1, <1>2, <1>3, <1>4, <1>5, <1>6

\* An append that is no one's line yet, or fails without one.
LEMMA AppendingMaps ==
  ASSUME HomeInv, HomeInv', NEW p \in Proc,
         CheckOwned(p) \/ RefuseEntry(p) \/ FindNotOwned(p) \/ WriteFails(p)
  PROVE  [Promise!Next]_(Promise!vars)
<1>1. pc[p] \in Appending
  BY DEF CheckOwned, RefuseEntry, FindNotOwned, WriteFails, Appending
<1>2. Writing(p)
  BY <1>1 DEF Writing, Appending, Announcing
<1>3. log' = log /\ synced' = synced
  BY WriteFailsStep DEF CheckOwned, RefuseEntry, FindNotOwned, fileVars
<1>4. \A q \in Proc \ {p} : pc'[q] = pc[q]
  <2>1. pc' = pc \/ \E s : Goto(p, s)
    BY DEF CheckOwned, RefuseEntry, FindNotOwned, WriteFails, AppendFailed, Leave
  <2> QED BY <2>1, Others
<1> QED BY <1>2, <1>3, <1>4, WriterQuiet

\* A line written, by an append that returns or by one whose sync fails, maps to Emit.
LEMMA WritingMaps ==
  ASSUME HomeInv, HomeInv', NEW p \in Proc, Write(p) \/ SyncFails(p)
  PROVE  [Promise!Next]_(Promise!vars)
<1>1. pc[p] \in Appending /\ l[p].checked
  BY DEF Write, SyncFails
<1>2. Writing(p)
  BY <1>1 DEF Writing, Appending, Announcing
<1>3. \A q \in Proc \ {p} : pc'[q] = pc[q]
  <2>1. \E s : Goto(p, s)
    BY DEF Write, SyncFails, AppendFailed, Leave
  <2> QED BY <2>1, Others
<1>e. PICK e \in Due(p) : \E n \in Lengths[e.type] : WriteLine(p, e, n)
  BY DEF Write, SyncFails
<1>4. PICK n \in Lengths[e.type] : WriteLine(p, e, n)
  BY <1>e
<1>5. synced' \in {synced, Len(log')}
  BY DEF Write, SyncFails
<1> QED BY <1>1, <1>2, <1>3, <1>4, <1>5, WriterEmits

LEMMA ClosingMaps ==
  ASSUME HomeInv, HomeInv', NEW p \in Proc, EmptyLock(p) \/ ReleaseLock(p)
  PROVE  [Promise!Next]_(Promise!vars)
<1>1. Writing(p) /\ log' = log /\ synced' = synced
  BY DEF EmptyLock, ReleaseLock, fileVars, Writing
<1>2. \A q \in Proc \ {p} : pc'[q] = pc[q]
  <2>1. \E s : Goto(p, s)
    BY DEF EmptyLock, ReleaseLock, Leave
  <2> QED BY <2>1, Others
<1> QED BY <1>1, <1>2, WriterQuiet

\* A process that dies in its write may leave the line whole: an Emit whose owner is gone.
LEMMA CrashMaps ==
  ASSUME HomeInv, HomeInv', NEW p \in Proc, Crash(p)
  PROVE  [Promise!Next]_(Promise!vars)
<1>1. \A q \in Proc \ {p} : pc'[q] = pc[q]
  BY Others DEF Crash, Leave
<1>2. pc'[p] = "out" /\ synced' = synced
  BY DEF Crash, Leave, Goto, HomeInv, TypeOK
<1>3. CASE log' = log
  BY <1>1, <1>2, <1>3, WriterQuiet, OthersQuiet DEF Writing
<1>4. CASE l[p].checked /\ \E e \in Due(p) : \E n \in Lengths[e.type] : WriteLine(p, e, n)
  <2>1. Writing(p)
    BY <1>4 DEF HomeInv, Identity, IdentityOf, Writing, Appending, Announcing
  <2> QED BY <1>1, <1>2, <1>4, <2>1, WriterEmits
<1> QED BY <1>3, <1>4 DEF Crash, WriteHalf

LEMMA PowerLossMaps ==
  ASSUME HomeInv, HomeInv', PowerLoss
  PROVE  [Promise!Next]_(Promise!vars)
<1>1. synced' = synced /\ \E n \in synced..Len(log) : log' = SubSeq(log, 1, n)
  <2>1. PICK n \in synced..Len(log) : log' = FirstLines(log, n)
    BY DEF PowerLoss
  <2>2. log \in Seq(Record) /\ Len(log) \in Nat /\ synced \in Nat
    BY FileTypes DEF HomeInv
  <2>3. CASE n < Len(log)
    BY <2>1, <2>3 DEF FirstLines, PowerLoss
  <2>4. CASE n = Len(log)
    <3>1. SubSeq(log, 1, Len(log)) = log
      BY <2>2
    <3> QED BY <2>1, <2>4, <3>1 DEF FirstLines, PowerLoss
  <2> QED BY <2>1, <2>2, <2>3, <2>4
<1>2. \A p \in Proc : ~Writing(p)'
  BY DEF PowerLoss, Writing
<1>3. Owner' = NoProc
  BY <1>2, OwnerIsAfter DEF OwnerFacts
<1>4. Promise!Lose
  BY <1>1, <1>3 DEF Promise!Lose
<1> QED BY <1>4 DEF Promise!Next

LEMMA NextMaps == HomeInv /\ HomeInv' /\ [Next]_vars => [Promise!Next]_(Promise!vars)
<1> SUFFICES ASSUME HomeInv, HomeInv', [Next]_vars PROVE [Promise!Next]_(Promise!vars)
  OBVIOUS
<1>1. ASSUME NEW p \in Proc, Calling(p) \/ Working(p) \/ Crash(p)
      PROVE  [Promise!Next]_(Promise!vars)
  BY <1>1, CallingMaps, TakeLockMaps, OpeningMaps, AppendingMaps, WritingMaps, ClosingMaps,
     CrashMaps DEF Working
<1>2. ASSUME NEW i \in 1..Len(log), Rot(i) PROVE [Promise!Next]_(Promise!vars)
  BY <1>2 DEF Rot, lockVars, Owner, Promise!vars
<1>3. CASE UNCHANGED vars
  BY <1>3 DEF vars, fileVars, lockVars, Owner, Promise!vars
<1> QED BY <1>1, <1>2, <1>3, PowerLossMaps DEF Next

\* The home implements the log of EventLog: one writer at a time, numbers without a gap, and
\* nothing taken back but what a loss of power finds not yet synced.
THEOREM HomeImplements == Spec => ImplementsEventLog
<1>1. Init => Promise!Init
  BY DEF Init, Promise!Init, Owner
<1> QED BY <1>1, NextMaps, Invariance, PTL DEF Spec, ImplementsEventLog, Promise!Spec

=============================================================================
