--------------------------- MODULE HomeLogHolders ---------------------------
(***************************************************************************)
(* For any number of processes, takeovers, appends, rotten lines, power    *)
(* losses and tamperings: what the log of a home tells of its holders,     *)
(* what an Open repairs there, and what a holder that lost the home can    *)
(* still do to it.                                                         *)
(*                                                                         *)
(* ClosePairs and UnpairedIsUnclean rest on Ends: the writer is the last   *)
(* holder there was, and where it is in its code says which of its two     *)
(* lines are on the log, and synced.  TakeoverHonest rests on Takeovers:   *)
(* a lock file names the writer, or a holder that ended uncleanly.         *)
(*                                                                         *)
(* Repair follows the torn tail from the scan that finds it through its    *)
(* copy and its cut to the record that stands in its place.  Named follows *)
(* the bad lines: what the process still has to name is what a scan of the *)
(* file would find unnamed now.                                            *)
(*                                                                         *)
(* Nothing of HomeInv is left once home.lock or events.jsonl is touched:   *)
(* there may be several writers, and the log need not be gapless.  What is *)
(* left is StrayInv, that a lock file or a log that was lost does not come *)
(* back and that two holders are two, and ShiftInv, how far the file can   *)
(* have grown past the bytes that a holder counts.                         *)
(***************************************************************************)
EXTENDS HomeLogProofs

-----------------------------------------------------------------------------
(* How each holder ended *)

\* Where the log has the announcement of holder k, and its close.
OpensOf(k) == {i \in 1..Len(log) : log[i].type = "home.opened" /\ log[i].by = k}
ClosesOf(k) == {i \in 1..Len(log) : log[i].type = "home.closed" /\ log[i].by = k}

\* Where an Open has not announced its process, and where a Close is past its append.
Early == Locking \cup Repairing \cup Announcing
Late == {"emptying", "releasing"}

EndOf(p) ==
  /\ ~Writing(p) => l[p].inc = 0
  /\ Writing(p) =>
       /\ l[p].inc = opens
       /\ fate[opens] = "running" \/ (fate[opens] = "closed in error" /\ pc[p] = "releasing")
       /\ pc[p] \in Early => OpensOf(opens) = {}
       /\ pc[p] \notin Early => OpensOf(opens) = {l[p].opened} /\ l[p].opened <= synced
       /\ pc[p] \notin Late => ClosesOf(opens) = {}
       /\ pc[p] \in Late /\ ~l[p].broken =>
            \E i \in ClosesOf(opens) : i <= synced /\ log[i].ref = l[p].opened

Ended(k) ==
  /\ k > opens => fate[k] = "none"
  /\ fate[k] = "closed" =>
       \E o \in 1..synced, i \in ClosesOf(k) :
         OpensOf(k) = {o} /\ i <= synced /\ log[i].ref = o
  /\ fate[k] = "failed" => ClosesOf(k) = {}

KnownHolders == \A i \in 1..Len(log) : log[i].by <= opens

Ends ==
  /\ \A p \in Proc : EndOf(p)
  /\ \A k \in Holder : Ended(k)
  /\ KnownHolders /\ ClosePairs

-----------------------------------------------------------------------------
(* Parts of Ends *)

\* A loss of power leaves the first lines of the log, all that an fsync reached among them.
LEMMA LostLines ==
  ASSUME HomeInv, PowerLoss
  PROVE  \E n \in synced..Len(log) :
           /\ log' = SubSeq(log, 1, n) /\ rotten' = rotten \cap 1..n
           /\ tornAt' = IF tail' = 0 THEN tornAt ELSE tornAt \cup {n + 1}
<1>1. PICK n \in synced..Len(log) :
        /\ log' = FirstLines(log, n) /\ rotten' = rotten \cap 1..n
        /\ \E t \in TailsAfter(n) : tail' = t[1] /\ bytes' = t[2]
        /\ tornAt' = IF tail' = 0 THEN tornAt ELSE tornAt \cup {n + 1}
  BY DEF PowerLoss
<1>2. n \in 0..Len(log)
  BY FileTypes DEF HomeInv
<1>3. \A p \in Proc : l[p].checked => pc[p] \in Appending /\ l[p].inc \in Holder
  BY Checked
<1>4. log' = SubSeq(log, 1, n)
  BY <1>1, <1>2, <1>3, LinesLeft DEF HomeInv
<1> QED BY <1>1, <1>4

\* Which line a process that comes to its write is about to write.
LEMMA DueSays ==
  ASSUME NEW p \in Proc, pc[p] \in Appending, NEW e \in Due(p)
  PROVE  /\ e.type = "home.opened" <=> pc[p] = "announce"
         /\ e.type = "home.closed" <=> pc[p] = "closing"
         /\ e.type = "home.lock_taken" <=> pc[p] = "takeover"
         /\ e.type = "log.repaired" <=> pc[p] = "record"
         /\ e.type = "log.quarantined" <=> pc[p] = "quarantine"
         /\ pc[p] = "closing" => e.ref = l[p].opened
         /\ pc[p] = "takeover" => e.ref = l[p].stale
         /\ pc[p] = "record" => e.ref = l[p].torn
         /\ pc[p] = "quarantine" => e.ref \in l[p].bad
<1> QED BY DEF Due, ClosingEntry, Say, Appending, Announcing

LEMMA EndTypes ==
  ASSUME TypeOK
  PROVE  /\ opens \in Nat /\ \A k \in Holder : k \in Nat
         /\ \A p \in Proc : l[p].opened \in Nat
         /\ \A i \in 1..Len(log) : log[i].by \in Nat
<1>1. opens \in Nat
  <2>1. opens \in 0..MaxOpens
    BY DEF TypeOK
  <2> QED BY <2>1, Bounds
<1>2. \A p \in Proc : l[p].opened \in Nat
  BY ProcTypes DEF Log
<1>3. \A k \in Holder : k \in Nat
  BY Bounds DEF Holder
<1>4. \A i \in 1..Len(log) : log[i].by \in Nat
  <2>1. \A i \in 1..Len(log) : log[i] \in Record
    BY FileTypes
  <2> QED BY <2>1, <1>3 DEF Record
<1> QED BY <1>1, <1>2, <1>3, <1>4

\* A step that touches neither the log nor any holder's end keeps Ends when it does so for the
\* process that takes it.
LEMMA EndsSame ==
  ASSUME HomeInv, Ends, NEW p \in Proc, Alone(p), EndOf(p)',
         UNCHANGED <<log, opens, fate>>, synced' \in Nat, synced' >= synced
  PROVE  Ends'
<1>1. synced \in Nat /\ opens \in Nat /\ \A q \in Proc : l[q].opened \in Nat
  BY FileTypes, EndTypes DEF HomeInv
<1>2. \A k : OpensOf(k)' = OpensOf(k) /\ ClosesOf(k)' = ClosesOf(k)
  BY DEF OpensOf, ClosesOf
<1>3. OpensOf(opens)' = OpensOf(opens) /\ ClosesOf(opens)' = ClosesOf(opens)
  BY DEF OpensOf, ClosesOf
<1>4. \A k : ClosesOf(k) \subseteq 1..Len(log)
  BY DEF ClosesOf
<1>5. Len(log) \in Nat
  BY FileTypes DEF HomeInv
<1>6. ASSUME NEW q \in Proc \ {p} PROVE EndOf(q)'
  <2>1. EndOf(q) /\ pc'[q] = pc[q] /\ l'[q] = l[q]
    BY <1>6 DEF Ends, Alone
  <2>2. ASSUME NEW i \in ClosesOf(opens), i <= synced PROVE i <= synced'
    BY <2>2, <1>1, <1>4, <1>5
  <2>3. Writing(q)' <=> Writing(q)
    BY <2>1 DEF Writing
  <2>4. l[q].opened <= synced => l[q].opened <= synced'
    BY <1>1
  <2> QED BY <2>1, <2>2, <2>3, <2>4, <1>3 DEF EndOf
<1>7. ASSUME NEW k \in Holder PROVE Ended(k)'
  <2>1. ASSUME fate[k] = "closed"
        PROVE  \E o \in 1..synced', i \in ClosesOf(k)' :
                 OpensOf(k)' = {o} /\ i <= synced' /\ log'[i].ref = o
    <3>1. PICK o \in 1..synced, i \in ClosesOf(k) :
                 OpensOf(k) = {o} /\ i <= synced /\ log[i].ref = o
      BY <2>1 DEF Ends, Ended
    <3>2. o \in 1..synced' /\ i <= synced'
      BY <3>1, <1>1, <1>4, <1>5
    <3> QED BY <3>1, <3>2, <1>2
  <2> QED BY <2>1, <1>2 DEF Ends, Ended
<1>8. KnownHolders' /\ ClosePairs'
  BY DEF Ends, KnownHolders, ClosePairs
<1> QED BY <1>6, <1>7, <1>8 DEF Ends

\* So does a writer's walk through its code that passes no append.
LEMMA EndsWalk ==
  ASSUME HomeInv, Ends, NEW p \in Proc, Alone(p), Writing(p), Writing(p)',
         UNCHANGED <<log, opens, fate>>, synced' \in Nat, synced' >= synced,
         l'[p].inc = l[p].inc, l'[p].opened = l[p].opened,
         pc'[p] \in Early <=> pc[p] \in Early,
         pc[p] \notin Late, pc'[p] \in Late => pc'[p] = "emptying" /\ l'[p].broken
  PROVE  Ends'
<1>1. synced \in Nat /\ l[p].opened \in Nat
  BY FileTypes, EndTypes DEF HomeInv
<1>2. OpensOf(opens)' = OpensOf(opens) /\ ClosesOf(opens)' = ClosesOf(opens)
  BY DEF OpensOf, ClosesOf
<1>3. EndOf(p)
  BY DEF Ends
<1>4. l[p].opened <= synced => l[p].opened <= synced'
  BY <1>1
<1>5. EndOf(p)'
  BY <1>2, <1>3, <1>4 DEF EndOf, Late
<1> QED BY <1>5, EndsSame

\* What a line written does to the lines of each holder.
LEMMA LineEnds ==
  ASSUME HomeInv, Ends, NEW p \in Proc, l[p].checked, NEW e \in Due(p),
         NEW len \in Lengths[e.type], WriteLine(p, e, len),
         opens' = opens
  PROVE  /\ \A k \in Holder \ {opens} :
              OpensOf(k)' = OpensOf(k) /\ ClosesOf(k)' = ClosesOf(k)
         /\ pc[p] = "announce" => OpensOf(opens)' = {Len(log) + 1}
         /\ pc[p] # "announce" => OpensOf(opens)' = OpensOf(opens)
         /\ pc[p] = "closing" => /\ ClosesOf(opens)' = {Len(log) + 1}
                                 /\ log'[Len(log) + 1].ref = l[p].opened
         /\ pc[p] # "closing" => ClosesOf(opens)' = {}
         /\ KnownHolders' /\ ClosePairs'
<1> DEFINE n == Len(log) + 1
<1>1. /\ pc[p] \in Appending /\ Writing(p) /\ l[p].inc \in Holder
  BY Checked
<1>2. /\ log \in Seq(Record) /\ Len(log) \in Nat /\ synced \in Nat /\ synced <= Len(log)
      /\ opens \in Nat /\ l[p].opened \in Nat
  BY FileTypes, EndTypes DEF HomeInv
<1>3. /\ Len(log') = n /\ log'[n] = NewLine(p, e, len) /\ \A i \in 1..Len(log) : log'[i] = log[i]
  BY LineWritten
<1>4. /\ log'[n].type = e.type /\ log'[n].ref = e.ref /\ log'[n].by = l[p].inc
  BY <1>3 DEF NewLine
<1>5. EndOf(p) /\ l[p].inc = opens /\ pc[p] \notin Late /\ ClosesOf(opens) = {}
  BY <1>1 DEF Ends, EndOf, Late, Appending, Announcing
<1>6. \A i : i \in 1..n <=> i \in 1..Len(log) \/ i = n
  BY <1>2
<1>7. \A i \in 1..Len(log) : i # n
  BY <1>2
<1>8. /\ e.type = "home.opened" <=> pc[p] = "announce"
      /\ e.type = "home.closed" <=> pc[p] = "closing"
      /\ pc[p] = "closing" => e.ref = l[p].opened
  BY <1>1, DueSays
<1> HIDE DEF n
<1>9. ASSUME NEW k \in Holder \ {opens}
      PROVE  OpensOf(k)' = OpensOf(k) /\ ClosesOf(k)' = ClosesOf(k)
  BY <1>3, <1>4, <1>5, <1>6, <1>7 DEF OpensOf, ClosesOf
<1>10. pc[p] = "announce" => OpensOf(opens)' = {n}
  <2>1. pc[p] = "announce" => OpensOf(opens) = {}
    BY <1>1, <1>5 DEF EndOf, Early, Announcing
  <2> QED BY <2>1, <1>3, <1>4, <1>5, <1>6, <1>7, <1>8 DEF OpensOf
<1>11. pc[p] # "announce" => OpensOf(opens)' = OpensOf(opens)
  BY <1>3, <1>4, <1>6, <1>7, <1>8 DEF OpensOf
<1>12. pc[p] = "closing" => ClosesOf(opens)' = {n} /\ log'[n].ref = l[p].opened
  BY <1>3, <1>4, <1>5, <1>6, <1>7, <1>8 DEF ClosesOf
<1>13. pc[p] # "closing" => ClosesOf(opens)' = {}
  BY <1>3, <1>4, <1>5, <1>6, <1>7, <1>8 DEF ClosesOf
<1>14. KnownHolders'
  BY <1>2, <1>3, <1>4, <1>5, <1>6 DEF Ends, KnownHolders
<1>15. ClosePairs'
  <2> SUFFICES ASSUME NEW i \in 1..n, log'[i].type = "home.closed"
               PROVE  /\ log'[i].ref \in 1..(i - 1)
                      /\ log'[log'[i].ref].type = "home.opened"
                      /\ log'[log'[i].ref].by = log'[i].by
                      /\ \A j \in (i + 1)..n : log'[j].by # log'[i].by
    BY <1>3 DEF ClosePairs
  <2>1. CASE i \in 1..Len(log)
    <3>1. /\ log[i].ref \in 1..(i - 1) /\ log[log[i].ref].type = "home.opened"
          /\ log[log[i].ref].by = log[i].by
          /\ \A j \in (i + 1)..Len(log) : log[j].by # log[i].by
      BY <2>1, <1>3 DEF Ends, ClosePairs
    <3>2. log[i].ref \in 1..Len(log) /\ log'[i] = log[i] /\ log'[log[i].ref] = log[log[i].ref]
      BY <2>1, <3>1, <1>2, <1>3
    <3>3. log[i].by # opens
      BY <2>1, <3>2, <1>5 DEF ClosesOf
    <3>4. \A j \in (i + 1)..n : j \in (i + 1)..Len(log) \/ j = n
      BY <1>6, <2>1
    <3>5. \A j \in (i + 1)..Len(log) : log'[j] = log[j]
      BY <2>1, <1>2, <1>3
    <3> QED BY <3>1, <3>2, <3>3, <3>4, <3>5, <1>4, <1>5
  <2>2. CASE i = n
    <3>1. pc[p] = "closing" /\ log'[n].ref = l[p].opened
      BY <2>2, <1>4, <1>8
    <3>2. OpensOf(opens) = {l[p].opened}
      BY <3>1, <1>1, <1>5 DEF EndOf, Early, Locking, Repairing, Announcing
    <3>3. /\ l[p].opened \in 1..Len(log) /\ log[l[p].opened].type = "home.opened"
          /\ log[l[p].opened].by = opens
      BY <3>2 DEF OpensOf
    <3>4. l[p].opened \in 1..(n - 1)
      BY <3>3, <1>2 DEF n
    <3>5. (n + 1)..n = {}
      BY <1>2 DEF n
    <3> QED BY <2>2, <3>1, <3>3, <3>4, <3>5, <1>3, <1>4, <1>5
  <2> QED BY <2>1, <2>2, <1>6
<1> QED BY <1>9, <1>10, <1>11, <1>12, <1>13, <1>14, <1>15 DEF n

LEMMA Between == ASSUME NEW n \in Nat, NEW m \in Nat, NEW a \in 1..n, a <= m PROVE a \in 1..m
<1> QED OBVIOUS

LEMMA NotAbove == ASSUME NEW a \in Nat PROVE ~(a > a)
<1> QED OBVIOUS

\* A Log that is gone leaves its holder's end behind it.
LEMMA EndsLeft ==
  ASSUME HomeInv, Ends, NEW p \in Proc, Writing(p),
         NEW how, how \in {"died", "failed", "closed", "closed in error"}, Leave(p, how),
         UNCHANGED <<lockAt, logAt, tampers, opens, synced>>, KnownHolders', ClosePairs',
         \A k \in Holder \ {opens} : OpensOf(k)' = OpensOf(k) /\ ClosesOf(k)' = ClosesOf(k),
         \A i \in 1..Len(log) : log'[i] = log[i],
         how = "failed" => ClosesOf(opens)' = {},
         how = "closed" => pc[p] = "releasing" /\ ~l[p].broken /\ log' = log
  PROVE  Ends'
<1>1. Alone(p) /\ pc'[p] = "out" /\ l'[p] = NoLog
  BY Left
<1>2. EndOf(p) /\ l[p].inc = opens /\ opens \in Holder
  BY DEF Ends, EndOf, HomeInv, Identity, IdentityOf
<1>3. ASSUME NEW q \in Proc PROVE EndOf(q)'
  <2>1. ~Writing(q)' /\ l'[q].inc = 0
    <3>1. CASE q = p
      <4>1. NoLog.inc = 0
        BY DEF NoLog
      <4> QED BY <3>1, <4>1, <1>1 DEF Writing
    <3>2. CASE q # p
      <4>1. ~Writing(q)
        BY <3>2, OneWriter
      <4> QED BY <3>2, <4>1, <1>1 DEF Alone, Ends, EndOf, Writing
    <3> QED BY <3>1, <3>2
  <2> QED BY <2>1 DEF EndOf
<1>4. fate' = [k \in Holder |-> IF k = opens /\ fate[k] = "running" THEN how ELSE fate[k]]
  BY <1>2 DEF Leave
<1>5. ASSUME NEW k \in Holder \ {opens} PROVE Ended(k)'
  <2>1. fate'[k] = fate[k] /\ Ended(k)
    BY <1>4, <1>5 DEF Ends
  <2>2. \A i \in ClosesOf(k) : log'[i] = log[i]
    BY DEF ClosesOf
  <2> QED BY <2>1, <2>2, <1>5 DEF Ended
<1>6. ASSUME NEW k \in Holder, k = opens PROVE Ended(k)'
  <2>1. fate[k] \in {"running", "closed in error"}
    BY <1>2, <1>6 DEF EndOf
  <2>2. fate'[k] \in {how, "closed in error"}
    BY <2>1, <1>4, <1>6
  <2>3. how = "failed" => ClosesOf(k)' = {}
    BY <1>6 DEF ClosesOf
  <2>4. ASSUME how = "closed"
        PROVE  \E o \in 1..synced', i \in ClosesOf(k)' :
                 OpensOf(k)' = {o} /\ i <= synced' /\ log'[i].ref = o
    <3>1. /\ OpensOf(k) = {l[p].opened} /\ l[p].opened <= synced
          /\ \E i \in ClosesOf(k) : i <= synced /\ log[i].ref = l[p].opened
      BY <2>4, <1>2, <1>6 DEF EndOf, Early, Late, Locking, Repairing, Announcing
    <3>2. l[p].opened \in OpensOf(k)
      BY <3>1
    <3>3. l[p].opened \in 1..Len(log) /\ synced \in Nat /\ Len(log) \in Nat
      BY <3>2, FileTypes DEF OpensOf, HomeInv
    <3>4. l[p].opened \in 1..synced
      <4>1. l[p].opened <= synced
        BY <3>1
      <4> QED BY <4>1, <3>3, Between
    <3>5. OpensOf(k)' = OpensOf(k) /\ ClosesOf(k)' = ClosesOf(k) /\ log' = log
      BY <2>4 DEF OpensOf, ClosesOf
    <3> QED BY <3>1, <3>4, <3>5
  <2>5. ~(k > opens')
    <3>1. opens \in Nat /\ opens' = opens
      BY EndTypes DEF HomeInv
    <3> QED BY <3>1, <1>6, NotAbove
  <2> QED BY <2>2, <2>3, <2>4, <2>5 DEF Ended
<1>7. \A k \in Holder : Ended(k)'
  BY <1>5, <1>6
<1> QED BY <1>3, <1>7 DEF Ends

-----------------------------------------------------------------------------
(* The steps keep Ends *)

LEMMA EndsInit == Init => Ends
<1> SUFFICES ASSUME Init PROVE Ends
  OBVIOUS
<1>1. NoLog.inc = 0
  BY DEF NoLog
<1>2. \A p \in Proc : EndOf(p)
  BY <1>1 DEF Init, EndOf, Writing
<1>3. \A k \in Holder : Ended(k)
  BY DEF Init, Ended
<1>4. KnownHolders /\ ClosePairs
  BY DEF Init, KnownHolders, ClosePairs
<1> QED BY <1>2, <1>3, <1>4 DEF Ends

\* A process that has not the flock changes nothing Ends speaks of.
LEMMA EndsIdle ==
  ASSUME HomeInv, Ends, NEW p \in Proc, OpenLockFile(p) \/ RefuseSecond(p)
  PROVE  Ends'
<1>1. pc \in [Proc -> Steps] /\ l \in [Proc -> Log] /\ NoLog.inc = 0
  BY ProcTypes DEF HomeInv, NoLog
<1>2. ~Writing(p) /\ pc'[p] \in {"out", "try"} /\ \A q \in Proc \ {p} : pc'[q] = pc[q]
  BY <1>1 DEF OpenLockFile, RefuseSecond, Goto, Writing
<1>3. l[p].inc = 0
  BY <1>2 DEF Ends, EndOf
<1>4. l'[p].inc = 0 /\ \A q \in Proc \ {p} : l'[q] = l[q]
  BY <1>1, <1>3 DEF OpenLockFile, RefuseSecond, Log
<1>5. Alone(p) /\ EndOf(p)'
  BY <1>2, <1>4 DEF Alone, EndOf, Writing
<1>6. UNCHANGED <<log, opens, fate, synced>>
  BY DEF OpenLockFile, RefuseSecond, fileVars, countVars, histVars
<1>7. synced' \in Nat /\ synced' >= synced
  BY <1>6, FileTypes DEF HomeInv
<1> QED BY <1>5, <1>6, <1>7, EndsSame

\* Nobody has the flock a process takes.
LEMMA NoneWriting ==
  ASSUME HomeInv, NEW p \in Proc, TakeLock(p) PROVE \A q \in Proc : ~Writing(q)
<1>1. l[p].held = lockAt /\ lockAt \in LockFile /\ flock[lockAt] = NoProc
  BY DEF HomeInv, Identity, IdentityOf, TakeLock
<1> QED BY <1>1, Bounds DEF HomeInv, Elected

LEMMA EndsTakeLock == ASSUME HomeInv, Ends, NEW p \in Proc, TakeLock(p) PROVE Ends'
<1>1. pc \in [Proc -> Steps] /\ l \in [Proc -> Log]
  BY ProcTypes DEF HomeInv
<1>2. opens + 1 \in Holder /\ opens' = opens + 1 /\ UNCHANGED <<log, synced>>
  <2>1. opens \in Nat /\ opens < MaxOpens /\ opens' = opens + 1 /\ UNCHANGED <<log, synced>>
    BY EndTypes DEF HomeInv, TakeLock, fileVars
  <2> QED BY <2>1, Bounds DEF Holder
<1>3. pc'[p] = "locked" /\ \A q \in Proc \ {p} : pc'[q] = pc[q]
  BY <1>1 DEF TakeLock, Goto
<1>4. l'[p].inc = opens + 1 /\ \A q \in Proc \ {p} : l'[q] = l[q]
  BY <1>1 DEF TakeLock, Log
<1>5. fate'[opens + 1] = "running" /\ \A k \in Holder \ {opens + 1} : fate'[k] = fate[k]
  <2>1. fate \in [Holder -> {"none", "running", "died", "failed", "closed", "closed in error"}]
    BY DEF HomeInv, TypeOK
  <2> QED BY <2>1, <1>2 DEF TakeLock
<1>6. \A i \in 1..Len(log) : log[i].by # opens + 1 /\ log[i].by <= opens + 1
  <2>1. opens \in Nat /\ \A i \in 1..Len(log) : log[i].by \in Nat /\ log[i].by <= opens
    BY EndTypes DEF HomeInv, Ends, KnownHolders
  <2> QED BY <2>1
<1>7. OpensOf(opens)' = {} /\ ClosesOf(opens)' = {}
  BY <1>2, <1>6 DEF OpensOf, ClosesOf
<1>8. ASSUME NEW q \in Proc PROVE EndOf(q)'
  <2>1. CASE q = p
    BY <2>1, <1>2, <1>3, <1>4, <1>5, <1>7 DEF EndOf, Writing, Early, Late, Locking
  <2>2. CASE q # p
    BY <2>2, <1>3, <1>4, NoneWriting DEF Ends, EndOf, Writing
  <2> QED BY <2>1, <2>2
<1>9. ASSUME NEW k \in Holder PROVE Ended(k)'
  <2>1. CASE k = opens + 1
    <3>1. ~(k > opens')
      BY <2>1, <1>2, NotAbove DEF Holder
    <3> QED BY <3>1, <2>1, <1>5 DEF Ended
  <2>2. CASE k # opens + 1
    <3>1. fate'[k] = fate[k] /\ Ended(k)
      BY <2>2, <1>5 DEF Ends
    <3>2. k > opens' => k > opens
      <4>1. opens \in Nat /\ k \in Nat
        BY EndTypes DEF HomeInv
      <4> QED BY <4>1, <1>2
    <3> QED BY <3>1, <3>2, <1>2 DEF Ended, OpensOf, ClosesOf
  <2> QED BY <2>1, <2>2
<1>10. KnownHolders' /\ ClosePairs'
  BY <1>2, <1>6 DEF Ends, KnownHolders, ClosePairs
<1> QED BY <1>8, <1>9, <1>10 DEF Ends

\* The steps that walk a writer through Open, and to its appends and its close.
LEMMA EndsOpening ==
  ASSUME HomeInv, Ends, NEW p \in Proc, Stamp(p) \/ Load(p) \/ CopyTorn(p) \/ CutTorn(p)
  PROVE  Ends'
<1>1. pc \in [Proc -> Steps] /\ l \in [Proc -> Log]
  BY ProcTypes DEF HomeInv
<1>2. pc[p] \in Locking \cup Repairing
  BY DEF Stamp, Load, CopyTorn, CutTorn, Locking, Repairing
<1>3. /\ pc'[p] \in {"stamped"} \cup Repairing \cup Announcing
      /\ \A q \in Proc \ {p} : pc'[q] = pc[q]
  BY <1>1 DEF Stamp, Load, CopyTorn, CutTorn, Goto, LoadStep, Repairing, Announcing
<1>4. /\ l'[p].inc = l[p].inc /\ l'[p].opened = l[p].opened
      /\ \A q \in Proc \ {p} : l'[q] = l[q]
  BY <1>1 DEF Stamp, Load, CopyTorn, CutTorn, lockVars, Log
<1>5. log' = log
  BY CutTornStep DEF Stamp, Load, CopyTorn, fileVars
<1>6. UNCHANGED <<opens, fate>>
  BY DEF Stamp, Load, CopyTorn, CutTorn, countVars, histVars
<1>7. synced' \in Nat /\ synced' >= synced
  <2>1. synced \in Nat /\ Len(log) \in Nat /\ synced <= Len(log)
    BY FileTypes DEF HomeInv
  <2>2. synced' \in {synced, Len(log)}
    BY <1>5 DEF Stamp, Load, CopyTorn, CutTorn, fileVars
  <2> QED BY <2>1, <2>2
<1>8. Writing(p) /\ Writing(p)' /\ pc[p] \notin Late /\ pc'[p] \notin Late
      /\ pc[p] \in Early /\ pc'[p] \in Early
  BY <1>2, <1>3 DEF Writing, Late, Early, Locking, Repairing, Announcing
<1>9. Alone(p)
  BY <1>3, <1>4 DEF Alone
<1> QED BY <1>4, <1>5, <1>6, <1>7, <1>8, <1>9, EndsWalk

LEMMA EndsCalling ==
  ASSUME HomeInv, Ends, NEW p \in Proc,
         CallAppend(p) \/ CallClose(p) \/ CheckOwned(p) \/ RefuseEntry(p)
  PROVE  Ends'
<1>1. pc \in [Proc -> Steps] /\ l \in [Proc -> Log]
  BY ProcTypes DEF HomeInv
<1>2. /\ l'[p].inc = l[p].inc /\ l'[p].opened = l[p].opened /\ l'[p].broken = l[p].broken
      /\ \A q \in Proc \ {p} : l'[q] = l[q]
  BY <1>1 DEF CallAppend, CallClose, CheckOwned, RefuseEntry, Log
<1>3. /\ \/ pc[p] \in Appending /\ pc'[p] = pc[p]
         \/ pc[p] \in {"open", "append"} /\ pc'[p] \in {"open", "append", "closing"}
         \/ pc[p] = "open" /\ pc'[p] = "emptying" /\ l[p].broken
      /\ \A q \in Proc \ {p} : pc'[q] = pc[q]
  BY <1>1 DEF CallAppend, CallClose, CheckOwned, RefuseEntry, Goto
<1>4. UNCHANGED <<log, opens, fate, synced>>
  BY DEF CallAppend, CallClose, CheckOwned, RefuseEntry, fileVars, countVars, histVars
<1>5. synced' \in Nat /\ synced' >= synced
  BY <1>4, FileTypes DEF HomeInv
<1>6. Writing(p) /\ Writing(p)' /\ pc[p] \notin Late /\ (pc'[p] \in Early <=> pc[p] \in Early)
      /\ (pc'[p] \in Late => pc'[p] = "emptying" /\ l'[p].broken)
  BY <1>2, <1>3 DEF Writing, Late, Early, Appending, Locking, Repairing, Announcing
<1>7. Alone(p)
  BY <1>2, <1>3 DEF Alone
<1> QED BY <1>2, <1>4, <1>5, <1>6, <1>7, EndsWalk

\* A process in its append owns the home: nobody touches its files but foliot.
LEMMA AlwaysOwned ==
  ASSUME HomeInv, NEW p \in Proc, pc[p] \in Appending PROVE Owned(p) /\ Writing(p)
<1>1. Writing(p) /\ Loaded(p) /\ pc[p] # "out"
  BY DEF Writing, Loaded, Appending, Announcing, Locking
<1> QED BY <1>1 DEF HomeInv, Identity, IdentityOf, Owned

\* A failed append that left its Log, broken, to a caller or to Close.
LEMMA EndsBroken ==
  ASSUME HomeInv, Ends, NEW p \in Proc, pc[p] \in {"append", "closing"}, AppendFailed(p),
         opens' = opens
  PROVE  /\ Alone(p) /\ fate' = fate /\ Writing(p)' /\ l'[p].broken
         /\ l'[p].inc = opens /\ l'[p].opened = l[p].opened
         /\ pc'[p] = IF pc[p] = "closing" THEN "emptying" ELSE "open"
<1>1. pc \in [Proc -> Steps] /\ l \in [Proc -> Log]
  BY ProcTypes DEF HomeInv
<1>2. pc[p] \notin Announcing
  BY DEF Announcing
<1>3. /\ Goto(p, IF pc[p] = "closing" THEN "emptying" ELSE "open")
      /\ l' = [l EXCEPT ![p].broken = TRUE, ![p].checked = FALSE]
      /\ UNCHANGED <<flock, fate>>
  BY <1>2 DEF AppendFailed
<1>4. /\ pc'[p] = IF pc[p] = "closing" THEN "emptying" ELSE "open"
      /\ \A q \in Proc \ {p} : pc'[q] = pc[q]
  BY <1>1, <1>3 DEF Goto
<1>5. /\ l'[p].inc = l[p].inc /\ l'[p].opened = l[p].opened /\ l'[p].broken
      /\ \A q \in Proc \ {p} : l'[q] = l[q]
  BY <1>1, <1>3 DEF Log
<1>6. l[p].inc = opens
  BY DEF Ends, EndOf, Writing
<1> QED BY <1>3, <1>4, <1>5, <1>6 DEF Alone, Writing

LEMMA EndsWriteFails == ASSUME HomeInv, Ends, NEW p \in Proc, WriteFails(p) PROVE Ends'
<1>1. pc[p] \in Appending /\ l[p].checked /\ AppendFailed(p) /\ Writing(p)
      /\ UNCHANGED <<lockAt, logAt, tampers, opens>>
  BY AlwaysOwned DEF WriteFails, countVars
<1>2. log' = log /\ synced' = synced
  BY WriteFailsStep
<1>3. \A k : OpensOf(k)' = OpensOf(k) /\ ClosesOf(k)' = ClosesOf(k)
  BY <1>2 DEF OpensOf, ClosesOf
<1>4. CASE pc[p] \in Announcing
  <2>1. Leave(p, "failed")
    BY <1>1, <1>4 DEF AppendFailed, Announcing
  <2>2. ClosesOf(opens)' = {}
    <3>1. ClosesOf(opens) = {}
      BY <1>1, <1>4 DEF Ends, EndOf, Late, Announcing
    <3> QED BY <3>1, <1>1, <1>2 DEF ClosesOf
  <2>3. KnownHolders' /\ ClosePairs'
    BY <1>1, <1>2 DEF Ends, KnownHolders, ClosePairs
  <2> QED BY <2>1, <2>2, <2>3, <1>1, <1>2, <1>3, EndsLeft
<1>5. CASE pc[p] \in {"append", "closing"}
  <2>1. /\ Alone(p) /\ fate' = fate /\ Writing(p)' /\ l'[p].broken
        /\ l'[p].inc = opens /\ l'[p].opened = l[p].opened
        /\ pc'[p] = IF pc[p] = "closing" THEN "emptying" ELSE "open"
    BY <1>1, <1>5, EndsBroken
  <2>2. l[p].inc = opens
    BY <1>1 DEF Ends, EndOf
  <2>3. /\ pc[p] \notin Late /\ pc[p] \notin Early /\ pc'[p] \notin Early
        /\ (pc'[p] \in Late => pc'[p] = "emptying")
    BY <2>1, <1>5 DEF Late, Early, Locking, Repairing, Announcing
  <2>4. synced' \in Nat /\ synced' >= synced
    BY <1>2, FileTypes DEF HomeInv
  <2> QED BY <2>1, <2>2, <2>3, <2>4, <1>1, <1>2, EndsWalk
<1> QED BY <1>1, <1>4, <1>5 DEF Appending

\* What holds of the ends after the writer's line is on the log, when it holds of the writer.
LEMMA EndsWrote ==
  ASSUME HomeInv, Ends, NEW p \in Proc, l[p].checked, NEW e \in Due(p),
         NEW len \in Lengths[e.type], WriteLine(p, e, len),
         Alone(p), UNCHANGED <<opens, fate>>, synced' \in Nat, synced' >= synced, EndOf(p)'
  PROVE  Ends'
<1>1. /\ \A k \in Holder \ {opens} : OpensOf(k)' = OpensOf(k) /\ ClosesOf(k)' = ClosesOf(k)
      /\ KnownHolders' /\ ClosePairs'
  BY LineEnds
<1>2. \A i \in 1..Len(log) : log'[i] = log[i]
  BY LineWritten
<1>3. Writing(p) /\ l[p].inc = opens
  BY Checked DEF Ends, EndOf
<1>4. ASSUME NEW q \in Proc \ {p} PROVE EndOf(q)'
  <2>1. ~Writing(q)
    BY <1>3, OneWriter
  <2> QED BY <2>1 DEF Alone, Writing, Ends, EndOf
<1>5. ASSUME NEW k \in Holder \ {opens} PROVE Ended(k)'
  <2>1. ASSUME fate[k] = "closed"
        PROVE  \E o \in 1..synced', i \in ClosesOf(k)' :
                 OpensOf(k)' = {o} /\ i <= synced' /\ log'[i].ref = o
    <3>1. PICK o \in 1..synced, i \in ClosesOf(k) :
                 OpensOf(k) = {o} /\ i <= synced /\ log[i].ref = o
      BY <2>1 DEF Ends, Ended
    <3>2. i \in 1..Len(log) /\ Len(log) \in Nat /\ synced \in Nat
      BY FileTypes DEF ClosesOf, HomeInv
    <3>3. o \in 1..synced' /\ i <= synced'
      BY <3>1, <3>2
    <3> QED BY <3>1, <3>2, <3>3, <1>1, <1>2
  <2> QED BY <2>1, <1>1 DEF Ends, Ended
<1>6. ASSUME NEW k \in Holder, k = opens PROVE Ended(k)'
  <2>1. fate[k] \in {"running", "closed in error"}
    BY <1>3, <1>6 DEF Ends, EndOf
  <2>2. ~(k > opens')
    <3>1. opens \in Nat
      BY EndTypes DEF HomeInv
    <3> QED BY <3>1, <1>6, NotAbove
  <2> QED BY <2>1, <2>2 DEF Ended
<1> QED BY <1>1, <1>4, <1>5, <1>6 DEF Ends

LEMMA EndsWrite == ASSUME HomeInv, Ends, NEW p \in Proc, Write(p) PROVE Ends'
<1>1. pc[p] \in Appending /\ l[p].checked /\ UNCHANGED <<opens, fate>>
  BY DEF Write, countVars
<1> DEFINE Wrote(e, len) ==
        /\ WriteLine(p, e, len)
        /\ synced' = IF Durable(e.type) /\ OnFile(p) THEN Len(log') ELSE synced
        /\ l' = [l EXCEPT
                   ![p].seq = @ + 1, ![p].size = @ + len, ![p].checked = FALSE,
                   ![p].bad = IF pc[p] = "quarantine" THEN @ \ {e.ref} ELSE @,
                   ![p].opened = IF pc[p] = "announce" THEN l[p].seq + 1 ELSE @]
        /\ Goto(p, AfterAppend(p, e))
<1>e. PICK e \in Due(p) : \E len \in Lengths[e.type] : Wrote(e, len)
  BY DEF Write
<1>2. PICK len \in Lengths[e.type] : Wrote(e, len)
  BY <1>e
<1>3. pc \in [Proc -> Steps] /\ l \in [Proc -> Log]
  BY ProcTypes DEF HomeInv
<1>4. /\ OnFile(p) /\ Writing(p) /\ ~l[p].broken /\ l[p].seq = Len(log)
  BY <1>1, Checked
<1>5. Len(log) \in Nat /\ synced \in Nat /\ synced <= Len(log) /\ Len(log') = Len(log) + 1
  BY <1>1, <1>2, FileTypes, LineWritten DEF HomeInv
<1>6. /\ synced' \in Nat /\ synced' >= synced
      /\ pc[p] \in {"announce", "closing"} => synced' = Len(log) + 1
  <2>1. pc[p] \in {"announce", "closing"} => Durable(e.type)
    BY <1>1, DueSays DEF Durable
  <2> QED BY <2>1, <1>2, <1>4, <1>5
<1>7. /\ pc'[p] = AfterAppend(p, e) /\ \A q \in Proc \ {p} : pc'[q] = pc[q]
  BY <1>2, <1>3 DEF Goto
<1>8. /\ l'[p].inc = l[p].inc /\ l'[p].broken = l[p].broken
      /\ pc[p] = "announce" => l'[p].opened = l[p].seq + 1
      /\ pc[p] # "announce" => l'[p].opened = l[p].opened
      /\ \A q \in Proc \ {p} : l'[q] = l[q]
  BY <1>2, <1>3 DEF Log
<1>9. Alone(p)
  BY <1>7, <1>8 DEF Alone
<1>10. /\ pc[p] = "announce" => OpensOf(opens)' = {Len(log) + 1}
       /\ pc[p] # "announce" => OpensOf(opens)' = OpensOf(opens)
       /\ pc[p] = "closing" => /\ ClosesOf(opens)' = {Len(log) + 1}
                               /\ log'[Len(log) + 1].ref = l[p].opened
       /\ pc[p] # "closing" => ClosesOf(opens)' = {}
  BY <1>1, <1>2, LineEnds
<1>11. EndOf(p)
  BY DEF Ends
<1>12. EndOf(p)'
  <2>1. Writing(p)' /\ l'[p].inc = opens'
    BY <1>1, <1>4, <1>7, <1>8, <1>11 DEF EndOf, AfterAppend, LoadStep, Writing, Appending,
                                         Announcing
  <2>2. fate[opens] = "running"
    BY <1>1, <1>4, <1>11 DEF EndOf, Appending, Announcing
  <2>3. CASE pc[p] \in {"record", "quarantine", "takeover"}
    <3>1. pc'[p] \in {"quarantine", "takeover", "announce"}
      BY <2>3, <1>7 DEF AfterAppend, LoadStep
    <3> QED BY <2>1, <2>2, <2>3, <3>1, <1>1, <1>4, <1>10, <1>11
            DEF EndOf, Early, Late, Locking, Repairing, Announcing
  <2>4. CASE pc[p] = "announce"
    <3>1. pc'[p] = "open"
      BY <2>4, <1>7 DEF AfterAppend
    <3>2. l'[p].opened = Len(log) + 1 /\ l'[p].opened <= synced'
      BY <2>4, <1>4, <1>5, <1>6, <1>8
    <3> QED BY <2>1, <2>2, <2>4, <3>1, <3>2, <1>1, <1>10
            DEF EndOf, Early, Late, Locking, Repairing, Announcing
  <2>5. CASE pc[p] = "append"
    <3>1. pc'[p] = "open"
      BY <2>5, <1>7 DEF AfterAppend
    <3>2. l[p].opened <= synced => l'[p].opened <= synced'
      BY <2>5, <1>5, <1>6, <1>8, EndTypes DEF HomeInv
    <3> QED BY <2>1, <2>2, <2>5, <3>1, <3>2, <1>1, <1>4, <1>8, <1>10, <1>11
            DEF EndOf, Early, Late, Locking, Repairing, Announcing
  <2>6. CASE pc[p] = "closing"
    <3>1. pc'[p] = "emptying"
      BY <2>6, <1>7 DEF AfterAppend
    <3>2. l[p].opened <= synced => l'[p].opened <= synced'
      BY <2>6, <1>5, <1>6, <1>8, EndTypes DEF HomeInv
    <3>3. Len(log) + 1 <= synced'
      BY <2>6, <1>5, <1>6
    <3> QED BY <2>1, <2>2, <2>6, <3>1, <3>2, <3>3, <1>1, <1>4, <1>8, <1>10, <1>11
            DEF EndOf, Early, Late, Locking, Repairing, Announcing
  <2> QED BY <2>3, <2>4, <2>5, <2>6, <1>1 DEF Appending, Announcing
<1> QED BY <1>1, <1>2, <1>6, <1>9, <1>12, EndsWrote

LEMMA EndsSyncFails == ASSUME HomeInv, Ends, NEW p \in Proc, SyncFails(p) PROVE Ends'
<1>1. /\ pc[p] \in Appending /\ l[p].checked /\ AppendFailed(p) /\ Writing(p)
      /\ UNCHANGED <<lockAt, logAt, tampers, opens, synced>>
  BY AlwaysOwned DEF SyncFails, countVars
<1>e. PICK e \in Due(p) : \E len \in Lengths[e.type] : WriteLine(p, e, len)
  BY DEF SyncFails
<1>2. PICK len \in Lengths[e.type] : WriteLine(p, e, len)
  BY <1>e
<1>3. /\ \A k \in Holder \ {opens} : OpensOf(k)' = OpensOf(k) /\ ClosesOf(k)' = ClosesOf(k)
      /\ pc[p] # "announce" => OpensOf(opens)' = OpensOf(opens)
      /\ pc[p] # "closing" => ClosesOf(opens)' = {}
      /\ KnownHolders' /\ ClosePairs'
  BY <1>1, <1>2, LineEnds
<1>4. \A i \in 1..Len(log) : log'[i] = log[i]
  BY <1>1, <1>2, LineWritten
<1>5. CASE pc[p] \in Announcing
  <2>1. Leave(p, "failed")
    BY <1>1, <1>5 DEF AppendFailed, Announcing
  <2>2. ClosesOf(opens)' = {}
    BY <1>3, <1>5 DEF Announcing
  <2> QED BY <2>1, <2>2, <1>1, <1>3, <1>4, EndsLeft
<1>6. CASE pc[p] \in {"append", "closing"}
  <2>1. /\ Alone(p) /\ fate' = fate /\ Writing(p)' /\ l'[p].broken
        /\ l'[p].inc = opens /\ l'[p].opened = l[p].opened
        /\ pc'[p] = IF pc[p] = "closing" THEN "emptying" ELSE "open"
    BY <1>1, <1>6, EndsBroken
  <2>2. EndOf(p)
    BY DEF Ends
  <2>3. EndOf(p)'
    BY <2>1, <2>2, <1>1, <1>3, <1>6 DEF EndOf, Early, Late, Locking, Repairing, Announcing
  <2>4. synced' \in Nat /\ synced' >= synced
    BY <1>1, FileTypes DEF HomeInv
  <2> QED BY <2>1, <2>3, <2>4, <1>1, <1>2, EndsWrote
<1> QED BY <1>1, <1>5, <1>6 DEF Appending

\* The close's own error ends the holder before its Log is gone.
LEMMA EndsEmptyLock == ASSUME HomeInv, Ends, NEW p \in Proc, EmptyLock(p) PROVE Ends'
<1>1. /\ pc[p] = "emptying" /\ UNCHANGED <<log, synced, opens, l>>
      /\ pc'[p] = "releasing" /\ \A q \in Proc \ {p} : pc'[q] = pc[q]
  BY ProcTypes DEF EmptyLock, fileVars, countVars, Goto, HomeInv
<1>2. Writing(p) /\ Writing(p)' /\ EndOf(p) /\ l[p].inc = opens /\ fate[opens] = "running"
  BY <1>1 DEF Writing, Ends, EndOf
<1>3. opens \in Holder
  BY <1>2 DEF HomeInv, Identity, IdentityOf
<1>4. /\ fate'[opens] \in {"running", "closed in error"}
      /\ \A k \in Holder \ {opens} : fate'[k] = fate[k]
  <2>1. fate \in [Holder -> {"none", "running", "died", "failed", "closed", "closed in error"}]
    BY DEF HomeInv, TypeOK
  <2> QED BY <2>1, <1>2, <1>3 DEF EmptyLock
<1>5. \A k : OpensOf(k)' = OpensOf(k) /\ ClosesOf(k)' = ClosesOf(k)
  BY <1>1 DEF OpensOf, ClosesOf
<1>6. OpensOf(opens)' = OpensOf(opens) /\ ClosesOf(opens)' = ClosesOf(opens)
  BY <1>1 DEF OpensOf, ClosesOf
<1>7. ASSUME NEW q \in Proc PROVE EndOf(q)'
  <2>1. CASE q = p
    BY <2>1, <1>1, <1>2, <1>4, <1>6 DEF EndOf, Early, Late, Locking, Repairing, Announcing
  <2>2. CASE q # p
    <3>1. ~Writing(q)
      BY <2>2, <1>2, OneWriter
    <3> QED BY <2>2, <3>1, <1>1 DEF Ends, EndOf, Writing
  <2> QED BY <2>1, <2>2
<1>8. ASSUME NEW k \in Holder PROVE Ended(k)'
  <2>1. CASE k = opens
    <3>1. ~(k > opens')
      BY <2>1, <1>1, NotAbove, EndTypes DEF HomeInv
    <3> QED BY <2>1, <3>1, <1>4 DEF Ended
  <2>2. CASE k # opens
    BY <2>2, <1>1, <1>4, <1>5 DEF Ends, Ended
  <2> QED BY <2>1, <2>2
<1>9. KnownHolders' /\ ClosePairs'
  BY <1>1 DEF Ends, KnownHolders, ClosePairs
<1> QED BY <1>7, <1>8, <1>9 DEF Ends

\* A Log that is gone, and no line of it just written.
LEMMA EndsGone ==
  ASSUME HomeInv, Ends, NEW p \in Proc, Writing(p),
         NEW how, how \in {"died", "failed", "closed", "closed in error"}, Leave(p, how),
         UNCHANGED <<lockAt, logAt, tampers, opens, synced, log>>,
         how = "failed" => pc[p] \notin Late,
         how = "closed" => pc[p] = "releasing" /\ ~l[p].broken
  PROVE  Ends'
<1>1. \A k : OpensOf(k)' = OpensOf(k) /\ ClosesOf(k)' = ClosesOf(k)
  BY DEF OpensOf, ClosesOf
<1>2. KnownHolders' /\ ClosePairs'
  BY DEF Ends, KnownHolders, ClosePairs
<1>3. how = "failed" => ClosesOf(opens)' = {}
  <2>1. how = "failed" => ClosesOf(opens) = {}
    BY DEF Ends, EndOf
  <2> QED BY <2>1 DEF ClosesOf
<1>4. \A i \in 1..Len(log) : log'[i] = log[i]
  OBVIOUS
<1> QED BY <1>1, <1>2, <1>3, <1>4, EndsLeft

LEMMA EndsOpenFails == ASSUME HomeInv, Ends, NEW p \in Proc, OpenFails(p) PROVE Ends'
<1>1. /\ Leave(p, "failed") /\ Writing(p) /\ pc[p] \notin Late
      /\ UNCHANGED <<lockAt, logAt, tampers, opens, synced, log>>
  BY DEF OpenFails, Writing, Late, Locking, Repairing, Announcing, fileVars, countVars
<1> QED BY <1>1, EndsGone

LEMMA EndsReleaseLock == ASSUME HomeInv, Ends, NEW p \in Proc, ReleaseLock(p) PROVE Ends'
<1>1. /\ Writing(p) /\ pc[p] = "releasing"
      /\ UNCHANGED <<lockAt, logAt, tampers, opens, synced, log>>
  BY DEF ReleaseLock, Writing, fileVars, countVars
<1>2. CASE l[p].broken
  <2>1. Leave(p, "closed in error")
    BY <1>2 DEF ReleaseLock
  <2> QED BY <2>1, <1>1, EndsGone
<1>3. CASE ~l[p].broken
  <2>1. Leave(p, "closed")
    BY <1>3 DEF ReleaseLock
  <2> QED BY <2>1, <1>1, <1>3, EndsGone
<1> QED BY <1>2, <1>3

LEMMA EndsCrash == ASSUME HomeInv, Ends, NEW p \in Proc, Crash(p) PROVE Ends'
<1>1. Leave(p, "died") /\ UNCHANGED <<lockAt, logAt, tampers, opens, synced>>
  BY DEF Crash, countVars
<1>2. CASE Writing(p) /\ log' = log
  BY <1>1, <1>2, EndsGone
<1>3. CASE l[p].checked /\ \E e \in Due(p) : \E len \in Lengths[e.type] : WriteLine(p, e, len)
  <2>e. PICK e \in Due(p) : \E len \in Lengths[e.type] : WriteLine(p, e, len)
    BY <1>3
  <2>1. PICK len \in Lengths[e.type] : WriteLine(p, e, len)
    BY <2>e
  <2>2. /\ \A k \in Holder \ {opens} : OpensOf(k)' = OpensOf(k) /\ ClosesOf(k)' = ClosesOf(k)
        /\ KnownHolders' /\ ClosePairs'
    BY <2>1, <1>1, <1>3, LineEnds
  <2>3. \A i \in 1..Len(log) : log'[i] = log[i]
    BY <2>1, <1>3, LineWritten
  <2>4. Writing(p)
    BY <1>3, Checked
  <2> QED BY <2>2, <2>3, <2>4, <1>1, EndsLeft
<1>4. CASE ~Writing(p)
  <2>1. ~l[p].checked
    BY <1>4, Checked
  <2>2. log' = log
    BY <2>1 DEF Crash
  <2>3. l[p].inc = 0 /\ fate \in [Holder -> {"none", "running", "died", "failed", "closed",
                                              "closed in error"}]
    BY <1>4 DEF Ends, EndOf, HomeInv, TypeOK
  <2>4. 0 \notin Holder
    BY DEF Holder
  <2>5. fate' = fate
    BY <2>3, <2>4, <1>1 DEF Leave
  <2>6. Alone(p) /\ pc'[p] = "out" /\ l'[p] = NoLog
    BY <1>1, Left
  <2>7. EndOf(p)'
    <3>1. NoLog.inc = 0
      BY DEF NoLog
    <3> QED BY <3>1, <2>6 DEF EndOf, Writing
  <2>8. synced' \in Nat /\ synced' >= synced
    BY <1>1, FileTypes DEF HomeInv
  <2> QED BY <2>2, <2>5, <2>6, <2>7, <2>8, <1>1, EndsSame
<1> QED BY <1>2, <1>3, <1>4 DEF Crash, WriteHalf

\* A loss of power takes no line of a holder that had closed, and ends the writer.
LEMMA EndsPowerLoss == ASSUME HomeInv, Ends, PowerLoss PROVE Ends'
<1>1. PICK n \in synced..Len(log) : log' = SubSeq(log, 1, n)
  BY LostLines
<1>2. /\ log \in Seq(Record) /\ Len(log) \in Nat /\ synced \in Nat /\ synced <= Len(log)
      /\ opens \in Nat
  BY FileTypes, EndTypes DEF HomeInv
<1>3. n \in Nat /\ synced <= n /\ n <= Len(log)
  BY <1>1, <1>2
<1>4. Len(log') = n /\ \A i \in 1..n : log'[i] = log[i] /\ i \in 1..Len(log)
  BY <1>1, <1>2, <1>3
<1>5. UNCHANGED <<synced, opens>> /\ fate' = [k \in Holder |-> IF fate[k] = "running" THEN "died"
                                                              ELSE fate[k]]
      /\ pc' = [p \in Proc |-> "out"] /\ l' = [p \in Proc |-> NoLog]
  BY DEF PowerLoss
<1>6. \A p \in Proc : EndOf(p)'
  <2>1. NoLog.inc = 0
    BY DEF NoLog
  <2> QED BY <2>1, <1>5 DEF EndOf, Writing
<1>7. \A k : OpensOf(k)' = {i \in OpensOf(k) : i <= n} /\ ClosesOf(k)' = {i \in ClosesOf(k) : i <= n}
  <2>1. \A i : i \in 1..n <=> i \in 1..Len(log) /\ i <= n
    BY <1>2, <1>3
  <2> QED BY <2>1, <1>4 DEF OpensOf, ClosesOf
<1>8. ASSUME NEW k \in Holder PROVE Ended(k)'
  <2>1. fate'[k] = IF fate[k] = "running" THEN "died" ELSE fate[k]
    BY <1>5
  <2>2. Ended(k)
    BY DEF Ends
  <2>3. ASSUME fate[k] = "closed"
        PROVE  \E o \in 1..synced', i \in ClosesOf(k)' :
                 OpensOf(k)' = {o} /\ i <= synced' /\ log'[i].ref = o
    <3>1. PICK o \in 1..synced, i \in ClosesOf(k) :
                 OpensOf(k) = {o} /\ i <= synced /\ log[i].ref = o
      BY <2>2, <2>3 DEF Ended
    <3>2. i \in 1..Len(log)
      BY DEF ClosesOf
    <3>3. o <= n /\ i <= n /\ i \in 1..n
      BY <3>1, <3>2, <1>2, <1>3
    <3>4. OpensOf(k)' = {o} /\ i \in ClosesOf(k)' /\ log'[i] = log[i]
      BY <3>1, <3>3, <1>4, <1>7
    <3> QED BY <3>1, <3>4, <1>5
  <2> QED BY <2>1, <2>2, <2>3, <1>5, <1>7 DEF Ended
<1>9. KnownHolders'
  BY <1>4, <1>5 DEF Ends, KnownHolders
<1>10. ClosePairs'
  <2> SUFFICES ASSUME NEW i \in 1..n, log'[i].type = "home.closed"
               PROVE  /\ log'[i].ref \in 1..(i - 1)
                      /\ log'[log'[i].ref].type = "home.opened"
                      /\ log'[log'[i].ref].by = log'[i].by
                      /\ \A j \in (i + 1)..n : log'[j].by # log'[i].by
    BY <1>4 DEF ClosePairs
  <2>1. log'[i] = log[i] /\ i \in 1..Len(log)
    BY <1>4
  <2>2. /\ log[i].ref \in 1..(i - 1) /\ log[log[i].ref].type = "home.opened"
        /\ log[log[i].ref].by = log[i].by
        /\ \A j \in (i + 1)..Len(log) : log[j].by # log[i].by
    BY <2>1 DEF Ends, ClosePairs
  <2>3. log[i].ref \in 1..n /\ \A j \in (i + 1)..n : j \in 1..n /\ j \in (i + 1)..Len(log)
    BY <2>2, <1>2, <1>3
  <2> QED BY <2>1, <2>2, <2>3, <1>4
<1> QED BY <1>6, <1>8, <1>9, <1>10 DEF Ends

LEMMA EndsNext == HomeInv /\ Ends /\ [Next]_vars => Ends'
<1> SUFFICES ASSUME HomeInv, Ends, [Next]_vars PROVE Ends'
  OBVIOUS
<1>1. ASSUME NEW p \in Proc, Calling(p) \/ Working(p) \/ Crash(p) PROVE Ends'
  <2>1. ~FindNotOwned(p)
    BY AlwaysOwned DEF FindNotOwned
  <2> QED BY <2>1, <1>1, EndsIdle, EndsTakeLock, EndsOpening, EndsCalling, EndsWrite,
             EndsWriteFails, EndsSyncFails, EndsEmptyLock, EndsReleaseLock, EndsOpenFails,
             EndsCrash DEF Calling, Working
<1>2. CASE (\E i \in 1..Len(log) : Rot(i)) \/ UNCHANGED vars
  <2>1. UNCHANGED <<log, synced, pc, l, opens, fate>>
    BY <1>2 DEF Rot, vars, fileVars, countVars, histVars
  <2>2. /\ \A k : OpensOf(k)' = OpensOf(k) /\ ClosesOf(k)' = ClosesOf(k)
        /\ OpensOf(opens)' = OpensOf(opens) /\ ClosesOf(opens)' = ClosesOf(opens)
    BY <2>1 DEF OpensOf, ClosesOf
  <2>3. \A p \in Proc : EndOf(p)'
    BY <2>1, <2>2 DEF Ends, EndOf, Writing
  <2>4. \A k \in Holder : Ended(k)'
    BY <2>1, <2>2 DEF Ends, Ended
  <2> QED BY <2>1, <2>3, <2>4 DEF Ends, KnownHolders, ClosePairs
<1> QED BY <1>1, <1>2, EndsPowerLoss DEF Next

LEMMA EndsInvariance == Spec => []Ends
<1> QED BY EndsInit, EndsNext, Invariance, PTL DEF Spec

\* A holder that closed left its pair, and no close is without one that ran its Close.
LEMMA EndsUnpaired == Ends => UnpairedIsUnclean
<1> SUFFICES ASSUME Ends, NEW k \in Holder
             PROVE  /\ fate[k] = "closed" => Unpaired(k) = {} /\ \E o \in 1..Len(log) :
                                               log[o].type = "home.opened" /\ log[o].by = k
                    /\ fate[k] = "failed" =>
                         \A i \in 1..Len(log) : ~(log[i].type = "home.closed" /\ log[i].by = k)
  BY DEF UnpairedIsUnclean
<1>1. Ended(k)
  BY DEF Ends
<1>2. ASSUME fate[k] = "closed"
      PROVE  Unpaired(k) = {} /\ \E o \in 1..Len(log) :
                                    log[o].type = "home.opened" /\ log[o].by = k
  <2>1. PICK o \in 1..synced, i \in ClosesOf(k) : OpensOf(k) = {o} /\ log[i].ref = o
    BY <1>1, <1>2 DEF Ended
  <2>2. i \in 1..Len(log) /\ log[i].type = "home.closed"
    BY DEF ClosesOf
  <2>3. o \in OpensOf(k)
    BY <2>1
  <2>4. Unpaired(k) \subseteq OpensOf(k)
    BY DEF Unpaired, OpensOf
  <2>5. o \notin Unpaired(k)
    BY <2>1, <2>2 DEF Unpaired
  <2> QED BY <2>1, <2>3, <2>4, <2>5 DEF OpensOf
<1> QED BY <1>1, <1>2 DEF Ended, ClosesOf

-----------------------------------------------------------------------------
(* Who a takeover names *)

Unclean(k) == fate[k] \in {"died", "failed", "closed in error"}

\* What a writer found in the lock file it took, and what it does about it.
TakenOf(p) ==
  Writing(p) => /\ l[p].stale # 0 => l[p].stale \in Holder /\ Unclean(l[p].stale)
                /\ pc[p] = "takeover" => l[p].stale # 0

\* What a lock file says.
StampedOf(k) ==
  content[k] # 0 =>
    /\ k = lockAt /\ content[k] \in Holder
    /\ \/ Unclean(content[k])
       \/ /\ content[k] = opens
          /\ \E p \in Proc : Writing(p) /\ pc[p] \notin {"locked", "releasing"}

NamesUnclean ==
  \A i \in 1..Len(log) :
    log[i].type = "home.lock_taken" => log[i].ref \in Holder /\ Unclean(log[i].ref)

Takeovers ==
  powers = 0 => /\ \A p \in Proc : TakenOf(p)
                /\ \A k \in LockFile : StampedOf(k)
                /\ NamesUnclean

KeepsUnclean == \A h \in Holder : Unclean(h) => Unclean(h)'

LEMMA TakeoversInit == Init => Takeovers
<1> QED BY DEF Init, Takeovers, TakenOf, StampedOf, NamesUnclean, Writing

\* A holder that ended uncleanly ends in no other way later.
LEMMA UncleanStays == ASSUME HomeInv, Ends, [Next]_vars PROVE KeepsUnclean
<1>1. fate \in [Holder -> {"none", "running", "died", "failed", "closed", "closed in error"}]
  BY DEF HomeInv, TypeOK
<1>2. \/ fate' = fate
      \/ \E p \in Proc, how \in {"died", "failed", "closed", "closed in error"} : Leave(p, how)
      \/ \E p \in Proc : TakeLock(p)
      \/ \E p \in Proc : EmptyLock(p)
      \/ PowerLoss
  <2>1. ASSUME NEW p \in Proc, Calling(p) \/ Working(p) \/ Crash(p)
        PROVE  \/ fate' = fate \/ TakeLock(p) \/ EmptyLock(p)
               \/ \E how \in {"died", "failed", "closed", "closed in error"} : Leave(p, how)
    <3>1. CASE Calling(p)
      BY <3>1 DEF Calling, OpenLockFile, CallAppend, CallClose, histVars
    <3>2. CASE RefuseSecond(p) \/ Stamp(p) \/ Load(p) \/ CopyTorn(p) \/ CutTorn(p)
      BY <3>2 DEF RefuseSecond, Stamp, Load, CopyTorn, CutTorn, histVars
    <3>3. CASE CheckOwned(p) \/ RefuseEntry(p) \/ Write(p)
      BY <3>3 DEF CheckOwned, RefuseEntry, Write, histVars
    <3>4. CASE FindNotOwned(p) \/ WriteFails(p) \/ SyncFails(p)
      BY <3>4 DEF FindNotOwned, WriteFails, SyncFails, AppendFailed
    <3>5. CASE OpenFails(p) \/ ReleaseLock(p) \/ Crash(p)
      BY <3>5 DEF OpenFails, ReleaseLock, Crash
    <3> QED BY <2>1, <3>1, <3>2, <3>3, <3>4, <3>5 DEF Working
  <2>2. CASE (\E i \in 1..Len(log) : Rot(i)) \/ UNCHANGED vars
    BY <2>2 DEF Rot, vars, histVars
  <2> QED BY <2>1, <2>2 DEF Next
<1>3. CASE \E p \in Proc, how \in {"died", "failed", "closed", "closed in error"} : Leave(p, how)
  BY <1>1, <1>3 DEF Leave, KeepsUnclean, Unclean
<1>4. CASE \E p \in Proc : TakeLock(p)
  <2>1. fate' = [fate EXCEPT ![opens + 1] = "running"]
    BY <1>4 DEF TakeLock
  <2>2. \A h \in Holder : h = opens + 1 => h > opens
    BY EndTypes DEF HomeInv
  <2>3. \A h \in Holder : Unclean(h) => h # opens + 1
    BY <2>2 DEF Ends, Ended, Unclean
  <2> QED BY <2>1, <2>3, <1>1 DEF KeepsUnclean, Unclean
<1>5. CASE \E p \in Proc : EmptyLock(p)
  BY <1>1, <1>5 DEF EmptyLock, KeepsUnclean, Unclean
<1>6. CASE PowerLoss
  BY <1>1, <1>6 DEF PowerLoss, KeepsUnclean, Unclean
<1> QED BY <1>2, <1>3, <1>4, <1>5, <1>6 DEF KeepsUnclean, Unclean

\* What the step of one process has to do to keep Takeovers.
LEMMA TakeoversKept ==
  ASSUME HomeInv, Ends, Takeovers, NEW p \in Proc, Alone(p), powers' = powers, KeepsUnclean,
         log' = log \/ (l[p].checked /\ \E e \in Due(p) : \E len \in Lengths[e.type] :
                       WriteLine(p, e, len)),
         powers = 0 => TakenOf(p)' /\ \A k \in LockFile : StampedOf(k)'
  PROVE  Takeovers'
<1> SUFFICES ASSUME powers = 0 PROVE (\A q \in Proc : TakenOf(q)') /\ NamesUnclean'
  BY DEF Takeovers
<1>1. ASSUME NEW q \in Proc \ {p} PROVE TakenOf(q)'
  <2>1. TakenOf(q) /\ pc'[q] = pc[q] /\ l'[q] = l[q]
    BY <1>1 DEF Takeovers, Alone
  <2>2. \A h \in Holder : Unclean(h) => Unclean(h)'
    BY DEF KeepsUnclean
  <2> QED BY <2>1, <2>2 DEF TakenOf, Writing, Unclean
<1>2. NamesUnclean
  BY DEF Takeovers
<1>3. \A h \in Holder : Unclean(h) => Unclean(h)'
  BY DEF KeepsUnclean
<1>4. ASSUME log' = log PROVE NamesUnclean'
  <2> SUFFICES ASSUME NEW i \in 1..Len(log), log[i].type = "home.lock_taken"
               PROVE  log[i].ref \in Holder /\ Unclean(log[i].ref)'
    BY <1>4 DEF NamesUnclean, Unclean
  <2>1. log[i].ref \in Holder /\ Unclean(log[i].ref)
    BY <1>2 DEF NamesUnclean
  <2> QED BY <2>1, <1>3, <1>4 DEF Unclean
<1>5. ASSUME l[p].checked, \E e \in Due(p) : \E len \in Lengths[e.type] : WriteLine(p, e, len)
      PROVE  NamesUnclean'
  <2>e. PICK e \in Due(p) : \E len \in Lengths[e.type] : WriteLine(p, e, len)
    BY <1>5
  <2>1. PICK len \in Lengths[e.type] : WriteLine(p, e, len)
    BY <2>e
  <2>2. /\ Len(log') = Len(log) + 1 /\ log'[Len(log')] = NewLine(p, e, len)
        /\ \A i \in 1..Len(log) : log'[i] = log[i]
    BY <2>1, <1>5, LineWritten
  <2>3. \A i \in 1..Len(log') : i \in 1..Len(log) \/ i = Len(log')
    BY <2>2, FileTypes DEF HomeInv
  <2>4. ASSUME e.type = "home.lock_taken" PROVE e.ref \in Holder /\ Unclean(e.ref)
    <3>1. pc[p] \in Appending /\ Writing(p)
      BY <1>5, Checked
    <3>2. pc[p] = "takeover" /\ e.ref = l[p].stale
      BY <2>4, <3>1, DueSays
    <3> QED BY <3>1, <3>2 DEF Takeovers, TakenOf
  <2>5. NewLine(p, e, len).type = e.type /\ NewLine(p, e, len).ref = e.ref
    BY DEF NewLine
  <2> SUFFICES ASSUME NEW i \in 1..Len(log'), log'[i].type = "home.lock_taken"
               PROVE  log'[i].ref \in Holder /\ Unclean(log[i].ref)'
    BY DEF NamesUnclean, Unclean
  <2>6. log'[i].ref \in Holder /\ Unclean(log'[i].ref)
    <3>1. CASE i \in 1..Len(log)
      BY <3>1, <1>2, <2>2 DEF NamesUnclean
    <3>2. CASE i = Len(log')
      BY <3>2, <2>2, <2>4, <2>5
    <3> QED BY <3>1, <3>2, <2>3
  <2> QED BY <2>6, <1>3 DEF Unclean
<1> QED BY <1>1, <1>4, <1>5

\* The lock file that names the writer names it still, or its unclean end.
LEMMA StampKept ==
  ASSUME HomeInv, Ends, Takeovers, powers = 0, KeepsUnclean, NEW p \in Proc, Writing(p),
         UNCHANGED <<content, lockAt, opens>>,
         pc[p] \notin {"locked", "releasing"} =>
           \/ Writing(p)' /\ pc'[p] \notin {"locked", "releasing"}
           \/ Unclean(opens)'
  PROVE  \A k \in LockFile : StampedOf(k)'
<1> SUFFICES ASSUME NEW k \in LockFile, content[k] # 0 PROVE StampedOf(k)'
  BY DEF StampedOf
<1>1. StampedOf(k)
  BY DEF Takeovers
<1>2. CASE Unclean(content[k])
  BY <1>1, <1>2 DEF StampedOf, KeepsUnclean, Unclean
<1>3. CASE content[k] = opens /\ \E q \in Proc : Writing(q) /\ pc[q] \notin {"locked", "releasing"}
  <2>1. pc[p] \notin {"locked", "releasing"}
    BY <1>3, OneWriter
  <2> QED BY <1>1, <1>3, <2>1 DEF StampedOf, Unclean
<1> QED BY <1>1, <1>2, <1>3 DEF StampedOf

\* A Log that is gone, by death or failure, or after the lock was emptied.
LEMMA TakeoversGone ==
  ASSUME HomeInv, Ends, Takeovers, KeepsUnclean, NEW p \in Proc, Writing(p),
         NEW how, how \in {"died", "failed", "closed", "closed in error"}, Leave(p, how),
         how \in {"died", "failed"} \/ pc[p] = "releasing",
         UNCHANGED <<content, lockAt, logAt, tampers, opens, powers>>,
         log' = log \/ (l[p].checked /\ \E e \in Due(p) : \E len \in Lengths[e.type] :
                       WriteLine(p, e, len))
  PROVE  Takeovers'
<1>1. Alone(p) /\ pc'[p] = "out"
  BY Left
<1>2. TakenOf(p)'
  BY <1>1 DEF TakenOf, Writing
<1>3. pc[p] # "releasing" => Unclean(opens)'
  <2>1. l[p].inc = opens /\ opens \in Holder /\ fate[opens] \in {"running", "closed in error"}
    BY DEF Ends, EndOf, HomeInv, Identity, IdentityOf
  <2>2. fate'[opens] = IF fate[opens] = "running" THEN how ELSE fate[opens]
    BY <2>1 DEF Leave
  <2> QED BY <2>1, <2>2 DEF Unclean
<1>4. powers = 0 => \A k \in LockFile : StampedOf(k)'
  BY <1>3, StampKept
<1> QED BY <1>1, <1>2, <1>4, TakeoversKept

LEMMA TakeoversIdle ==
  ASSUME HomeInv, Ends, Takeovers, KeepsUnclean, NEW p \in Proc,
         \/ OpenLockFile(p) \/ RefuseSecond(p)
         \/ ~Writing(p) /\ Crash(p)
  PROVE  Takeovers'
<1>1. pc \in [Proc -> Steps] /\ l \in [Proc -> Log]
  BY ProcTypes DEF HomeInv
<1>2. ~Writing(p) /\ pc'[p] \in {"out", "try"} /\ \A q \in Proc \ {p} : pc'[q] = pc[q]
  BY <1>1 DEF OpenLockFile, RefuseSecond, Crash, Leave, Goto, Writing
<1>3. \A q \in Proc \ {p} : l'[q] = l[q]
  BY <1>1 DEF OpenLockFile, RefuseSecond, Crash, Leave, Log
<1>4. Alone(p) /\ TakenOf(p)' /\ ~l[p].checked
  BY <1>2, <1>3, Checked DEF Alone, TakenOf, Writing
<1>5. UNCHANGED <<log, opens, content, powers>>
  BY <1>4 DEF OpenLockFile, RefuseSecond, Crash, fileVars, lockVars, countVars, histVars
<1>6. lockAt # 0 => lockAt' = lockAt
  BY DEF OpenLockFile, RefuseSecond, Crash, lockVars
<1>7. ASSUME powers = 0, NEW k \in LockFile PROVE StampedOf(k)'
  <2>1. StampedOf(k) /\ k # 0
    BY <1>7 DEF Takeovers, LockFile
  <2>2. ASSUME NEW q \in Proc, Writing(q), pc[q] \notin {"locked", "releasing"}
        PROVE  Writing(q)' /\ pc'[q] \notin {"locked", "releasing"}
    BY <2>2, <1>2 DEF Writing
  <2>3. \A h \in Holder : Unclean(h) => Unclean(h)'
    BY DEF KeepsUnclean
  <2> QED BY <2>1, <2>2, <2>3, <1>5, <1>6 DEF StampedOf, Unclean
<1> QED BY <1>4, <1>5, <1>7, TakeoversKept

LEMMA TakeoversTakeLock ==
  ASSUME HomeInv, Ends, Takeovers, KeepsUnclean, NEW p \in Proc, TakeLock(p) PROVE Takeovers'
<1>1. pc \in [Proc -> Steps] /\ l \in [Proc -> Log] /\ content \in [LockFile -> 0..MaxOpens]
  BY ProcTypes DEF HomeInv, TypeOK
<1>2. pc'[p] = "locked" /\ \A q \in Proc \ {p} : pc'[q] = pc[q]
  BY <1>1 DEF TakeLock, Goto
<1>3. l[p].held = lockAt /\ lockAt \in LockFile
  BY DEF HomeInv, Identity, IdentityOf, TakeLock
<1>4. l'[p].stale = content[lockAt] /\ \A q \in Proc \ {p} : l'[q] = l[q]
  BY <1>1, <1>3 DEF TakeLock, Log
<1>5. UNCHANGED <<log, powers, lockAt>>
  BY DEF TakeLock, fileVars
<1>6. \A k \in LockFile : content'[k] = IF k = lockAt THEN 0 ELSE content[k]
  BY <1>1, <1>3 DEF TakeLock
<1>7. ASSUME powers = 0 PROVE TakenOf(p)' /\ \A k \in LockFile : StampedOf(k)'
  <2>1. \A k \in LockFile : StampedOf(k)
    BY <1>7 DEF Takeovers
  <2>2. content[lockAt] # 0 => content[lockAt] \in Holder /\ Unclean(content[lockAt])
    BY <2>1, <1>3, NoneWriting DEF StampedOf
  <2>3. content[lockAt] # 0 => fate'[content[lockAt]] \in {"died", "failed", "closed in error"}
    <3>1. \A h \in Holder : Unclean(h) => fate'[h] \in {"died", "failed", "closed in error"}
      BY DEF KeepsUnclean, Unclean
    <3> QED BY <3>1, <2>2
  <2>4. TakenOf(p)'
    BY <2>2, <2>3, <1>2, <1>4 DEF TakenOf, Unclean
  <2>5. \A k \in LockFile : content'[k] = 0
    BY <2>1, <1>6 DEF StampedOf
  <2> QED BY <2>4, <2>5 DEF StampedOf
<1>8. Alone(p)
  BY <1>2, <1>4 DEF Alone
<1> QED BY <1>5, <1>7, <1>8, TakeoversKept

\* A writer that goes on with its Open, its append or its Close.
LEMMA TakeoversWalk ==
  ASSUME HomeInv, Ends, Takeovers, KeepsUnclean, NEW p \in Proc, Writing(p), Alone(p),
         pc'[p] \notin {"out", "try", "locked", "releasing"},
         l'[p].stale = l[p].stale, pc'[p] = "takeover" => l[p].stale # 0,
         UNCHANGED <<content, lockAt, opens, powers>>,
         log' = log \/ (l[p].checked /\ \E e \in Due(p) : \E len \in Lengths[e.type] :
                       WriteLine(p, e, len))
  PROVE  Takeovers'
<1>1. Writing(p)'
  BY DEF Writing
<1>2. ASSUME powers = 0 PROVE TakenOf(p)'
  <2>1. TakenOf(p)
    BY <1>2 DEF Takeovers
  <2> QED BY <2>1 DEF TakenOf, KeepsUnclean, Unclean
<1>3. powers = 0 => \A k \in LockFile : StampedOf(k)'
  BY <1>1, StampKept
<1> QED BY <1>2, <1>3, TakeoversKept

LEMMA TakeoversOpening ==
  ASSUME HomeInv, Ends, Takeovers, KeepsUnclean, NEW p \in Proc,
         Load(p) \/ CopyTorn(p) \/ CutTorn(p)
  PROVE  Takeovers'
<1>1. pc \in [Proc -> Steps] /\ l \in [Proc -> Log]
  BY ProcTypes DEF HomeInv
<1>2. /\ pc'[p] \in Repairing \cup Announcing /\ (pc'[p] = "takeover" => l[p].stale # 0)
      /\ \A q \in Proc \ {p} : pc'[q] = pc[q]
  BY <1>1 DEF Load, CopyTorn, CutTorn, Goto, LoadStep, Repairing, Announcing
<1>3. l'[p].stale = l[p].stale /\ \A q \in Proc \ {p} : l'[q] = l[q]
  BY <1>1 DEF Load, CopyTorn, CutTorn, lockVars, Log
<1>4. log' = log /\ UNCHANGED <<content, lockAt, opens, powers>>
  BY CutTornStep DEF Load, CopyTorn, CutTorn, fileVars, lockVars, countVars
<1>5. Writing(p) /\ Alone(p)
  BY <1>2, <1>3 DEF Load, CopyTorn, CutTorn, Writing, Alone
<1>6. pc'[p] \notin {"out", "try", "locked", "releasing"}
  BY <1>2 DEF Repairing, Announcing
<1> QED BY <1>2, <1>3, <1>4, <1>5, <1>6, TakeoversWalk

LEMMA TakeoversCalling ==
  ASSUME HomeInv, Ends, Takeovers, KeepsUnclean, NEW p \in Proc,
         CallAppend(p) \/ CallClose(p) \/ CheckOwned(p) \/ RefuseEntry(p)
  PROVE  Takeovers'
<1>1. pc \in [Proc -> Steps] /\ l \in [Proc -> Log]
  BY ProcTypes DEF HomeInv
<1>2. /\ pc'[p] \notin {"out", "try", "locked", "releasing"}
      /\ Writing(p) /\ (pc'[p] = "takeover" => pc[p] = "takeover")
      /\ \A q \in Proc \ {p} : pc'[q] = pc[q]
  BY <1>1 DEF CallAppend, CallClose, CheckOwned, RefuseEntry, Goto, Writing, Appending, Announcing
<1>3. l'[p].stale = l[p].stale /\ \A q \in Proc \ {p} : l'[q] = l[q]
  BY <1>1 DEF CallAppend, CallClose, CheckOwned, RefuseEntry, Log
<1>4. UNCHANGED <<log, content, lockAt, opens, powers>>
  BY DEF CallAppend, CallClose, CheckOwned, RefuseEntry, fileVars, lockVars, countVars
<1>5. Alone(p)
  BY <1>2, <1>3 DEF Alone
<1>6. CASE powers = 0
  <2>1. pc'[p] = "takeover" => l[p].stale # 0
    BY <1>2, <1>6 DEF Takeovers, TakenOf
  <2> QED BY <2>1, <1>2, <1>3, <1>4, <1>5, TakeoversWalk
<1> QED BY <1>4, <1>6 DEF Takeovers

LEMMA TakeoversStamp ==
  ASSUME HomeInv, Ends, Takeovers, KeepsUnclean, NEW p \in Proc, Stamp(p) PROVE Takeovers'
<1>1. pc \in [Proc -> Steps] /\ l \in [Proc -> Log] /\ content \in [LockFile -> 0..MaxOpens]
  BY ProcTypes DEF HomeInv, TypeOK
<1>2. pc[p] = "locked" /\ pc'[p] = "stamped" /\ \A q \in Proc \ {p} : pc'[q] = pc[q]
  BY <1>1 DEF Stamp, Goto
<1>3. UNCHANGED <<log, l, lockAt, opens, powers>>
  BY DEF Stamp, fileVars, countVars
<1>4. Writing(p) /\ Writing(p)' /\ Alone(p)
  BY <1>2, <1>3 DEF Writing, Alone
<1>5. l[p].held = lockAt /\ lockAt \in LockFile /\ l[p].inc \in Holder /\ l[p].inc = opens
  BY <1>2, <1>4 DEF HomeInv, Identity, IdentityOf, Ends, EndOf
<1>6. \A k \in LockFile : content'[k] = IF k = lockAt THEN opens ELSE content[k]
  BY <1>1, <1>5 DEF Stamp
<1>7. ASSUME powers = 0 PROVE TakenOf(p)' /\ \A k \in LockFile : StampedOf(k)'
  <2>1. TakenOf(p)'
    <3>1. TakenOf(p)
      BY <1>7 DEF Takeovers
    <3> QED BY <3>1, <1>2, <1>3, <1>4 DEF TakenOf, KeepsUnclean, Unclean
  <2>2. \A k \in LockFile : k # lockAt => content[k] = 0
    BY <1>7 DEF Takeovers, StampedOf
  <2>3. pc'[p] \notin {"locked", "releasing"}
    BY <1>2
  <2>4. opens \in Holder /\ opens' = opens /\ lockAt' = lockAt
    BY <1>3, <1>5
  <2>5. ASSUME NEW k \in LockFile PROVE StampedOf(k)'
    <3>1. CASE k = lockAt
      BY <3>1, <1>4, <1>6, <2>3, <2>4 DEF StampedOf
    <3>2. CASE k # lockAt
      BY <3>2, <1>6, <2>2 DEF StampedOf
    <3> QED BY <3>1, <3>2
  <2> QED BY <2>1, <2>5
<1> QED BY <1>3, <1>4, <1>7, TakeoversKept

LEMMA TakeoversWrite ==
  ASSUME HomeInv, Ends, Takeovers, KeepsUnclean, NEW p \in Proc, Write(p) PROVE Takeovers'
<1>1. /\ pc[p] \in Appending /\ l[p].checked /\ UNCHANGED <<content, lockAt, opens, powers>>
  BY DEF Write, lockVars, countVars
<1> DEFINE Wrote(e, len) ==
        /\ WriteLine(p, e, len) /\ Goto(p, AfterAppend(p, e))
        /\ l' = [l EXCEPT
                   ![p].seq = @ + 1, ![p].size = @ + len, ![p].checked = FALSE,
                   ![p].bad = IF pc[p] = "quarantine" THEN @ \ {e.ref} ELSE @,
                   ![p].opened = IF pc[p] = "announce" THEN l[p].seq + 1 ELSE @]
<1>e. PICK e \in Due(p) : \E len \in Lengths[e.type] : Wrote(e, len)
  BY DEF Write
<1>2. PICK len \in Lengths[e.type] : Wrote(e, len)
  BY <1>e
<1>3. pc \in [Proc -> Steps] /\ l \in [Proc -> Log]
  BY ProcTypes DEF HomeInv
<1>4. /\ pc'[p] = AfterAppend(p, e) /\ \A q \in Proc \ {p} : pc'[q] = pc[q]
  BY <1>2, <1>3 DEF Goto
<1>5. l'[p].stale = l[p].stale /\ \A q \in Proc \ {p} : l'[q] = l[q]
  BY <1>2, <1>3 DEF Log
<1>6. /\ pc'[p] \notin {"out", "try", "locked", "releasing"}
      /\ pc'[p] = "takeover" => l[p].stale # 0
  BY <1>1, <1>4 DEF AfterAppend, LoadStep, Appending, Announcing
<1>7. Writing(p) /\ Alone(p)
  BY <1>1, <1>4, <1>5, AlwaysOwned DEF Alone
<1> QED BY <1>1, <1>2, <1>5, <1>6, <1>7, TakeoversWalk

LEMMA TakeoversFailed ==
  ASSUME HomeInv, Ends, Takeovers, KeepsUnclean, NEW p \in Proc, WriteFails(p) \/ SyncFails(p)
  PROVE  Takeovers'
<1>1. /\ pc[p] \in Appending /\ l[p].checked /\ AppendFailed(p) /\ Writing(p)
      /\ UNCHANGED <<content, lockAt, logAt, tampers, opens, powers>>
  BY AlwaysOwned DEF WriteFails, SyncFails, countVars
<1>2. log' = log \/ (l[p].checked /\ \E e \in Due(p) : \E len \in Lengths[e.type] :
                    WriteLine(p, e, len))
  BY WriteFailsStep DEF SyncFails
<1>3. CASE pc[p] \in Announcing
  <2>1. Leave(p, "failed")
    BY <1>1, <1>3 DEF AppendFailed, Announcing
  <2> QED BY <2>1, <1>1, <1>2, TakeoversGone
<1>4. CASE pc[p] \in {"append", "closing"}
  <2>1. Alone(p) /\ pc'[p] = IF pc[p] = "closing" THEN "emptying" ELSE "open"
    BY <1>1, <1>4, EndsBroken
  <2>2. l'[p].stale = l[p].stale
    <3>1. l' = [l EXCEPT ![p].broken = TRUE, ![p].checked = FALSE]
      BY <1>1, <1>4 DEF AppendFailed, Announcing
    <3>2. l \in [Proc -> Log]
      BY ProcTypes DEF HomeInv
    <3> QED BY <3>1, <3>2 DEF Log
  <2>3. pc'[p] \in {"open", "emptying"}
    BY <2>1
  <2> QED BY <2>1, <2>2, <2>3, <1>1, <1>2, TakeoversWalk
<1> QED BY <1>1, <1>3, <1>4 DEF Appending

LEMMA TakeoversEmptyLock ==
  ASSUME HomeInv, Ends, Takeovers, KeepsUnclean, NEW p \in Proc, EmptyLock(p) PROVE Takeovers'
<1>1. /\ pc[p] = "emptying" /\ pc'[p] = "releasing" /\ \A q \in Proc \ {p} : pc'[q] = pc[q]
      /\ UNCHANGED <<log, l, lockAt, opens, powers>>
  BY ProcTypes DEF EmptyLock, Goto, HomeInv, fileVars, countVars
<1>2. Writing(p) /\ Alone(p)
  BY <1>1 DEF Writing, Alone
<1>3. ASSUME powers = 0 PROVE TakenOf(p)'
  <2>1. TakenOf(p)
    BY <1>3 DEF Takeovers
  <2> QED BY <2>1, <1>1, <1>2 DEF TakenOf, KeepsUnclean, Unclean
<1>4. ASSUME powers = 0 PROVE \A k \in LockFile : StampedOf(k)'
  <2>1. /\ l[p].held = lockAt /\ lockAt \in LockFile /\ l[p].inc = opens /\ opens \in Holder
    BY <1>1, <1>2 DEF HomeInv, Identity, IdentityOf, Ends, EndOf
  <2>2. CASE content' = [content EXCEPT ![l[p].held] = 0]
    <3>1. content \in [LockFile -> 0..MaxOpens]
      BY DEF HomeInv, TypeOK
    <3>2. \A k \in LockFile : content'[k] = IF k = lockAt THEN 0 ELSE content[k]
      BY <3>1, <2>1, <2>2
    <3>3. \A k \in LockFile : content'[k] = 0
      BY <3>2, <1>4 DEF Takeovers, StampedOf
    <3> QED BY <3>3 DEF StampedOf
  <2>3. CASE content' = content /\ fate' = [fate EXCEPT ![l[p].inc] = "closed in error"]
    <3>1. Unclean(opens)'
      <4>1. fate \in [Holder -> {"none", "running", "died", "failed", "closed",
                                 "closed in error"}]
        BY DEF HomeInv, TypeOK
      <4> QED BY <4>1, <2>1, <2>3, <1>1 DEF Unclean
    <3> QED BY <3>1, <2>3, <1>1, <1>2, <1>4, StampKept
  <2> QED BY <2>2, <2>3 DEF EmptyLock
<1> QED BY <1>1, <1>2, <1>3, <1>4, TakeoversKept

LEMMA TakeoversNext == HomeInv /\ Ends /\ Takeovers /\ [Next]_vars => Takeovers'
<1> SUFFICES ASSUME HomeInv, Ends, Takeovers, [Next]_vars PROVE Takeovers'
  OBVIOUS
<1>1. KeepsUnclean
  BY UncleanStays
<1>2. ASSUME NEW p \in Proc, Calling(p) \/ Working(p) \/ Crash(p) PROVE Takeovers'
  <2>1. ~FindNotOwned(p)
    BY AlwaysOwned DEF FindNotOwned
  <2>2. CASE OpenFails(p) \/ ReleaseLock(p)
    <3>1. Writing(p) /\ UNCHANGED <<content, lockAt, logAt, tampers, opens, powers, log>>
      BY <2>2 DEF OpenFails, ReleaseLock, Writing, Locking, Repairing, Announcing, fileVars,
                  countVars
    <3>2. \/ Leave(p, "failed")
          \/ (Leave(p, "closed in error") \/ Leave(p, "closed")) /\ pc[p] = "releasing"
      BY <2>2 DEF OpenFails, ReleaseLock
    <3> QED BY <3>1, <3>2, <1>1, TakeoversGone
  <2>3. CASE Crash(p) /\ Writing(p)
    <3>1. Leave(p, "died") /\ UNCHANGED <<content, lockAt, logAt, tampers, opens, powers>>
      BY <2>3 DEF Crash, countVars
    <3>2. log' = log \/ (l[p].checked /\ \E e \in Due(p) : \E len \in Lengths[e.type] :
                        WriteLine(p, e, len))
      BY <2>3 DEF Crash, WriteHalf
    <3> QED BY <3>1, <3>2, <2>3, <1>1, TakeoversGone
  <2> QED BY <1>1, <1>2, <2>1, <2>2, <2>3, TakeoversIdle, TakeoversTakeLock, TakeoversStamp,
             TakeoversOpening, TakeoversCalling, TakeoversWrite, TakeoversFailed,
             TakeoversEmptyLock DEF Calling, Working
<1>3. CASE PowerLoss
  <2>1. powers' # 0
    <3>1. powers \in 0..MaxPower /\ powers' = powers + 1
      BY <1>3 DEF PowerLoss, HomeInv, TypeOK
    <3> QED BY <3>1, Bounds
  <2> QED BY <2>1 DEF Takeovers
<1>4. CASE (\E i \in 1..Len(log) : Rot(i)) \/ UNCHANGED vars
  <2>1. UNCHANGED <<log, pc, l, opens, fate, content, lockAt, powers>>
    BY <1>4 DEF Rot, vars, fileVars, lockVars, countVars, histVars
  <2> QED BY <2>1 DEF Takeovers, TakenOf, StampedOf, NamesUnclean, Unclean, Writing
<1> QED BY <1>2, <1>3, <1>4 DEF Next

-----------------------------------------------------------------------------
(* Theorems *)

\* Whatever processes race, die, fail and are followed by others: a holder that closed left its
\* pair on the log and nothing after it, and a takeover names no holder that closed cleanly.
THEOREM HomeTellsEnds == Spec => []EndsAreTold
<1>1. Ends => ClosePairs /\ UnpairedIsUnclean
  BY EndsUnpaired DEF Ends
<1>2. Takeovers => TakeoverHonest
  BY DEF Takeovers, NamesUnclean, TakeoverHonest, Unclean
<1>3. Ends /\ Takeovers => EndsAreTold
  BY <1>1, <1>2 DEF EndsAreTold
<1> QED BY <1>3, TakeoversInit, TakeoversNext, EndsInvariance, Invariance, PTL DEF Spec

-----------------------------------------------------------------------------
(* What an Open repairs *)

\* The record of the repair stands where a torn tail once stood.
Repaired(p) ==
  \E i \in 1..Len(log) : /\ i \in tornAt
                         /\ log[i].type = "log.repaired" /\ log[i].ref = l[p].torn
                         /\ log[i].by = l[p].inc

Unrepaired == Repairing \cup {"record"}

RepairOf(p) ==
  Loaded(p) =>
    /\ ~l[p].broken => tail = IF pc[p] \in Repairing THEN l[p].torn ELSE 0
    /\ pc[p] \in Unrepaired => l[p].torn # 0
    /\ pc[p] = "cut" => l[p].torn \in copies
    /\ pc[p] = "record" => Len(log) + 1 \in tornAt
    /\ pc[p] \notin Unrepaired /\ l[p].torn # 0 => Repaired(p)

TailSeen == Torn => Len(log) + 1 \in tornAt

Repair == TailSeen /\ \A p \in Proc : RepairOf(p)

-----------------------------------------------------------------------------
(* Parts of Repair *)

\* A step of one process that leaves the log, its tail and what was moved alone.
LEMMA RepairSame ==
  ASSUME HomeInv, Repair, NEW p \in Proc, Alone(p), RepairOf(p)',
         UNCHANGED <<log, tail, tornAt>>, copies \subseteq copies'
  PROVE  Repair'
<1>1. ASSUME NEW q \in Proc \ {p} PROVE RepairOf(q)'
  <2>1. RepairOf(q) /\ pc'[q] = pc[q] /\ l'[q] = l[q]
    BY <1>1 DEF Repair, Alone
  <2>2. Loaded(q)' <=> Loaded(q)
    BY <2>1 DEF Loaded, Writing
  <2>3. Repaired(q) => Repaired(q)'
    BY <2>1 DEF Repaired
  <2> QED BY <2>1, <2>2, <2>3 DEF RepairOf
<1> QED BY <1>1 DEF Repair, TailSeen, Torn

\* A step of the writer: nobody else has scanned the log.
LEMMA RepairByWriter ==
  ASSUME HomeInv, Repair, NEW p \in Proc, Writing(p), Alone(p), RepairOf(p)', TailSeen'
  PROVE  Repair'
<1>1. ASSUME NEW q \in Proc \ {p} PROVE RepairOf(q)'
  <2>1. ~Writing(q)
    BY <1>1, OneWriter
  <2> QED BY <1>1, <2>1 DEF RepairOf, Loaded, Writing, Alone
<1> QED BY <1>1 DEF Repair

\* A writer that comes to its write has no torn tail before it.
LEMMA NotTorn ==
  ASSUME HomeInv, Repair, NEW p \in Proc, l[p].checked PROVE tail = 0 /\ ~Torn
<1>1. Loaded(p) /\ ~l[p].broken /\ pc[p] \in Appending
  BY Checked
<1>2. pc[p] \notin Repairing
  BY <1>1 DEF Appending, Announcing, Repairing
<1> QED BY <1>1, <1>2 DEF Repair, RepairOf, Torn

\* A record of a repair stays when lines are added.
LEMMA RepairedStays ==
  ASSUME HomeInv, NEW p \in Proc, Repaired(p), tornAt \subseteq tornAt',
         l'[p].torn = l[p].torn, l'[p].inc = l[p].inc,
         Len(log') \in Nat, Len(log) <= Len(log'), \A i \in 1..Len(log) : log'[i] = log[i]
  PROVE  Repaired(p)'
<1>1. PICK i \in 1..Len(log) : /\ i \in tornAt
                               /\ log[i].type = "log.repaired" /\ log[i].ref = l[p].torn
                               /\ log[i].by = l[p].inc
  BY DEF Repaired
<1>2. Len(log) \in Nat
  BY FileTypes DEF HomeInv
<1>3. i \in 1..Len(log')
  BY <1>2
<1> QED BY <1>1, <1>3 DEF Repaired

-----------------------------------------------------------------------------
(* The steps *)

LEMMA RepairInit == Init => Repair
<1> QED BY DEF Init, Repair, TailSeen, Torn, RepairOf, Loaded, Writing

\* Steps of a process that has not scanned the log when they end.
LEMMA RepairIdle ==
  ASSUME HomeInv, Repair, NEW p \in Proc,
         \/ OpenLockFile(p) \/ TakeLock(p) \/ RefuseSecond(p) \/ Stamp(p) \/ OpenFails(p)
         \/ ReleaseLock(p)
  PROVE  Repair'
<1>1. UNCHANGED <<log, tail, tornAt, copies>>
  BY DEF OpenLockFile, TakeLock, RefuseSecond, Stamp, OpenFails, ReleaseLock, fileVars, histVars
<1>2. pc \in [Proc -> Steps] /\ l \in [Proc -> Log]
  BY ProcTypes DEF HomeInv
<1>3. pc'[p] \in {"out", "try", "locked", "stamped"} /\ Alone(p)
  BY <1>2 DEF OpenLockFile, TakeLock, RefuseSecond, Stamp, OpenFails, ReleaseLock, Leave, Goto,
              Alone
<1>4. RepairOf(p)'
  BY <1>3 DEF RepairOf, Loaded, Writing, Locking
<1> QED BY <1>1, <1>3, <1>4, RepairSame

LEMMA RepairLoad == ASSUME HomeInv, Repair, NEW p \in Proc, Load(p) PROVE Repair'
<1>1. /\ UNCHANGED <<log, tail, tornAt, copies>>
      /\ pc[p] = "stamped"
  BY DEF Load, fileVars, histVars
<1>2. pc \in [Proc -> Steps] /\ l \in [Proc -> Log]
  BY ProcTypes DEF HomeInv
<1>3. /\ pc'[p] \in {"quarantine", "takeover", "announce", "copy"}
      /\ pc'[p] = "copy" <=> tail # 0
      /\ \A q \in Proc \ {p} : pc'[q] = pc[q]
  BY <1>2 DEF Load, Goto, LoadStep, Torn
<1>4. l'[p].torn = tail /\ \A q \in Proc \ {p} : l'[q] = l[q]
  BY <1>2 DEF Load, Log
<1>5. RepairOf(p)'
  BY <1>1, <1>3, <1>4 DEF RepairOf, Unrepaired, Repairing
<1> QED BY <1>1, <1>3, <1>4, <1>5, RepairSame DEF Alone

LEMMA RepairCopyTorn == ASSUME HomeInv, Repair, NEW p \in Proc, CopyTorn(p) PROVE Repair'
<1>1. /\ UNCHANGED <<log, tail, tornAt, l>> /\ copies' = copies \cup {l[p].torn}
      /\ pc[p] = "copy" /\ pc'[p] = "cut" /\ \A q \in Proc \ {p} : pc'[q] = pc[q]
  BY ProcTypes DEF CopyTorn, Goto, histVars, HomeInv
<1>2. Loaded(p)
  BY <1>1 DEF Loaded, Writing, Locking
<1>3. RepairOf(p)'
  BY <1>1, <1>2 DEF Repair, RepairOf, Unrepaired, Repairing
<1> QED BY <1>1, <1>3, RepairSame DEF Alone

LEMMA RepairCutTorn == ASSUME HomeInv, Repair, NEW p \in Proc, CutTorn(p) PROVE Repair'
<1>1. /\ UNCHANGED <<l, copies, logAt>>
      /\ pc[p] = "cut" /\ pc'[p] = "record" /\ \A q \in Proc \ {p} : pc'[q] = pc[q]
  BY ProcTypes DEF CutTorn, Goto, HomeInv
<1>2. Loaded(p) /\ Writing(p)
  BY <1>1 DEF Loaded, Writing, Locking
<1>3. OnFile(p) /\ ~l[p].broken
  BY <1>1, <1>2 DEF HomeInv, Identity, IdentityOf, OnFile
<1>4. log' = log /\ tail' = 0 /\ tornAt' = tornAt
  BY CutTornStep
<1>5. l[p].torn # 0 /\ tail = l[p].torn /\ TailSeen
  BY <1>1, <1>2, <1>3 DEF Repair, RepairOf, Unrepaired, Repairing
<1>6. Len(log) + 1 \in tornAt
  BY <1>5 DEF TailSeen, Torn
<1>7. RepairOf(p)' /\ TailSeen'
  BY <1>1, <1>4, <1>5, <1>6 DEF RepairOf, Unrepaired, Repairing, TailSeen, Torn
<1> QED BY <1>1, <1>2, <1>7, RepairByWriter DEF Alone

\* A repaired process that goes on without touching the log, or breaks, stays repaired.
LEMMA RepairWalk ==
  ASSUME HomeInv, Repair, NEW p \in Proc, Loaded(p), Alone(p), log' = log,
         pc[p] \notin Repairing, tornAt \subseteq tornAt', TailSeen',
         \/ pc'[p] = pc[p] /\ copies' = copies
         \/ pc[p] # "record" /\ pc'[p] \notin Unrepaired,
         l'[p].torn = l[p].torn, l'[p].inc = l[p].inc,
         ~l'[p].broken => ~l[p].broken /\ tail' = tail
  PROVE  Repair'
<1>1. RepairOf(p) /\ Writing(p)
  BY DEF Repair, Loaded
<1>2. Len(log) \in Nat
  BY FileTypes DEF HomeInv
<1>3. Repaired(p) => Repaired(p)'
  BY <1>2, RepairedStays
<1>4. pc[p] \notin Unrepaired => pc'[p] \notin Unrepaired
  OBVIOUS
<1>5. pc'[p] \notin Repairing
  BY DEF Unrepaired
<1>6. RepairOf(p)'
  BY <1>1, <1>3, <1>5 DEF RepairOf, Unrepaired, Repairing
<1> QED BY <1>1, <1>6, RepairByWriter

LEMMA RepairCalling ==
  ASSUME HomeInv, Repair, NEW p \in Proc,
         CallAppend(p) \/ CallClose(p) \/ CheckOwned(p) \/ RefuseEntry(p) \/ EmptyLock(p)
  PROVE  Repair'
<1>1. pc \in [Proc -> Steps] /\ l \in [Proc -> Log]
  BY ProcTypes DEF HomeInv
<1>2. /\ l'[p].inc = l[p].inc /\ l'[p].torn = l[p].torn /\ l'[p].broken = l[p].broken
      /\ \A q \in Proc \ {p} : l'[q] = l[q]
  BY <1>1 DEF CallAppend, CallClose, CheckOwned, RefuseEntry, EmptyLock, Log
<1>3. /\ \/ pc[p] \in Appending /\ pc'[p] = pc[p]
         \/ /\ pc[p] \in {"open", "append", "emptying"}
            /\ pc'[p] \in {"open", "append", "closing", "emptying", "releasing"}
      /\ \A q \in Proc \ {p} : pc'[q] = pc[q]
  BY <1>1 DEF CallAppend, CallClose, CheckOwned, RefuseEntry, EmptyLock, Goto
<1>4. UNCHANGED <<log, tail, tornAt, copies>>
  BY DEF CallAppend, CallClose, CheckOwned, RefuseEntry, EmptyLock, fileVars, histVars
<1>5. Loaded(p) /\ Alone(p) /\ pc[p] \notin Repairing
  BY <1>2, <1>3 DEF Loaded, Writing, Alone, Appending, Announcing, Locking, Repairing
<1>6. TailSeen'
  BY <1>4 DEF Repair, TailSeen, Torn
<1>7. \/ pc'[p] = pc[p] /\ copies' = copies
      \/ pc[p] # "record" /\ pc'[p] \notin Unrepaired
  BY <1>3, <1>4 DEF Unrepaired, Repairing
<1>8. tornAt \subseteq tornAt' /\ (~l'[p].broken => ~l[p].broken /\ tail' = tail) /\ log' = log
  BY <1>2, <1>4
<1>9. l'[p].torn = l[p].torn /\ l'[p].inc = l[p].inc
  BY <1>2
<1> QED BY <1>5, <1>6, <1>7, <1>8, <1>9, RepairWalk

\* The writer's line: where the tail stood, when it is the record of the repair.
LEMMA RepairWrite == ASSUME HomeInv, Repair, NEW p \in Proc, Write(p) PROVE Repair'
<1>1. /\ pc[p] \in Appending /\ l[p].checked /\ UNCHANGED <<tornAt, copies>>
  BY DEF Write
<1> DEFINE Wrote(e, len) ==
        /\ WriteLine(p, e, len)
        /\ l' = [l EXCEPT
                   ![p].seq = @ + 1, ![p].size = @ + len, ![p].checked = FALSE,
                   ![p].bad = IF pc[p] = "quarantine" THEN @ \ {e.ref} ELSE @,
                   ![p].opened = IF pc[p] = "announce" THEN l[p].seq + 1 ELSE @]
        /\ Goto(p, AfterAppend(p, e))
<1>e. PICK e \in Due(p) : \E len \in Lengths[e.type] : Wrote(e, len)
  BY DEF Write
<1>2. PICK len \in Lengths[e.type] : Wrote(e, len)
  BY <1>e
<1>3. pc \in [Proc -> Steps] /\ l \in [Proc -> Log]
  BY ProcTypes DEF HomeInv
<1>4. Loaded(p) /\ Writing(p) /\ ~l[p].broken /\ OnFile(p)
  BY <1>1, Checked
<1>5. /\ pc'[p] \notin Unrepaired /\ \A q \in Proc \ {p} : pc'[q] = pc[q]
  BY <1>1, <1>2, <1>3 DEF Goto, AfterAppend, LoadStep, Unrepaired, Repairing, Appending, Announcing
<1>6. /\ l'[p].inc = l[p].inc /\ l'[p].torn = l[p].torn
      /\ \A q \in Proc \ {p} : l'[q] = l[q]
  BY <1>2, <1>3 DEF Log
<1>7. Len(log) \in Nat
  BY FileTypes DEF HomeInv
<1>8. /\ Len(log') = Len(log) + 1 /\ log'[Len(log')] = NewLine(p, e, len)
      /\ \A i \in 1..Len(log) : log'[i] = log[i]
  BY <1>1, <1>2, LineWritten
<1>9. tail' = 0
  BY <1>2, <1>4 DEF WriteLine
<1>10. TailSeen'
  BY <1>9 DEF TailSeen, Torn
<1>11. RepairOf(p)
  BY DEF Repair
<1>12. pc[p] # "record" => pc[p] \notin Unrepaired
  BY <1>1 DEF Unrepaired, Repairing, Appending, Announcing
<1>13. l[p].torn # 0 => Repaired(p)'
  <2>1. CASE pc[p] = "record"
    <3>1. e = Say("log.repaired", l[p].torn)
      BY <2>1 DEF Due
    <3>2. NewLine(p, e, len).type = "log.repaired" /\ NewLine(p, e, len).ref = l[p].torn
          /\ NewLine(p, e, len).by = l[p].inc
      BY <3>1 DEF NewLine, Say
    <3>3. Len(log') \in 1..Len(log') /\ Len(log') \in tornAt'
      BY <2>1, <1>1, <1>4, <1>7, <1>8, <1>11 DEF RepairOf
    <3> QED BY <3>2, <3>3, <1>6, <1>8 DEF Repaired
  <2>2. CASE pc[p] # "record"
    <3>1. Len(log') \in Nat /\ Len(log) <= Len(log')
      BY <1>7, <1>8
    <3> QED BY <2>2, <3>1, <1>1, <1>4, <1>6, <1>8, <1>11, <1>12, RepairedStays DEF RepairOf
  <2> QED BY <2>1, <2>2
<1>14. RepairOf(p)'
  BY <1>5, <1>6, <1>9, <1>13 DEF RepairOf, Unrepaired, Repairing
<1> QED BY <1>4, <1>5, <1>6, <1>10, <1>14, RepairByWriter DEF Alone

\* A failed append leaves no Log, or a broken one whose repair was recorded.
LEMMA RepairFailed ==
  ASSUME HomeInv, Repair, NEW p \in Proc, pc[p] \in Appending, AppendFailed(p), TailSeen',
         tornAt \subseteq tornAt', Len(log') \in Nat, Len(log) <= Len(log'),
         \A i \in 1..Len(log) : log'[i] = log[i]
  PROVE  Repair'
<1>1. pc \in [Proc -> Steps] /\ l \in [Proc -> Log]
  BY ProcTypes DEF HomeInv
<1>2. Writing(p) /\ Loaded(p)
  BY DEF Writing, Loaded, Appending, Announcing, Locking
<1>3. CASE Leave(p, "failed")
  <2>1. pc'[p] = "out" /\ Alone(p)
    BY <1>1, <1>3 DEF Leave, Goto, Alone
  <2>2. RepairOf(p)'
    BY <2>1 DEF RepairOf, Loaded, Writing
  <2> QED BY <2>1, <2>2, <1>2, RepairByWriter
<1>4. CASE ~Leave(p, "failed")
  <2>1. /\ pc[p] \in {"append", "closing"}
        /\ Goto(p, IF pc[p] = "closing" THEN "emptying" ELSE "open")
        /\ l' = [l EXCEPT ![p].broken = TRUE, ![p].checked = FALSE]
    BY <1>4 DEF AppendFailed
  <2>2. pc'[p] \in {"emptying", "open"} /\ \A q \in Proc \ {p} : pc'[q] = pc[q]
    BY <2>1, <1>1 DEF Goto
  <2>3. /\ l'[p].inc = l[p].inc /\ l'[p].torn = l[p].torn /\ l'[p].broken
        /\ \A q \in Proc \ {p} : l'[q] = l[q]
    BY <2>1, <1>1 DEF Log
  <2>4. Repaired(p) => Repaired(p)'
    BY <2>3, RepairedStays
  <2>5. RepairOf(p)'
    BY <2>1, <2>2, <2>3, <2>4, <1>2 DEF Repair, RepairOf, Unrepaired, Repairing
  <2> QED BY <2>2, <2>3, <2>5, <1>2, RepairByWriter DEF Alone
<1> QED BY <1>3, <1>4

\* What half a line leaves at the end of the log is a tail seen there.
LEMMA HalfSeen == ASSUME NEW p \in Proc, WriteHalf(p) PROVE TailSeen' /\ tornAt \subseteq tornAt'
<1> QED BY DEF WriteHalf, TailSeen

LEMMA RepairWriteFails == ASSUME HomeInv, Repair, NEW p \in Proc, WriteFails(p) PROVE Repair'
<1>1. pc[p] \in Appending /\ AppendFailed(p) /\ log' = log
  BY WriteFailsStep DEF WriteFails
<1>2. TailSeen' /\ tornAt \subseteq tornAt'
  <2>1. CASE UNCHANGED <<log, rotten, bytes, tail, astray, tornAt>>
    BY <2>1 DEF Repair, TailSeen, Torn
  <2>2. CASE Cut(p)
    <3>1. l[p].size = End(log)
      BY Checked DEF WriteFails
    <3>2. tail' = 0 /\ tornAt' = tornAt
      BY <2>2, <3>1, CutToEnd DEF HomeInv
    <3> QED BY <3>2 DEF TailSeen, Torn
  <2> QED BY <2>1, <2>2, HalfSeen DEF WriteFails
<1>3. Len(log) \in Nat
  BY FileTypes DEF HomeInv
<1>4. Len(log) <= Len(log') /\ Len(log') \in Nat
  BY <1>1, <1>3
<1> QED BY <1>1, <1>2, <1>4, RepairFailed

\* A line that is written leaves no tail.
LEMMA LineSeen ==
  ASSUME HomeInv, NEW p \in Proc, l[p].checked, NEW e \in Due(p),
         NEW len \in Lengths[e.type], WriteLine(p, e, len)
  PROVE  /\ TailSeen' /\ Len(log') \in Nat /\ Len(log) <= Len(log')
         /\ \A i \in 1..Len(log) : log'[i] = log[i]
<1>1. OnFile(p)
  BY Checked
<1>2. TailSeen'
  BY <1>1 DEF WriteLine, TailSeen, Torn
<1>3. Len(log') = Len(log) + 1 /\ \A i \in 1..Len(log) : log'[i] = log[i]
  BY LineWritten
<1>4. Len(log) \in Nat
  BY FileTypes DEF HomeInv
<1> QED BY <1>2, <1>3, <1>4

LEMMA RepairSyncFails == ASSUME HomeInv, Repair, NEW p \in Proc, SyncFails(p) PROVE Repair'
<1>1. pc[p] \in Appending /\ AppendFailed(p) /\ l[p].checked /\ tornAt' = tornAt
  BY DEF SyncFails
<1>e. PICK e \in Due(p) : \E len \in Lengths[e.type] : WriteLine(p, e, len)
  BY DEF SyncFails
<1>2. PICK len \in Lengths[e.type] : WriteLine(p, e, len)
  BY <1>e
<1>3. /\ TailSeen' /\ Len(log') \in Nat /\ Len(log) <= Len(log')
      /\ \A i \in 1..Len(log) : log'[i] = log[i]
  BY <1>1, <1>2, LineSeen
<1> QED BY <1>1, <1>3, RepairFailed

LEMMA RepairCrash == ASSUME HomeInv, Repair, NEW p \in Proc, Crash(p) PROVE Repair'
<1>1. Leave(p, "died") /\ copies' = copies
  BY DEF Crash
<1>2. pc'[p] = "out" /\ Alone(p)
  BY <1>1, ProcTypes DEF Leave, Goto, Alone, HomeInv
<1>3. RepairOf(p)'
  BY <1>2 DEF RepairOf, Loaded, Writing
<1>4. CASE UNCHANGED <<log, tail, tornAt>>
  BY <1>1, <1>2, <1>3, <1>4, RepairSame
<1>5. CASE l[p].checked /\ (WriteHalf(p) \/ \E e \in Due(p) : \E len \in Lengths[e.type] :
                                               WriteLine(p, e, len))
  <2>1. TailSeen'
    BY <1>5, HalfSeen, LineSeen
  <2> QED BY <2>1, <1>2, <1>3, <1>5, Checked, RepairByWriter
<1> QED BY <1>4, <1>5 DEF Crash

LEMMA RepairPowerLoss == ASSUME HomeInv, Repair, PowerLoss PROVE Repair'
<1>1. PICK n \in synced..Len(log) :
        /\ log' = SubSeq(log, 1, n)
        /\ tornAt' = IF tail' = 0 THEN tornAt ELSE tornAt \cup {n + 1}
  BY LostLines
<1>2. log \in Seq(Record) /\ Len(log) \in Nat /\ synced \in Nat /\ synced <= Len(log)
  BY FileTypes DEF HomeInv
<1>3. n \in Nat /\ n <= Len(log)
  BY <1>2
<1>4. Len(log') = n
  BY <1>1, <1>2, <1>3
<1>5. TailSeen'
  BY <1>1, <1>4 DEF TailSeen, Torn
<1>6. \A p \in Proc : RepairOf(p)'
  BY DEF PowerLoss, RepairOf, Loaded, Writing
<1> QED BY <1>5, <1>6 DEF Repair

LEMMA RepairNext == HomeInv /\ Repair /\ [Next]_vars => Repair'
<1> SUFFICES ASSUME HomeInv, Repair, [Next]_vars PROVE Repair'
  OBVIOUS
<1>1. ASSUME NEW p \in Proc, Calling(p) \/ Working(p) \/ Crash(p) PROVE Repair'
  <2>1. ~FindNotOwned(p)
    BY AlwaysOwned DEF FindNotOwned
  <2> QED BY <2>1, <1>1, RepairIdle, RepairLoad, RepairCopyTorn, RepairCutTorn, RepairCalling,
             RepairWrite, RepairWriteFails, RepairSyncFails, RepairCrash DEF Calling, Working
<1>2. CASE (\E i \in 1..Len(log) : Rot(i)) \/ UNCHANGED vars
  <2>1. UNCHANGED <<log, tail, tornAt, copies, pc, l>>
    BY <1>2 DEF Rot, vars, fileVars, histVars
  <2> QED BY <2>1 DEF Repair, TailSeen, Torn, RepairOf, Repaired, Loaded, Writing
<1> QED BY <1>1, <1>2, RepairPowerLoss DEF Next

LEMMA RepairInvariance == Spec => []Repair
<1> QED BY RepairInit, RepairNext, Invariance, PTL DEF Spec

-----------------------------------------------------------------------------
(* The repair comes first, and the torn bytes are copied before they go *)

\* An Open that moved a torn tail and returned has recorded it in the place where the tail stood.
THEOREM HomeRepairsFirst == Spec => []RepairIsFirst
<1>1. HomeInv /\ Repair => RepairIsFirst
  <2> SUFFICES ASSUME HomeInv, Repair, NEW p \in Proc, pc[p] = "open", l[p].torn # 0
               PROVE  \E i \in tornAt : /\ i <= Len(log)
                                        /\ log[i].type = "log.repaired"
                                        /\ log[i].ref = l[p].torn /\ log[i].by = l[p].inc
    BY DEF RepairIsFirst
  <2>1. Repaired(p)
    BY DEF Repair, RepairOf, Loaded, Writing, Unrepaired, Repairing, Locking
  <2>2. Len(log) \in Nat
    BY FileTypes DEF HomeInv
  <2>3. PICK i \in 1..Len(log) : /\ i \in tornAt
                                 /\ log[i].type = "log.repaired" /\ log[i].ref = l[p].torn
                                 /\ log[i].by = l[p].inc
    BY <2>1 DEF Repaired
  <2> QED BY <2>2, <2>3
<1> QED BY <1>1, Invariance, RepairInvariance, PTL

\* The tail a step takes off the log, other than a loss of power, is in a copy.
LEMMA TornMoves ==
  ASSUME HomeInv, Repair, [Next]_vars, Torn, tail' # tail, powers' = powers PROVE tail \in copies
<1>1. ASSUME NEW p \in Proc, Calling(p) \/ Working(p) \/ Crash(p) PROVE tail \in copies
  <2>1. ~l[p].checked
    BY NotTorn
  <2>2. CASE CutTorn(p)
    <3>1. pc[p] = "cut" /\ Loaded(p)
      BY <2>2 DEF CutTorn, Loaded, Writing, Locking
    <3>2. ~l[p].broken
      BY <3>1 DEF HomeInv, Identity, IdentityOf
    <3> QED BY <3>1, <3>2 DEF Repair, RepairOf, Repairing
  <2>3. CASE ~CutTorn(p)
    <3>1. tail' = tail
      BY <2>1, <2>3, <1>1
         DEF Calling, Working, OpenLockFile, CallAppend, CallClose, TakeLock, RefuseSecond, Stamp,
             Load, CopyTorn, OpenFails, CheckOwned, RefuseEntry, Write, FindNotOwned, WriteFails,
             SyncFails, EmptyLock, ReleaseLock, Crash, fileVars
    <3> QED BY <3>1
  <2> QED BY <2>2, <2>3
<1>2. ~PowerLoss
  <2>1. powers \in Nat
    <3>1. powers \in 0..MaxPower
      BY DEF HomeInv, TypeOK
    <3> QED BY <3>1, Bounds
  <2>2. powers' = powers
    OBVIOUS
  <2> QED BY <2>1, <2>2 DEF PowerLoss
<1>3. ~UNCHANGED vars /\ ~\E i \in 1..Len(log) : Rot(i)
  BY DEF vars, fileVars, Rot
<1> QED BY <1>1, <1>2, <1>3 DEF Next

\* Torn bytes leave the log only when a copy of them was synced.
THEOREM HomeMovesTorn == Spec => TornMovedFirst
<1>1. HomeInv /\ Repair /\ [Next]_vars
        => [Torn /\ tail' # tail /\ powers' = powers => tail \in copies]_vars
  BY TornMoves
<1> QED BY <1>1, Invariance, RepairInvariance, PTL DEF Spec, TornMovedFirst

-----------------------------------------------------------------------------
(* What a scan makes of the home's log *)

\* The readable records of a quarantine, and the seqs they name.
Quarantines == {i \in (1..Len(log)) \ rotten : log[i].type = "log.quarantined"}
NamedSeqs == {log[i].ref : i \in Quarantines}

\* The lines that do not parse and that no record names.
Unnamed == rotten \ NamedSeqs

\* In a gapless log the only bad lines are the rotten ones, and nothing is out of order.
LEMMA Scanned ==
  ASSUME TypeOK, GaplessLog
  PROVE  ~Refused(View(log, rotten)) /\ Unrecorded(View(log, rotten)) = Unnamed
<1> DEFINE ls == View(log, rotten)
<1>1. log \in Seq(Record) /\ Len(log) \in Nat /\ rotten \subseteq 1..Len(log)
  BY FileTypes
<1>2. /\ Len(ls) = Len(log)
      /\ \A i \in 1..Len(log) :
           /\ ls[i].usable = (i \notin rotten) /\ ls[i].seq = log[i].seq /\ ls[i].newer = FALSE
           /\ ls[i].check = "ok"
           /\ ls[i].names = IF log[i].type = "log.quarantined" THEN log[i].ref ELSE 0
  BY <1>1 DEF View
<1>3. \A i \in 1..Len(log) : ls[i].seq = i
  BY <1>2 DEF GaplessLog
<1> HIDE DEF ls
<1>4. \A i \in 1..Len(log) : ~OutOfOrder(ls, i)
  BY <1>2, <1>3 DEF OutOfOrder
<1>5. ~Refused(ls)
  BY <1>2, <1>4 DEF Refused
<1>6. \A i \in 1..Len(log) : Unreadable(ls, i) <=> i \in rotten
  BY <1>2, <1>3 DEF Unreadable
<1>7. \A i \in 1..Len(log) : Placed(ls, i) <=> i \notin rotten
  BY <1>2, <1>3 DEF Placed
<1>8. BadSeqs(ls) = rotten
  BY <1>1, <1>2, <1>6, <1>7 DEF BadSeqs
<1>9. Events(ls) = (1..Len(log)) \ rotten
  BY <1>2, <1>7 DEF Events
<1>10. \A n \in rotten : n \in Quarantined(ls) <=> n \in NamedSeqs
  <2> SUFFICES ASSUME NEW n \in rotten PROVE n \in Quarantined(ls) <=> n \in NamedSeqs
    OBVIOUS
  <2>1. n # 0
    BY <1>1
  <2> QED BY <2>1, <1>2, <1>9 DEF Quarantined, NamedSeqs, Quarantines
<1>11. Unrecorded(ls) = Unnamed
  BY <1>8, <1>10 DEF Unrecorded, Unnamed
<1> QED BY <1>5, <1>11 DEF ls

-----------------------------------------------------------------------------
(* What a process still has to name *)

Naming == Repairing \cup {"record", "quarantine"}

\* Until a line rots or its own append fails, what a process has left to name is what a scan
\* would find unnamed; and it never has left what a readable record names.
NamedOf(p) ==
  Loaded(p) =>
    /\ l[p].rots <= rots
    /\ pc[p] \notin Naming => l[p].bad = {}
    /\ l[p].rots = rots /\ ~l[p].broken => Unnamed = l[p].bad
    /\ l[p].bad \cap NamedSeqs = {}

Named == QuarantinedOnce /\ \A p \in Proc : NamedOf(p)

\* A step of one process that leaves the lines and what is rotten alone.
LEMMA NamedSame ==
  ASSUME HomeInv, Named, NEW p \in Proc, Alone(p), NamedOf(p)',
         UNCHANGED <<log, rotten, rots>>
  PROVE  Named'
<1>1. Quarantines' = Quarantines /\ NamedSeqs' = NamedSeqs /\ Unnamed' = Unnamed
  BY DEF Quarantines, NamedSeqs, Unnamed
<1>2. ASSUME NEW q \in Proc \ {p} PROVE NamedOf(q)'
  <2>1. NamedOf(q) /\ pc'[q] = pc[q] /\ l'[q] = l[q]
    BY <1>2 DEF Named, Alone
  <2> QED BY <2>1, <1>1 DEF NamedOf, Loaded, Writing
<1>3. QuarantinedOnce'
  BY DEF Named, QuarantinedOnce
<1> QED BY <1>2, <1>3 DEF Named

\* A step of the writer: nobody else has scanned the log.
LEMMA NamedByWriter ==
  ASSUME HomeInv, Named, NEW p \in Proc, Writing(p), Alone(p), NamedOf(p)', QuarantinedOnce'
  PROVE  Named'
<1>1. ASSUME NEW q \in Proc \ {p} PROVE NamedOf(q)'
  <2>1. ~Writing(q)
    BY <1>1, OneWriter
  <2> QED BY <1>1, <2>1 DEF NamedOf, Loaded, Writing, Alone
<1> QED BY <1>1 DEF Named

\* A process that goes on with what it has to name, on a log it does not touch.
LEMMA NamedWalk ==
  ASSUME HomeInv, Named, NEW p \in Proc, Loaded(p), Alone(p), UNCHANGED <<log, rotten, rots>>,
         l'[p].bad = l[p].bad, l'[p].rots = l[p].rots, ~l'[p].broken => ~l[p].broken,
         pc'[p] \notin Naming => l[p].bad = {}
  PROVE  Named'
<1>1. Quarantines' = Quarantines /\ NamedSeqs' = NamedSeqs /\ Unnamed' = Unnamed
  BY DEF Quarantines, NamedSeqs, Unnamed
<1>2. NamedOf(p)'
  BY <1>1 DEF Named, NamedOf
<1> QED BY <1>2, NamedSame

\* What the writer's line does to the quarantines: it is one more, of a seq no other names.
LEMMA LineNames ==
  ASSUME HomeInv, Repair, Named, NEW p \in Proc, l[p].checked, NEW e \in Due(p),
         NEW len \in Lengths[e.type], WriteLine(p, e, len)
  PROVE  /\ QuarantinedOnce' /\ rotten' = rotten
         /\ pc[p] # "quarantine" => NamedSeqs' = NamedSeqs
         /\ pc[p] = "quarantine" => e.ref \in l[p].bad /\ NamedSeqs' = NamedSeqs \cup {e.ref}
<1>1. pc[p] \in Appending /\ Loaded(p) /\ OnFile(p) /\ ~Torn
  BY Checked, NotTorn
<1>2. rotten' = rotten
  BY <1>1 DEF WriteLine
<1>3. /\ Len(log') = Len(log) + 1 /\ log'[Len(log')] = NewLine(p, e, len)
      /\ \A i \in 1..Len(log) : log'[i] = log[i]
  BY LineWritten
<1>4. Len(log) \in Nat /\ rotten \subseteq 1..Len(log)
  BY FileTypes DEF HomeInv
<1>5. (1..Len(log')) \ rotten' = ((1..Len(log)) \ rotten) \cup {Len(log) + 1}
  BY <1>2, <1>3, <1>4
<1>6. CASE pc[p] # "quarantine"
  <2>1. NewLine(p, e, len).type # "log.quarantined"
    BY <1>1, <1>6 DEF NewLine, Due, Say, ClosingEntry, Appending, Announcing
  <2>2. Quarantines' = Quarantines
    BY <2>1, <1>3, <1>5 DEF Quarantines
  <2>3. NamedSeqs' = NamedSeqs
    BY <2>2, <1>3 DEF NamedSeqs, Quarantines
  <2>4. QuarantinedOnce'
    <3> SUFFICES ASSUME NEW i \in (1..Len(log')) \ rotten', NEW j \in (1..Len(log')) \ rotten',
                        log'[i].type = "log.quarantined", log'[j].type = "log.quarantined",
                        log'[i].ref = log'[j].ref
                 PROVE  i = j
      BY DEF QuarantinedOnce
    <3>1. i \in (1..Len(log)) \ rotten /\ j \in (1..Len(log)) \ rotten
      BY <2>1, <1>3, <1>5
    <3> QED BY <3>1, <1>3 DEF Named, QuarantinedOnce
  <2> QED BY <2>3, <2>4, <1>2, <1>6
<1>7. CASE pc[p] = "quarantine"
  <2>1. PICK n \in l[p].bad : e = Say("log.quarantined", n)
    BY <1>7 DEF Due
  <2>2. NewLine(p, e, len).type = "log.quarantined" /\ NewLine(p, e, len).ref = n /\ e.ref = n
    BY <2>1 DEF NewLine, Say
  <2>3. n \notin NamedSeqs
    BY <1>1 DEF Named, NamedOf
  <2>4. Quarantines' = Quarantines \cup {Len(log) + 1}
    BY <2>2, <1>3, <1>5 DEF Quarantines
  <2>5. NamedSeqs' = NamedSeqs \cup {n}
    <3>1. \A i \in Quarantines : log'[i] = log[i]
      BY <1>3 DEF Quarantines
    <3>2. log'[Len(log) + 1].ref = n
      BY <2>2, <1>3
    <3>3. NamedSeqs' = {log'[i].ref : i \in Quarantines \cup {Len(log) + 1}}
      BY <2>4 DEF NamedSeqs
    <3> QED BY <3>1, <3>2, <3>3 DEF NamedSeqs
  <2>6. QuarantinedOnce'
    <3> SUFFICES ASSUME NEW i \in (1..Len(log')) \ rotten', NEW j \in (1..Len(log')) \ rotten',
                        log'[i].type = "log.quarantined", log'[j].type = "log.quarantined",
                        log'[i].ref = log'[j].ref
                 PROVE  i = j
      BY DEF QuarantinedOnce
    <3>1. \A k \in (1..Len(log)) \ rotten : log'[k].type = "log.quarantined" => log'[k].ref # n
      BY <2>3, <1>3 DEF NamedSeqs, Quarantines
    <3>2. log'[Len(log) + 1].ref = n
      BY <2>2, <1>3
    <3>3. CASE i \in (1..Len(log)) \ rotten /\ j \in (1..Len(log)) \ rotten
      BY <3>3, <1>3 DEF Named, QuarantinedOnce
    <3> QED BY <3>1, <3>2, <3>3, <1>5
  <2> QED BY <2>2, <2>5, <2>6, <1>2, <1>7
<1> QED BY <1>6, <1>7

LEMMA NamedInit == Init => Named
<1> QED BY DEF Init, Named, NamedOf, QuarantinedOnce, Loaded, Writing

LEMMA NamedIdle ==
  ASSUME HomeInv, Named, NEW p \in Proc,
         \/ OpenLockFile(p) \/ TakeLock(p) \/ RefuseSecond(p) \/ Stamp(p) \/ OpenFails(p)
         \/ ReleaseLock(p)
  PROVE  Named'
<1>1. UNCHANGED <<log, rotten, rots>>
  BY DEF OpenLockFile, TakeLock, RefuseSecond, Stamp, OpenFails, ReleaseLock, fileVars, countVars
<1>2. pc \in [Proc -> Steps] /\ l \in [Proc -> Log]
  BY ProcTypes DEF HomeInv
<1>3. pc'[p] \in {"out", "try", "locked", "stamped"} /\ Alone(p)
  BY <1>2 DEF OpenLockFile, TakeLock, RefuseSecond, Stamp, OpenFails, ReleaseLock, Leave, Goto,
              Alone
<1>4. NamedOf(p)'
  BY <1>3 DEF NamedOf, Loaded, Writing, Locking
<1> QED BY <1>1, <1>3, <1>4, NamedSame

\* The scan leaves the process exactly the unnamed lines.
LEMMA NamedLoad == ASSUME HomeInv, Named, NEW p \in Proc, Load(p) PROVE Named'
<1>1. UNCHANGED <<log, rotten, rots>>
  BY DEF Load, fileVars, countVars
<1>2. pc \in [Proc -> Steps] /\ l \in [Proc -> Log]
  BY ProcTypes DEF HomeInv
<1>3. Unrecorded(View(log, rotten)) = Unnamed
  BY Scanned DEF HomeInv
<1>4. /\ pc'[p] \in Naming \/ Unnamed = {}
      /\ \A q \in Proc \ {p} : pc'[q] = pc[q]
  BY <1>2, <1>3 DEF Load, Goto, LoadStep, Naming, Repairing
<1>5. /\ l'[p].bad = Unnamed /\ l'[p].rots = rots
      /\ \A q \in Proc \ {p} : l'[q] = l[q]
  BY <1>2, <1>3 DEF Load, Log
<1>6. rots \in Nat
  <2>1. rots \in 0..MaxRot
    BY DEF HomeInv, TypeOK
  <2> QED BY <2>1, Bounds
<1>7. Quarantines' = Quarantines /\ NamedSeqs' = NamedSeqs /\ Unnamed' = Unnamed
  BY <1>1 DEF Quarantines, NamedSeqs, Unnamed
<1>8. NamedOf(p)'
  <2>1. Unnamed \cap NamedSeqs = {}
    BY DEF Unnamed
  <2>2. rots <= rots
    BY <1>6
  <2> QED BY <2>1, <2>2, <1>1, <1>4, <1>5, <1>7 DEF NamedOf
<1> QED BY <1>1, <1>4, <1>5, <1>8, NamedSame DEF Alone

LEMMA NamedRepairing ==
  ASSUME HomeInv, Named, NEW p \in Proc, CopyTorn(p) \/ CutTorn(p) PROVE Named'
<1>1. /\ UNCHANGED <<l, rots>> /\ Loaded(p)
      /\ pc'[p] \in {"cut", "record"} /\ \A q \in Proc \ {p} : pc'[q] = pc[q]
  BY ProcTypes DEF CopyTorn, CutTorn, Goto, countVars, HomeInv, Loaded, Writing, Locking
<1>2. log' = log
  BY CutTornStep DEF CopyTorn
<1>3. rotten' = rotten
  BY CutTornStep DEF CopyTorn
<1>4. Alone(p) /\ pc'[p] \in Naming
  BY <1>1 DEF Alone, Naming, Repairing
<1> QED BY <1>1, <1>2, <1>3, <1>4, NamedWalk

LEMMA NamedCalling ==
  ASSUME HomeInv, Named, NEW p \in Proc,
         CallAppend(p) \/ CallClose(p) \/ CheckOwned(p) \/ RefuseEntry(p) \/ EmptyLock(p)
  PROVE  Named'
<1>1. pc \in [Proc -> Steps] /\ l \in [Proc -> Log]
  BY ProcTypes DEF HomeInv
<1>2. /\ l'[p].bad = l[p].bad /\ l'[p].rots = l[p].rots /\ l'[p].broken = l[p].broken
      /\ \A q \in Proc \ {p} : l'[q] = l[q]
  BY <1>1 DEF CallAppend, CallClose, CheckOwned, RefuseEntry, EmptyLock, Log
<1>3. /\ \/ pc[p] \in Appending /\ pc'[p] = pc[p]
         \/ pc[p] \in {"open", "append", "emptying"}
      /\ \A q \in Proc \ {p} : pc'[q] = pc[q]
  BY <1>1 DEF CallAppend, CallClose, CheckOwned, RefuseEntry, EmptyLock, Goto
<1>4. UNCHANGED <<log, rotten, rots>>
  BY DEF CallAppend, CallClose, CheckOwned, RefuseEntry, EmptyLock, fileVars, countVars
<1>5. Loaded(p) /\ Alone(p)
  BY <1>2, <1>3 DEF Loaded, Writing, Alone, Appending, Announcing, Locking
<1>6. pc'[p] \notin Naming => l[p].bad = {}
  BY <1>3, <1>5 DEF Named, NamedOf, Naming, Repairing
<1> QED BY <1>2, <1>4, <1>5, <1>6, NamedWalk

LEMMA NamedWrite == ASSUME HomeInv, Repair, Named, NEW p \in Proc, Write(p) PROVE Named'
<1>1. /\ pc[p] \in Appending /\ l[p].checked /\ rots' = rots
  BY DEF Write, countVars
<1> DEFINE Wrote(e, len) ==
        /\ WriteLine(p, e, len)
        /\ l' = [l EXCEPT
                   ![p].seq = @ + 1, ![p].size = @ + len, ![p].checked = FALSE,
                   ![p].bad = IF pc[p] = "quarantine" THEN @ \ {e.ref} ELSE @,
                   ![p].opened = IF pc[p] = "announce" THEN l[p].seq + 1 ELSE @]
        /\ Goto(p, AfterAppend(p, e))
<1>e. PICK e \in Due(p) : \E len \in Lengths[e.type] : Wrote(e, len)
  BY DEF Write
<1>2. PICK len \in Lengths[e.type] : Wrote(e, len)
  BY <1>e
<1>3. pc \in [Proc -> Steps] /\ l \in [Proc -> Log]
  BY ProcTypes DEF HomeInv
<1>4. Loaded(p) /\ Writing(p)
  BY <1>1, Checked
<1>5. /\ pc'[p] = AfterAppend(p, e) /\ \A q \in Proc \ {p} : pc'[q] = pc[q]
  BY <1>2, <1>3 DEF Goto
<1>6. /\ l'[p].rots = l[p].rots /\ l'[p].broken = l[p].broken
      /\ l'[p].bad = IF pc[p] = "quarantine" THEN l[p].bad \ {e.ref} ELSE l[p].bad
      /\ \A q \in Proc \ {p} : l'[q] = l[q]
  BY <1>2, <1>3 DEF Log
<1>7. /\ QuarantinedOnce' /\ rotten' = rotten
      /\ pc[p] # "quarantine" => NamedSeqs' = NamedSeqs
      /\ pc[p] = "quarantine" => e.ref \in l[p].bad /\ NamedSeqs' = NamedSeqs \cup {e.ref}
  BY <1>1, <1>2, LineNames
<1>8. NamedOf(p)
  BY DEF Named
<1>9. pc'[p] \notin Naming => l'[p].bad = {}
  BY <1>1, <1>4, <1>5, <1>6, <1>8
     DEF AfterAppend, LoadStep, NamedOf, Naming, Repairing, Appending, Announcing
<1>10. NamedOf(p)'
  <2>1. Unnamed = l[p].bad => Unnamed' = l'[p].bad
    BY <1>6, <1>7 DEF Unnamed
  <2>2. l'[p].bad \cap NamedSeqs' = {}
    BY <1>4, <1>6, <1>7, <1>8 DEF NamedOf
  <2> QED BY <2>1, <2>2, <1>1, <1>4, <1>6, <1>8, <1>9 DEF NamedOf
<1> QED BY <1>4, <1>5, <1>6, <1>7, <1>10, NamedByWriter DEF Alone

\* A failed append leaves no Log, or a broken one with nothing to name.
LEMMA NamedFailed ==
  ASSUME HomeInv, Named, NEW p \in Proc, pc[p] \in Appending, AppendFailed(p), rots' = rots,
         QuarantinedOnce'
  PROVE  Named'
<1>1. pc \in [Proc -> Steps] /\ l \in [Proc -> Log]
  BY ProcTypes DEF HomeInv
<1>2. Writing(p) /\ Loaded(p)
  BY DEF Writing, Loaded, Appending, Announcing, Locking
<1>3. CASE Leave(p, "failed")
  <2>1. pc'[p] = "out" /\ Alone(p)
    BY <1>1, <1>3 DEF Leave, Goto, Alone
  <2>2. NamedOf(p)'
    BY <2>1 DEF NamedOf, Loaded, Writing
  <2> QED BY <2>1, <2>2, <1>2, NamedByWriter
<1>4. CASE ~Leave(p, "failed")
  <2>1. /\ pc[p] \in {"append", "closing"}
        /\ Goto(p, IF pc[p] = "closing" THEN "emptying" ELSE "open")
        /\ l' = [l EXCEPT ![p].broken = TRUE, ![p].checked = FALSE]
    BY <1>4 DEF AppendFailed
  <2>2. \A q \in Proc \ {p} : pc'[q] = pc[q]
    BY <2>1, <1>1 DEF Goto
  <2>3. /\ l'[p].bad = l[p].bad /\ l'[p].rots = l[p].rots /\ l'[p].broken
        /\ \A q \in Proc \ {p} : l'[q] = l[q]
    BY <2>1, <1>1 DEF Log
  <2>4. l[p].bad = {} /\ l[p].rots <= rots
    BY <2>1, <1>2 DEF Named, NamedOf, Naming, Repairing
  <2>5. NamedOf(p)'
    BY <2>3, <2>4 DEF NamedOf
  <2> QED BY <2>2, <2>3, <2>5, <1>2, NamedByWriter DEF Alone
<1> QED BY <1>3, <1>4

LEMMA NamedWriteFails == ASSUME HomeInv, Named, NEW p \in Proc, WriteFails(p) PROVE Named'
<1>1. pc[p] \in Appending /\ AppendFailed(p) /\ log' = log /\ l[p].checked /\ rots' = rots
  BY WriteFailsStep DEF WriteFails, countVars
<1>2. rotten' = rotten
  BY WriteFailsStep
<1>3. QuarantinedOnce'
  BY <1>1, <1>2 DEF Named, QuarantinedOnce
<1> QED BY <1>1, <1>3, NamedFailed

LEMMA NamedSyncFails == ASSUME HomeInv, Repair, Named, NEW p \in Proc, SyncFails(p) PROVE Named'
<1>1. pc[p] \in Appending /\ AppendFailed(p) /\ l[p].checked /\ rots' = rots
  BY DEF SyncFails, countVars
<1>2. QuarantinedOnce'
  <2>e. PICK e \in Due(p) : \E len \in Lengths[e.type] : WriteLine(p, e, len)
    BY DEF SyncFails
  <2>1. PICK len \in Lengths[e.type] : WriteLine(p, e, len)
    BY <2>e
  <2> QED BY <2>1, <1>1, LineNames
<1> QED BY <1>1, <1>2, NamedFailed

LEMMA NamedCrash == ASSUME HomeInv, Repair, Named, NEW p \in Proc, Crash(p) PROVE Named'
<1>1. Leave(p, "died") /\ rots' = rots
  BY DEF Crash, countVars
<1>2. pc'[p] = "out" /\ Alone(p)
  BY <1>1, ProcTypes DEF Leave, Goto, Alone, HomeInv
<1>3. NamedOf(p)'
  BY <1>2 DEF NamedOf, Loaded, Writing
<1>4. CASE UNCHANGED <<log, rotten>>
  BY <1>1, <1>2, <1>3, <1>4, NamedSame
<1>5. CASE l[p].checked /\ \E e \in Due(p) : \E len \in Lengths[e.type] : WriteLine(p, e, len)
  <2>1. QuarantinedOnce' /\ Writing(p)
    BY <1>5, LineNames, Checked
  <2> QED BY <2>1, <1>2, <1>3, NamedByWriter
<1> QED BY <1>4, <1>5 DEF Crash, WriteHalf

LEMMA NamedPowerLoss == ASSUME HomeInv, Named, PowerLoss PROVE Named'
<1>1. PICK n \in synced..Len(log) : log' = SubSeq(log, 1, n) /\ rotten' = rotten \cap 1..n
  BY LostLines
<1>2. log \in Seq(Record) /\ Len(log) \in Nat /\ synced \in Nat /\ synced <= Len(log)
  BY FileTypes DEF HomeInv
<1>3. n \in Nat /\ n <= Len(log)
  BY <1>2
<1>4. Len(log') = n /\ \A i \in 1..n : log'[i] = log[i] /\ i \in 1..Len(log)
  BY <1>1, <1>2, <1>3
<1>5. QuarantinedOnce'
  BY <1>1, <1>4 DEF Named, QuarantinedOnce
<1>6. \A p \in Proc : NamedOf(p)'
  BY DEF PowerLoss, NamedOf, Loaded, Writing
<1> QED BY <1>5, <1>6 DEF Named

LEMMA NamedRot == ASSUME HomeInv, Named, NEW i \in 1..Len(log), Rot(i) PROVE Named'
<1>1. /\ UNCHANGED <<log, pc, l>> /\ rotten' = rotten \cup {i} /\ rots' = rots + 1
  BY DEF Rot
<1>2. NamedSeqs' \subseteq NamedSeqs
  BY <1>1 DEF NamedSeqs, Quarantines
<1>3. QuarantinedOnce'
  BY <1>1 DEF Named, QuarantinedOnce
<1>4. ASSUME NEW p \in Proc PROVE NamedOf(p)'
  <2>1. rots \in Nat /\ l[p].rots \in Nat
    <3>1. rots \in 0..MaxRot /\ l[p].rots \in 0..MaxRot
      BY DEF HomeInv, TypeOK, Log
    <3> QED BY <3>1, Bounds
  <2>2. l[p].rots <= rots => l[p].rots <= rots' /\ l[p].rots # rots'
    BY <2>1, <1>1
  <2>3. l[p].bad \cap NamedSeqs = {} => l[p].bad \cap NamedSeqs' = {}
    BY <1>2
  <2> QED BY <2>2, <2>3, <1>1 DEF Named, NamedOf, Loaded, Writing
<1> QED BY <1>3, <1>4 DEF Named

LEMMA NamedNext == HomeInv /\ Repair /\ Named /\ [Next]_vars => Named'
<1> SUFFICES ASSUME HomeInv, Repair, Named, [Next]_vars PROVE Named'
  OBVIOUS
<1>1. ASSUME NEW p \in Proc, Calling(p) \/ Working(p) \/ Crash(p) PROVE Named'
  <2>1. ~FindNotOwned(p)
    BY AlwaysOwned DEF FindNotOwned
  <2> QED BY <2>1, <1>1, NamedIdle, NamedLoad, NamedRepairing, NamedCalling, NamedWrite,
             NamedWriteFails, NamedSyncFails, NamedCrash DEF Calling, Working
<1>2. CASE UNCHANGED vars
  BY <1>2 DEF vars, fileVars, countVars, Named, QuarantinedOnce, NamedOf, Unnamed, NamedSeqs,
              Quarantines, Loaded, Writing
<1> QED BY <1>1, <1>2, NamedPowerLoss, NamedRot DEF Next

LEMMA NamedInvariance == Spec => []Named
<1> QED BY NamedInit, NamedNext, Invariance, RepairInvariance, PTL DEF Spec

\* Opening again and again never names a bad line twice.
THEOREM HomeQuarantinesOnce == Spec => []QuarantinedOnce
<1>1. Named => QuarantinedOnce
  BY DEF Named
<1> QED BY <1>1, NamedInvariance, PTL

\* A process whose Open returned works on a log that Verify passes, until a line rots or an
\* append of its own fails.
THEOREM HomeOpensVerified == Spec => []OpenVerifies
<1>1. HomeInv /\ Repair /\ Named => OpenVerifies
  <2> SUFFICES ASSUME HomeInv, Repair, Named, NEW p \in Proc, pc[p] = "open", ~l[p].broken,
                      l[p].rots = rots
               PROVE  Verifies(View(log, rotten), Torn)
    BY DEF OpenVerifies
  <2>1. Loaded(p) /\ pc[p] \notin Naming /\ pc[p] \notin Repairing
    BY DEF Loaded, Writing, Locking, Naming, Repairing
  <2>2. ~Torn
    BY <2>1 DEF Repair, RepairOf, Torn
  <2>3. Unnamed = {}
    BY <2>1 DEF Named, NamedOf
  <2>4. ~Refused(View(log, rotten)) /\ Unrecorded(View(log, rotten)) = {}
    BY <2>3, Scanned DEF HomeInv
  <2> QED BY <2>2, <2>4 DEF Verifies
<1> QED BY <1>1, Invariance, RepairInvariance, NamedInvariance, PTL

-----------------------------------------------------------------------------
(* A home that others touch *)

\* What is known of one process: the files it opened are no newer than those at the paths, and
\* if it ever strayed it has lost one of them and comes to no other write.
StrayOf(p) ==
  /\ l[p].held <= tampers + 1 /\ (lockAt = 0 => l[p].held <= tampers)
  /\ pc[p] # "out" => l[p].held # 0
  /\ l[p].checked => pc[p] \in Appending
  /\ Loaded(p) => l[p].onLog <= logAt
  /\ Writing(p) => l[p].inc \in 1..opens
  /\ Writing(p) /\ strays[l[p].inc] # 0 => Loaded(p) /\ ~Owned(p) /\ ~l[p].checked

Distinct == \A p, q \in Proc : Writing(p) /\ Writing(q) /\ l[p].inc = l[q].inc => p = q

StrayInv ==
  /\ TypeOK /\ Measured
  /\ lockAt <= tampers + 1
  /\ \A p \in Proc : StrayOf(p)
  /\ Distinct
  /\ \A k \in Holder : k > opens => strays[k] = 0
  /\ OneStrayLine

-----------------------------------------------------------------------------
(* Types *)

FileOK ==
  /\ log \in Seq(Record) /\ rotten \subseteq 1..Len(log) /\ bytes \in Nat /\ tail \in 0..MaxOpens
  /\ synced \in 0..Len(log) /\ copies \subseteq 0..MaxOpens /\ tornAt \subseteq Nat
  /\ astray \in Nat

ProcOK ==
  /\ pc \in [Proc -> Steps] /\ l \in [Proc -> Log]
  /\ flock \in [LockFile -> Proc \cup {NoProc}] /\ content \in [LockFile -> 0..MaxOpens]
  /\ fate \in [Holder -> {"none", "running", "died", "failed", "closed", "closed in error"}]

RestOK ==
  /\ lockAt \in 0..(MaxTamper + 1) /\ logAt \in Nat
  /\ opens \in 0..MaxOpens /\ appends \in 0..MaxAppends /\ rots \in 0..MaxRot
  /\ powers \in 0..MaxPower /\ tampers \in 0..MaxTamper
  /\ acked \subseteq Record /\ strays \in [Holder -> Nat]

LEMMA TypeParts == TypeOK <=> FileOK /\ ProcOK /\ RestOK
<1> QED BY DEF TypeOK, FileOK, ProcOK, RestOK

LEMMA Numbers ==
  TypeOK => /\ tampers \in Nat /\ lockAt \in Nat /\ logAt \in Nat /\ opens \in Nat
            /\ \A p \in Proc : /\ l[p] \in Log /\ l[p].held \in Nat /\ l[p].onLog \in Nat
                               /\ l[p].inc \in 0..MaxOpens /\ l[p].seq \in Nat
                               /\ l[p].size \in Nat /\ l[p].bad \subseteq Nat
            /\ \A k \in Holder : strays[k] \in Nat
<1> SUFFICES ASSUME TypeOK
             PROVE  /\ tampers \in Nat /\ lockAt \in Nat /\ logAt \in Nat /\ opens \in Nat
                    /\ \A p \in Proc : /\ l[p] \in Log /\ l[p].held \in Nat /\ l[p].onLog \in Nat
                                       /\ l[p].inc \in 0..MaxOpens /\ l[p].seq \in Nat
                                       /\ l[p].size \in Nat /\ l[p].bad \subseteq Nat
                    /\ \A k \in Holder : strays[k] \in Nat
  OBVIOUS
<1>1. RestOK /\ ProcOK
  BY TypeParts
<1>2. tampers \in Nat /\ lockAt \in Nat /\ logAt \in Nat /\ opens \in Nat
  BY <1>1, Bounds DEF RestOK
<1>3. ASSUME NEW p \in Proc
      PROVE  /\ l[p] \in Log /\ l[p].held \in Nat /\ l[p].onLog \in Nat
             /\ l[p].inc \in 0..MaxOpens /\ l[p].seq \in Nat
             /\ l[p].size \in Nat /\ l[p].bad \subseteq Nat
  <2>1. l[p] \in Log
    BY <1>1 DEF ProcOK
  <2> QED BY <2>1, Bounds DEF Log
<1>4. \A k \in Holder : strays[k] \in Nat
  BY <1>1 DEF RestOK
<1> QED BY <1>2, <1>3, <1>4

\* Nothing that the measure of the log looks at has moved.
LEMMA MeasuredSame == ASSUME Measured, UNCHANGED <<log, bytes, tail>> PROVE Measured'
<1>1. \A i, j \in 1..Len(log) : i < j => log[i].end < log[j].end
  BY DEF Measured
<1>2. \A i \in 1..Len(log) : log[i].end <= bytes
  BY DEF Measured
<1>3. ~Torn => bytes = End(log)
  BY DEF Measured
<1> QED BY <1>1, <1>2, <1>3 DEF Measured, Torn

LEMMA NoLonger ==
  ASSUME NEW x \in Nat, NEW y \in Nat, NEW n \in Nat, y <= x
  PROVE  y + n <= x + n
<1> QED OBVIOUS

LEMMA Longer ==
  ASSUME NEW x \in Nat, NEW y \in Nat, NEW n \in Nat, ~(y <= x)
  PROVE  n + (y - x) \in Nat /\ n <= n + (y - x) /\ y + n <= x + (n + (y - x))
<1> QED OBVIOUS

\* The log never gets fewer bytes astray, and gets more only as it grows.
LEMMA Lengthened ==
  ASSUME TypeOK, bytes' \in Nat, NEW p \in Proc, Lengthen(p)
  PROVE  /\ bytes \in Nat /\ astray \in Nat /\ astray' \in Nat /\ astray <= astray'
         /\ Owned(p) \/ bytes' + astray <= bytes + astray'
         /\ Owned(p) \/ bytes' <= bytes => astray' = astray
<1>1. bytes \in Nat /\ astray \in Nat
  BY FileTypes DEF TypeOK
<1>2. CASE Owned(p) \/ bytes' <= bytes
  <2>1. astray' = astray
    BY <1>2 DEF Lengthen
  <2>2. bytes' <= bytes => bytes' + astray <= bytes + astray'
    BY <2>1, <1>1, NoLonger
  <2>3. astray' \in Nat /\ astray <= astray'
    BY <2>1, <1>1
  <2> QED BY <2>1, <2>2, <2>3, <1>1, <1>2
<1>3. CASE ~(Owned(p) \/ bytes' <= bytes)
  <2>1. astray' = astray + (bytes' - bytes)
    BY <1>3 DEF Lengthen
  <2>2. ~Owned(p) /\ ~(bytes' <= bytes)
    BY <1>3
  <2>3. astray' \in Nat /\ astray <= astray' /\ bytes' + astray <= bytes + astray'
    BY <2>1, <2>2, <1>1, Longer
  <2> QED BY <2>2, <2>3, <1>1
<1> QED BY <1>2, <1>3

\* The files after a line, after half a line and after a cut.
LEMMA LineTypedNew ==
  ASSUME TypeOK, NEW p \in Proc, pc[p] \in Appending, l[p].inc \in Holder, NEW e \in Due(p),
         NEW len \in Lengths[e.type]
  PROVE  /\ NewLine(p, e, len) \in Record /\ NewLine(p, e, len).end = bytes + len
         /\ NewLine(p, e, len).by = l[p].inc /\ len \in Nat /\ len > 1
<1>1. e \in Entry /\ l[p].seq \in Nat /\ bytes \in Nat
  BY DueTyped, Numbers, FileTypes
<1>2. len \in Nat /\ len > 1
  BY <1>1, LengthTyped
<1> QED BY <1>1, <1>2 DEF NewLine, Record, Entry

LEMMA LineFile ==
  ASSUME TypeOK, Measured, NEW p \in Proc, pc[p] \in Appending, l[p].inc \in Holder,
         NEW e \in Due(p), NEW len \in Lengths[e.type], WriteLine(p, e, len)
  PROVE  /\ log' \in Seq(Record) /\ rotten' \subseteq 1..Len(log') /\ tail' \in 0..MaxOpens
         /\ Len(log') \in Nat /\ Len(log) <= Len(log') /\ bytes' \in Nat /\ astray' \in Nat
         /\ Measured'
<1>1. /\ log \in Seq(Record) /\ Len(log) \in Nat /\ rotten \subseteq 1..Len(log)
      /\ tail \in 0..MaxOpens /\ bytes \in Nat
  BY FileTypes
<1>2. /\ NewLine(p, e, len) \in Record /\ len \in Nat /\ len > 0
      /\ NewLine(p, e, len).end = bytes + len
  BY LineTypedNew
<1>3. /\ log' \in Seq(Record) /\ rotten' \subseteq 1..Len(log') /\ tail' \in 0..MaxOpens
      /\ Len(log') \in Nat /\ Len(log) <= Len(log') /\ bytes' \in Nat
      /\ Measured'
  <2>1. CASE OnFile(p)
    <3>1. /\ log' = Append(log, NewLine(p, e, len)) /\ tail' = 0 /\ bytes' = bytes + len
          /\ rotten' \subseteq rotten \cup {Len(log) + 1}
      BY <2>1 DEF WriteLine
    <3>2. log' \in Seq(Record) /\ Len(log') = Len(log) + 1
      BY <3>1, <1>1, <1>2
    <3>3. Measured'
      BY <3>1, <1>2, MeasuredLine
    <3> QED BY <3>1, <3>2, <3>3, <1>1, <1>2, Bounds
  <2>2. CASE ~OnFile(p)
    <3>1. log' = log /\ rotten' = rotten /\ tail' = tail /\ bytes' = bytes
      BY <2>2 DEF WriteLine
    <3>2. Measured'
      BY <3>1, MeasuredSame
    <3> QED BY <3>1, <3>2, <1>1
  <2> QED BY <2>1, <2>2
<1>4. astray' \in Nat
  BY <1>3, Lengthened DEF WriteLine
<1> QED BY <1>3, <1>4

LEMMA HalfFile ==
  ASSUME TypeOK, Measured, NEW p \in Proc, pc[p] \in Appending, l[p].inc \in Holder, WriteHalf(p)
  PROVE  /\ log' = log /\ rotten' = rotten /\ tail' \in 0..MaxOpens /\ tornAt' \subseteq Nat
         /\ bytes' \in Nat /\ astray' \in Nat /\ tail' # 0 /\ bytes < bytes' /\ Measured'
<1>1. l[p].inc \in 0..MaxOpens /\ l[p].inc # 0
  BY Numbers DEF Holder
<1>2. Len(log) + 1 \in Nat /\ bytes \in Nat /\ tail \in 0..MaxOpens
  BY FileTypes
<1>3. tornAt \subseteq Nat
  BY DEF TypeOK
<1>4. PICK k \in Part(p) : bytes' = bytes + k
  BY DEF WriteHalf
<1>5. bytes' \in Nat /\ bytes < bytes'
  <2>1. k \in Nat /\ k > 0
    BY PartTyped
  <2> QED BY <2>1, <1>2, <1>4
<1>6. astray' \in Nat
  BY <1>5, Lengthened DEF WriteHalf
<1>7. tail' \in 0..MaxOpens /\ tail' # 0
  BY <1>1, <1>2 DEF WriteHalf, Torn
<1>8. Measured'
  BY <1>2, <1>5, <1>7, MeasuredHalf DEF WriteHalf
<1> QED BY <1>2, <1>3, <1>5, <1>6, <1>7, <1>8 DEF WriteHalf

LEMMA CutFile ==
  ASSUME TypeOK, Measured, NEW p \in Proc, l[p].inc \in Holder, Cut(p)
  PROVE  /\ log' \in Seq(Record) /\ rotten' \subseteq 1..Len(log') /\ tail' \in 0..MaxOpens
         /\ Len(log') \in Nat /\ tornAt' \subseteq Nat /\ bytes' \in Nat /\ astray' \in Nat
         /\ Len(log') <= Len(log) /\ Measured' /\ bytes' = l[p].size /\ Lengthen(p)
         /\ \A i \in 1..Len(log) :
              /\ i <= Len(log') <=> log[i].end <= l[p].size
              /\ i <= Len(log') => log'[i] = log[i]
<1>1. /\ log \in Seq(Record) /\ Len(log) \in Nat /\ rotten \subseteq 1..Len(log)
      /\ tail \in 0..MaxOpens /\ tornAt \subseteq Nat
  BY FileTypes DEF TypeOK
<1>2. /\ 0 \in 0..MaxOpens /\ l[p].inc \in 0..MaxOpens /\ l[p].size \in Nat
  BY Bounds, Numbers
<1>3. PICK n \in 0..Len(log) :
        /\ \A i \in 1..Len(log) : i <= n <=> log[i].end <= l[p].size
        /\ log' = FirstLines(log, n) /\ rotten' = rotten \cap 1..n
        /\ tail' = IF End(log') = l[p].size THEN 0
                   ELSE IF n < Len(log) THEN log[n + 1].by ELSE IF Torn THEN tail ELSE l[p].inc
        /\ tornAt' = IF tail' = 0 THEN tornAt ELSE tornAt \cup {n + 1}
  BY DEF Cut
<1>4. n \in Nat /\ n <= Len(log)
  BY <1>1, <1>3
<1>5. log' \in Seq(Record) /\ Len(log') = n /\ \A i \in 1..n : log'[i] = log[i]
  <2>1. CASE n < Len(log)
    BY <2>1, <1>1, <1>3, <1>4 DEF FirstLines
  <2>2. CASE ~(n < Len(log))
    BY <2>2, <1>1, <1>3, <1>4 DEF FirstLines
  <2> QED BY <2>1, <2>2
<1>6. rotten' \subseteq 1..Len(log')
  BY <1>3, <1>5
<1>7. tail' \in 0..MaxOpens
  <2>1. ASSUME n < Len(log) PROVE log[n + 1].by \in 0..MaxOpens
    <3>1. n + 1 \in 1..Len(log)
      BY <2>1, <1>1, <1>4
    <3>2. log[n + 1].by \in Holder
      BY <3>1, <1>1, LineTyped
    <3> QED BY <3>2, Bounds DEF Holder
  <2>2. tail' \in {0, tail, l[p].inc} \/ (n < Len(log) /\ tail' = log[n + 1].by)
    BY <1>3
  <2> QED BY <2>1, <2>2, <1>1, <1>2
<1>8. tornAt' \subseteq Nat
  <2>1. tornAt' = tornAt \/ tornAt' = tornAt \cup {n + 1}
    BY <1>3
  <2>2. n + 1 \in Nat
    BY <1>4
  <2> QED BY <2>1, <2>2, <1>1
<1>9. bytes' \in Nat /\ astray' \in Nat
  <2>1. bytes' \in Nat
    BY <1>2 DEF Cut
  <2> QED BY <2>1, Lengthened DEF Cut
<1>10. Measured' /\ bytes' = l[p].size /\ Lengthen(p)
  <2>1. bytes' = l[p].size /\ Lengthen(p)
    BY DEF Cut
  <2>2. \A i \in 1..Len(log') : i \in 1..Len(log) /\ log'[i] = log[i] /\ log[i].end <= bytes'
    BY <2>1, <1>1, <1>3, <1>4, <1>5
  <2>3. \A i, j \in 1..Len(log') : i < j => log'[i].end < log'[j].end
    BY <2>2 DEF Measured
  <2>4. tail' = 0 => bytes' = End(log')
    <3>1. \A i \in 1..Len(log) : log[i].by # 0
      BY <1>1, LineTyped DEF Holder
    <3>2. n < Len(log) => n + 1 \in 1..Len(log)
      BY <1>1, <1>4
    <3>3. l[p].inc # 0
      BY DEF Holder
    <3> QED BY <1>3, <2>1, <3>1, <3>2, <3>3 DEF Torn
  <2> QED BY <2>1, <2>2, <2>3, <2>4 DEF Measured, Torn
<1>11. \A i \in 1..Len(log) :
         /\ i <= Len(log') <=> log[i].end <= l[p].size
         /\ i <= Len(log') => log'[i] = log[i]
  BY <1>1, <1>3, <1>4, <1>5
<1> QED BY <1>4, <1>5, <1>6, <1>7, <1>8, <1>9, <1>10, <1>11

\* Who comes to a write is a holder.
LEMMA CheckedHolder ==
  ASSUME StrayInv, NEW p \in Proc
  PROVE  /\ pc[p] \in Repairing \cup Appending => l[p].inc \in Holder
         /\ l[p].checked => pc[p] \in Appending
<1>1. StrayOf(p) /\ opens \in 0..MaxOpens
  BY DEF StrayInv, TypeOK
<1>2. pc[p] \in Repairing \cup Appending => Writing(p)
  BY DEF Writing, Repairing, Appending, Announcing
<1>3. pc[p] \in Repairing \cup Appending => l[p].inc \in 1..opens
  BY <1>1, <1>2 DEF StrayOf
<1> QED BY <1>1, <1>3, Bounds DEF StrayOf, Holder

\* Every step of a process keeps the files' types.
LEMMA FileKept ==
  ASSUME StrayInv, NEW p \in Proc, Calling(p) \/ Working(p) \/ Crash(p)
  PROVE  FileOK' /\ Measured'
<1>1. FileOK /\ /\ log \in Seq(Record) /\ Len(log) \in Nat /\ rotten \subseteq 1..Len(log)
                /\ tail \in 0..MaxOpens /\ synced \in Nat /\ synced <= Len(log)
                /\ copies \subseteq 0..MaxOpens /\ tornAt \subseteq Nat
                /\ bytes \in Nat /\ astray \in Nat
  BY TypeParts, FileTypes DEF StrayInv, FileOK
<1>2. pc[p] \in Appending => l[p].inc \in Holder
  BY CheckedHolder
<1>3. CASE /\ UNCHANGED <<log, rotten, bytes, tail, synced, astray, tornAt>>
           /\ copies' \subseteq copies \cup {l[p].torn}
  <2>1. l[p].torn \in 0..MaxOpens
    BY Numbers DEF StrayInv, Log
  <2>2. Measured'
    BY <1>3, MeasuredSame DEF StrayInv
  <2> QED BY <2>1, <2>2, <1>1, <1>3 DEF FileOK
<1>4. CASE \/ Write(p) \/ SyncFails(p)
           \/ /\ Crash(p) /\ pc[p] \in Appending /\ tornAt' = tornAt
              /\ \E e \in Due(p) : \E len \in Lengths[e.type] : WriteLine(p, e, len)
  <2>e. PICK e \in Due(p) : \E len \in Lengths[e.type] : WriteLine(p, e, len)
    BY <1>4 DEF Write, SyncFails
  <2>1. PICK len \in Lengths[e.type] : WriteLine(p, e, len)
    BY <2>e
  <2>2. pc[p] \in Appending /\ UNCHANGED <<copies, tornAt>>
    BY <1>4 DEF Write, SyncFails, Crash
  <2>3. /\ log' \in Seq(Record) /\ rotten' \subseteq 1..Len(log') /\ tail' \in 0..MaxOpens
        /\ Len(log') \in Nat /\ Len(log) <= Len(log') /\ bytes' \in Nat /\ astray' \in Nat
        /\ Measured'
    BY <2>1, <2>2, <1>2, LineFile DEF StrayInv
  <2>4. synced' \in {synced, Len(log')}
    BY <1>4 DEF Write, SyncFails, Crash
  <2>5. synced' \in 0..Len(log')
    BY <2>3, <2>4, <1>1
  <2> QED BY <2>2, <2>3, <2>5, <1>1 DEF FileOK
<1>5. CASE WriteFails(p)
  <2>1. /\ log' \in Seq(Record) /\ rotten' \subseteq 1..Len(log') /\ tail' \in 0..MaxOpens
        /\ Len(log') \in Nat /\ tornAt' \subseteq Nat /\ bytes' \in Nat /\ astray' \in Nat
        /\ Measured'
    <3>1. CASE UNCHANGED <<log, rotten, bytes, tail, astray, tornAt>>
      BY <3>1, <1>1, MeasuredSame DEF StrayInv
    <3>2. CASE Cut(p)
      <4>1. l[p].inc \in Holder
        BY <1>2, <1>5 DEF WriteFails
      <4> QED BY <3>2, <4>1, CutFile DEF StrayInv
    <3>3. CASE WriteHalf(p)
      <4>1. pc[p] \in Appending /\ l[p].inc \in Holder
        BY <1>2, <1>5 DEF WriteFails
      <4> QED BY <3>3, <4>1, <1>1, HalfFile DEF StrayInv
    <3> QED BY <3>1, <3>2, <3>3, <1>5 DEF WriteFails
  <2>2. synced' = (IF synced <= Len(log') THEN synced ELSE Len(log')) /\ copies' = copies
    BY <1>5 DEF WriteFails
  <2>3. synced' \in 0..Len(log')
    BY <2>1, <2>2, <1>1
  <2> QED BY <2>1, <2>2, <2>3, <1>1 DEF FileOK
<1>6. CASE CutTorn(p)
  <2>1. CASE OnFile(p)
    <3>1. Cut(p) /\ synced' = Len(log') /\ copies' = copies
      BY <1>6, <2>1 DEF CutTorn
    <3>3. /\ log' \in Seq(Record) /\ rotten' \subseteq 1..Len(log') /\ tail' \in 0..MaxOpens
          /\ Len(log') \in Nat /\ tornAt' \subseteq Nat /\ bytes' \in Nat /\ astray' \in Nat
          /\ Measured'
      <4>1. l[p].inc \in Holder
        BY <1>6, CheckedHolder DEF CutTorn, Repairing
      <4> QED BY <3>1, <4>1, CutFile DEF StrayInv
    <3>4. synced' \in 0..Len(log')
      BY <3>1, <3>3
    <3> QED BY <3>1, <3>3, <3>4, <1>1 DEF FileOK
  <2>2. CASE ~OnFile(p)
    <3>1. UNCHANGED <<log, rotten, bytes, tail, synced, astray, tornAt, copies>>
      BY <1>6, <2>2 DEF CutTorn
    <3> QED BY <3>1, <1>3
  <2> QED BY <2>1, <2>2
<1>7. CASE Crash(p) /\ pc[p] \in Appending /\ WriteHalf(p)
  <2>1. /\ log' = log /\ rotten' = rotten /\ tail' \in 0..MaxOpens /\ tornAt' \subseteq Nat
        /\ bytes' \in Nat /\ astray' \in Nat /\ Measured'
    BY <1>2, <1>7, HalfFile DEF StrayInv
  <2>2. UNCHANGED <<synced, copies>>
    BY <1>7 DEF Crash
  <2> QED BY <2>1, <2>2, <1>1 DEF FileOK
<1>8. CASE Crash(p) /\ UNCHANGED <<log, rotten, bytes, tail, astray, tornAt>>
  BY <1>3, <1>8 DEF Crash
<1>9. CASE ~(Write(p) \/ SyncFails(p) \/ WriteFails(p) \/ CutTorn(p) \/ Crash(p))
  <2>1. /\ UNCHANGED <<log, rotten, bytes, tail, synced, astray, tornAt>>
        /\ copies' \subseteq copies \cup {l[p].torn}
    BY <1>9 DEF Calling, Working, OpenLockFile, CallAppend, CallClose, TakeLock, RefuseSecond,
                Stamp, Load, CopyTorn, OpenFails, CheckOwned, RefuseEntry, FindNotOwned,
                EmptyLock, ReleaseLock, fileVars, histVars
  <2> QED BY <2>1, <1>3
<1>10. l[p].checked => pc[p] \in Appending
  BY DEF StrayInv, StrayOf
<1> QED BY <1>4, <1>5, <1>6, <1>7, <1>8, <1>9, <1>10 DEF Crash

\* The process's Log is gone.
LEMMA Gone ==
  ASSUME TypeOK, NEW p \in Proc, NEW how \in {"died", "failed", "closed", "closed in error"},
         Leave(p, how)
  PROVE  /\ Alone(p) /\ pc'[p] = "out" /\ l'[p] = NoLog
         /\ pc' \in [Proc -> Steps] /\ l' \in [Proc -> Log]
         /\ flock' \in [LockFile -> Proc \cup {NoProc}]
         /\ fate' \in [Holder -> {"none", "running", "died", "failed", "closed",
                                  "closed in error"}]
<1>1. /\ pc \in [Proc -> Steps] /\ l \in [Proc -> Log]
      /\ flock \in [LockFile -> Proc \cup {NoProc}]
      /\ fate \in [Holder -> {"none", "running", "died", "failed", "closed", "closed in error"}]
  BY DEF TypeOK
<1>2. "out" \in Steps /\ NoLog \in Log
  BY NoLogTyped DEF Steps
<1>3. pc' \in [Proc -> Steps] /\ pc'[p] = "out" /\ \A q \in Proc \ {p} : pc'[q] = pc[q]
  BY <1>1, <1>2, Moved DEF Leave
<1>4. l' \in [Proc -> Log] /\ l'[p] = NoLog /\ \A q \in Proc \ {p} : l'[q] = l[q]
  BY <1>1, <1>2, Updated DEF Leave
<1>5. flock' \in [LockFile -> Proc \cup {NoProc}]
  BY <1>1 DEF Leave
<1>6. fate' \in [Holder -> {"none", "running", "died", "failed", "closed", "closed in error"}]
  BY <1>1 DEF Leave
<1> QED BY <1>3, <1>4, <1>5, <1>6 DEF Alone

\* What an append that fails in the middle of a call leaves: its Log, broken.
LEMMA Broke ==
  ASSUME TypeOK, NEW p \in Proc, pc[p] \in Appending, AppendFailed(p), ~Leave(p, "failed")
  PROVE  /\ Alone(p) /\ pc'[p] \in {"open", "emptying"} /\ pc' \in [Proc -> Steps]
         /\ l' \in [Proc -> Log] /\ UNCHANGED <<flock, fate>>
         /\ l'[p].held = l[p].held /\ l'[p].inc = l[p].inc /\ l'[p].onLog = l[p].onLog
         /\ ~l'[p].checked
<1> DEFINE s == IF pc[p] = "closing" THEN "emptying" ELSE "open"
<1>1. pc \in [Proc -> Steps] /\ l \in [Proc -> Log] /\ s \in Steps /\ s \in {"open", "emptying"}
  BY DEF TypeOK, Steps
<1>2. /\ Goto(p, s) /\ UNCHANGED <<flock, fate>>
      /\ l' = [l EXCEPT ![p].broken = TRUE, ![p].checked = FALSE]
  BY DEF AppendFailed
<1> HIDE DEF s
<1>3. pc' \in [Proc -> Steps] /\ pc'[p] = s /\ \A q \in Proc \ {p} : pc'[q] = pc[q]
  BY <1>1, <1>2, Moved
<1>4. /\ l' \in [Proc -> Log] /\ \A q \in Proc \ {p} : l'[q] = l[q]
      /\ l'[p].held = l[p].held /\ l'[p].inc = l[p].inc /\ l'[p].onLog = l[p].onLog
      /\ ~l'[p].checked
  BY <1>1, <1>2 DEF Log
<1> QED BY <1>1, <1>2, <1>3, <1>4 DEF Alone

\* The counters and what is at the paths, for the steps that leave most of them alone.
LEMMA TypesKept ==
  ASSUME StrayInv, NEW p \in Proc, Calling(p) \/ Working(p) \/ Crash(p), ProcOK', RestOK'
  PROVE  TypeOK' /\ Measured'
<1>1. FileOK' /\ Measured'
  BY FileKept
<1> QED BY <1>1 DEF TypeOK, FileOK, ProcOK, RestOK

-----------------------------------------------------------------------------
(* Parts of the invariant *)

\* A writer walks on in its code with the files it has open.  It may have written a line; it
\* comes to a write only if it owned the home when it looked.
LEMMA StrayWalk ==
  ASSUME StrayInv, TypeOK', Measured', NEW p \in Proc, Alone(p), Writing(p), Writing(p)',
         UNCHANGED <<tampers, lockAt, logAt, opens>>, Loaded(p)' <=> Loaded(p),
         l'[p].held = l[p].held, l'[p].inc = l[p].inc, l'[p].onLog = l[p].onLog,
         l'[p].checked => pc'[p] \in Appending /\ (l[p].checked \/ Owned(p)),
         \/ strays' = strays
         \/ /\ strays' = [strays EXCEPT ![l[p].inc] = @ + 1]
            /\ l[p].checked /\ ~l'[p].checked /\ Loaded(p) /\ ~Owned(p)
  PROVE  StrayInv'
<1>1. StrayOf(p) /\ l[p].inc \in 1..opens /\ opens \in Nat /\ l[p].inc \in Holder
      /\ strays \in [Holder -> Nat]
  <2>1. StrayOf(p)
    BY DEF StrayInv
  <2>2. l[p].inc \in 1..opens
    BY <2>1 DEF StrayOf
  <2>3. opens \in Nat /\ l[p].inc \in 0..MaxOpens
    BY Numbers DEF StrayInv
  <2>4. strays \in [Holder -> Nat]
    BY DEF StrayInv, TypeOK
  <2> QED BY <2>1, <2>2, <2>3, <2>4, Bounds DEF Holder
<1>2. /\ \A k \in Holder : k # l[p].inc => strays'[k] = strays[k]
      /\ \/ strays'[l[p].inc] = strays[l[p].inc]
         \/ /\ strays'[l[p].inc] = strays[l[p].inc] + 1
            /\ l[p].checked /\ ~l'[p].checked /\ Loaded(p) /\ ~Owned(p)
  BY <1>1
<1>3. Owned(p)' <=> Owned(p)
  BY DEF Owned
<1>4. l[p].checked => strays[l[p].inc] = 0
  BY <1>1 DEF StrayOf
<1>5. StrayOf(p)'
  BY <1>1, <1>2, <1>3, <1>4 DEF StrayOf, Writing
<1>6. ASSUME NEW q \in Proc \ {p} PROVE StrayOf(q)'
  <2>1. StrayOf(q) /\ pc'[q] = pc[q] /\ l'[q] = l[q]
    BY <1>6 DEF StrayInv, Alone
  <2>2. (Writing(q)' <=> Writing(q)) /\ (Loaded(q)' <=> Loaded(q)) /\ (Owned(q)' <=> Owned(q))
    BY <2>1 DEF Writing, Loaded, Owned
  <2>3. ASSUME Writing(q) PROVE strays'[l[q].inc] = strays[l[q].inc]
    <3>1. l[q].inc # l[p].inc
      BY <1>6, <2>3 DEF StrayInv, Distinct
    <3>2. l[q].inc \in 1..opens /\ l[q].inc \in 0..MaxOpens
      BY <2>1, <2>3, Numbers DEF StrayOf, StrayInv
    <3>3. l[q].inc \in Holder
      BY <3>2, <1>1, Bounds DEF Holder
    <3> QED BY <3>1, <3>3, <1>2
  <2> QED BY <2>1, <2>2, <2>3 DEF StrayOf
<1>7. Distinct'
  <2>1. \A q \in Proc : (Writing(q)' <=> Writing(q)) /\ l'[q].inc = l[q].inc
    BY DEF Alone, Writing
  <2> QED BY <2>1 DEF StrayInv, Distinct
<1>8. OneStrayLine' /\ \A k \in Holder : k > opens' => strays'[k] = 0
  <2> SUFFICES ASSUME NEW k \in Holder
               PROVE  strays'[k] <= 1 /\ (k > opens => strays'[k] = 0)
    BY DEF OneStrayLine
  <2>1. strays[k] <= 1 /\ (k > opens => strays[k] = 0) /\ k \in Nat
    BY DEF StrayInv, OneStrayLine, Holder
  <2>2. CASE k = l[p].inc
    <3>1. ~(k > opens)
      BY <2>1, <2>2, <1>1
    <3> QED BY <2>1, <2>2, <3>1, <1>2, <1>4
  <2> QED BY <2>1, <2>2, <1>2
<1> QED BY <1>5, <1>6, <1>7, <1>8 DEF StrayInv

\* A process that has no Log after its step; it may have written a line before.
LEMMA StrayGone ==
  ASSUME StrayInv, TypeOK', Measured', NEW p \in Proc, Alone(p), pc'[p] = "out", l'[p] = NoLog,
         UNCHANGED <<tampers, lockAt, logAt, opens>>,
         \/ strays' = strays
         \/ strays' = [strays EXCEPT ![l[p].inc] = @ + 1] /\ l[p].checked
  PROVE  StrayInv'
<1>1. tampers \in Nat /\ opens \in Nat /\ strays \in [Holder -> Nat]
  BY Numbers DEF StrayInv, TypeOK
<1>2. StrayOf(p)'
  <2>1. NoLog.held = 0 /\ ~NoLog.checked
    BY DEF NoLog
  <2>2. l'[p].held = 0 /\ ~l'[p].checked /\ ~Writing(p)' /\ ~Loaded(p)'
    BY <2>1 DEF Writing, Loaded
  <2>3. 0 <= tampers + 1 /\ 0 <= tampers
    BY <1>1
  <2> QED BY <2>2, <2>3 DEF StrayOf
<1>3. l[p].checked => /\ Writing(p) /\ l[p].inc \in 1..opens /\ l[p].inc \in Holder
                      /\ strays[l[p].inc] = 0
  <2> SUFFICES ASSUME l[p].checked
               PROVE  Writing(p) /\ l[p].inc \in 1..opens /\ l[p].inc \in Holder
                      /\ strays[l[p].inc] = 0
    OBVIOUS
  <2>1. Writing(p)
    BY DEF StrayInv, StrayOf, Writing, Appending, Announcing
  <2>2. l[p].inc \in 1..opens /\ l[p].inc \in 0..MaxOpens
    BY <2>1, Numbers DEF StrayInv, StrayOf
  <2>3. l[p].inc \in Holder
    BY <2>2, <1>1, Bounds DEF Holder
  <2>4. strays[l[p].inc] = 0
    BY <2>1 DEF StrayInv, StrayOf
  <2> QED BY <2>1, <2>2, <2>3, <2>4
<1>4. ASSUME NEW q \in Proc \ {p} PROVE StrayOf(q)'
  <2>1. StrayOf(q) /\ pc'[q] = pc[q] /\ l'[q] = l[q]
    BY <1>4 DEF StrayInv, Alone
  <2>2. (Writing(q)' <=> Writing(q)) /\ (Loaded(q)' <=> Loaded(q)) /\ (Owned(q)' <=> Owned(q))
    BY <2>1 DEF Writing, Loaded, Owned
  <2>3. ASSUME Writing(q) PROVE strays'[l[q].inc] = strays[l[q].inc]
    <3>1. l[p].checked => l[q].inc # l[p].inc
      BY <1>3, <1>4, <2>3 DEF StrayInv, Distinct
    <3>2. l[q].inc \in 1..opens /\ l[q].inc \in 0..MaxOpens
      BY <2>1, <2>3, Numbers DEF StrayOf, StrayInv
    <3>3. l[q].inc \in Holder
      BY <3>2, <1>1, Bounds DEF Holder
    <3> QED BY <3>1, <3>3, <1>1
  <2> QED BY <2>1, <2>2, <2>3 DEF StrayOf
<1>5. Distinct'
  <2>1. \A q \in Proc : Writing(q)' => Writing(q) /\ l'[q].inc = l[q].inc
    BY DEF Alone, Writing
  <2> QED BY <2>1 DEF StrayInv, Distinct
<1>6. OneStrayLine' /\ \A k \in Holder : k > opens' => strays'[k] = 0
  <2> SUFFICES ASSUME NEW k \in Holder
               PROVE  strays'[k] <= 1 /\ (k > opens => strays'[k] = 0)
    BY DEF OneStrayLine
  <2>1. strays[k] <= 1 /\ (k > opens => strays[k] = 0) /\ k \in Nat
    BY DEF StrayInv, OneStrayLine, Holder
  <2>2. CASE strays' # strays /\ k = l[p].inc
    <3>1. ~(k > opens) /\ strays'[k] = 1
      BY <2>1, <2>2, <1>1, <1>3
    <3> QED BY <3>1
  <2>3. CASE strays' = strays \/ k # l[p].inc
    <3>1. strays'[k] = strays[k]
      BY <2>3, <1>1
    <3> QED BY <2>1, <3>1
  <2> QED BY <2>2, <2>3
<1> QED BY <1>2, <1>4, <1>5, <1>6 DEF StrayInv

-----------------------------------------------------------------------------
(* The steps *)

LEMMA StrayInit == Init => StrayInv
<1> SUFFICES ASSUME Init PROVE StrayInv
  OBVIOUS
<1>1. TypeOK /\ Measured
  BY InitInv DEF HomeInv
<1>2. NoLog.held = 0 /\ ~NoLog.checked
  BY DEF NoLog
<1>3. \A p \in Proc : StrayOf(p)
  BY <1>2 DEF Init, StrayOf, Writing, Loaded
<1> QED BY <1>1, <1>3 DEF Init, StrayInv, Distinct, OneStrayLine, Writing

\* Steps that change only where the process is, its append's check or the lock's content.
LEMMA StrayWalks ==
  ASSUME StrayInv, NEW p \in Proc,
         \/ Stamp(p) \/ CopyTorn(p) \/ CutTorn(p) \/ CallAppend(p) \/ CheckOwned(p)
         \/ RefuseEntry(p) \/ CallClose(p) \/ EmptyLock(p)
  PROVE  StrayInv'
<1>1. /\ pc \in [Proc -> Steps] /\ l \in [Proc -> Log]
      /\ flock \in [LockFile -> Proc \cup {NoProc}] /\ content \in [LockFile -> 0..MaxOpens]
      /\ fate \in [Holder -> {"none", "running", "died", "failed", "closed", "closed in error"}]
      /\ appends \in 0..MaxAppends
  BY DEF StrayInv, TypeOK
<1>2. UNCHANGED <<tampers, lockAt, logAt, opens, flock, strays, acked, rots, powers>>
  BY DEF Stamp, CopyTorn, CutTorn, CallAppend, CheckOwned, RefuseEntry, CallClose, EmptyLock,
         fileVars, lockVars, countVars, histVars
<1>3. /\ pc' \in [Proc -> Steps] /\ \A q \in Proc \ {p} : pc'[q] = pc[q]
      /\ \/ pc[p] = "locked" /\ pc'[p] = "stamped"
         \/ pc[p] \in Repairing /\ pc'[p] \in {"cut", "record"}
         \/ pc[p] \in Appending /\ pc'[p] = pc[p]
         \/ /\ pc[p] \in {"open", "append", "emptying"}
            /\ pc'[p] \in {"open", "append", "closing", "emptying", "releasing"}
  BY <1>1 DEF Stamp, CopyTorn, CutTorn, CallAppend, CheckOwned, RefuseEntry, CallClose, EmptyLock,
              Goto, Steps, Locking, Repairing, Appending, Announcing
<1>4. /\ l' \in [Proc -> Log] /\ \A q \in Proc \ {p} : l'[q] = l[q]
      /\ l'[p].held = l[p].held /\ l'[p].inc = l[p].inc /\ l'[p].onLog = l[p].onLog
  <2>1. l \in [Proc -> Log]
    BY <1>1
  <2>2. CASE CheckOwned(p)
    BY <2>1, <2>2 DEF CheckOwned, Log
  <2>3. CASE RefuseEntry(p)
    BY <2>1, <2>3 DEF RefuseEntry, Log
  <2>4. CASE ~CheckOwned(p) /\ ~RefuseEntry(p)
    <3>1. l' = l
      BY <2>4 DEF Stamp, CopyTorn, CutTorn, CallAppend, CallClose, EmptyLock, lockVars
    <3> QED BY <2>1, <3>1
  <2> QED BY <2>2, <2>3, <2>4
<1>5. l'[p].checked => pc'[p] \in Appending /\ (l[p].checked \/ Owned(p))
  <2>1. l[p].checked => pc[p] \in Appending
    BY DEF StrayInv, StrayOf
  <2>2. CASE CheckOwned(p)
    BY <2>2 DEF CheckOwned
  <2>3. CASE RefuseEntry(p)
    <3>1. ~l'[p].checked
      BY <1>1, <2>3 DEF RefuseEntry, Log
    <3> QED BY <3>1
  <2>4. CASE ~CheckOwned(p) /\ ~RefuseEntry(p)
    <3>1. l' = l /\ pc[p] \notin Appending
      BY <2>4 DEF Stamp, CopyTorn, CutTorn, CallAppend, CallClose, EmptyLock, lockVars,
                  Appending, Announcing
    <3> QED BY <2>1, <3>1
  <2> QED BY <2>2, <2>3, <2>4
<1>6. content' \in [LockFile -> 0..MaxOpens]
  <2>1. l[p].inc \in 0..MaxOpens /\ 0 \in 0..MaxOpens
    BY Numbers, Bounds DEF StrayInv
  <2>2. CASE Stamp(p)
    BY <1>1, <2>1, <2>2 DEF Stamp
  <2>3. CASE EmptyLock(p)
    BY <1>1, <2>1, <2>3 DEF EmptyLock
  <2>4. CASE ~Stamp(p) /\ ~EmptyLock(p)
    <3>1. content' = content
      BY <2>4 DEF CopyTorn, CutTorn, CallAppend, CheckOwned, RefuseEntry, CallClose, lockVars
    <3> QED BY <1>1, <3>1
  <2> QED BY <2>2, <2>3, <2>4
<1>7. fate' \in [Holder -> {"none", "running", "died", "failed", "closed", "closed in error"}]
  <2>1. CASE EmptyLock(p)
    BY <1>1, <2>1 DEF EmptyLock
  <2>2. CASE ~EmptyLock(p)
    <3>1. fate' = fate
      BY <2>2 DEF Stamp, CopyTorn, CutTorn, CallAppend, CheckOwned, RefuseEntry, CallClose, histVars
    <3> QED BY <1>1, <3>1
  <2> QED BY <2>1, <2>2
<1>8. appends' \in 0..MaxAppends
  <2>1. CASE CallAppend(p)
    <3>1. appends \in 0..MaxAppends /\ appends < MaxAppends /\ appends' = appends + 1
      BY <1>1, <2>1 DEF CallAppend
    <3> QED BY <3>1, Bounds
  <2>2. CASE ~CallAppend(p)
    <3>1. appends' = appends
      BY <2>2 DEF Stamp, CopyTorn, CutTorn, CheckOwned, RefuseEntry, CallClose, EmptyLock, countVars
    <3> QED BY <1>1, <3>1
  <2> QED BY <2>1, <2>2
<1>9. TypeOK' /\ Measured'
  <2>1. ProcOK'
    BY <1>1, <1>2, <1>3, <1>4, <1>6, <1>7 DEF ProcOK
  <2>2. RestOK'
    BY <1>2, <1>8 DEF StrayInv, TypeOK, RestOK
  <2> QED BY <2>1, <2>2, TypesKept DEF Calling, Working
<1>10. Alone(p) /\ Writing(p) /\ Writing(p)' /\ (Loaded(p)' <=> Loaded(p))
  BY <1>3, <1>4 DEF Alone, Writing, Loaded, Locking, Repairing, Appending, Announcing
<1> QED BY <1>2, <1>4, <1>5, <1>9, <1>10, StrayWalk

LEMMA StrayOpenLockFile == ASSUME StrayInv, NEW p \in Proc, OpenLockFile(p) PROVE StrayInv'
<1>1. UNCHANGED <<tampers, logAt, opens, flock, content, fate, strays, acked, rots, powers,
                  appends>>
  BY DEF OpenLockFile, fileVars, countVars, histVars
<1>2. pc \in [Proc -> Steps] /\ l \in [Proc -> Log] /\ "try" \in Steps /\ pc[p] = "out"
  BY DEF StrayInv, TypeOK, Steps, OpenLockFile
<1>3. tampers \in Nat /\ lockAt \in Nat /\ tampers <= MaxTamper /\ lockAt <= tampers + 1
  <2>1. tampers \in 0..MaxTamper /\ lockAt \in 0..(MaxTamper + 1) /\ lockAt <= tampers + 1
    BY DEF StrayInv, TypeOK
  <2> QED BY <2>1, Bounds
<1>4. /\ lockAt' = IF lockAt = 0 THEN tampers + 1 ELSE lockAt
      /\ lockAt' \in 0..(MaxTamper + 1) /\ lockAt' # 0 /\ lockAt' <= tampers + 1
  <2>1. lockAt' = IF lockAt = 0 THEN tampers + 1 ELSE lockAt
    BY DEF OpenLockFile
  <2> QED BY <2>1, <1>3, Bounds
<1>5. pc' \in [Proc -> Steps] /\ pc'[p] = "try" /\ \A q \in Proc \ {p} : pc'[q] = pc[q]
  BY <1>2, Moved DEF OpenLockFile
<1>6. /\ l' \in [Proc -> Log] /\ \A q \in Proc \ {p} : l'[q] = l[q]
      /\ l'[p].held = lockAt' /\ l'[p].checked = l[p].checked
  BY <1>2, <1>4 DEF OpenLockFile, Log
<1>7. TypeOK' /\ Measured'
  <2>1. ProcOK'
    BY <1>1, <1>5, <1>6 DEF StrayInv, TypeOK, ProcOK
  <2>2. RestOK'
    BY <1>1, <1>4 DEF StrayInv, TypeOK, RestOK
  <2> QED BY <2>1, <2>2, TypesKept DEF Calling
<1>8. StrayOf(p)'
  <2>1. ~l[p].checked
    BY <1>2 DEF StrayInv, StrayOf, Appending, Announcing
  <2>2. ~Writing(p)' /\ ~Loaded(p)'
    BY <1>5 DEF Writing, Loaded
  <2> QED BY <2>1, <2>2, <1>1, <1>4, <1>6 DEF StrayOf
<1>9. ASSUME NEW q \in Proc \ {p} PROVE StrayOf(q)'
  <2>1. StrayOf(q) /\ pc'[q] = pc[q] /\ l'[q] = l[q]
    BY <1>5, <1>6, <1>9 DEF StrayInv
  <2>2. (Writing(q)' <=> Writing(q)) /\ (Loaded(q)' <=> Loaded(q))
    BY <2>1 DEF Writing, Loaded
  <2>3. Loaded(q) /\ ~Owned(q) => ~Owned(q)'
    <3>1. l[q].held \in Nat /\ (lockAt = 0 => l[q].held <= tampers)
      BY <2>1, Numbers DEF StrayOf, StrayInv
    <3>2. lockAt = 0 => lockAt' # l[q].held
      BY <3>1, <1>3, <1>4
    <3>3. lockAt # 0 => lockAt' = lockAt
      BY <1>4
    <3> QED BY <2>1, <3>2, <3>3, <1>1 DEF Owned
  <2> QED BY <2>1, <2>2, <2>3, <1>1, <1>4 DEF StrayOf
<1>10. Distinct'
  <2>1. \A q \in Proc : Writing(q)' => q # p /\ Writing(q) /\ l'[q].inc = l[q].inc
    BY <1>5, <1>6 DEF Writing
  <2> QED BY <2>1 DEF StrayInv, Distinct
<1> QED BY <1>1, <1>4, <1>7, <1>8, <1>9, <1>10 DEF StrayInv, OneStrayLine

LEMMA StrayTakeLock == ASSUME StrayInv, NEW p \in Proc, TakeLock(p) PROVE StrayInv'
<1>1. UNCHANGED <<tampers, logAt, lockAt, strays, acked, rots, powers, appends>>
  BY DEF TakeLock, fileVars
<1>2. pc \in [Proc -> Steps] /\ l \in [Proc -> Log] /\ "locked" \in Steps /\ pc[p] = "try"
  BY DEF StrayInv, TypeOK, Steps, Locking, TakeLock
<1>3. opens \in Nat /\ opens < MaxOpens /\ opens' = opens + 1 /\ opens + 1 \in Holder
      /\ opens + 1 \in 0..MaxOpens
  <2>1. opens \in 0..MaxOpens /\ opens < MaxOpens /\ opens' = opens + 1
    BY DEF StrayInv, TypeOK, TakeLock
  <2> QED BY <2>1, Bounds DEF Holder
<1>4. l[p].held \in LockFile
  <2>1. l[p].held \in Nat /\ l[p].held # 0 /\ l[p].held <= tampers + 1
    BY <1>2, Numbers DEF StrayInv, StrayOf
  <2>2. tampers \in 0..MaxTamper
    BY DEF StrayInv, TypeOK
  <2> QED BY <2>1, <2>2, Bounds DEF LockFile
<1>5. /\ content \in [LockFile -> 0..MaxOpens] /\ flock \in [LockFile -> Proc \cup {NoProc}]
      /\ fate \in [Holder -> {"none", "running", "died", "failed", "closed", "closed in error"}]
  BY DEF StrayInv, TypeOK
<1>6. /\ content' \in [LockFile -> 0..MaxOpens] /\ flock' \in [LockFile -> Proc \cup {NoProc}]
      /\ content[l[p].held] \in 0..MaxOpens
  <2>1. content \in [LockFile -> 0..MaxOpens] /\ 0 \in 0..MaxOpens
    <3>1. 0 \in 0..MaxOpens
      BY Bounds
    <3> QED BY <3>1, <1>5
  <2>2. flock \in [LockFile -> Proc \cup {NoProc}]
    BY <1>5
  <2>3. content' = [content EXCEPT ![l[p].held] = 0]
    BY DEF TakeLock
  <2>4. flock' = [flock EXCEPT ![l[p].held] = p]
    BY DEF TakeLock
  <2>5. flock' \in [LockFile -> Proc \cup {NoProc}]
    BY <2>2, <2>4
  <2>6. content' \in [LockFile -> 0..MaxOpens] /\ content[l[p].held] \in 0..MaxOpens
    BY <2>1, <2>3, <1>4
  <2> QED BY <2>5, <2>6
<1>7. fate' \in [Holder -> {"none", "running", "died", "failed", "closed", "closed in error"}]
  BY <1>5 DEF TakeLock
<1>8. pc' \in [Proc -> Steps] /\ pc'[p] = "locked" /\ \A q \in Proc \ {p} : pc'[q] = pc[q]
  BY <1>2, Moved DEF TakeLock
<1>9. /\ l' \in [Proc -> Log] /\ \A q \in Proc \ {p} : l'[q] = l[q]
      /\ l'[p].inc = opens + 1 /\ l'[p].held = l[p].held /\ l'[p].checked = l[p].checked
  <2> DEFINE c == content[l[p].held]
             r == [l[p] EXCEPT !.inc = opens + 1, !.stale = c]
  <2>1. l[p] \in Log /\ c \in 0..MaxOpens
    BY <1>2, <1>6
  <2>2. l' = [l EXCEPT ![p] = r]
    BY <1>2 DEF TakeLock
  <2> HIDE DEF c
  <2>3. r \in Log /\ r.inc = opens + 1 /\ r.held = l[p].held /\ r.checked = l[p].checked
    BY <2>1, <1>3 DEF Log
  <2> HIDE DEF r
  <2>4. l' \in [Proc -> Log] /\ l'[p] = r /\ \A q \in Proc \ {p} : l'[q] = l[q]
    BY <2>2, <2>3, <1>2, Updated
  <2> QED BY <2>3, <2>4
<1>10. TypeOK' /\ Measured'
  <2>1. ProcOK'
    BY <1>6, <1>7, <1>8, <1>9 DEF ProcOK
  <2>2. RestOK'
    BY <1>1, <1>3 DEF StrayInv, TypeOK, RestOK
  <2> QED BY <2>1, <2>2, TypesKept DEF Working
<1>11. strays[opens + 1] = 0
  <2>1. opens + 1 > opens
    BY <1>3
  <2> QED BY <2>1, <1>3 DEF StrayInv
<1>12. StrayOf(p)'
  <2>1. ~l[p].checked
    BY <1>2 DEF StrayInv, StrayOf, Appending, Announcing
  <2>2. ~Loaded(p)'
    BY <1>8 DEF Loaded, Locking
  <2>3. opens + 1 \in 1..opens'
    BY <1>3
  <2>4. StrayOf(p) /\ pc[p] # "out"
    BY <1>2 DEF StrayInv
  <2> QED BY <2>1, <2>2, <2>3, <2>4, <1>1, <1>9, <1>11 DEF StrayOf
<1>13. ASSUME NEW q \in Proc \ {p}
       PROVE  StrayOf(q)' /\ (Writing(q)' => Writing(q) /\ l'[q].inc # l'[p].inc)
  <2>1. StrayOf(q) /\ pc'[q] = pc[q] /\ l'[q] = l[q]
    BY <1>8, <1>9, <1>13 DEF StrayInv
  <2>2. (Writing(q)' <=> Writing(q)) /\ (Loaded(q)' <=> Loaded(q)) /\ (Owned(q)' <=> Owned(q))
    BY <2>1, <1>1 DEF Writing, Loaded, Owned
  <2>3. l[q].inc \in 1..opens => l[q].inc \in 1..opens' /\ l[q].inc # opens + 1
    BY <1>3
  <2>4. StrayOf(q)'
    BY <2>1, <2>2, <2>3, <1>1 DEF StrayOf
  <2> QED BY <2>1, <2>2, <2>3, <2>4, <1>9 DEF StrayOf
<1>14. Distinct'
  <2> SUFFICES ASSUME NEW q \in Proc, NEW r \in Proc, Writing(q)', Writing(r)',
                      l'[q].inc = l'[r].inc
               PROVE  q = r
    BY DEF Distinct
  <2>1. CASE q = p \/ r = p
    BY <2>1, <1>13
  <2>2. CASE q # p /\ r # p
    <3>1. Writing(q) /\ Writing(r) /\ l'[q] = l[q] /\ l'[r] = l[r]
      BY <2>2, <1>9, <1>13
    <3> QED BY <3>1 DEF StrayInv, Distinct
  <2> QED BY <2>1, <2>2
<1>15. \A k \in Holder : k > opens' => strays'[k] = 0
  <2>1. \A k \in Holder : k > opens' => k > opens
    BY <1>3 DEF Holder
  <2> QED BY <2>1, <1>1 DEF StrayInv
<1> QED BY <1>1, <1>10, <1>12, <1>13, <1>14, <1>15 DEF StrayInv, OneStrayLine

LEMMA StrayRefuseSecond == ASSUME StrayInv, NEW p \in Proc, RefuseSecond(p) PROVE StrayInv'
<1>1. UNCHANGED <<tampers, logAt, lockAt, opens, flock, content, fate, strays, acked, rots,
                  powers, appends>>
  BY DEF RefuseSecond, fileVars, lockVars, countVars, histVars
<1>2. pc \in [Proc -> Steps] /\ l \in [Proc -> Log] /\ "out" \in Steps
  BY DEF StrayInv, TypeOK, Steps
<1>3. pc' \in [Proc -> Steps] /\ pc'[p] = "out" /\ \A q \in Proc \ {p} : pc'[q] = pc[q]
  BY <1>2, Moved DEF RefuseSecond
<1>4. l' \in [Proc -> Log] /\ l'[p] = NoLog /\ \A q \in Proc \ {p} : l'[q] = l[q]
  BY <1>2, NoLogTyped, Updated DEF RefuseSecond
<1>5. TypeOK' /\ Measured'
  <2>1. ProcOK'
    BY <1>1, <1>3, <1>4 DEF StrayInv, TypeOK, ProcOK
  <2>2. RestOK'
    BY <1>1 DEF StrayInv, TypeOK, RestOK
  <2> QED BY <2>1, <2>2, TypesKept DEF Working
<1> QED BY <1>1, <1>3, <1>4, <1>5, StrayGone DEF Alone

LEMMA StraysTyped ==
  ASSUME strays \in [Holder -> Nat], NEW k,
         strays' = strays \/ strays' = [strays EXCEPT ![k] = @ + 1]
  PROVE  strays' \in [Holder -> Nat]
<1> QED OBVIOUS

\* Steps that end with the process's Log gone, after a line it may have written.
LEMMA StrayLeft ==
  ASSUME StrayInv, NEW p \in Proc, Calling(p) \/ Working(p) \/ Crash(p),
         NEW how \in {"died", "failed", "closed", "closed in error"}, Leave(p, how),
         UNCHANGED <<tampers, logAt, lockAt, opens, content, acked, rots, powers, appends>>,
         \/ strays' = strays
         \/ strays' = [strays EXCEPT ![l[p].inc] = @ + 1] /\ l[p].checked
  PROVE  StrayInv'
<1>1. /\ Alone(p) /\ pc'[p] = "out" /\ l'[p] = NoLog
      /\ pc' \in [Proc -> Steps] /\ l' \in [Proc -> Log]
      /\ flock' \in [LockFile -> Proc \cup {NoProc}]
      /\ fate' \in [Holder -> {"none", "running", "died", "failed", "closed", "closed in error"}]
  BY Gone DEF StrayInv
<1>2. content' \in [LockFile -> 0..MaxOpens]
  BY DEF StrayInv, TypeOK
<1>3. strays' \in [Holder -> Nat]
  <2>1. strays \in [Holder -> Nat]
    BY DEF StrayInv, TypeOK
  <2>2. strays' = strays \/ strays' = [strays EXCEPT ![l[p].inc] = @ + 1]
    OBVIOUS
  <2> QED BY <2>1, <2>2, StraysTyped
<1>4. TypeOK' /\ Measured'
  <2>1. ProcOK'
    BY <1>1, <1>2 DEF ProcOK
  <2>2. RestOK'
    BY <1>3 DEF StrayInv, TypeOK, RestOK
  <2> QED BY <2>1, <2>2, TypesKept
<1> QED BY <1>1, <1>4, StrayGone

LEMMA StrayLeaves ==
  ASSUME StrayInv, NEW p \in Proc, OpenFails(p) \/ ReleaseLock(p) \/ Crash(p) PROVE StrayInv'
<1>1. UNCHANGED <<tampers, logAt, lockAt, opens, content, acked, rots, powers, appends>>
  BY DEF OpenFails, ReleaseLock, Crash, fileVars, countVars
<1>2. Leave(p, "failed") \/ Leave(p, "closed") \/ Leave(p, "closed in error") \/ Leave(p, "died")
  BY DEF OpenFails, ReleaseLock, Crash
<1>3. \/ strays' = strays
      \/ strays' = [strays EXCEPT ![l[p].inc] = @ + 1] /\ l[p].checked
  BY DEF OpenFails, ReleaseLock, Crash, WriteLine
<1> QED BY <1>1, <1>2, <1>3, StrayLeft DEF Working

\* The file the process reads is the one at the path.
LEMMA StrayLoad == ASSUME StrayInv, NEW p \in Proc, Load(p) PROVE StrayInv'
<1> DEFINE unrecorded == Unrecorded(View(log, rotten))
           s == IF Torn THEN "copy" ELSE LoadStep(p, unrecorded)
<1>1. UNCHANGED <<tampers, logAt, lockAt, opens, flock, content, fate, strays, acked, rots,
                  powers, appends>>
  BY DEF Load, fileVars, lockVars, countVars, histVars
<1>2. /\ pc[p] = "stamped" /\ Goto(p, s)
      /\ l' = [l EXCEPT ![p].onLog = logAt, ![p].seq = Len(log), ![p].size = End(log),
                        ![p].torn = tail, ![p].bad = unrecorded, ![p].rots = rots]
  BY DEF Load
<1>3. /\ pc \in [Proc -> Steps] /\ l \in [Proc -> Log] /\ s \in Repairing \cup Announcing
      /\ s \in Steps
  BY DEF StrayInv, TypeOK, Steps, LoadStep, Repairing, Announcing, Appending
<1>4. unrecorded \subseteq Nat
  <2>1. BadSeqs(View(log, rotten)) \subseteq Nat
    BY DEF BadSeqs
  <2> QED BY <2>1 DEF Unrecorded
<1>5. Len(log) \in Nat /\ tail \in 0..MaxOpens /\ logAt \in Nat /\ rots \in 0..MaxRot
  BY FileTypes DEF StrayInv, TypeOK
<1>e. End(log) \in Nat
  BY FileTypes, EndTyped DEF StrayInv
<1> HIDE DEF unrecorded, s
<1>6. pc' \in [Proc -> Steps] /\ pc'[p] = s /\ \A q \in Proc \ {p} : pc'[q] = pc[q]
  BY <1>2, <1>3, Moved
<1>7. /\ l' \in [Proc -> Log] /\ \A q \in Proc \ {p} : l'[q] = l[q]
      /\ l'[p].held = l[p].held /\ l'[p].inc = l[p].inc /\ l'[p].checked = l[p].checked
      /\ l'[p].onLog = logAt
  <2> DEFINE r == [l[p] EXCEPT !.onLog = logAt, !.seq = Len(log), !.size = End(log),
                               !.torn = tail, !.bad = unrecorded, !.rots = rots]
  <2>1. l[p] \in Log
    BY <1>3
  <2>2. /\ r \in Log /\ r.held = l[p].held /\ r.inc = l[p].inc /\ r.checked = l[p].checked
        /\ r.onLog = logAt
    BY <2>1, <1>4, <1>5, <1>e DEF Log
  <2>3. l' = [l EXCEPT ![p] = r]
    BY <1>2
  <2> HIDE DEF r
  <2>4. l' \in [Proc -> Log] /\ l'[p] = r /\ \A q \in Proc \ {p} : l'[q] = l[q]
    BY <2>2, <2>3, <1>3, Updated
  <2> QED BY <2>2, <2>4
<1>8. Alone(p) /\ Writing(p) /\ Writing(p)' /\ ~Loaded(p)
  BY <1>2, <1>3, <1>6, <1>7 DEF Alone, Writing, Loaded, Locking, Repairing, Announcing
<1>9. TypeOK' /\ Measured'
  <2>1. ProcOK'
    BY <1>1, <1>6, <1>7 DEF StrayInv, TypeOK, ProcOK
  <2>2. RestOK'
    BY <1>1 DEF StrayInv, TypeOK, RestOK
  <2> QED BY <2>1, <2>2, TypesKept DEF Working
<1>10. StrayOf(p)'
  <2>1. StrayOf(p) /\ pc[p] # "out" /\ pc[p] \notin Appending
    BY <1>2 DEF StrayInv, Appending, Announcing
  <2>2. strays[l[p].inc] = 0
    BY <2>1, <1>8 DEF StrayOf
  <2>3. logAt <= logAt
    BY <1>5
  <2> QED BY <2>1, <2>2, <2>3, <1>1, <1>7, <1>8 DEF StrayOf
<1>11. ASSUME NEW q \in Proc \ {p} PROVE StrayOf(q)'
  <2>1. StrayOf(q) /\ pc'[q] = pc[q] /\ l'[q] = l[q]
    BY <1>8, <1>11 DEF StrayInv, Alone
  <2>2. (Writing(q)' <=> Writing(q)) /\ (Loaded(q)' <=> Loaded(q)) /\ (Owned(q)' <=> Owned(q))
    BY <2>1, <1>1 DEF Writing, Loaded, Owned
  <2> QED BY <2>1, <2>2, <1>1 DEF StrayOf
<1>12. Distinct'
  <2>1. \A q \in Proc : Writing(q)' => Writing(q) /\ l'[q].inc = l[q].inc
    BY <1>6, <1>7, <1>8 DEF Writing
  <2> QED BY <2>1 DEF StrayInv, Distinct
<1> QED BY <1>1, <1>9, <1>10, <1>11, <1>12 DEF StrayInv, OneStrayLine

\* An append: one line, on the home or beside it, and the check is spent.
LEMMA StrayWrite == ASSUME StrayInv, NEW p \in Proc, Write(p) PROVE StrayInv'
<1>1. /\ pc[p] \in Appending /\ l[p].checked
      /\ UNCHANGED <<logAt, lockAt, content, flock, opens, appends, rots, powers, tampers, fate>>
  BY DEF Write, lockVars, countVars
<1> DEFINE Wrote(e, len) ==
        /\ WriteLine(p, e, len)
        /\ acked' = IF Durable(e.type) THEN acked \cup {NewLine(p, e, len)} ELSE acked
        /\ l' = [l EXCEPT
                   ![p].seq = @ + 1, ![p].size = @ + len, ![p].checked = FALSE,
                   ![p].bad = IF pc[p] = "quarantine" THEN @ \ {e.ref} ELSE @,
                   ![p].opened = IF pc[p] = "announce" THEN l[p].seq + 1 ELSE @]
        /\ Goto(p, AfterAppend(p, e))
<1>e. PICK e \in Due(p) : \E len \in Lengths[e.type] : Wrote(e, len)
  BY DEF Write
<1>2. PICK len \in Lengths[e.type] : Wrote(e, len)
  BY <1>e
<1>i. l[p].inc \in Holder
  BY <1>1, CheckedHolder
<1>n. NewLine(p, e, len) \in Record /\ len \in Nat
  BY <1>1, <1>i, LineTypedNew DEF StrayInv
<1>3. pc \in [Proc -> Steps] /\ l \in [Proc -> Log]
  BY DEF StrayInv, TypeOK
<1>4. /\ l' \in [Proc -> Log] /\ \A q \in Proc \ {p} : l'[q] = l[q]
      /\ l'[p].held = l[p].held /\ l'[p].inc = l[p].inc /\ l'[p].onLog = l[p].onLog
      /\ ~l'[p].checked
  <2> DEFINE b == IF pc[p] = "quarantine" THEN l[p].bad \ {e.ref} ELSE l[p].bad
             o == IF pc[p] = "announce" THEN l[p].seq + 1 ELSE l[p].opened
             r == [l[p] EXCEPT !.seq = l[p].seq + 1, !.size = l[p].size + len, !.checked = FALSE,
                               !.bad = b, !.opened = o]
  <2>1. l[p] \in Log /\ l[p].seq \in Nat /\ l[p].size \in Nat
    BY Numbers DEF StrayInv
  <2>2. b \in SUBSET Nat /\ o \in Nat
    BY <2>1 DEF Log
  <2>3. l' = [l EXCEPT ![p] = r]
    BY <1>2, <1>3
  <2> HIDE DEF b, o
  <2>4. /\ r \in Log /\ r.held = l[p].held /\ r.inc = l[p].inc /\ r.onLog = l[p].onLog
        /\ ~r.checked
    <3>1. l[p].seq + 1 \in Nat /\ l[p].size + len \in Nat
      BY <2>1, <1>n
    <3>2. r \in Log
      BY <2>1, <2>2, <3>1 DEF Log
    <3>3. r.held = l[p].held /\ r.inc = l[p].inc /\ r.onLog = l[p].onLog /\ ~r.checked
      BY <2>1 DEF Log
    <3> QED BY <3>2, <3>3
  <2> HIDE DEF r
  <2>5. l' \in [Proc -> Log] /\ l'[p] = r /\ \A q \in Proc \ {p} : l'[q] = l[q]
    BY <2>3, <2>4, <1>3, Updated
  <2> QED BY <2>4, <2>5
<1>5. AfterAppend(p, e) \in Steps \ ({"out", "try"} \cup Locking)
  BY <1>1, AfterAppendTyped
<1>6. /\ pc' \in [Proc -> Steps] /\ pc'[p] = AfterAppend(p, e)
      /\ \A q \in Proc \ {p} : pc'[q] = pc[q]
  BY <1>2, <1>3, <1>5, Moved
<1>7. Alone(p) /\ Writing(p) /\ Writing(p)' /\ Loaded(p) /\ Loaded(p)'
  BY <1>1, <1>4, <1>5, <1>6 DEF Alone, Writing, Loaded, Locking, Appending, Announcing
<1>8. acked' \subseteq Record
  BY <1>2, <1>n DEF StrayInv, TypeOK
<1>9. \/ strays' = strays
      \/ /\ strays' = [strays EXCEPT ![l[p].inc] = @ + 1]
         /\ l[p].checked /\ ~l'[p].checked /\ Loaded(p) /\ ~Owned(p)
  BY <1>1, <1>2, <1>4, <1>7 DEF WriteLine
<1>10. strays' \in [Holder -> Nat]
  <2>1. strays \in [Holder -> Nat]
    BY DEF StrayInv, TypeOK
  <2> QED BY <2>1, <1>9
<1>11. TypeOK' /\ Measured'
  <2>1. ProcOK'
    BY <1>1, <1>4, <1>6 DEF StrayInv, TypeOK, ProcOK
  <2>2. RestOK'
    BY <1>1, <1>8, <1>10 DEF StrayInv, TypeOK, RestOK
  <2> QED BY <2>1, <2>2, TypesKept DEF Working
<1> QED BY <1>1, <1>4, <1>7, <1>9, <1>11, StrayWalk

\* A failed append: refused before it, half written, or written and not synced.
LEMMA StrayFails ==
  ASSUME StrayInv, NEW p \in Proc, FindNotOwned(p) \/ WriteFails(p) \/ SyncFails(p)
  PROVE  StrayInv'
<1>1. /\ pc[p] \in Appending /\ AppendFailed(p)
      /\ UNCHANGED <<tampers, logAt, lockAt, opens, content, acked, rots, powers, appends>>
  BY DEF FindNotOwned, WriteFails, SyncFails, fileVars, countVars
<1>2. Writing(p) /\ Loaded(p)
  BY <1>1 DEF Writing, Loaded, Appending, Announcing, Locking
<1>3. \/ strays' = strays
      \/ /\ strays' = [strays EXCEPT ![l[p].inc] = @ + 1]
         /\ l[p].checked /\ ~Owned(p)
  BY DEF FindNotOwned, WriteFails, SyncFails, WriteLine
<1>4. CASE Leave(p, "failed")
  BY <1>1, <1>3, <1>4, StrayLeft DEF Working
<1>5. CASE ~Leave(p, "failed")
  <2>1. /\ Alone(p) /\ pc'[p] \in {"open", "emptying"} /\ pc' \in [Proc -> Steps]
        /\ l' \in [Proc -> Log] /\ UNCHANGED <<flock, fate>>
        /\ l'[p].held = l[p].held /\ l'[p].inc = l[p].inc /\ l'[p].onLog = l[p].onLog
        /\ ~l'[p].checked
    BY <1>1, <1>5, Broke DEF StrayInv
  <2>2. Writing(p)' /\ Loaded(p)'
    BY <2>1 DEF Writing, Loaded, Locking
  <2>3. strays' \in [Holder -> Nat]
    <3>1. strays \in [Holder -> Nat]
      BY DEF StrayInv, TypeOK
    <3> QED BY <3>1, <1>3
  <2>4. TypeOK' /\ Measured'
    <3>1. ProcOK'
      BY <1>1, <2>1 DEF StrayInv, TypeOK, ProcOK
    <3>2. RestOK'
      BY <1>1, <2>3 DEF StrayInv, TypeOK, RestOK
    <3> QED BY <3>1, <3>2, TypesKept DEF Working
  <2> QED BY <1>1, <1>2, <1>3, <2>1, <2>2, <2>4, StrayWalk
<1> QED BY <1>4, <1>5

LEMMA StrayPowerLoss == ASSUME StrayInv, PowerLoss PROVE StrayInv'
<1>1. UNCHANGED <<synced, copies, logAt, lockAt, opens, appends, rots, tampers, acked, strays>>
  BY DEF PowerLoss
<1>2. PICK n \in synced..Len(log) :
        /\ log' = FirstLines(log, n) /\ rotten' = rotten \cap 1..n
        /\ \E t \in TailsAfter(n) : tail' = t[1] /\ bytes' = t[2]
        /\ tornAt' = IF tail' = 0 THEN tornAt ELSE tornAt \cup {n + 1}
  BY DEF PowerLoss
<1>3. /\ log \in Seq(Record) /\ rotten \subseteq 1..Len(log) /\ tail \in 0..MaxOpens
      /\ Len(log) \in Nat /\ synced \in Nat /\ synced <= Len(log)
  BY FileTypes DEF StrayInv
<1>4. n \in Nat /\ synced <= n /\ n <= Len(log)
  BY <1>2, <1>3
<1>5. /\ log' \in Seq(Record) /\ Len(log') = n /\ log' = SubSeq(log, 1, n)
      /\ bytes' \in Nat /\ tail' \in 0..MaxOpens
      /\ Measured'
  <2>1. \A p \in Proc : l[p].checked => pc[p] \in Appending /\ l[p].inc \in Holder
    BY CheckedHolder
  <2> QED BY <1>2, <1>3, <1>4, <2>1, LinesLeft DEF StrayInv
<1>6. rotten' \subseteq 1..Len(log') /\ synced' \in 0..Len(log')
  BY <1>1, <1>2, <1>3, <1>4, <1>5
<1>8. tornAt' \subseteq Nat
  <2>1. tornAt \subseteq Nat
    BY DEF StrayInv, TypeOK
  <2> QED BY <2>1, <1>2, <1>4
<1>9. FileOK'
  BY <1>1, <1>5, <1>6, <1>8 DEF PowerLoss, StrayInv, TypeOK, FileOK
<1>10. content' \in [LockFile -> 0..MaxOpens]
  <2>1. PICK k \in 0..opens : content' = IF lockAt = 0 THEN content
                                         ELSE [content EXCEPT ![lockAt] = k]
    BY DEF PowerLoss
  <2>2. opens \in 0..MaxOpens /\ content \in [LockFile -> 0..MaxOpens]
    BY DEF StrayInv, TypeOK
  <2>3. k \in 0..MaxOpens
    BY <2>1, <2>2, Bounds
  <2> QED BY ONLY <2>1, <2>2, <2>3
<1>11. fate' \in [Holder -> {"none", "running", "died", "failed", "closed", "closed in error"}]
  <2>1. fate \in [Holder -> {"none", "running", "died", "failed", "closed", "closed in error"}]
    BY DEF StrayInv, TypeOK
  <2> QED BY <2>1 DEF PowerLoss
<1>12. /\ pc' \in [Proc -> Steps] /\ l' \in [Proc -> Log]
       /\ flock' \in [LockFile -> Proc \cup {NoProc}]
       /\ \A p \in Proc : pc'[p] = "out" /\ l'[p] = NoLog
  <2>1. "out" \in Steps /\ NoLog \in Log
    BY NoLogTyped DEF Steps
  <2>2. flock' \in [LockFile -> Proc \cup {NoProc}]
    BY DEF PowerLoss
  <2> QED BY <2>1, <2>2 DEF PowerLoss
<1>13. powers' \in 0..MaxPower
  <2>1. powers \in 0..MaxPower /\ powers < MaxPower /\ powers' = powers + 1
    BY DEF StrayInv, TypeOK, PowerLoss
  <2> QED BY <2>1, Bounds
<1>14. TypeOK' /\ Measured'
  <2>1. ProcOK'
    BY <1>10, <1>11, <1>12 DEF ProcOK
  <2>2. RestOK'
    BY <1>1, <1>13 DEF StrayInv, TypeOK, RestOK
  <2> QED BY <2>1, <2>2, <1>5, <1>9 DEF TypeOK, FileOK, ProcOK, RestOK
<1>15. ASSUME NEW p \in Proc PROVE StrayOf(p)'
  <2>1. NoLog.held = 0 /\ ~NoLog.checked
    BY DEF NoLog
  <2>2. l'[p].held = 0 /\ ~l'[p].checked /\ pc'[p] = "out" /\ ~Writing(p)' /\ ~Loaded(p)'
    BY <2>1, <1>12 DEF Writing, Loaded
  <2>3. 0 <= tampers + 1 /\ 0 <= tampers
    BY Numbers DEF StrayInv
  <2> QED BY <2>2, <2>3, <1>1 DEF StrayOf
<1>16. Distinct'
  BY <1>12 DEF Distinct, Writing
<1> QED BY <1>1, <1>14, <1>15, <1>16 DEF StrayInv, OneStrayLine

\* A lock file or a log that is taken away from a process does not come back to it.
LEMMA StrayTampered == ASSUME StrayInv, RemoveLock \/ ReplaceLog PROVE StrayInv'
<1>1. UNCHANGED <<log, rotten, bytes, tail, synced, copies, content, flock, pc, l, opens, appends,
                  rots, powers, fate, acked, strays, astray, tornAt>>
  BY DEF RemoveLock, ReplaceLog, fileVars, lockVars, histVars
<1>2. /\ tampers \in Nat /\ tampers' = tampers + 1 /\ tampers' \in 0..MaxTamper
      /\ lockAt \in Nat /\ lockAt \in 0..(MaxTamper + 1) /\ logAt \in Nat
      /\ lockAt <= tampers + 1
  <2>1. tampers \in 0..MaxTamper /\ lockAt \in 0..(MaxTamper + 1) /\ logAt \in Nat
        /\ lockAt <= tampers + 1
    BY DEF StrayInv, TypeOK
  <2>2. tampers < MaxTamper /\ tampers' = tampers + 1
    BY DEF RemoveLock, ReplaceLog
  <2> QED BY <2>1, <2>2, Bounds
<1>3. \/ lockAt # 0 /\ lockAt' = 0 /\ logAt' = logAt
      \/ lockAt' = lockAt /\ logAt' = logAt + 1
  BY DEF RemoveLock, ReplaceLog, fileVars, lockVars
<1>4. lockAt' \in 0..(MaxTamper + 1) /\ lockAt' <= tampers' + 1 /\ logAt' \in Nat /\ logAt <= logAt'
  BY <1>2, <1>3, Bounds
<1>5. TypeOK' /\ Measured'
  <2>1. FileOK' /\ ProcOK'
    BY <1>1 DEF StrayInv, TypeOK, FileOK, ProcOK
  <2>2. RestOK'
    BY <1>1, <1>2, <1>4 DEF StrayInv, TypeOK, RestOK
  <2>3. Measured'
    BY <1>1, MeasuredSame DEF StrayInv
  <2> QED BY <2>1, <2>2, <2>3 DEF TypeOK, FileOK, ProcOK, RestOK
<1>6. ASSUME NEW p \in Proc PROVE StrayOf(p)'
  <2>1. StrayOf(p) /\ l[p].held \in Nat /\ l[p].onLog \in Nat
    BY Numbers DEF StrayInv
  <2>2. l[p].held <= tampers' + 1 /\ (lockAt' = 0 => l[p].held <= tampers')
    <3>1. l[p].held <= tampers + 1
      BY <2>1 DEF StrayOf
    <3> QED BY <2>1, <3>1, <1>2
  <2>3. Loaded(p) => l[p].onLog <= logAt'
    BY <2>1, <1>2, <1>4 DEF StrayOf
  <2>4. Loaded(p) => ~Owned(p)'
    <3>1. Loaded(p) => l[p].held # 0 /\ l[p].onLog <= logAt
      BY <2>1 DEF StrayOf, Loaded, Writing
    <3>2. Loaded(p) /\ logAt' = logAt + 1 => logAt' # l[p].onLog
      BY <2>1, <3>1, <1>2
    <3> QED BY <3>1, <3>2, <1>1, <1>3 DEF Owned
  <2> QED BY <2>1, <2>2, <2>3, <2>4, <1>1 DEF StrayOf, Loaded, Writing
<1>7. Distinct'
  BY <1>1 DEF StrayInv, Distinct, Writing
<1> QED BY <1>1, <1>4, <1>5, <1>6, <1>7 DEF StrayInv, OneStrayLine

LEMMA StraySame ==
  ASSUME StrayInv, (\E i \in 1..Len(log) : Rot(i)) \/ UNCHANGED vars PROVE StrayInv'
<1>1. UNCHANGED <<log, bytes, tail, synced, copies, logAt, lockAt, content, flock, pc, l, opens,
                  appends, powers, tampers, fate, acked, strays, astray, tornAt>>
  BY DEF Rot, vars, fileVars, lockVars, countVars, histVars
<1>2. rotten' \subseteq 1..Len(log)
  <2>1. rotten \subseteq 1..Len(log)
    BY DEF StrayInv, TypeOK
  <2> QED BY <2>1 DEF Rot, vars, fileVars
<1>3. rots' \in 0..MaxRot
  <2>1. rots \in 0..MaxRot /\ (rots' = rots \/ (rots < MaxRot /\ rots' = rots + 1))
    BY DEF StrayInv, TypeOK, Rot, vars, countVars
  <2> QED BY <2>1, Bounds
<1>4. TypeOK' /\ Measured'
  BY <1>1, <1>2, <1>3, MeasuredSame DEF StrayInv, TypeOK
<1>5. \A p \in Proc : StrayOf(p)'
  BY <1>1 DEF StrayInv, StrayOf, Owned, Loaded, Writing
<1> QED BY <1>1, <1>4, <1>5 DEF StrayInv, Distinct, OneStrayLine, Writing

LEMMA StrayNext == StrayInv /\ [Next \/ RemoveLock \/ ReplaceLog]_vars => StrayInv'
<1> SUFFICES ASSUME StrayInv, [Next \/ RemoveLock \/ ReplaceLog]_vars PROVE StrayInv'
  OBVIOUS
<1>1. ASSUME NEW p \in Proc, Calling(p) \/ Working(p) \/ Crash(p) PROVE StrayInv'
  BY <1>1, StrayWalks, StrayOpenLockFile, StrayTakeLock, StrayRefuseSecond, StrayLeaves,
     StrayLoad, StrayWrite, StrayFails DEF Calling, Working
<1> QED BY <1>1, StrayPowerLoss, StrayTampered, StraySame DEF Next

LEMMA StrayInvariance == TamperSpec => []StrayInv
<1> QED BY StrayInit, StrayNext, PTL DEF TamperSpec

\* Whatever is removed or replaced, a holder that lost the lock or the log writes at most the
\* one line it had already checked for.
THEOREM TamperedStraysOnce == TamperSpec => []OneStrayLine
<1>1. StrayInv => OneStrayLine
  BY DEF StrayInv
<1> QED BY <1>1, StrayInvariance, PTL

-----------------------------------------------------------------------------
(* What a process may cut away *)

\* A process with the flock keeps it; one that repairs has written nothing; one whose append
\* failed comes to no other write.
KeepsOf(p) ==
  /\ Writing(p) => l[p].held \in LockFile /\ flock[l[p].held] = p
  /\ pc[p] \in Repairing => strays[l[p].inc] = 0
  /\ l[p].broken => pc[p] \in {"open", "emptying", "releasing"}

\* How far the file can have grown past the size a process knows: all of it while the process
\* owns the home and has cut the torn tail, and the process's own lines until it strays.
ShiftOf(p) ==
  Loaded(p) /\ OnFile(p) /\ ~l[p].broken =>
    /\ Owned(p) /\ pc[p] \notin Repairing => bytes <= l[p].size + astray
    /\ strays[l[p].inc] = 0 =>
         \A i \in 1..Len(log) : log[i].by = l[p].inc => log[i].end <= l[p].size + astray

ShiftInv == \A p \in Proc : KeepsOf(p) /\ ShiftOf(p)

\* What a step of p does to the lines of the log, to its length and to the strays.
Shrinks == Len(log') <= Len(log) /\ \A i \in 1..Len(log') : log'[i] = log[i]

Bumps(p) == strays' = [strays EXCEPT ![l[p].inc] = @ + 1] /\ l[p].checked

Grows(p) ==
  /\ Len(log') = Len(log) + 1 /\ log'[Len(log) + 1].by = l[p].inc /\ l[p].checked
  /\ \A i \in 1..Len(log) : log'[i] = log[i]

Effect(p) ==
  /\ strays' = strays \/ Bumps(p)
  /\ Shrinks \/ Grows(p)
  /\ astray <= astray' /\ ((Writing(p) /\ Owned(p)) \/ bytes' + astray <= bytes + astray')

\* A process that comes to a write has a holder of its own.
LEMMA CheckedIs ==
  ASSUME StrayInv, NEW p \in Proc, l[p].checked
  PROVE  /\ pc[p] \in Appending /\ Writing(p) /\ Loaded(p)
         /\ l[p].inc \in Holder /\ strays[l[p].inc] = 0
<1>1. StrayOf(p)
  BY DEF StrayInv
<1>2. pc[p] \in Appending /\ l[p].inc \in Holder
  BY CheckedHolder
<1>3. Writing(p) /\ Loaded(p)
  BY <1>2 DEF Writing, Loaded, Appending, Announcing, Locking
<1> QED BY <1>1, <1>2, <1>3 DEF StrayOf

\* The bytes of the file and those astray are numbers, before and after.
LEMMA Counted ==
  ASSUME StrayInv
  PROVE  /\ log \in Seq(Record) /\ Len(log) \in Nat /\ bytes \in Nat /\ astray \in Nat
         /\ \A p \in Proc : l[p].size \in Nat
         /\ \A i \in 1..Len(log) : log[i].end \in Nat /\ log[i].end <= bytes
<1>1. TypeOK /\ Measured
  BY DEF StrayInv
<1>2. /\ log \in Seq(Record) /\ Len(log) \in Nat /\ bytes \in Nat /\ astray \in Nat
      /\ \A p \in Proc : l[p].size \in Nat
  BY <1>1, FileTypes, Numbers
<1>3. \A i \in 1..Len(log) : log[i].end \in Nat
  BY <1>2, LineTyped
<1> QED BY <1>1, <1>2, <1>3 DEF Measured

LEMMA CountedAfter ==
  ASSUME StrayInv'
  PROVE  Len(log') \in Nat /\ bytes' \in Nat /\ astray' \in Nat
<1>1. log' \in Seq(Record) /\ bytes' \in Nat /\ astray' \in Nat
  BY DEF StrayInv, TypeOK
<1>2. Len(log') \in Nat
  BY <1>1
<1> QED BY <1>1, <1>2

\* Only the holder a process is can stray by its step.
LEMMA StraysMove ==
  ASSUME StrayInv, NEW p \in Proc, strays' = strays \/ Bumps(p), NEW k \in Holder, k # l[p].inc
  PROVE  strays'[k] = strays[k]
<1>1. strays \in [Holder -> Nat]
  BY DEF StrayInv, TypeOK
<1> QED BY <1>1 DEF Bumps

\* Two writers have two lock files and two holders.
LEMMA TwoWriters ==
  ASSUME StrayInv, ShiftInv, NEW p \in Proc, NEW q \in Proc \ {p}, Writing(p), Writing(q)
  PROVE  l[p].inc # l[q].inc /\ ~(Owned(p) /\ Owned(q))
<1>1. l[p].inc # l[q].inc
  BY DEF StrayInv, Distinct
<1>2. flock[l[p].held] = p /\ flock[l[q].held] = q
  BY DEF ShiftInv, KeepsOf
<1> QED BY <1>1, <1>2 DEF Owned

LEMMA Further ==
  ASSUME NEW x \in Nat, NEW y \in Nat, NEW m \in Nat, NEW n \in Nat, NEW size \in Nat,
         x <= size + m, y + m <= x + n
  PROVE  y <= size + n
<1> QED OBVIOUS

LEMMA NoNearer ==
  ASSUME NEW x \in Nat, NEW m \in Nat, NEW n \in Nat, NEW size \in Nat,
         x <= size + m, m <= n
  PROVE  x <= size + n
<1> QED OBVIOUS

\* A step of another process lengthens the file past a writer's size by no more than goes astray.
LEMMA ShiftOther ==
  ASSUME StrayInv, StrayInv', ShiftInv, NEW p \in Proc, NEW q \in Proc \ {p}, Alone(p), Effect(p),
         logAt' = logAt, Loaded(q) /\ Owned(q)' => Owned(q),
         \A k \in LockFile : flock[k] = q => flock'[k] = q
  PROVE  KeepsOf(q)' /\ ShiftOf(q)'
<1>1. /\ pc'[q] = pc[q] /\ l'[q] = l[q]
      /\ (Writing(q)' <=> Writing(q)) /\ (Loaded(q)' <=> Loaded(q)) /\ (OnFile(q)' <=> OnFile(q))
  BY DEF Alone, Writing, Loaded, OnFile
<1>2. KeepsOf(q) /\ ShiftOf(q) /\ (Loaded(q) => Writing(q))
  BY DEF ShiftInv, Loaded
<1>3. /\ Len(log) \in Nat /\ bytes \in Nat /\ astray \in Nat /\ l[q].size \in Nat
      /\ Len(log') \in Nat /\ bytes' \in Nat /\ astray' \in Nat
      /\ \A i \in 1..Len(log) : log[i].end \in Nat
  BY Counted, CountedAfter
<1>4. l[p].checked => Writing(p)
  BY CheckedIs
<1>5. Writing(q) => l[q].inc \in Holder
  <2>1. Writing(q) => l[q].inc \in 1..opens /\ l[q].inc \in 0..MaxOpens /\ opens \in Nat
    BY Numbers DEF StrayInv, StrayOf
  <2> QED BY <2>1, Bounds DEF Holder
<1>6. Writing(q) => strays'[l[q].inc] = strays[l[q].inc]
  <2> SUFFICES ASSUME Writing(q) PROVE strays'[l[q].inc] = strays[l[q].inc]
    OBVIOUS
  <2>1. CASE strays' = strays
    BY <2>1
  <2>2. CASE Bumps(p)
    <3>1. l[q].inc # l[p].inc /\ l[q].inc \in Holder
      BY <2>2, <1>4, <1>5, TwoWriters DEF Bumps
    <3> QED BY <2>2, <3>1, StraysMove
  <2> QED BY <2>1, <2>2 DEF Effect
<1>7. KeepsOf(q)'
  <2>1. pc[q] \in Repairing => Writing(q)
    BY DEF Writing, Repairing
  <2> QED BY <2>1, <1>1, <1>2, <1>6 DEF KeepsOf
<1>8. ASSUME Loaded(q), OnFile(q), ~l[q].broken, Owned(q)', pc[q] \notin Repairing
      PROVE  bytes' <= l[q].size + astray'
  <2>1. bytes <= l[q].size + astray /\ Owned(q) /\ Writing(q)
    BY <1>2, <1>8 DEF ShiftOf
  <2>2. bytes' + astray <= bytes + astray'
    BY <2>1, TwoWriters DEF Effect
  <2>3. bytes' \in Nat /\ astray' \in Nat /\ bytes <= l[q].size + astray
    BY <2>1, <1>3
  <2> QED BY <2>2, <2>3, <1>3, Further
<1>9. ASSUME Loaded(q), OnFile(q), ~l[q].broken, strays'[l[q].inc] = 0,
             NEW i \in 1..Len(log'), log'[i].by = l[q].inc
      PROVE  log'[i].end <= l[q].size + astray'
  <2>1. strays[l[q].inc] = 0 /\ Writing(q)
    BY <1>2, <1>6, <1>9
  <2>2. i \in 1..Len(log) /\ log'[i] = log[i]
    <3>1. CASE Shrinks
      BY <3>1, <1>3, <1>9 DEF Shrinks
    <3>2. CASE Grows(p)
      <4>1. i # Len(log) + 1
        BY <2>1, <3>2, <1>4, <1>9, TwoWriters DEF Grows
      <4>2. i \in 1..Len(log)
        BY <4>1, <3>2, <1>3, <1>9 DEF Grows
      <4> QED BY <4>2, <3>2 DEF Grows
    <3> QED BY <3>1, <3>2 DEF Effect
  <2>3. log[i].end <= l[q].size + astray
    BY <2>1, <2>2, <1>2, <1>9 DEF ShiftOf
  <2>4. log[i].end <= l[q].size + astray'
    BY <2>2, <2>3, <1>3, NoNearer DEF Effect
  <2> QED BY <2>2, <2>4
<1>10. ShiftOf(q)'
  BY <1>1, <1>8, <1>9 DEF ShiftOf
<1> QED BY <1>7, <1>10

LEMMA SameEffect ==
  ASSUME StrayInv, NEW p \in Proc, UNCHANGED <<log, bytes, strays, astray>>
  PROVE  Effect(p)
<1>1. Len(log) \in Nat /\ bytes \in Nat /\ astray \in Nat
  BY Counted
<1>2. Shrinks
  BY <1>1 DEF Shrinks
<1> QED BY <1>1, <1>2 DEF Effect

\* What one write, half a write and one cut do.
LEMMA LineEffect ==
  ASSUME StrayInv, NEW p \in Proc, l[p].checked, NEW e \in Due(p), NEW len \in Lengths[e.type],
         WriteLine(p, e, len)
  PROVE  Effect(p) /\ ~(Len(log') < Len(log))
<1>1. pc[p] \in Appending /\ l[p].inc \in Holder /\ Writing(p)
  BY CheckedIs
<1>2. bytes' \in Nat /\ Len(log) <= Len(log') /\ Len(log') \in Nat
  BY <1>1, LineFile DEF StrayInv
<1>3. log \in Seq(Record) /\ Len(log) \in Nat /\ NewLine(p, e, len).by = l[p].inc
  BY Counted DEF NewLine
<1>4. astray <= astray' /\ (Owned(p) \/ bytes' + astray <= bytes + astray')
  BY <1>2, Lengthened DEF WriteLine, StrayInv
<1>5. strays' = strays \/ Bumps(p)
  BY DEF WriteLine, Bumps
<1>6. CASE OnFile(p)
  <2>1. log' = Append(log, NewLine(p, e, len))
    BY <1>6 DEF WriteLine
  <2>2. /\ Len(log') = Len(log) + 1 /\ log'[Len(log) + 1] = NewLine(p, e, len)
        /\ \A i \in 1..Len(log) : log'[i] = log[i]
    BY <2>1, <1>3
  <2>3. Grows(p)
    BY <2>2, <1>3 DEF Grows
  <2> QED BY <2>3, <1>1, <1>2, <1>3, <1>4, <1>5 DEF Effect
<1>7. CASE ~OnFile(p)
  <2>1. log' = log
    BY <1>7 DEF WriteLine
  <2>2. Shrinks
    BY <2>1, <1>3 DEF Shrinks
  <2> QED BY <2>1, <2>2, <1>1, <1>3, <1>4, <1>5 DEF Effect
<1> QED BY <1>6, <1>7

LEMMA HalfEffect ==
  ASSUME StrayInv, NEW p \in Proc, l[p].checked, WriteHalf(p), strays' = strays
  PROVE  Effect(p) /\ log' = log
<1>1. pc[p] \in Appending /\ l[p].inc \in Holder /\ Writing(p)
  BY CheckedIs
<1>2. bytes' \in Nat /\ log' = log
  BY <1>1, HalfFile DEF StrayInv
<1>3. astray <= astray' /\ (Owned(p) \/ bytes' + astray <= bytes + astray')
  BY <1>2, Lengthened DEF WriteHalf, StrayInv
<1>4. Shrinks
  BY <1>2, Counted DEF Shrinks
<1> QED BY <1>1, <1>2, <1>3, <1>4 DEF Effect

LEMMA CutEffect ==
  ASSUME StrayInv, NEW p \in Proc, pc[p] \in Repairing \cup Appending, Cut(p), strays' = strays
  PROVE  Effect(p)
<1>1. l[p].inc \in Holder /\ Writing(p)
  BY CheckedHolder DEF Writing, Repairing, Appending, Announcing
<1>2. /\ bytes' \in Nat /\ Lengthen(p) /\ Len(log') <= Len(log) /\ Len(log') \in Nat
      /\ \A i \in 1..Len(log) : i <= Len(log') => log'[i] = log[i]
  BY <1>1, CutFile DEF StrayInv
<1>3. astray <= astray' /\ (Owned(p) \/ bytes' + astray <= bytes + astray')
  BY <1>2, Lengthened DEF StrayInv
<1>4. Shrinks
  BY <1>2, Counted DEF Shrinks
<1> QED BY <1>1, <1>3, <1>4 DEF Effect

\* Every step of a process leaves the lines, adds one of its own, or cuts some away; the last it
\* does in a repair or in an append that failed, at the size it knows.
LEMMA Effects ==
  ASSUME StrayInv, NEW p \in Proc, Calling(p) \/ Working(p) \/ Crash(p)
  PROVE  /\ Effect(p)
         /\ Len(log') < Len(log) => (CutTorn(p) \/ WriteFails(p)) /\ OnFile(p) /\ Cut(p)
<1>1. Len(log) \in Nat
  BY Counted
<1>2. CASE UNCHANGED <<log, bytes, strays, astray>>
  BY <1>1, <1>2, SameEffect
<1>3. ASSUME l[p].checked, \E e \in Due(p) : \E len \in Lengths[e.type] : WriteLine(p, e, len)
      PROVE  Effect(p) /\ ~(Len(log') < Len(log))
  <2>1. PICK e \in Due(p) : \E len \in Lengths[e.type] : WriteLine(p, e, len)
    BY <1>3
  <2>2. PICK len \in Lengths[e.type] : WriteLine(p, e, len)
    BY <2>1
  <2> QED BY <1>3, <2>2, LineEffect
<1>4. CASE Write(p) \/ SyncFails(p)
  <2>1. l[p].checked /\ \E e \in Due(p) : \E len \in Lengths[e.type] : WriteLine(p, e, len)
    BY <1>4 DEF Write, SyncFails
  <2> QED BY <2>1, <1>3
<1>5. CASE Crash(p)
  <2>1. CASE UNCHANGED <<log, rotten, bytes, tail, strays, astray, tornAt>>
    BY <2>1, <1>2
  <2>2. CASE l[p].checked /\ WriteHalf(p) /\ UNCHANGED strays
    BY <2>2, <1>1, HalfEffect
  <2>3. CASE l[p].checked /\ \E e \in Due(p) : \E len \in Lengths[e.type] : WriteLine(p, e, len)
    BY <2>3, <1>3
  <2> QED BY <1>5, <2>1, <2>2, <2>3 DEF Crash
<1>6. CASE CutTorn(p)
  <2>1. strays' = strays /\ pc[p] \in Repairing \cup Appending
    BY <1>6 DEF CutTorn, Repairing
  <2>2. CASE OnFile(p)
    <3>1. Cut(p)
      BY <1>6, <2>2 DEF CutTorn
    <3> QED BY <2>1, <2>2, <3>1, <1>6, CutEffect
  <2>3. CASE ~OnFile(p)
    <3>1. UNCHANGED <<log, bytes, astray>>
      BY <1>6, <2>3 DEF CutTorn
    <3> QED BY <2>1, <3>1, <1>2
  <2> QED BY <2>2, <2>3
<1>7. CASE WriteFails(p)
  <2>1. strays' = strays /\ pc[p] \in Repairing \cup Appending /\ l[p].checked
    BY <1>7 DEF WriteFails
  <2>2. CASE UNCHANGED <<log, rotten, bytes, tail, astray, tornAt>>
    BY <2>1, <2>2, <1>2
  <2>3. CASE OnFile(p) /\ Cut(p)
    BY <2>1, <2>3, <1>7, CutEffect
  <2>4. CASE WriteHalf(p)
    BY <2>1, <2>4, <1>1, HalfEffect
  <2> QED BY <1>7, <2>2, <2>3, <2>4 DEF WriteFails
<1>8. CASE ~(Write(p) \/ SyncFails(p) \/ WriteFails(p) \/ CutTorn(p) \/ Crash(p))
  <2>1. UNCHANGED <<log, bytes, strays, astray>>
    BY <1>8 DEF Calling, Working, OpenLockFile, CallAppend, CallClose, TakeLock, RefuseSecond,
                Stamp, Load, CopyTorn, OpenFails, CheckOwned, RefuseEntry, FindNotOwned,
                EmptyLock, ReleaseLock, fileVars, histVars
  <2> QED BY <2>1, <1>2
<1> QED BY <1>4, <1>5, <1>6, <1>7, <1>8

\* A step keeps ShiftInv when it does so for the process that takes it.
LEMMA ShiftKept ==
  ASSUME StrayInv, StrayInv', ShiftInv, NEW p \in Proc, Calling(p) \/ Working(p) \/ Crash(p),
         Alone(p), logAt' = logAt, lockAt' = lockAt \/ (lockAt = 0 /\ lockAt' = tampers + 1),
         \A q \in Proc \ {p}, k \in LockFile : flock[k] = q => flock'[k] = q,
         KeepsOf(p)', ShiftOf(p)'
  PROVE  ShiftInv'
<1>1. Effect(p)
  BY Effects
<1>3. ASSUME NEW q \in Proc \ {p} PROVE KeepsOf(q)' /\ ShiftOf(q)'
  <2>1. Loaded(q) /\ Owned(q)' => Owned(q)
    <3>1. l'[q] = l[q]
      BY DEF Alone
    <3>2. lockAt = 0 => l[q].held # tampers + 1
      <4>1. lockAt = 0 => l[q].held <= tampers
        BY DEF StrayInv, StrayOf
      <4>2. l[q].held \in Nat /\ tampers \in Nat
        BY Numbers DEF StrayInv
      <4> QED BY <4>1, <4>2
    <3> QED BY <3>1, <3>2 DEF Owned
  <2> QED BY <1>1, <2>1, ShiftOther
<1> QED BY <1>3 DEF ShiftInv

\* A process that has no Log after its step.
LEMMA ShiftGone ==
  ASSUME StrayInv, StrayInv', ShiftInv, NEW p \in Proc, Calling(p) \/ Working(p) \/ Crash(p),
         Alone(p), pc'[p] = "out", l'[p] = NoLog, UNCHANGED <<lockAt, logAt>>,
         \A q \in Proc \ {p}, k \in LockFile : flock[k] = q => flock'[k] = q
  PROVE  ShiftInv'
<1>1. ~l'[p].broken /\ ~Writing(p)' /\ ~Loaded(p)' /\ pc'[p] \notin Repairing
  BY DEF NoLog, Writing, Loaded, Repairing
<1>2. KeepsOf(p)' /\ ShiftOf(p)'
  BY <1>1 DEF KeepsOf, ShiftOf
<1> QED BY <1>2, ShiftKept

LEMMA ShiftLeaves ==
  ASSUME StrayInv, StrayInv', ShiftInv, NEW p \in Proc, Calling(p) \/ Working(p) \/ Crash(p),
         NEW how \in {"died", "failed", "closed", "closed in error"}, Leave(p, how),
         UNCHANGED <<lockAt, logAt>>
  PROVE  ShiftInv'
<1>1. Alone(p) /\ pc'[p] = "out" /\ l'[p] = NoLog
  BY Gone DEF StrayInv
<1>2. \A q \in Proc \ {p}, k \in LockFile : flock[k] = q => flock'[k] = q
  BY DEF Leave
<1> QED BY <1>1, <1>2, ShiftGone

LEMMA ShiftInit == Init => ShiftInv
<1> SUFFICES ASSUME Init PROVE ShiftInv
  OBVIOUS
<1>1. ~NoLog.broken
  BY DEF NoLog
<1> QED BY <1>1 DEF Init, ShiftInv, KeepsOf, ShiftOf, Writing, Loaded, Repairing

LEMMA ShiftOpenLockFile ==
  ASSUME StrayInv, StrayInv', ShiftInv, NEW p \in Proc, OpenLockFile(p) PROVE ShiftInv'
<1>1. pc[p] = "out" /\ pc \in [Proc -> Steps] /\ l \in [Proc -> Log] /\ "try" \in Steps
  BY DEF OpenLockFile, StrayInv, TypeOK, Steps
<1>2. pc'[p] = "try" /\ \A q \in Proc \ {p} : pc'[q] = pc[q]
  BY <1>1, Moved DEF OpenLockFile
<1>3. l'[p].broken = l[p].broken /\ \A q \in Proc \ {p} : l'[q] = l[q]
  BY <1>1 DEF OpenLockFile, Log
<1>4. ~l[p].broken
  BY <1>1 DEF ShiftInv, KeepsOf
<1>5. ~Writing(p)' /\ ~Loaded(p)' /\ pc'[p] \notin Repairing
  BY <1>2 DEF Writing, Loaded, Repairing
<1>6. KeepsOf(p)' /\ ShiftOf(p)'
  BY <1>3, <1>4, <1>5 DEF KeepsOf, ShiftOf
<1>7. Alone(p)
  BY <1>2, <1>3 DEF Alone
<1>8. logAt' = logAt /\ (lockAt' = lockAt \/ (lockAt = 0 /\ lockAt' = tampers + 1)) /\ flock' = flock
  BY DEF OpenLockFile, fileVars
<1> QED BY <1>6, <1>7, <1>8, ShiftKept DEF Calling

LEMMA ShiftTakeLock ==
  ASSUME StrayInv, StrayInv', ShiftInv, NEW p \in Proc, TakeLock(p) PROVE ShiftInv'
<1>1. pc[p] = "try" /\ pc \in [Proc -> Steps] /\ l \in [Proc -> Log] /\ "locked" \in Steps
  BY DEF TakeLock, StrayInv, TypeOK, Steps, Locking
<1>2. pc'[p] = "locked" /\ \A q \in Proc \ {p} : pc'[q] = pc[q]
  BY <1>1, Moved DEF TakeLock
<1>3. /\ l'[p].broken = l[p].broken /\ l'[p].held = l[p].held
      /\ \A q \in Proc \ {p} : l'[q] = l[q]
  BY <1>1 DEF TakeLock, Log
<1>4. ~l[p].broken
  BY <1>1 DEF ShiftInv, KeepsOf
<1>5. l[p].held \in LockFile
  <2>1. l[p].held \in Nat /\ l[p].held # 0 /\ l[p].held <= tampers + 1
    BY <1>1, Numbers DEF StrayInv, StrayOf
  <2>2. tampers \in 0..MaxTamper
    BY DEF StrayInv, TypeOK
  <2> QED BY <2>1, <2>2, Bounds DEF LockFile
<1>6. /\ flock \in [LockFile -> Proc \cup {NoProc}] /\ flock[l[p].held] = NoProc
      /\ flock' = [flock EXCEPT ![l[p].held] = p] /\ UNCHANGED <<lockAt, logAt>>
  BY DEF StrayInv, TypeOK, TakeLock, fileVars
<1>7. /\ flock'[l[p].held] = p
      /\ \A q \in Proc \ {p}, k \in LockFile : flock[k] = q => flock'[k] = q
  BY <1>5, <1>6, Bounds
<1>8. ~Loaded(p)' /\ pc'[p] \notin Repairing
  BY <1>2 DEF Loaded, Locking, Repairing
<1>9. KeepsOf(p)' /\ ShiftOf(p)'
  BY <1>3, <1>4, <1>5, <1>7, <1>8 DEF KeepsOf, ShiftOf
<1>10. Alone(p)
  BY <1>2, <1>3 DEF Alone
<1> QED BY <1>6, <1>7, <1>9, <1>10, ShiftKept DEF Working

LEMMA ShiftRefuseSecond ==
  ASSUME StrayInv, StrayInv', ShiftInv, NEW p \in Proc, RefuseSecond(p) PROVE ShiftInv'
<1>1. pc \in [Proc -> Steps] /\ l \in [Proc -> Log] /\ "out" \in Steps
  BY DEF StrayInv, TypeOK, Steps
<1>2. pc'[p] = "out" /\ \A q \in Proc \ {p} : pc'[q] = pc[q]
  BY <1>1, Moved DEF RefuseSecond
<1>3. l'[p] = NoLog /\ \A q \in Proc \ {p} : l'[q] = l[q]
  BY <1>1, NoLogTyped, Updated DEF RefuseSecond
<1>4. UNCHANGED <<lockAt, logAt, flock>>
  BY DEF RefuseSecond, fileVars, lockVars
<1> QED BY <1>2, <1>3, <1>4, ShiftGone DEF Alone, Working

\* The size a process knows is the log's as its scan reads it.
LEMMA ShiftLoad ==
  ASSUME StrayInv, StrayInv', ShiftInv, NEW p \in Proc, Load(p) PROVE ShiftInv'
<1> DEFINE unrecorded == Unrecorded(View(log, rotten))
           s == IF Torn THEN "copy" ELSE LoadStep(p, unrecorded)
           n == End(log)
<1>1. /\ pc[p] = "stamped" /\ Goto(p, s)
      /\ l' = [l EXCEPT ![p].onLog = logAt, ![p].seq = Len(log), ![p].size = n,
                        ![p].torn = tail, ![p].bad = unrecorded, ![p].rots = rots]
      /\ UNCHANGED <<log, bytes, tail, logAt, lockAt, flock, strays, astray>>
  BY DEF Load, fileVars, lockVars, histVars
<1>2. pc \in [Proc -> Steps] /\ l \in [Proc -> Log] /\ s \in Steps /\ n \in Nat
  BY Counted, EndTyped DEF StrayInv, TypeOK, Steps, LoadStep, Repairing, Announcing, Appending
<1> HIDE DEF unrecorded, s, n
<1>3. pc'[p] = s /\ \A q \in Proc \ {p} : pc'[q] = pc[q]
  BY <1>1, <1>2, Moved
<1>4. /\ l'[p].held = l[p].held /\ l'[p].inc = l[p].inc /\ l'[p].broken = l[p].broken
      /\ l'[p].size = n
      /\ \A q \in Proc \ {p} : l'[q] = l[q]
  BY <1>1, <1>2 DEF Log
<1>5. Writing(p) /\ ~Loaded(p)
  BY <1>1 DEF Writing, Loaded, Locking
<1>6. strays[l[p].inc] = 0 /\ ~l[p].broken /\ l[p].held \in LockFile /\ flock[l[p].held] = p
  BY <1>1, <1>5 DEF StrayInv, StrayOf, ShiftInv, KeepsOf
<1>7. /\ \A i \in 1..Len(log) : log[i].end <= n + astray
      /\ pc'[p] \notin Repairing => bytes <= n + astray
  <2>1. /\ Len(log) \in Nat /\ bytes \in Nat /\ astray \in Nat
        /\ \A i \in 1..Len(log) : log[i].end \in Nat
    BY Counted
  <2>2. \A i \in 1..Len(log) : log[i].end <= n
    BY LastEnds DEF StrayInv, n
  <2>3. pc'[p] \notin Repairing => bytes = n
    <3>1. s \notin Repairing => ~Torn
      BY DEF s, Repairing
    <3> QED BY <3>1, <1>3 DEF StrayInv, Measured, n
  <2>4. \A x \in Nat : x <= n => x <= n + astray
    BY <2>1, <1>2
  <2> QED BY <2>1, <2>2, <2>3, <2>4, <1>2
<1>8. KeepsOf(p)'
  BY <1>1, <1>4, <1>6 DEF KeepsOf
<1>9. ShiftOf(p)'
  BY <1>1, <1>4, <1>7 DEF ShiftOf
<1>10. Alone(p)
  BY <1>3, <1>4 DEF Alone
<1> QED BY <1>1, <1>8, <1>9, <1>10, ShiftKept DEF Working

\* Steps that leave the process's Log but for its append's check.
LEMMA ShiftWalks ==
  ASSUME StrayInv, StrayInv', ShiftInv, NEW p \in Proc,
         \/ Stamp(p) \/ CopyTorn(p) \/ CutTorn(p) \/ CallAppend(p) \/ CheckOwned(p)
         \/ RefuseEntry(p) \/ CallClose(p) \/ EmptyLock(p)
  PROVE  ShiftInv'
<1>1. pc \in [Proc -> Steps] /\ l \in [Proc -> Log] /\ KeepsOf(p) /\ ShiftOf(p)
  BY DEF StrayInv, TypeOK, ShiftInv
<1>2. UNCHANGED <<lockAt, logAt, flock, strays>>
  BY DEF Stamp, CopyTorn, CutTorn, CallAppend, CheckOwned, RefuseEntry, CallClose, EmptyLock,
         fileVars, lockVars, histVars
<1>3. /\ \A q \in Proc \ {p} : pc'[q] = pc[q]
      /\ \/ pc[p] = "locked" /\ pc'[p] = "stamped"
         \/ pc[p] \in Repairing /\ pc'[p] \in {"cut", "record"}
         \/ pc[p] \in Appending /\ pc'[p] = pc[p]
         \/ pc[p] = "open" /\ ~l[p].broken /\ pc'[p] \in {"append", "closing"}
         \/ pc[p] = "append" /\ pc'[p] = "open"
         \/ pc[p] \in {"open", "emptying"} /\ pc'[p] \in {"emptying", "releasing"}
  BY <1>1 DEF Stamp, CopyTorn, CutTorn, CallAppend, CheckOwned, RefuseEntry, CallClose, EmptyLock,
              Goto, Steps, Locking, Repairing, Appending, Announcing
<1>4. /\ \A q \in Proc \ {p} : l'[q] = l[q]
      /\ l'[p].held = l[p].held /\ l'[p].inc = l[p].inc /\ l'[p].onLog = l[p].onLog
      /\ l'[p].size = l[p].size /\ l'[p].broken = l[p].broken
  <2>1. CASE CheckOwned(p) \/ RefuseEntry(p)
    BY <1>1, <2>1 DEF CheckOwned, RefuseEntry, Log
  <2>2. CASE ~CheckOwned(p) /\ ~RefuseEntry(p)
    <3>1. l' = l
      BY <2>2 DEF Stamp, CopyTorn, CutTorn, CallAppend, CallClose, EmptyLock, lockVars
    <3> QED BY <3>1
  <2> QED BY <2>1, <2>2
<1>5. Writing(p) /\ Writing(p)' /\ (Loaded(p)' => Loaded(p))
  BY <1>3 DEF Writing, Loaded, Locking, Repairing, Appending, Announcing
<1>6. KeepsOf(p)'
  <2>1. pc'[p] \in Repairing => pc[p] \in Repairing
    BY <1>3 DEF Repairing, Appending, Announcing
  <2>2. l[p].broken => pc'[p] \in {"open", "emptying", "releasing"}
    BY <1>1, <1>3 DEF KeepsOf, Repairing, Appending, Announcing
  <2> QED BY <2>1, <2>2, <1>1, <1>2, <1>4, <1>5 DEF KeepsOf
<1>7. /\ Len(log) \in Nat /\ bytes \in Nat /\ astray \in Nat /\ l[p].size \in Nat
      /\ \A i \in 1..Len(log) : log[i].end \in Nat
      /\ Len(log') \in Nat /\ bytes' \in Nat /\ astray' \in Nat
  BY Counted, CountedAfter
<1>8. /\ astray <= astray' /\ \A i \in 1..Len(log') : i \in 1..Len(log) /\ log'[i] = log[i]
      /\ \/ bytes' = bytes /\ astray' = astray /\ ~CutTorn(p)
         \/ CutTorn(p) /\ bytes' = l[p].size
         \/ CutTorn(p) /\ ~OnFile(p)
  <2>1. CASE CutTorn(p) /\ OnFile(p)
    <3>1. Cut(p) /\ l[p].inc \in Holder
      BY <2>1, CheckedHolder DEF CutTorn, Repairing
    <3>2. /\ bytes' = l[p].size /\ Lengthen(p) /\ Len(log') <= Len(log)
          /\ \A i \in 1..Len(log) : i <= Len(log') => log'[i] = log[i]
      BY <3>1, CutFile DEF StrayInv
    <3>3. astray <= astray'
      BY <3>2, <1>7, Lengthened DEF StrayInv
    <3>4. \A i \in 1..Len(log') : i \in 1..Len(log) /\ i <= Len(log')
      BY <3>2, <1>7
    <3> QED BY <2>1, <3>2, <3>3, <3>4
  <2>2. CASE CutTorn(p) /\ ~OnFile(p)
    <3>1. UNCHANGED <<log, bytes, astray>>
      BY <2>2 DEF CutTorn
    <3> QED BY <2>2, <3>1, <1>7
  <2>3. CASE ~CutTorn(p)
    <3>1. UNCHANGED <<log, bytes, astray>>
      BY <2>3 DEF Stamp, CopyTorn, CallAppend, CheckOwned, RefuseEntry, CallClose, EmptyLock,
                  fileVars, histVars
    <3> QED BY <2>3, <3>1, <1>7
  <2> QED BY <2>1, <2>2, <2>3
<1>9. ShiftOf(p)'
  <2>1. (OnFile(p)' <=> OnFile(p)) /\ (Owned(p)' <=> Owned(p))
    BY <1>2, <1>4 DEF OnFile, Owned
  <2>2. ASSUME Loaded(p), OnFile(p), ~l[p].broken, Owned(p), pc'[p] \notin Repairing
        PROVE  bytes' <= l[p].size + astray'
    <3>1. CASE CutTorn(p)
      <4>1. bytes' = l[p].size
        BY <2>2, <3>1, <1>8
      <4> QED BY <4>1, <1>7
    <3>2. CASE ~CutTorn(p)
      <4>1. bytes' = bytes /\ astray' = astray
        BY <3>2, <1>8
      <4>2. pc[p] \notin Repairing
        <5>1. CASE CopyTorn(p)
          <6>1. pc'[p] = "cut"
            BY <5>1, <1>1, Moved DEF CopyTorn, Steps, Repairing
          <6> QED BY <6>1, <2>2 DEF Repairing
        <5>2. CASE ~CopyTorn(p)
          BY <3>2, <5>2 DEF Stamp, CallAppend, CheckOwned, RefuseEntry, CallClose, EmptyLock,
                            Repairing, Appending, Announcing
        <5> QED BY <5>1, <5>2
      <4> QED BY <4>1, <4>2, <2>2, <1>1 DEF ShiftOf
    <3> QED BY <3>1, <3>2
  <2>3. ASSUME Loaded(p), OnFile(p), ~l[p].broken, strays[l[p].inc] = 0,
               NEW i \in 1..Len(log'), log'[i].by = l[p].inc
        PROVE  log'[i].end <= l[p].size + astray'
    <3>1. i \in 1..Len(log) /\ log'[i] = log[i]
      BY <1>8
    <3>2. log[i].end <= l[p].size + astray
      BY <2>3, <3>1, <1>1 DEF ShiftOf
    <3> QED BY <3>1, <3>2, <1>7, <1>8, NoNearer
  <2> QED BY <2>1, <2>2, <2>3, <1>2, <1>4, <1>5 DEF ShiftOf
<1>10. Alone(p)
  BY <1>3, <1>4 DEF Alone
<1> QED BY <1>2, <1>6, <1>9, <1>10, ShiftKept DEF Calling, Working

\* A line of its own leaves an owner's lines shifted as before; one that went astray is its last.
LEMMA ShiftWrite ==
  ASSUME StrayInv, StrayInv', ShiftInv, NEW p \in Proc, Write(p) PROVE ShiftInv'
<1>1. /\ pc[p] \in Appending /\ l[p].checked /\ UNCHANGED <<lockAt, logAt, flock>>
  BY DEF Write, lockVars
<1> DEFINE Wrote(e, len) ==
        /\ WriteLine(p, e, len)
        /\ l' = [l EXCEPT
                   ![p].seq = @ + 1, ![p].size = @ + len, ![p].checked = FALSE,
                   ![p].bad = IF pc[p] = "quarantine" THEN @ \ {e.ref} ELSE @,
                   ![p].opened = IF pc[p] = "announce" THEN l[p].seq + 1 ELSE @]
        /\ Goto(p, AfterAppend(p, e))
<1>e. PICK e \in Due(p) : \E len \in Lengths[e.type] : Wrote(e, len)
  BY DEF Write
<1>2. PICK len \in Lengths[e.type] : Wrote(e, len)
  BY <1>e
<1>3. pc \in [Proc -> Steps] /\ l \in [Proc -> Log] /\ KeepsOf(p) /\ ShiftOf(p)
  BY DEF StrayInv, TypeOK, ShiftInv
<1>4. /\ \A q \in Proc \ {p} : l'[q] = l[q]
      /\ l'[p].held = l[p].held /\ l'[p].inc = l[p].inc /\ l'[p].onLog = l[p].onLog
      /\ l'[p].size = l[p].size + len /\ l'[p].broken = l[p].broken
  BY <1>2, <1>3 DEF Log
<1>5. pc'[p] = AfterAppend(p, e) /\ \A q \in Proc \ {p} : pc'[q] = pc[q]
  <2>1. AfterAppend(p, e) \in Steps
    BY <1>1, AfterAppendTyped
  <2> QED BY <2>1, <1>2, <1>3, Moved
<1>6. pc'[p] \notin Repairing /\ ~l[p].broken
  <2>1. AfterAppend(p, e) \notin Repairing
    BY <1>1 DEF AfterAppend, LoadStep, Appending, Announcing, Repairing
  <2>2. ~l[p].broken
    BY <1>1, <1>3 DEF KeepsOf, Appending, Announcing
  <2> QED BY <2>1, <2>2, <1>5
<1>7. Writing(p) /\ Loaded(p) /\ l[p].inc \in Holder /\ strays[l[p].inc] = 0
  BY <1>1, CheckedIs
<1>8. KeepsOf(p)'
  BY <1>1, <1>3, <1>4, <1>6, <1>7 DEF KeepsOf
<1>9. ShiftOf(p)'
  <2>1. CASE Owned(p)
    <3>1. /\ OnFile(p) /\ strays' = strays /\ log' = Append(log, NewLine(p, e, len))
          /\ bytes' = bytes + len /\ Lengthen(p)
      BY <2>1, <1>2 DEF WriteLine, OnFile, Owned
    <3>2. /\ log \in Seq(Record) /\ Len(log) \in Nat /\ l[p].size \in Nat /\ bytes \in Nat
          /\ astray \in Nat
          /\ \A i \in 1..Len(log) : log[i].end \in Nat /\ log[i].end <= bytes
      BY Counted
    <3>3. NewLine(p, e, len).end = bytes + len /\ len \in Nat
      BY <1>1, <1>7, LineTypedNew DEF StrayInv
    <3>4. astray' = astray
      BY <2>1, <3>1, CountedAfter, Lengthened DEF StrayInv
    <3>5. bytes <= l[p].size + astray
      <4>1. pc[p] \notin Repairing
        BY <1>1 DEF Appending, Announcing, Repairing
      <4> QED BY <2>1, <3>1, <4>1, <1>3, <1>6, <1>7 DEF ShiftOf
    <3>6. bytes' <= l'[p].size + astray'
      BY <3>1, <3>2, <3>3, <3>4, <3>5, <1>4
    <3>7. ASSUME NEW i \in 1..Len(log') PROVE log'[i].end <= l'[p].size + astray'
      <4>1. CASE i \in 1..Len(log)
        <5>1. log'[i] = log[i] /\ log[i].end \in Nat /\ log[i].end <= bytes
          BY <3>1, <3>2, <4>1
        <5> QED BY <5>1, <3>2, <3>3, <3>4, <3>5, <1>4
      <4>2. CASE i \notin 1..Len(log)
        <5>1. log'[i] = NewLine(p, e, len)
          BY <3>1, <3>2, <4>2
        <5> QED BY <5>1, <3>1, <3>3, <3>6
      <4> QED BY <4>1, <4>2
    <3> QED BY <3>6, <3>7 DEF ShiftOf
  <2>2. CASE ~Owned(p)
    <3>1. strays' = [strays EXCEPT ![l[p].inc] = @ + 1] /\ strays \in [Holder -> Nat]
      BY <2>2, <1>2 DEF WriteLine, StrayInv, TypeOK
    <3>2. strays'[l'[p].inc] # 0
      BY <3>1, <1>4, <1>7
    <3>3. ~Owned(p)'
      BY <2>2, <1>1, <1>4 DEF Owned
    <3> QED BY <3>2, <3>3 DEF ShiftOf
  <2> QED BY <2>1, <2>2
<1>10. Alone(p)
  BY <1>4, <1>5 DEF Alone
<1> QED BY <1>1, <1>8, <1>9, <1>10, ShiftKept DEF Working

LEMMA ShiftFails ==
  ASSUME StrayInv, StrayInv', ShiftInv, NEW p \in Proc,
         FindNotOwned(p) \/ WriteFails(p) \/ SyncFails(p)
  PROVE  ShiftInv'
<1>1. pc[p] \in Appending /\ AppendFailed(p) /\ UNCHANGED <<lockAt, logAt>>
  BY DEF FindNotOwned, WriteFails, SyncFails, fileVars
<1>2. CASE Leave(p, "failed")
  BY <1>1, <1>2, ShiftLeaves DEF Working
<1>3. CASE ~Leave(p, "failed")
  <2>1. /\ Alone(p) /\ pc'[p] \in {"open", "emptying"} /\ flock' = flock
        /\ l'[p].held = l[p].held
    BY <1>1, <1>3, Broke DEF StrayInv
  <2>2. l'[p].broken
    <3>1. l \in [Proc -> Log] /\ l' = [l EXCEPT ![p].broken = TRUE, ![p].checked = FALSE]
      BY <1>1, <1>3 DEF AppendFailed, StrayInv, TypeOK
    <3> QED BY <3>1 DEF Log
  <2>3. Writing(p)
    BY <1>1 DEF Writing, Appending, Announcing
  <2>4. KeepsOf(p)'
    BY <2>1, <2>3 DEF ShiftInv, KeepsOf, Repairing
  <2>5. ShiftOf(p)'
    BY <2>2 DEF ShiftOf
  <2> QED BY <1>1, <2>1, <2>4, <2>5, ShiftKept DEF Working
<1> QED BY <1>2, <1>3

LEMMA ShiftPowerLoss == ASSUME StrayInv, ShiftInv, PowerLoss PROVE ShiftInv'
<1>1. \A p \in Proc : pc'[p] = "out" /\ l'[p] = NoLog
  BY DEF PowerLoss
<1>2. ~NoLog.broken
  BY DEF NoLog
<1> QED BY <1>1, <1>2 DEF ShiftInv, KeepsOf, ShiftOf, Writing, Loaded, Repairing

LEMMA ShiftTampered == ASSUME StrayInv, ShiftInv, RemoveLock \/ ReplaceLog PROVE ShiftInv'
<1>1. UNCHANGED <<log, bytes, flock, pc, l, strays, astray>>
  BY DEF RemoveLock, ReplaceLog, fileVars, lockVars, histVars
<1>2. \/ lockAt # 0 /\ lockAt' = 0 /\ logAt' = logAt
      \/ lockAt' = lockAt /\ logAt' = logAt + 1
  BY DEF RemoveLock, ReplaceLog, fileVars, lockVars
<1>4. ASSUME NEW p \in Proc PROVE KeepsOf(p)' /\ ShiftOf(p)'
  <2>1. KeepsOf(p) /\ ShiftOf(p) /\ StrayOf(p) /\ l[p].onLog \in Nat /\ logAt \in Nat
    BY Numbers DEF ShiftInv, StrayInv
  <2>2. Loaded(p) => ~Owned(p)' /\ (OnFile(p)' => OnFile(p))
    <3>1. Loaded(p) => l[p].held # 0 /\ l[p].onLog <= logAt
      BY <2>1 DEF StrayOf, Loaded, Writing
    <3>2. Loaded(p) /\ logAt' = logAt + 1 => logAt' # l[p].onLog
      BY <2>1, <3>1
    <3> QED BY <3>1, <3>2, <1>1, <1>2 DEF Owned, OnFile
  <2>3. KeepsOf(p)'
    BY <2>1, <1>1 DEF KeepsOf, Writing
  <2>4. (Loaded(p)' <=> Loaded(p)) /\ l'[p] = l[p]
    BY <1>1 DEF Loaded, Writing
  <2> QED BY <2>1, <2>2, <2>3, <2>4, <1>1 DEF ShiftOf
<1> QED BY <1>4 DEF ShiftInv

LEMMA ShiftSame ==
  ASSUME ShiftInv, (\E i \in 1..Len(log) : Rot(i)) \/ UNCHANGED vars PROVE ShiftInv'
<1>1. UNCHANGED <<log, bytes, logAt, lockAt, flock, pc, l, strays, astray>>
  BY DEF Rot, vars, fileVars, lockVars, histVars
<1> QED BY <1>1 DEF ShiftInv, KeepsOf, ShiftOf, Owned, OnFile, Loaded, Writing

LEMMA ShiftNext ==
  StrayInv /\ StrayInv' /\ ShiftInv /\ [Next \/ RemoveLock \/ ReplaceLog]_vars => ShiftInv'
<1> SUFFICES ASSUME StrayInv, StrayInv', ShiftInv, [Next \/ RemoveLock \/ ReplaceLog]_vars
             PROVE  ShiftInv'
  OBVIOUS
<1>1. ASSUME NEW p \in Proc, OpenFails(p) \/ ReleaseLock(p) \/ Crash(p) PROVE ShiftInv'
  <2>1. Leave(p, "failed") \/ Leave(p, "closed") \/ Leave(p, "closed in error") \/ Leave(p, "died")
    BY <1>1 DEF OpenFails, ReleaseLock, Crash
  <2>2. UNCHANGED <<lockAt, logAt>>
    BY <1>1 DEF OpenFails, ReleaseLock, Crash, fileVars
  <2> QED BY <1>1, <2>1, <2>2, ShiftLeaves DEF Working
<1>2. ASSUME NEW p \in Proc, Calling(p) \/ Working(p) \/ Crash(p) PROVE ShiftInv'
  BY <1>1, <1>2, ShiftOpenLockFile, ShiftTakeLock, ShiftRefuseSecond, ShiftLoad, ShiftWalks,
     ShiftWrite, ShiftFails DEF Calling, Working
<1> QED BY <1>2, ShiftPowerLoss, ShiftTampered, ShiftSame DEF Next

LEMMA ShiftInvariance == TamperSpec => [](StrayInv /\ ShiftInv)
<1>1. Init => StrayInv /\ ShiftInv
  BY StrayInit, ShiftInit
<1>2. StrayInv /\ ShiftInv /\ [Next \/ RemoveLock \/ ReplaceLog]_vars => StrayInv' /\ ShiftInv'
  BY StrayNext, ShiftNext
<1> QED BY <1>1, <1>2, PTL DEF TamperSpec

\* A step that makes the log shorter, power losses aside, is a repair's or a failed append's.
LEMMA WhoCuts ==
  ASSUME StrayInv, [Next \/ RemoveLock \/ ReplaceLog]_vars, powers' = powers,
         Len(log') < Len(log)
  PROVE  \E p \in Proc : (CutTorn(p) \/ WriteFails(p)) /\ OnFile(p) /\ Cut(p)
<1>1. Len(log) \in Nat /\ powers \in Nat
  <2>1. powers \in 0..MaxPower
    BY DEF StrayInv, TypeOK
  <2> QED BY <2>1, FileTypes, Bounds DEF StrayInv
<1>2. log' # log
  BY <1>1
<1>3. ~PowerLoss
  BY <1>1 DEF PowerLoss
<1>4. ~RemoveLock /\ ~ReplaceLog /\ ~UNCHANGED vars /\ ~(\E i \in 1..Len(log) : Rot(i))
  BY <1>2 DEF RemoveLock, ReplaceLog, Rot, vars, fileVars
<1>5. PICK p \in Proc : Calling(p) \/ Working(p) \/ Crash(p)
  BY <1>3, <1>4 DEF Next
<1> QED BY <1>5, Effects

\* Whatever is removed or replaced, a process cuts none of its own lines away that ends further
\* behind the cut than the bytes holders without the home ever made the log longer, and nobody's
\* that does when it has the home and undoes a failed write (log.go:182, 248).
THEOREM TamperedKeepsOwn == TamperSpec => OwnLinesStay
<1> DEFINE Spared(p, i) ==
             log[i].by = l[p].inc \/ (Owned(p) /\ pc[p] # "cut") => log[i].end - bytes' <= astray
           Stays == logAt' = logAt /\ powers' = powers /\ Len(log') < Len(log) =>
             \E p \in Proc :
               /\ l'[p] # l[p] \/ pc'[p] # pc[p]
               /\ \A i \in (Len(log') + 1)..Len(log) : Spared(p, i)
<1>1. ASSUME StrayInv, StrayInv', ShiftInv, [Next \/ RemoveLock \/ ReplaceLog]_vars PROVE Stays
  <2> SUFFICES ASSUME powers' = powers, Len(log') < Len(log)
               PROVE  \E p \in Proc :
                        /\ l'[p] # l[p] \/ pc'[p] # pc[p]
                        /\ \A i \in (Len(log') + 1)..Len(log) : Spared(p, i)
    OBVIOUS
  <2>1. PICK p \in Proc : (CutTorn(p) \/ WriteFails(p)) /\ OnFile(p) /\ Cut(p)
    BY <1>1, WhoCuts
  <2>2. /\ Len(log) \in Nat /\ bytes \in Nat /\ astray \in Nat /\ l[p].size \in Nat
        /\ Len(log') \in Nat /\ bytes' = l[p].size
        /\ \A i \in 1..Len(log) : log[i].end \in Nat /\ log[i].end <= bytes
        /\ pc \in [Proc -> Steps]
    BY <1>1, <2>1, Counted, CountedAfter DEF StrayInv, TypeOK, Cut
  <2>3. pc'[p] # pc[p]
    <3>1. CASE CutTorn(p)
      BY <2>2, <3>1 DEF CutTorn, Goto
    <3>2. CASE WriteFails(p)
      <4>1. pc[p] \in Appending /\ AppendFailed(p)
        BY <3>2 DEF WriteFails
      <4>2. CASE Leave(p, "failed")
        BY <4>1, <4>2, <2>2 DEF Leave, Goto, Appending, Announcing
      <4>3. CASE ~Leave(p, "failed")
        BY <4>1, <4>3, <2>2 DEF AppendFailed, Goto
      <4> QED BY <4>2, <4>3
    <3> QED BY <2>1, <3>1, <3>2
  <2>4. /\ Loaded(p) /\ ~l[p].broken /\ strays[l[p].inc] = 0
        /\ pc[p] # "cut" => pc[p] \notin Repairing
    <3>1. CASE CutTorn(p)
      <4>1. pc[p] = "cut"
        BY <3>1 DEF CutTorn
      <4>2. KeepsOf(p)
        BY <1>1 DEF ShiftInv
      <4> QED BY <4>1, <4>2 DEF KeepsOf, Loaded, Writing, Locking, Repairing
    <3>2. CASE WriteFails(p)
      <4>1. l[p].checked
        BY <3>2 DEF WriteFails
      <4>2. pc[p] \in Appending /\ Loaded(p) /\ strays[l[p].inc] = 0
        BY <4>1, <1>1, CheckedIs
      <4>3. KeepsOf(p)
        BY <1>1 DEF ShiftInv
      <4> QED BY <4>2, <4>3 DEF KeepsOf, Appending, Announcing, Repairing
    <3> QED BY <2>1, <3>1, <3>2
  <2>5. /\ Owned(p) /\ pc[p] # "cut" => bytes <= l[p].size + astray
        /\ \A i \in 1..Len(log) : log[i].by = l[p].inc => log[i].end <= l[p].size + astray
    BY <1>1, <2>1, <2>4 DEF ShiftInv, ShiftOf
  <2>6. ASSUME NEW i \in (Len(log') + 1)..Len(log),
               log[i].by = l[p].inc \/ (Owned(p) /\ pc[p] # "cut")
        PROVE  log[i].end - bytes' <= astray
    <3>1. i \in 1..Len(log)
      BY <2>2
    <3>2. CASE log[i].by = l[p].inc
      BY <3>1, <3>2, <2>2, <2>5
    <3>3. CASE Owned(p) /\ pc[p] # "cut"
      <4>1. bytes <= l[p].size + astray
        BY <3>3, <2>5
      <4> QED BY <3>1, <4>1, <2>2
    <3> QED BY <2>6, <3>2, <3>3
  <2> QED BY <2>3, <2>6
<1>2. TamperSpec => [](StrayInv /\ ShiftInv)
  BY ShiftInvariance
<1>3. StrayInv /\ StrayInv' /\ ShiftInv /\ [Next \/ RemoveLock \/ ReplaceLog]_vars => [Stays]_vars
  BY <1>1
<1> QED BY <1>2, <1>3, PTL DEF TamperSpec, OwnLinesStay

=============================================================================
