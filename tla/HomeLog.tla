------------------------------ MODULE HomeLog ------------------------------
(***************************************************************************)
(* The single writer of one home: src/core/log/log.go.                     *)
(*                                                                         *)
(* Processes open the same home, append to log/events.jsonl and close it.  *)
(* home.lock elects the writer with flock; its content is left behind by a *)
(* holder that dies.  An Open repairs the torn tail of an interrupted      *)
(* write, quarantines unreadable lines, records a lock it took over and    *)
(* announces itself, in that order and each by one append.  A process may  *)
(* be killed between any two of its system calls, the machine may lose     *)
(* power, a line on disk may rot, and any write may fail.                  *)
(*                                                                         *)
(* A line of the file keeps what was written in it; "rotten" says which    *)
(* lines no longer parse.  What a reader makes of them is LogFile's.       *)
(***************************************************************************)
EXTENDS LogFile, FiniteSets

CONSTANTS
  Proc,         \* processes that may open the home
  NoProc,       \* nobody
  MaxOpens,     \* bound: times home.lock is taken
  MaxAppends,   \* bound: entries callers hand to Append
  MaxRot,       \* bound: lines that rot
  MaxPower,     \* bound: power losses
  MaxTamper,    \* bound: times home.lock is removed or events.jsonl replaced
  Lengths       \* the bytes a line of each type may have

ASSUME NoProcAssumption == NoProc \notin Proc
ASSUME BoundsAssumption == {MaxOpens, MaxAppends, MaxRot, MaxPower, MaxTamper} \subseteq Nat

VARIABLES
  \* log/events.jsonl
  log,       \* its complete lines, as they were written
  rotten,    \* the positions of the lines that no longer parse
  bytes,     \* its length
  tail,      \* the holder whose unfinished write follows the last newline, 0 when none
  synced,    \* how many lines an fsync has put on disk
  copies,    \* the torn tails moved to events.torn.<ts>
  logAt,     \* which file is at the path; it grows when the file is replaced
  \* home.lock
  lockAt,    \* which lock file is at the path, 0 when there is none
  content,   \* what each lock file says: the number of a holder, 0 when empty
  flock,     \* the process that holds each lock file's flock
  \* the processes
  pc,        \* where each is in Open, Append or Close
  l,         \* its Log
  \* counters of the bounds, and history
  opens, appends, rots, powers, tampers,
  fate,      \* how each holder ended
  acked,     \* the lines whose synced append returned without an error
  strays,    \* lines each holder wrote after losing the lock or the file
  astray,    \* bytes by which holders that had lost either made the log longer
  tornAt     \* the positions at which a torn tail has ever stood

fileVars == <<log, rotten, bytes, tail, synced, copies, logAt>>
lockVars == <<lockAt, content, flock>>
countVars == <<opens, appends, rots, powers, tampers>>
histVars == <<fate, acked, strays, astray, tornAt>>
vars == <<fileVars, lockVars, pc, l, countVars, histVars>>

Holder == 1..MaxOpens     \* stands for a pid with its started_at; 0 is nobody
LockFile == 1..(MaxTamper + 1)

Types == {"home.opened", "home.closed", "home.lock_taken",
          "log.repaired", "log.quarantined", "bench"}

\* The catalogue syncs every type but this one.
Durable(type) == type # "home.lock_taken"

ASSUME LengthsAssumption ==
  /\ DOMAIN Lengths = Types
  /\ \A type \in Types : Lengths[type] # {} /\ Lengths[type] \subseteq Nat \ {0, 1}

\* An entry's ref is what its data names: the opened_seq of a close, the stale holder of a
\* takeover, the torn tail of a repair, the seq of a quarantine.
Entry == [type : Types, ref : Nat]
Record == [type : Types, ref : Nat, seq : Nat, by : Holder,
           end : Nat]     \* the byte at which the line ends

\* The fields of a Log, and what its Open has read and not yet dealt with.
Log == [inc : 0..MaxOpens,            \* which holder the process is
        held : 0..(MaxTamper + 1),    \* lockInfo, the lock file it opened
        onLog : Nat,                  \* fInfo, the log file it opened
        stale : 0..MaxOpens,          \* the content it found in home.lock
        torn : 0..MaxOpens,           \* the torn tail its scan found
        bad : SUBSET Nat,             \* the seqs it still has to quarantine
        rots : 0..MaxRot,             \* lines that had rotted when it scanned the log
        checked : BOOLEAN,            \* its append has passed owned() and comes to the write
        broken : BOOLEAN,
        seq : Nat,
        size : Nat,                   \* in bytes
        opened : Nat]

NoLog == [inc |-> 0, held |-> 0, onLog |-> 0, stale |-> 0, torn |-> 0, bad |-> {},
          rots |-> 0, checked |-> FALSE, broken |-> FALSE, seq |-> 0, size |-> 0, opened |-> 0]

\* Open up to its scan, its repair, its appends, and every step that appends.
Locking == {"locked", "stamped"}
Repairing == {"copy", "cut"}
Announcing == {"record", "quarantine", "takeover", "announce"}
Appending == Announcing \cup {"append", "closing"}
Steps == {"out", "try", "open", "emptying", "releasing"}
           \cup Locking \cup Repairing \cup Appending

Init ==
  /\ log = << >> /\ rotten = {} /\ bytes = 0 /\ tail = 0 /\ synced = 0 /\ copies = {} /\ logAt = 1
  /\ lockAt = 0
  /\ content = [k \in LockFile |-> 0]
  /\ flock = [k \in LockFile |-> NoProc]
  /\ pc = [p \in Proc |-> "out"]
  /\ l = [p \in Proc |-> NoLog]
  /\ opens = 0 /\ appends = 0 /\ rots = 0 /\ powers = 0 /\ tampers = 0
  /\ fate = [k \in Holder |-> "none"]
  /\ acked = {} /\ tornAt = {}
  /\ strays = [k \in Holder |-> 0] /\ astray = 0

-----------------------------------------------------------------------------
(* Helpers *)

\* The file as a reader sees it.
View(lines, rot) ==
  [i \in 1..Len(lines) |->
     [usable |-> i \notin rot, seq |-> lines[i].seq, newer |-> FALSE, check |-> "ok",
      names |-> IF lines[i].type = "log.quarantined" THEN lines[i].ref ELSE 0]]

Torn == tail # 0

\* A bug of it: the last complete line goes too.
FirstLines_TooShort(lines, n) == SubSeq(lines, 1, n - 1)

\* The first n lines of a log, all of it when it is shorter.
FirstLines(lines, n) == IF n < Len(lines) THEN SubSeq(lines, 1, n) ELSE lines

\* Where the last of some lines ends.
End(lines) == IF lines = << >> THEN 0 ELSE lines[Len(lines)].end

\* owned: the files at both paths are still the ones this Log opened.
Owned(p) == lockAt = l[p].held /\ logAt = l[p].onLog

OnFile(p) == logAt = l[p].onLog

Say(type, ref) == [type |-> type, ref |-> ref]

\* The close names the open's seq.  A bug of it: it names the last seq instead.
ClosingEntry_LastSeq(p) == Say("home.closed", l[p].seq)

ClosingEntry(p) == Say("home.closed", l[p].opened)

\* The entry the process's next append writes; quarantines go in increasing order of seq.
Due(p) ==
  CASE pc[p] = "record"     -> {Say("log.repaired", l[p].torn)}
    [] pc[p] = "quarantine" -> {Say("log.quarantined", n) :
                                  n \in {m \in l[p].bad : \A k \in l[p].bad : m <= k}}
    [] pc[p] = "takeover"   -> {Say("home.lock_taken", l[p].stale)}
    [] pc[p] = "announce"   -> {Say("home.opened", l[p].inc)}
    [] pc[p] = "append"     -> {Say("bench", 0)}
    [] pc[p] = "closing"    -> {ClosingEntry(p)}

\* How much of a line a write may have written when it stops.
Part(p) == UNION {UNION {1..(n - 1) : n \in Lengths[e.type]} : e \in Due(p)}

\* The line of n bytes an append of entry e writes.
NewLine(p, e, n) ==
  [type |-> e.type, ref |-> e.ref, seq |-> l[p].seq + 1, by |-> l[p].inc, end |-> bytes + n]

\* The log is longer by what a process without the home made it longer.
Lengthen(p) ==
  astray' = IF Owned(p) \/ bytes' <= bytes THEN astray ELSE astray + (bytes' - bytes)

\* One write of one line, in O_APPEND mode: after a torn tail it completes the torn line,
\* which then does not parse; on a replaced log nobody reads it.
WriteLine(p, e, n) ==
  /\ IF OnFile(p)
     THEN /\ log' = Append(log, NewLine(p, e, n))
          /\ rotten' = IF Torn THEN rotten \cup {Len(log) + 1} ELSE rotten
          /\ bytes' = bytes + n
          /\ tail' = 0
     ELSE UNCHANGED <<log, rotten, bytes, tail>>
  /\ strays' = IF Owned(p) THEN strays ELSE [strays EXCEPT ![l[p].inc] = @ + 1]
  /\ Lengthen(p)

\* Some of a line is written: the log has a torn tail.
WriteHalf(p) ==
  /\ OnFile(p)
  /\ \E k \in Part(p) : bytes' = bytes + k
  /\ tail' = IF Torn THEN tail ELSE l[p].inc
  /\ tornAt' = tornAt \cup {Len(log) + 1}
  /\ Lengthen(p)
  /\ UNCHANGED <<log, rotten>>

\* The file is truncated to the bytes the process knows of: the lines that end behind them go,
\* and the one they end in is torn; a file that is shorter is filled up.
Cut(p) ==
  /\ \E n \in 0..Len(log) :
       /\ \A i \in 1..Len(log) : i <= n <=> log[i].end <= l[p].size
       /\ log' = FirstLines(log, n)
       /\ rotten' = rotten \cap 1..n
       /\ tail' = IF End(log') = l[p].size THEN 0
                  ELSE IF n < Len(log) THEN log[n + 1].by ELSE IF Torn THEN tail ELSE l[p].inc
       /\ tornAt' = IF tail' = 0 THEN tornAt ELSE tornAt \cup {n + 1}
  /\ bytes' = l[p].size
  /\ Lengthen(p)

Goto(p, step) == pc' = [pc EXCEPT ![p] = step]

\* The process's Log is gone: the kernel drops the flock as the descriptor closes, by Close
\* or by death, and the holder's end is noted unless it was noted before.
Leave(p, how) ==
  /\ flock' = [k \in LockFile |-> IF flock[k] = p THEN NoProc ELSE flock[k]]
  /\ fate' = [k \in Holder |-> IF k = l[p].inc /\ fate[k] = "running" THEN how ELSE fate[k]]
  /\ Goto(p, "out")
  /\ l' = [l EXCEPT ![p] = NoLog]

-----------------------------------------------------------------------------
(* Open: takeLock *)

\* os.OpenFile creates home.lock when it is missing.
OpenLockFile(p) ==
  /\ pc[p] = "out"
  /\ opens < MaxOpens
  /\ lockAt' = IF lockAt = 0 THEN tampers + 1 ELSE lockAt
  /\ l' = [l EXCEPT ![p].held = lockAt']
  /\ Goto(p, "try")
  /\ UNCHANGED <<fileVars, content, flock, countVars, histVars>>

\* flock succeeds: the content found is kept, and the file emptied before it is stamped.
TakeLock(p) ==
  /\ pc[p] = "try"
  /\ flock[l[p].held] = NoProc
  /\ opens < MaxOpens
  /\ opens' = opens + 1
  /\ flock' = [flock EXCEPT ![l[p].held] = p]
  /\ l' = [l EXCEPT ![p].inc = opens + 1, ![p].stale = content[l[p].held]]
  /\ content' = [content EXCEPT ![l[p].held] = 0]
  /\ fate' = [fate EXCEPT ![opens + 1] = "running"]
  /\ Goto(p, "locked")
  /\ UNCHANGED <<fileVars, lockAt, appends, rots, powers, tampers, acked, strays, astray, tornAt>>

\* A bug of the next: flock waits for the holder.
RefuseSecond_Blocks(p) == FALSE

\* LockedError: a live process holds it.
RefuseSecond(p) ==
  /\ pc[p] = "try"
  /\ flock[l[p].held] # NoProc
  /\ Goto(p, "out")
  /\ l' = [l EXCEPT ![p] = NoLog]
  /\ UNCHANGED <<fileVars, lockVars, countVars, histVars>>

\* {pid, started_at} is written into the emptied lock file.
Stamp(p) ==
  /\ pc[p] = "locked"
  /\ content' = [content EXCEPT ![l[p].held] = l[p].inc]
  /\ Goto(p, "stamped")
  /\ UNCHANGED <<fileVars, lockAt, flock, l, countVars, histVars>>

-----------------------------------------------------------------------------
(* Open: load, repair and home.opened *)

\* A bug of the next: bad lines are never named.
LoadStep_NoQuarantine(p, ns) == IF l[p].stale # 0 THEN "takeover" ELSE "announce"

\* Where load goes on to with the seqs of ns left to quarantine.
LoadStep(p, ns) ==
  IF ns # {} THEN "quarantine" ELSE IF l[p].stale # 0 THEN "takeover" ELSE "announce"

\* The scan of the file as it is now decides everything Open still appends.
Load(p) ==
  /\ pc[p] = "stamped"
  /\ ~Refused(View(log, rotten))
  /\ LET unrecorded == Unrecorded(View(log, rotten)) IN
       /\ l' = [l EXCEPT ![p].onLog = logAt, ![p].seq = Len(log), ![p].size = End(log),
                         ![p].torn = tail, ![p].bad = unrecorded, ![p].rots = rots]
       /\ Goto(p, IF Torn THEN "copy" ELSE LoadStep(p, unrecorded))
  /\ UNCHANGED <<fileVars, lockVars, countVars, histVars>>

\* A bug of the next: the copy is not kept.
CopyTorn_NotWritten(p) ==
  /\ pc[p] = "copy"
  /\ Goto(p, "cut")
  /\ UNCHANGED <<fileVars, lockVars, l, countVars, histVars>>

\* The torn bytes are written to a file of their own and synced, and its directory too.
CopyTorn(p) ==
  /\ pc[p] = "copy"
  /\ copies' = copies \cup {l[p].torn}
  /\ Goto(p, "cut")
  /\ UNCHANGED <<log, rotten, bytes, tail, synced, logAt, lockVars, l, countVars, histVars>>

\* A bug of the next: the record is left to whoever opens the log next.
CutTorn_Unrecorded(p) ==
  /\ pc[p] = "cut"
  /\ IF OnFile(p) THEN Cut(p) /\ synced' = Len(log')
     ELSE UNCHANGED <<log, rotten, bytes, tail, synced, astray, tornAt>>
  /\ Goto(p, LoadStep(p, l[p].bad))
  /\ UNCHANGED <<copies, logAt, lockVars, l, countVars, fate, acked, strays>>

\* Another: the cut takes the last complete line too.
CutTorn_TooShort(p) ==
  /\ pc[p] = "cut"
  /\ log' = SubSeq(log, 1, Len(log) - 1)
  /\ rotten' = rotten \cap 1..(Len(log) - 1)
  /\ bytes' = End(log')
  /\ tail' = 0
  /\ Goto(p, "record")
  /\ UNCHANGED <<synced, copies, logAt, lockVars, l, countVars, histVars>>

\* The log is cut at the end of the last complete line the scan saw, and synced.
CutTorn(p) ==
  /\ pc[p] = "cut"
  /\ IF OnFile(p) THEN Cut(p) /\ synced' = Len(log')
     ELSE UNCHANGED <<log, rotten, bytes, tail, synced, astray, tornAt>>
  /\ Goto(p, "record")
  /\ UNCHANGED <<copies, logAt, lockVars, l, countVars, fate, acked, strays>>

\* Any step of Open after the flock may fail; the lock is released with its content as it
\* stands, and nothing announces the process.
OpenFails(p) ==
  /\ pc[p] \in Locking \cup Repairing \cup Announcing
  /\ ~l[p].checked
  /\ Leave(p, "failed")
  /\ UNCHANGED <<fileVars, lockAt, content, countVars, acked, strays, astray, tornAt>>

-----------------------------------------------------------------------------
(* Append *)

CallAppend(p) ==
  /\ pc[p] = "open"
  /\ ~l[p].broken
  /\ appends < MaxAppends
  /\ appends' = appends + 1
  /\ Goto(p, "append")
  /\ UNCHANGED <<fileVars, lockVars, l, opens, rots, powers, tampers, histVars>>

\* A bug of the next: nobody looks at the paths again.
CheckOwned_Trusting(p) ==
  /\ pc[p] \in Appending
  /\ ~l[p].checked
  /\ l' = [l EXCEPT ![p].checked = TRUE]
  /\ UNCHANGED <<fileVars, lockVars, pc, countVars, histVars>>

\* owned() holds; the write is a later system call.
CheckOwned(p) ==
  /\ pc[p] \in Appending
  /\ ~l[p].checked
  /\ Owned(p)
  /\ l' = [l EXCEPT ![p].checked = TRUE]
  /\ UNCHANGED <<fileVars, lockVars, pc, countVars, histVars>>

\* The catalogue refuses a caller's entry: no line, no seq, and the Log stays usable.
RefuseEntry(p) ==
  /\ pc[p] = "append"
  /\ l[p].checked
  /\ l' = [l EXCEPT ![p].checked = FALSE]
  /\ Goto(p, "open")
  /\ UNCHANGED <<fileVars, lockVars, countVars, histVars>>

\* Where an append that returned no error leads.
AfterAppend(p, e) ==
  CASE pc[p] = "record"     -> LoadStep(p, l[p].bad)
    [] pc[p] = "quarantine" -> LoadStep(p, l[p].bad \ {e.ref})
    [] pc[p] = "takeover"   -> "announce"
    [] pc[p] = "announce"   -> "open"
    [] pc[p] = "append"     -> "open"
    [] pc[p] = "closing"    -> "emptying"

\* The line is written, and synced when its type is durable.
Write(p) ==
  /\ pc[p] \in Appending
  /\ l[p].checked
  /\ \E e \in Due(p) : \E n \in Lengths[e.type] :
       /\ WriteLine(p, e, n)
       /\ synced' = IF Durable(e.type) /\ OnFile(p) THEN Len(log') ELSE synced
       /\ acked' = IF Durable(e.type) THEN acked \cup {NewLine(p, e, n)} ELSE acked
       /\ l' = [l EXCEPT
                  ![p].seq = @ + 1, ![p].size = @ + n, ![p].checked = FALSE,
                  ![p].bad = IF pc[p] = "quarantine" THEN @ \ {e.ref} ELSE @,
                  ![p].opened = IF pc[p] = "announce" THEN l[p].seq + 1 ELSE @]
       /\ Goto(p, AfterAppend(p, e))
  /\ UNCHANGED <<copies, logAt, lockVars, countVars, fate, tornAt>>

\* A bug of the next: the Log stays usable.
AppendFailed_StaysUsable(p) ==
  \/ pc[p] \in Announcing /\ Leave(p, "failed")
  \/ /\ pc[p] \in {"append", "closing"}
     /\ Goto(p, IF pc[p] = "closing" THEN "emptying" ELSE "open")
     /\ l' = [l EXCEPT ![p].checked = FALSE]
     /\ UNCHANGED <<flock, fate>>

\* An append that fails breaks the Log: Open gives up, Append returns, Close goes on.
AppendFailed(p) ==
  \/ pc[p] \in Announcing /\ Leave(p, "failed")
  \/ /\ pc[p] \in {"append", "closing"}
     /\ Goto(p, IF pc[p] = "closing" THEN "emptying" ELSE "open")
     /\ l' = [l EXCEPT ![p].broken = TRUE, ![p].checked = FALSE]
     /\ UNCHANGED <<flock, fate>>

\* home.lock or events.jsonl is no longer the file this process opened.
FindNotOwned(p) ==
  /\ pc[p] \in Appending
  /\ ~l[p].checked
  /\ ~Owned(p)
  /\ AppendFailed(p)
  /\ UNCHANGED <<fileVars, lockAt, content, countVars, acked, strays, astray, tornAt>>

\* The write fails, after none of the line or some of it.  A partial line is cut back to the
\* size the process knows; if the cut fails too, the next Open finds a torn tail.
WriteFails(p) ==
  /\ pc[p] \in Appending
  /\ l[p].checked
  /\ \/ UNCHANGED <<log, rotten, bytes, tail, astray, tornAt>>
     \/ OnFile(p) /\ Cut(p)
     \/ WriteHalf(p)
  /\ synced' = IF synced <= Len(log') THEN synced ELSE Len(log')
  /\ AppendFailed(p)
  /\ UNCHANGED <<copies, logAt, lockAt, content, countVars, acked, strays>>

\* The line is in the file but its fsync fails.
SyncFails(p) ==
  /\ pc[p] \in Appending
  /\ l[p].checked
  /\ \E e \in Due(p) : Durable(e.type) /\ \E n \in Lengths[e.type] : WriteLine(p, e, n)
  /\ AppendFailed(p)
  /\ UNCHANGED <<synced, copies, logAt, lockAt, content, countVars, acked, tornAt>>

-----------------------------------------------------------------------------
(* Close *)

\* A broken Log cannot record its close; the lock is released all the same.
CallClose(p) ==
  /\ pc[p] = "open"
  /\ Goto(p, IF l[p].broken THEN "emptying" ELSE "closing")
  /\ UNCHANGED <<fileVars, lockVars, l, countVars, histVars>>

\* home.lock is emptied, which marks a clean exit, or that fails and Close returns the error.
EmptyLock(p) ==
  /\ pc[p] = "emptying"
  /\ \/ /\ content' = [content EXCEPT ![l[p].held] = 0]
        /\ UNCHANGED fate
     \/ /\ fate' = [fate EXCEPT ![l[p].inc] = "closed in error"]
        /\ UNCHANGED content
  /\ Goto(p, "releasing")
  /\ UNCHANGED <<fileVars, lockAt, flock, l, countVars, acked, strays, astray, tornAt>>

ReleaseLock(p) ==
  /\ pc[p] = "releasing"
  /\ Leave(p, IF l[p].broken THEN "closed in error" ELSE "closed")
  /\ UNCHANGED <<fileVars, lockAt, content, countVars, acked, strays, astray, tornAt>>

-----------------------------------------------------------------------------
(* What happens to a home *)

\* A process dies.  A write it was in may leave nothing, half a line, or the line unsynced.
Crash(p) ==
  /\ pc[p] # "out"
  /\ \/ UNCHANGED <<log, rotten, bytes, tail, strays, astray, tornAt>>
     \/ l[p].checked /\ WriteHalf(p) /\ UNCHANGED strays
     \/ /\ l[p].checked
        /\ \E e \in Due(p) : \E n \in Lengths[e.type] : WriteLine(p, e, n)
        /\ UNCHANGED tornAt
  /\ Leave(p, "died")
  /\ UNCHANGED <<synced, copies, logAt, lockAt, content, countVars, acked>>

\* What may follow the last newline when power is lost and n complete lines survive: whose it is,
\* and where it ends.
TailsAfter(n) ==
  LET end == End(FirstLines(log, n)) IN
  {<<0, end>>}
  \cup IF n < Len(log) THEN {log[n + 1].by} \X ((end + 1)..(log[n + 1].end - 1))
       ELSE IF Torn THEN {tail} \X ((end + 1)..bytes)
       ELSE UNION {{<<l[p].inc, end + k>> : k \in Part(p)} : p \in {q \in Proc : l[q].checked}}

\* Power is lost: every process dies, lines no fsync reached may be gone or torn, and
\* home.lock, which nothing syncs, may say what it once said.
PowerLoss ==
  /\ powers < MaxPower
  /\ powers' = powers + 1
  /\ \E n \in synced..Len(log) :
       /\ log' = FirstLines(log, n)
       /\ rotten' = rotten \cap 1..n
       /\ \E t \in TailsAfter(n) : tail' = t[1] /\ bytes' = t[2]
       /\ tornAt' = IF tail' = 0 THEN tornAt ELSE tornAt \cup {n + 1}
  /\ \E k \in 0..opens :
       content' = IF lockAt = 0 THEN content ELSE [content EXCEPT ![lockAt] = k]
  /\ flock' = [k \in LockFile |-> NoProc]
  /\ fate' = [k \in Holder |-> IF fate[k] = "running" THEN "died" ELSE fate[k]]
  /\ pc' = [p \in Proc |-> "out"]
  /\ l' = [p \in Proc |-> NoLog]
  /\ UNCHANGED <<synced, copies, logAt, lockAt, opens, appends, rots, tampers, acked, strays, astray>>

\* A complete line stops parsing.
Rot(i) ==
  /\ rots < MaxRot
  /\ i \notin rotten
  /\ rots' = rots + 1
  /\ rotten' = rotten \cup {i}
  /\ UNCHANGED <<log, bytes, tail, synced, copies, logAt, lockVars, pc, l,
                 opens, appends, powers, tampers, histVars>>

\* Someone removes home.lock while the home is in use.
RemoveLock ==
  /\ tampers < MaxTamper
  /\ lockAt # 0
  /\ tampers' = tampers + 1
  /\ lockAt' = 0
  /\ UNCHANGED <<fileVars, content, flock, pc, l, opens, appends, rots, powers, histVars>>

\* Someone replaces events.jsonl by a copy of it.
ReplaceLog ==
  /\ tampers < MaxTamper
  /\ tampers' = tampers + 1
  /\ logAt' = logAt + 1
  /\ UNCHANGED <<log, rotten, bytes, tail, synced, copies, lockVars, pc, l,
                 opens, appends, rots, powers, histVars>>

-----------------------------------------------------------------------------

\* The calls a process makes, and what it does in the call it is in.
Calling(p) == OpenLockFile(p) \/ CallAppend(p) \/ CallClose(p)

Working(p) ==
  \/ TakeLock(p) \/ RefuseSecond(p) \/ Stamp(p) \/ Load(p) \/ CopyTorn(p) \/ CutTorn(p)
  \/ OpenFails(p) \/ CheckOwned(p) \/ RefuseEntry(p) \/ Write(p) \/ FindNotOwned(p)
  \/ WriteFails(p) \/ SyncFails(p) \/ EmptyLock(p) \/ ReleaseLock(p)

Next ==
  \/ \E p \in Proc : Calling(p) \/ Working(p) \/ Crash(p)
  \/ PowerLoss
  \/ \E i \in 1..Len(log) : Rot(i)

\* The home is the program's own: only foliot touches its files.
Spec == Init /\ [][Next]_vars

\* A process in the middle of a call goes on with it.
FairSpec == Spec /\ \A p \in Proc : WF_vars(Working(p))

\* The home is also touched by others.
TamperSpec == Init /\ [][Next \/ RemoveLock \/ ReplaceLog]_vars

-----------------------------------------------------------------------------
(* Properties *)

TypeOK ==
  /\ log \in Seq(Record) /\ rotten \subseteq 1..Len(log)
  /\ bytes \in Nat /\ tail \in 0..MaxOpens /\ synced \in 0..Len(log)
  /\ copies \subseteq 0..MaxOpens /\ logAt \in Nat
  /\ lockAt \in 0..(MaxTamper + 1)
  /\ content \in [LockFile -> 0..MaxOpens] /\ flock \in [LockFile -> Proc \cup {NoProc}]
  /\ pc \in [Proc -> Steps] /\ l \in [Proc -> Log]
  /\ opens \in 0..MaxOpens /\ appends \in 0..MaxAppends /\ rots \in 0..MaxRot
  /\ powers \in 0..MaxPower /\ tampers \in 0..MaxTamper
  /\ fate \in [Holder -> {"none", "running", "died", "failed", "closed", "closed in error"}]
  /\ acked \subseteq Record /\ tornAt \subseteq Nat
  /\ strays \in [Holder -> Nat] /\ astray \in Nat

\* The log is gapless and strictly increasing: whatever processes raced for the lock, died in
\* the middle of a write or failed one, the line at each position carries that position.
GaplessLog == \A i \in 1..Len(log) : log[i].seq = i

\* An event whose synced append returned without an error stays on the log as it was written,
\* through every crash, failed write, repair and power loss that follows.
AckedKept ==
  \A a \in acked : a.seq \in 1..synced /\ log[a.seq] = a

\* home.opened and home.closed bracket one process: a close names an earlier open of the same
\* holder, and that holder writes nothing after it (catalogue.go:16-18).
ClosePairs ==
  \A i \in 1..Len(log) : log[i].type = "home.closed" =>
    /\ log[i].ref \in 1..(i - 1)
    /\ log[log[i].ref].type = "home.opened"
    /\ log[log[i].ref].by = log[i].by
    /\ \A j \in (i + 1)..Len(log) : log[j].by # log[i].by

\* The opens of holder k that no close of the log names.
Unpaired(k) ==
  {o \in 1..Len(log) :
     /\ log[o].type = "home.opened" /\ log[o].by = k
     /\ \A i \in 1..Len(log) : ~(log[i].type = "home.closed" /\ log[i].ref = o)}

\* An unpaired open is an unclean exit: a holder that closed without an error left the pair, and
\* a pair is left only by a holder that ran its Close.
UnpairedIsUnclean ==
  \A k \in Holder :
    /\ fate[k] = "closed" => Unpaired(k) = {} /\ \E o \in 1..Len(log) :
                               log[o].type = "home.opened" /\ log[o].by = k
    /\ fate[k] = "failed" =>
         \A i \in 1..Len(log) : ~(log[i].type = "home.closed" /\ log[i].by = k)

\* A process whose Open returned works on a log that Verify passes, until a line rots or an
\* append of its own fails: the tail is repaired and every bad line is named.
OpenVerifies ==
  \A p \in Proc :
    pc[p] = "open" /\ ~l[p].broken /\ l[p].rots = rots => Verifies(View(log, rotten), Torn)

\* Opening again and again never names a bad line twice; only a record that rotted itself is
\* written anew.
QuarantinedOnce ==
  \A i, j \in (1..Len(log)) \ rotten :
    /\ log[i].type = "log.quarantined" /\ log[j].type = "log.quarantined"
    /\ log[i].ref = log[j].ref
    => i = j

\* Torn bytes are never in neither place: they leave the log only when a copy was synced
\* (log.go:161-163).
TornMovedFirst ==
  [][Torn /\ tail' # tail /\ powers' = powers => tail \in copies]_vars

\* The process that holds the flock of the lock file at the path.
Owner == IF lockAt = 0 THEN NoProc ELSE flock[lockAt]

Promise == INSTANCE EventLog WITH events <- log, durable <- synced, owner <- Owner

\* The home implements the log the rest of the program is written against.
ImplementsEventLog == Promise!Spec

\* home.lock_taken names a holder that did not close cleanly, until power is lost: home.lock is
\* never synced, and may come back as any content it had (log.go:98-102).
TakeoverHonest ==
  powers = 0 => \A i \in 1..Len(log) : log[i].type = "home.lock_taken" =>
    fate[log[i].ref] \in {"died", "failed", "closed in error"}

\* How each holder ended can be read off the log, in the pair it left or in the takeover that
\* names it (catalogue.go:16-18, log.go:82).
EndsAreTold == ClosePairs /\ UnpairedIsUnclean /\ TakeoverHonest

\* Every call ends: a process that opens, appends or closes comes to hold an open Log or none,
\* whatever dies beside it.  (A try that the bound on takeovers stops is not a call that hangs.)
CallsReturn ==
  \A p \in Proc :
    pc[p] \notin {"out", "open"} ~>
      (pc[p] \in {"out", "open"} \/ (opens = MaxOpens /\ pc[p] = "try"))

\* A removed lock lets a second writer in, and a replaced log takes events nobody reads, but a
\* holder that lost either writes at most the one line it had already checked for.
OneStrayLine == \A k \in Holder : strays[k] <= 1

\* An Open that moved a torn tail and returned has recorded it in the place where the tail stood,
\* before anything else it appended (log.go:136, 164).
RepairIsFirst ==
  \A p \in Proc : pc[p] = "open" /\ l[p].torn # 0 =>
    \E i \in tornAt : /\ i <= Len(log)
                      /\ log[i].type = "log.repaired" /\ log[i].ref = l[p].torn
                      /\ log[i].by = l[p].inc

\* But for a power loss, whole lines are cut away only by a process that counts fewer bytes than
\* there are, and of its own lines it cuts none that ends further behind the cut than the bytes by
\* which holders without the home ever made the log longer; a holder that has the home cuts nobody's
\* line that does when it undoes a failed write (log.go:182, 248).
OwnLinesStay ==
  [][logAt' = logAt /\ powers' = powers /\ Len(log') < Len(log) =>
       \E p \in Proc :
         /\ l'[p] # l[p] \/ pc'[p] # pc[p]
         /\ \A i \in (Len(log') + 1)..Len(log) :
              log[i].by = l[p].inc \/ (Owned(p) /\ pc[p] # "cut") => log[i].end - bytes' <= astray]_vars

=============================================================================
