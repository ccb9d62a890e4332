---------------------------- MODULE CorpusVerify ----------------------------
(***************************************************************************)
(* foliot bench corpus verify: src/core/bench/verify.go.                   *)
(*                                                                         *)
(* Pass 1 gives every task a goroutine, and a semaphore lets Jobs of them  *)
(* work at once.  A task reads its record, makes sure of its mirror under  *)
(* the mirror's mutex, runs its hidden check in three fresh checkouts and  *)
(* hashes its content.  Pass 2 waits for all of them, and then runs the    *)
(* distinct visible suites of the tasks left, one at a time, and gives     *)
(* each reading to every task that holds its key.                          *)
(*                                                                         *)
(* A goroutine is a position of Ids, as a result is: two positions may     *)
(* name one task, and then share its directory under bench/verify.         *)
(* Beside them, people edit a task, steps fail, and the user may           *)
(* interrupt the program, after which every command it starts fails.       *)
(* A mirror is named by its repository; the code names it by the last      *)
(* element of the URL, so that two repositories of one name would share    *)
(* one: corpora with such a pair are not modelled.                         *)
(***************************************************************************)
EXTENDS Integers, FiniteSets, SequencesExt

CONSTANTS
  Task,
  Ids,            \* the tasks to verify, in corpus order or as --task names them
  RecordOf,       \* what the record of each task pins
  Jobs,           \* --jobs
  Checks,         \* what the hidden checks may be worth, see wrong
  MaxEdits,       \* bound: edits of a task's record or hidden check
  MaxFaults,      \* bound: steps that fail
  MaxUnrun        \* bound: log files of a check that cannot be created

\* The three trees a hidden check runs in, in that order.
Phases == <<"base", "landed", "additions">>

ASSUME IdsAssumption == Ids \in Seq(Task) /\ Ids # << >> /\ Jobs \in Nat \ {0}
ASSUME RecordAssumption ==
  \A t \in Task : RecordOf[t].base # RecordOf[t].landed /\ RecordOf[t].adds \in BOOLEAN
ASSUME ChecksAssumption ==
  /\ {MaxEdits, MaxFaults, MaxUnrun} \subseteq Nat
  /\ Checks \subseteq [Task -> [0..MaxEdits -> {"nowhere"} \cup ToSet(Phases)]]

VARIABLES
  content,    \* the version of each task's record and hidden check on disk
  wrong,      \* the tree in which each version of a check does not exit as it must
  mirror,     \* the repositories that are mirrored
  lock,       \* the goroutine that holds the mutex of each mirror, 0 when none
  at,         \* where each goroutine is
  phase,      \* which tree it is at
  loaded,     \* the version it loaded
  copied,     \* the version of the check in its checkout
  whole,      \* whether nobody else took that checkout away
  clockless,  \* whether its clock control refused
  spoilt,     \* the trees in which its check hung or could not run to its end
  refused,    \* why it refused its task
  hash,       \* the version it hashed, -1 when it did not
  suite,      \* pass 2: where it is, and the first holders of the keys still to run
  reading,    \* the visible reading of each result at base and at landed
  cancelled,  \* whether the context was cancelled
  edits, faults, unrun

diskVars == <<content, wrong, mirror, edits>>
taskVars == <<at, phase, loaded, copied, whole, clockless, spoilt, hash>>
suiteVars == <<suite, reading>>
vars == <<diskVars, lock, taskVars, refused, suiteVars, cancelled, faults, unrun>>

Goroutine == 1..Len(Ids)
Rec(i) == RecordOf[Ids[i]]
Repos == {RecordOf[t].repo : t \in Task}
Unread == [run |-> << >>, outcome |-> "-"]

Init ==
  /\ content = [t \in Task |-> 0] /\ wrong \in Checks
  /\ mirror = {} /\ lock = [r \in Repos |-> 0]
  /\ at = [i \in Goroutine |-> "queued"] /\ phase = [i \in Goroutine |-> 1]
  /\ loaded = [i \in Goroutine |-> 0] /\ copied = [i \in Goroutine |-> 0]
  /\ whole = [i \in Goroutine |-> FALSE] /\ clockless = [i \in Goroutine |-> FALSE]
  /\ spoilt = [i \in Goroutine |-> {}]
  /\ refused = [i \in Goroutine |-> {}] /\ hash = [i \in Goroutine |-> -1]
  /\ suite = [at |-> "wait", todo |-> << >>]
  /\ reading = [i \in Goroutine |-> [p \in {"base", "landed"} |-> Unread]]
  /\ cancelled = FALSE
  /\ edits = 0 /\ faults = 0 /\ unrun = 0

-----------------------------------------------------------------------------
(* Helpers *)

\* The tasks that hold a place of the semaphore.
Working == {i \in Goroutine : at[i] \notin {"queued", "done"}}

Goto(i, step) == at' = [at EXCEPT ![i] = step]

Refuse(i, why) == refused' = [refused EXCEPT ![i] = @ \cup {why}]

\* A step fails: because it does, or because it starts a command after the interrupt.
Fails ==
  \/ cancelled /\ UNCHANGED faults
  \/ faults < MaxFaults /\ faults' = faults + 1

\* A step that starts a command does not fail.
Works == ~cancelled /\ UNCHANGED faults

\* Whether a version of a task's check exits 0 in a tree.  (At landed, a check that prints no
\* examined=<n> above 0 last is as good as one that does not exit 0.)
Passes(t, v, p) == (p = "landed") # (wrong[t][v] = p)

\* What run returns for a check: 0, an exit of its own that is not 0, 124 when it was killed, by
\* its deadline ("hung") or by the interrupt ("killed"), and 125 when it could not be started or
\* died by itself ("broken").  "-" is notRun.
Exit == {"-", "0", "nonzero", "hung", "killed", "broken"}

\* Mutant: the run on the additions alone is not judged.
Refuses_NoAdditions(p, exit) ==
  \/ p = "base" /\ exit = "0"
  \/ p = "landed" /\ exit \notin {"0", "-"}

\* What a check's exit in a tree refuses.
Refuses(p, exit) ==
  \/ p \in {"base", "additions"} /\ exit = "0"
  \/ p = "landed" /\ exit \notin {"0", "-"}

\* The phases of a task; a landed change that adds no file has no third one.
Trees(i) == IF Rec(i).adds THEN 3 ELSE 2

\* On to the next tree, or to the hash after the last one.
NextPhase(i) ==
  IF phase[i] < Trees(i)
  THEN phase' = [phase EXCEPT ![i] = @ + 1] /\ Goto(i, "tree")
  ELSE phase' = phase /\ Goto(i, "hash")

\* The checkout of a phase is removed, and with it that of a twin: another goroutine on the
\* same task that is running its check in the same tree.
Without(i) ==
  [j \in Goroutine |->
     whole[j] /\ ~(j # i /\ Ids[j] = Ids[i] /\ at[j] = "check" /\ phase[j] = phase[i])]

\* What a task's record says of its visible run at base or at landed.
VisibleRun(i, p) ==
  <<Rec(i).repo, IF p = "base" THEN Rec(i).base ELSE Rec(i).landed, Rec(i).suite, Rec(i).clock>>

\* Mutant: the same commit under another clock is the same run.
VisibleKey_NoClock(i, p) == SubSeq(VisibleRun(i, p), 1, 3)

\* visibleKey: what makes two visible runs the same run.
VisibleKey(i, p) == VisibleRun(i, p)

\* Base and landed of every task, in corpus order.
Holder ==
  [n \in 1..2 * Len(Ids) |->
     [i |-> (n + 1) \div 2, p |-> IF n % 2 = 1 THEN "base" ELSE "landed"]]

KeyOf(h) == VisibleKey(h.i, h.p)

\* The first holder of each distinct key of the tasks pass 1 let through, in that order.
Firsts ==
  LET holds(n) == hash[Holder[n].i] # -1
      first(n) == holds(n) /\ \A m \in 1..n - 1 : holds(m) => KeyOf(Holder[m]) # KeyOf(Holder[n])
      upTo[n \in 0..2 * Len(Ids)] ==
        IF n = 0 THEN << >>
        ELSE IF first(n) THEN Append(upTo[n - 1], n) ELSE upTo[n - 1]
  IN upTo[2 * Len(Ids)]

-----------------------------------------------------------------------------
(* Pass 1 *)

\* A place of the semaphore; then LoadTask and checkFiles read the task.
Start(i) ==
  /\ at[i] = "queued"
  /\ Cardinality(Working) < Jobs
  /\ loaded' = [loaded EXCEPT ![i] = content[Ids[i]]]
  /\ \/ Goto(i, "mirror") /\ UNCHANGED <<refused, faults>>
     \/ /\ faults < MaxFaults /\ faults' = faults + 1
        /\ Refuse(i, "record")
        /\ Goto(i, "mirror") \/ Goto(i, "done")   \* a record that does not parse ends it here
  /\ UNCHANGED <<diskVars, lock, phase, copied, whole, clockless, spoilt, hash, suiteVars, cancelled,
                 unrun>>

\* ensureMirror: the mirror's mutex, then whether the mirror is there.
LockMirror(i) ==
  /\ at[i] = "mirror"
  /\ lock[Rec(i).repo] = 0
  /\ lock' = [lock EXCEPT ![Rec(i).repo] = i]
  /\ Goto(i, IF Rec(i).repo \in mirror THEN "fetch" ELSE "clone")
  /\ UNCHANGED <<diskVars, phase, loaded, copied, whole, clockless, spoilt, refused, hash, suiteVars,
                 cancelled, faults, unrun>>

\* Mutant: an early return keeps the mutex.
Unlock_NotOnError(i) ==
  lock' = IF refused'[i] = {} THEN [lock EXCEPT ![Rec(i).repo] = 0] ELSE lock

Unlock(i) == lock' = [lock EXCEPT ![Rec(i).repo] = 0]

\* git clone --mirror, which refuses a directory that is there.
CloneMirror(i) ==
  /\ at[i] = "clone"
  /\ \/ /\ Works /\ Rec(i).repo \notin mirror
        /\ mirror' = mirror \cup {Rec(i).repo}
        /\ Goto(i, "fetch") /\ UNCHANGED <<lock, refused>>
     \/ /\ \/ Works /\ Rec(i).repo \in mirror /\ Refuse(i, "collision")
           \/ Fails /\ Refuse(i, "mirror")
        /\ Goto(i, "done") /\ Unlock(i) /\ UNCHANGED mirror
  /\ UNCHANGED <<content, wrong, edits, phase, loaded, copied, whole, clockless, spoilt, hash,
                 suiteVars, cancelled, unrun>>

\* The fetch that finds the commits, and what the history says of the task; nothing more is
\* done for a task that is refused by now.
FetchMirror(i) ==
  /\ at[i] = "fetch"
  /\ \/ /\ Works /\ UNCHANGED refused
        /\ Goto(i, IF refused[i] = {} THEN "work" ELSE "done")
     \/ Fails /\ Refuse(i, "mirror") /\ Goto(i, "done")
  /\ Unlock(i)
  /\ UNCHANGED <<diskVars, phase, loaded, copied, whole, clockless, spoilt, hash, suiteVars,
                 cancelled, unrun>>

\* The task's directory is emptied and made anew.
EmptyWork(i) ==
  /\ at[i] = "work"
  /\ whole' = [j \in Goroutine |-> whole[j] /\ Ids[j] # Ids[i]]
  /\ \/ Goto(i, "tree") /\ UNCHANGED <<refused, faults>>
     \/ faults < MaxFaults /\ faults' = faults + 1 /\ Refuse(i, "work") /\ Goto(i, "done")
  /\ UNCHANGED <<diskVars, lock, phase, loaded, copied, clockless, spoilt, hash, suiteVars,
                 cancelled, unrun>>

\* A phase up to its check: the checkout, setup, the copy of the check, the clock control.  A
\* clock control that refuses leaves the phases after it unrun.
Checkout(i) ==
  /\ at[i] = "tree"
  /\ LET p == Phases[phase[i]] IN
       \/ /\ ~clockless[i] /\ Works
          /\ whole' = [whole EXCEPT ![i] = TRUE]
          /\ copied' = [copied EXCEPT ![i] = content[Ids[i]]]
          /\ Goto(i, "check")
          /\ UNCHANGED <<phase, clockless, refused>>
       \/ /\ ~clockless[i] /\ Fails
          /\ whole' \in {whole, Without(i)}
          /\ clockless' \in {clockless, [clockless EXCEPT ![i] = TRUE]}
          /\ Refuse(i, p)
          /\ NextPhase(i) /\ UNCHANGED copied
       \/ /\ clockless[i]
          /\ NextPhase(i) /\ UNCHANGED <<whole, clockless, copied, refused, faults>>
  /\ UNCHANGED <<diskVars, lock, loaded, spoilt, hash, suiteVars, cancelled, unrun>>

\* What the check may be seen to exit with when nothing fails: after the interrupt, 0 or what a
\* killed command returns; else what it is worth, or what comes of a checkout that is taken away
\* beneath it.
Exits(i, p) ==
  IF cancelled
  THEN {"killed"} \cup (IF Passes(Ids[i], copied[i], p) THEN {"0"} ELSE {})
  ELSE {IF Passes(Ids[i], copied[i], p) THEN "0" ELSE "nonzero"}
         \cup (IF whole[i] THEN {} ELSE {"nonzero", "broken"})

\* A check that meets its deadline, or that no shell can be started for; and one whose log file
\* cannot be created, which leaves it unrun.
Spoils(exit) ==
  \/ /\ exit \in {"hung", "broken"} /\ ~cancelled
     /\ faults < MaxFaults /\ faults' = faults + 1 /\ UNCHANGED unrun
  \/ exit = "-" /\ unrun < MaxUnrun /\ unrun' = unrun + 1 /\ UNCHANGED faults

\* The check ends, is judged, and its checkout is removed.
Check(i) ==
  /\ at[i] = "check"
  /\ LET p == Phases[phase[i]] IN
       \E exit \in Exit :
         /\ Spoils(exit) \/ (exit \in Exits(i, p) /\ UNCHANGED <<faults, unrun>>)
         /\ spoilt' = [spoilt EXCEPT ![i] = IF exit \in {"hung", "broken"} THEN @ \cup {p} ELSE @]
         /\ refused' = [refused EXCEPT ![i] = IF Refuses(p, exit) THEN @ \cup {p} ELSE @]
  /\ whole' = [Without(i) EXCEPT ![i] = FALSE]
  /\ NextPhase(i)
  /\ UNCHANGED <<diskVars, lock, loaded, copied, clockless, hash, suiteVars, cancelled>>

\* taskSHA of a task that is not refused.
Hash(i) ==
  /\ at[i] = "hash"
  /\ Goto(i, "done")
  /\ \/ /\ refused[i] = {}
        /\ hash' = [hash EXCEPT ![i] = content[Ids[i]]] /\ UNCHANGED <<refused, faults>>
     \/ refused[i] = {} /\ faults < MaxFaults /\ faults' = faults + 1
        /\ Refuse(i, "hash") /\ UNCHANGED hash
     \/ refused[i] # {} /\ UNCHANGED <<hash, refused, faults>>
  /\ UNCHANGED <<diskVars, lock, phase, loaded, copied, whole, clockless, spoilt, suiteVars, cancelled,
                 unrun>>

-----------------------------------------------------------------------------
(* Pass 2 *)

\* On to the next key, or to the end after the last one.
Suites(todo) == [at |-> IF todo = << >> THEN "ended" ELSE "clone", todo |-> todo]

\* Mutant: a goroutine counts only once it started.
StartSuites_OfStarted ==
  /\ suite.at = "wait"
  /\ \A i \in Goroutine : at[i] \in {"queued", "done"}
  /\ suite' = Suites(Firsts)
  /\ UNCHANGED <<diskVars, lock, taskVars, refused, reading, cancelled, faults, unrun>>

\* wg.Wait.
StartSuites ==
  /\ suite.at = "wait"
  /\ \A i \in Goroutine : at[i] = "done"
  /\ suite' = Suites(Firsts)
  /\ UNCHANGED <<diskVars, lock, taskVars, refused, reading, cancelled, faults, unrun>>

\* What the first run of the key at hand read goes to every holder; the failure, "" when there
\* is none, refuses all of them.
Give(outcome, failure) ==
  LET first == Holder[Head(suite.todo)]
      holds(i, p) == hash[i] # -1 /\ VisibleKey(i, p) = KeyOf(first)
  IN
  /\ reading' = [i \in Goroutine |-> [p \in {"base", "landed"} |->
       IF holds(i, p)
       THEN [run |-> VisibleRun(first.i, first.p), outcome |-> outcome]
       ELSE reading[i][p]]]
  /\ refused' = [i \in Goroutine |->
       IF failure # "" /\ \E p \in {"base", "landed"} : holds(i, p)
       THEN refused[i] \cup {"visible"} ELSE refused[i]]
  /\ suite' = Suites(Tail(suite.todo))

\* The clone, setup and clock control of a run or of a rerun.
PrepareSuite ==
  /\ suite.at \in {"clone", "reclone"}
  /\ \/ /\ Works
        /\ suite' = [suite EXCEPT !.at = IF @ = "clone" THEN "first" ELSE "rerun"]
        /\ UNCHANGED <<reading, refused>>
     \/ Fails /\ Give(IF suite.at = "clone" THEN "failed" ELSE "red", "failed")
  /\ UNCHANGED <<diskVars, lock, taskVars, cancelled, unrun>>

\* What is made of the first run's outcome: a red is run again.
Verdict(outcome) ==
  IF outcome = "red"
  THEN suite' = [suite EXCEPT !.at = "reclone"] /\ UNCHANGED <<reading, refused>>
  ELSE Give(outcome, IF outcome = "green" THEN "" ELSE outcome)

\* The suite's own verdict is among the steps that may fail.
FirstRun ==
  /\ suite.at = "first"
  /\ \/ Verdict("green") /\ UNCHANGED faults
     \/ Fails /\ \E outcome \in {"zero", "killed", "red"} :
          (cancelled => outcome # "red") /\ Verdict(outcome)
  /\ UNCHANGED <<diskVars, lock, taskVars, cancelled, unrun>>

\* Mutant: a green second run excuses the first.
Named_Excused(green) == IF green THEN "" ELSE "red"

\* The second run names the refusal and excuses nothing.
Named(green) == IF green THEN "flaky" ELSE "red"

Rerun ==
  /\ suite.at = "rerun"
  /\ \E green \in BOOLEAN : Give("red", Named(green))
  /\ UNCHANGED <<diskVars, lock, taskVars, cancelled, faults, unrun>>

-----------------------------------------------------------------------------
(* Beside the program *)

\* Someone edits a task that pass 1 is not done with; pass 2 reads nothing of it.
Edit(t) ==
  /\ edits < MaxEdits
  /\ \E i \in Goroutine : Ids[i] = t /\ at[i] # "done"
  /\ edits' = edits + 1
  /\ content' = [content EXCEPT ![t] = @ + 1]
  /\ UNCHANGED <<wrong, mirror, lock, taskVars, refused, suiteVars, cancelled, faults, unrun>>

\* SIGINT or SIGTERM cancels the context every command is started under.
Interrupt ==
  /\ ~cancelled /\ suite.at # "ended"
  /\ cancelled' = TRUE
  /\ UNCHANGED <<diskVars, lock, taskVars, refused, suiteVars, faults, unrun>>

-----------------------------------------------------------------------------

VerifyTask(i) ==
  \/ Start(i) \/ LockMirror(i) \/ CloneMirror(i) \/ FetchMirror(i) \/ EmptyWork(i)
  \/ Checkout(i) \/ Check(i) \/ Hash(i)

VerifyVisible == StartSuites \/ PrepareSuite \/ FirstRun \/ Rerun

Next ==
  \/ \E i \in Goroutine : VerifyTask(i)
  \/ VerifyVisible
  \/ \E t \in Task : Edit(t)
  \/ Interrupt

\* Every goroutine is scheduled, and every command it waits for ends: the checks, the setups and
\* the suites meet their deadlines, and that its git and tar children, which have none
\* (verify.go:697-698, 850), return is assumed.
Spec ==
  /\ Init /\ [][Next]_vars
  /\ \A i \in Goroutine : WF_vars(VerifyTask(i))
  /\ WF_vars(VerifyVisible)

-----------------------------------------------------------------------------
(* Properties *)

Ended == suite.at = "ended"

\* printResult's verdict=ok.
Ok(i) == Ended /\ refused[i] = {}

Visible == {"-", "green", "zero", "killed", "failed", "red"}

TypeOK ==
  /\ content \in [Task -> 0..MaxEdits] /\ mirror \subseteq Repos
  /\ lock \in [Repos -> {0} \cup Goroutine]
  /\ at \in [Goroutine -> {"queued", "mirror", "clone", "fetch", "work", "tree", "check",
                           "hash", "done"}]
  /\ \A i \in Goroutine : phase[i] \in 1..Trees(i)
  /\ {loaded, copied} \subseteq [Goroutine -> 0..MaxEdits]
  /\ {whole, clockless} \subseteq [Goroutine -> BOOLEAN]
  /\ spoilt \in [Goroutine -> SUBSET ToSet(Phases)]
  /\ hash \in [Goroutine -> -1..MaxEdits]
  /\ refused \in [Goroutine -> SUBSET ({"record", "collision", "mirror", "work", "hash", "visible"}
                                         \cup ToSet(Phases))]
  /\ suite.at \in {"wait", "clone", "first", "reclone", "rerun", "ended"}
  /\ suite.todo \in Seq(DOMAIN Holder)
  /\ suite.todo = << >> <=> suite.at \in {"wait", "ended"}
  /\ \A i \in Goroutine, p \in {"base", "landed"} : reading[i][p].outcome \in Visible
  /\ cancelled \in BOOLEAN
  /\ edits \in 0..MaxEdits /\ faults \in 0..MaxFaults /\ unrun \in 0..MaxUnrun

\* A visible suite runs alone: a suite is at work only when every hidden phase has ended
\* (verify.go:167), and before that no more than --jobs tasks are.
MeasuredAlone ==
  /\ suite.at # "wait" => \A i \in Goroutine : at[i] = "done"
  /\ Cardinality(Working) <= Jobs

\* No task is refused because another was cloning the mirror both use (verify.go:650).
NoCloneCollision == \A i \in Goroutine : "collision" \notin refused[i]

\* No task is disturbed by the others that are verified at once.
TasksApart == TypeOK /\ MeasuredAlone /\ NoCloneCollision

\* A task whose verdict is ok has a hidden check that passes at landed, and that fails at base and
\* on the additions or was not seen to pass there because it hung or could not run: any exit but 0
\* is taken for the failure asked for (verify.go:331, 346; the six criteria, main.go:52).  An
\* interrupt excuses nothing.  The version meant is the one hashed; nothing is said of a task that
\* was edited between its load and its hash.
CertifiedIsSound ==
  \A i \in Goroutine : Ok(i) /\ loaded[i] = hash[i] =>
    \A n \in 1..Trees(i) :
      \/ Passes(Ids[i], hash[i], Phases[n]) <=> Phases[n] = "landed"
      \/ Phases[n] # "landed" /\ Phases[n] \in spoilt[i]

\* A task whose verdict is ok has both visible suites green over some tests, in a first run
\* (verify.go:485): a second run excuses nothing.
VerifiedIsGreen ==
  \A i \in Goroutine : Ok(i) =>
    \A p \in {"base", "landed"} : reading[i][p].outcome = "green"

\* A reading a task is given is of its own commit, suite and clock, though another task's run
\* made it (verify.go:393), and every task pass 1 let through is given both.
OwnReading ==
  \A i \in Goroutine, p \in {"base", "landed"} :
    /\ reading[i][p] # Unread => reading[i][p].run = VisibleRun(i, p)
    /\ Ended /\ hash[i] # -1 => reading[i][p] # Unread

\* Verify ends: no goroutine waits for ever for the semaphore or for a mirror, whatever fails.
VerifyEnds == <>Ended

=============================================================================
