# A verification project for foliot

`foliot` (Go) benchmarks headless coding agents. Its only durable truth is one append-only
log per home; a benchmark sweep is a long, expensive, interruptible loop that pays for
agent runs and has nothing but that log to resume from. These TLA+ modules model the log, the
verification of the corpus, the sweep, a run's two checkouts, the stream its verdict is made
of, and the report; TLC checks them on small instances, and TLAPS proves every safety property
of theirs for every size. Paths below are relative to the repository.

## The system

| Component | State | Operations | Talks to |
|---|---|---|---|
| log writer (`src/core/log/log.go`, `catalogue.go`, `event.go`) | `log/events.jsonl`, `home.lock` and its flock, `events.torn.*`, the in-memory seq, size, `broken` | `Open` (takeLock, load, repair, quarantine, takeover, announce), `Append`, `Close` | other processes through the two files; the disk |
| log reader (`scan.go`) | none; reads the file | `scan`, `unrecorded`, `Read`, `Verify` | every component that reads the log, `foliot replay --verify` |
| log folds (`fold.go`) | none | `usable`, `Runs`, `Verified`, `Estimates`, `Fold` | sweep, report |
| sweep runner (`src/core/bench/runner.go`) | one invocation's session: plan, certified exits, probe, spent, weekly window | `Run`, `Estimate`, `Probe` | the log, corpus verify, the adapter, git, the sandbox |
| corpus verify (`verify.go`) | results per task, mirrors under their mutexes, the log files of its suites | `Verify` in two passes | git, the checks, the visible suites |
| corpus and profile (`corpus.go`, `profile.go`) | files people edit | loading and validation | everything above |
| isolation probe (`isolation.go`) | none | `complement`, `answerLines`, `judgeProbe`, `proven` | the sweep |
| launch controls (`clock.go`, `load*.go`) | none | load and clock readings | sweep, verify |
| worker checkouts (`workspace.go`, and `score`, `runCheck`, `applyChanges` of `runner.go`) | one directory per run, and an export per check | `historyFreeClone`, `assertHistoryFree`, `treeChanges`, `applyChanges` | sweep |
| harness and adapter (`harness.go`, `src/adapters/claude-code`) | none | `Launch`, `Read`, `columns`, `inScopeDenials` | sweep |
| report (`report.go`) | none; reads the log and the corpus | `Report` | log folds |
| confinement, command line, home root, test environment, scripts | none | build a command line, print, parse | |

### What is hard, and what makes each component correct

*Log writer.* Processes race for `home.lock`; any of them may be killed between two system
calls, or in the middle of a write; power may be lost with lines no fsync reached; a write,
a sync or a truncate may fail; a line may rot; someone may remove the lock or replace the
log. It is correct when the log stays gapless, an event that was acknowledged durable is
never lost, opens and closes pair as the catalogue says, what Open returns is a log Verify
passes, and torn bytes are never lost.

*Log reader.* A damaged seq, a deleted line and a reordered line look alike until the next
usable line. It is correct when it refuses exactly the logs no repair may touch, accounts
for every line of the others, and quarantining settles.

*Sweep runner.* Any step may fail or the process be killed; the next invocation has only
the log. People edit and commit the corpus and repoint arms meanwhile, costs may be
unknown, and the budget is checked only at some places. It is correct when no run is paid
for twice or left out, every run was earned by a probe and a certification, what was paid
for is on the log, the budget holds, and verdicts pair with their own runs.

*Corpus verify.* Tasks are verified at once, share mirrors and visible suites, and are
hashed after they were read; any command may fail, hang until its deadline, or be cut by an
interrupt, and for two of the three runs of a hidden check a non-zero exit is what is asked
for. Correct when a task it passes deserves it, each reading is of its task's own suite, a
suite runs alone, and the verify ends.

*Worker checkouts.* The worker does what it likes to its tree, and the tree that is scored
is rebuilt from what two walks of two trees say changed, one path at a time, over an export
that may hold links. Correct when the check runs on what the worker left and on nothing
else, and when a run that was paid for is not lost for want of a tree.

*Probe and stream.* A run's verdict rests on what a foreign program printed: any line may be
lost to a warning, the program may be cut anywhere, its account of itself may be wrong, and
it tells a refusal in up to three places. Correct when no figure on a verdict is false, no
control refuses a right one, refusals count once, and a proof of isolation means that
nothing was seen.

*Folds and report.* One pass over a log with reruns, cut runs and lost lines; a class that
was changed between the run and the report; figures that are known for some runs only.
Correct when each run is in its own rows, an unknown is no figure, and a report that rests
on no runs is refused.

The list of hazards at their lines is in `PROJECT.json`.

## The modules

| Module | Models | Reading it |
|---|---|---|
| `LogFile` | what a line of the file is worth, as statements about positions | operators only; used by the two below |
| `LogScan` | `scan`, one line per step | the branches of the loop are actions of the same order and guards |
| `EventLog` | what the package promises | `Acquire`, `Emit`, `Settle`, `Release`, `Lose` |
| `HomeLog` | `Open`, `Append`, `Close` of any number of processes over one home | one action per system call that matters |
| `BenchLog` | the folds the sweep reads | operators only |
| `Sweep` | `Run`, `Estimate` and `Probe` over one log | one action per append, launch or decision |
| `CorpusVerify` | `Verify`: pass 1's goroutines, pass 2, an interrupt | one action per step between two of which another goroutine may act |
| `Checkouts` | a run's boundary, its worker's tree and the tree its check scores | one action per change applied |
| `Stream` | a harness's stream, what is read of it, and the verdict or the proof made of that | one action per line, then one that judges |
| `Report` | the loops of `Runs` and `Fold`, and `Report` | the log grows; the readers are operators of it |
| `LogScanProofs`; `HomeLogProofs`, `HomeLogHolders`; `CorpusVerifyProofs`; `SweepProofs`; `CheckoutsProofs`; `StreamProofs`; `ReportProofs` | theorems about the module each is named after | one invariant at a time, each on the ones before it |
| `MC*` | values of the constants | |

### HomeLog and the code

`log`, `rotten`, `bytes`, `tail` are the file: its complete lines as they were written, each
with the byte it ends at, which of them no longer parse, how long the file is, and whose
unfinished bytes follow the last newline. `synced` is how
much of it an fsync reached; `logAt` and `lockAt` are which inode stands at each path
(`os.SameFile` in `owned`); `content` and `flock` are home.lock's text and its kernel lock,
for each lock file there has been. `l[p]` is the process's `Log`: `inc` stands for
`{pid, started_at}`, `held`, `onLog`, `seq`, `size`, `opened`, `broken` are the fields
of the same meaning, and `stale`, `torn`, `bad` are what `load` still has to deal with.

| Action | Code |
|---|---|
| `OpenLockFile`, `TakeLock`, `RefuseSecond`, `Stamp` | `takeLock`: open, flock and truncate, `LockedError`, `WriteAt` |
| `Load`, `CopyTorn`, `CutTorn` | `load`'s scan; `repair`'s copy, sync, directory sync; its truncate and sync |
| `CheckOwned`, `Write`, `RefuseEntry`, `FindNotOwned`, `WriteFails`, `SyncFails` | `append`: `owned`, the write and its sync, the catalogue's refusal, and the three ways it breaks the Log |
| `CallAppend`, `CallClose`, `EmptyLock`, `ReleaseLock` | `Append`, `Close` |
| `OpenFails`, `Crash`, `PowerLoss`, `Rot`, `RemoveLock`, `ReplaceLog` | error paths of `Open`; the environment |

Every append, Open's own included, goes through the same check, write and failure actions;
`Due` says which entry is owed at each step, and `AfterAppend` where Open goes on. The
check of `owned` and the write are two actions, because another process may act between.
The mutex of `Log` serialises callers of one process, so a process is in one call at a
time. Sizes are bytes, as in the code: `Lengths` gives the lengths a line of each type may have,
a partial write stops after any number of them (`Part`), and `Cut` is `Truncate`, which in a home
that others touch may end in the middle of a line, which is then torn, or lengthen the file, whose
filled bytes are a torn tail too. Two pairs of
system calls are one step each: the flock with the read and emptying of home.lock, and the cut of a
torn tail with its sync. `astray`, which only `OwnLinesStay` looks at, counts the bytes by which
processes that no longer had the home made the log longer.

### Sweep and the code

`events` is the benchmark's part of the log, numbered by position; HomeLog gives its
gaplessness and that one invocation at a time appends. A run's model, sha, exits and probe
are fields of its event. `content[t]` is a version number for a task's record and hidden
check and is also its `task_sha`: equal versions are equal hashes. `dirty` and `sha` are
`corpusVersion`. An estimate's mean is kept as total and count, so no division is needed.
`s.paid` is the truth of what workers cost and `s.spent` what the code believes; a worker
may cost `Overshoot` more than its cap, the turn its harness had begun (runner.go:473), and
`s.unread` counts the workers whose cost no reading told, which the code charges at their caps.
Verification of tasks is one action, taken on a corpus that is clean at the sha first read.
A process that is killed and a step that fails are the same action, `Stop`: the code has no
recovery of its own, only the deferred `Close`.

### CorpusVerify and the code

A goroutine is a position of `ids`, as a result is. `at` and `phase` say where in `verifyTask` it
is; `refused` is `Result.Refusals` as a set of reasons; `loaded`, `copied` and `hash` are the
versions of the task it read at the start, copied into its checkout and hashed at the end. `wrong`
is what the code is there to find out: the tree, if any, in which a version of a hidden check does
not exit as it must. `Exit` names what `checkout.run` returns: the check's own exit, 124 for a
deadline or an interrupt, 125 for a shell that could not be started, and notRun. `spoilt` keeps the
trees in which a check met its deadline or got no shell, since at base and on the additions the code
takes those exits for the failure it asks for. `whole` says whether a checkout is still there when
its check ends, which only a second goroutine on the same task can change. `suite` and `reading` are
pass 2. After `Interrupt` every command that starts fails, and one that runs may be killed: `Works`
and `Fails` say so at each step.

| Action | Code |
|---|---|
| `Start` | the semaphore, `LoadTask`, `checkFiles` |
| `LockMirror`, `CloneMirror`, `FetchMirror` | `ensureMirror`, `historyRefusals`, `addedPaths` |
| `EmptyWork`, `Checkout`, `Check`, `Hash` | the directory, a phase up to its check, the check and its verdict, `taskSHA` |
| `StartSuites`, `PrepareSuite`, `FirstRun`, `Rerun` | `wg.Wait`, `verifyVisible`, `runVisible` |

A mirror is known by its URL; the code knows it by the last part of that, so that two repositories
of one name would share a mirror. A check that exits 0 at landed without a count of examined tests
is the same as one that exits non-zero there, since both refuse. Why a record, a history or a step
refuses is left out, and so are the class counts and the summary's problems, which only add
refusals. A mirror that lacks the commits is a step that fails.

### Checkouts, Stream, Report and the code

`Sweep` takes each of these in one step, by its outcome; here they are opened up.

`Checkouts`. A tree maps paths to what stands there; a directory is a prefix of a path, since
git exports no empty one. `home` and `denied` are what the disk holds at launch, with the user's
home, which may hold the run or stand elsewhere, and `ToolDeny`.
`Seen`, `Written` and `Deleted` are what the two walks of `treeChanges` mark and list, `todo`
the changes still to apply. `Real` and `Final` follow links as `os.WriteFile` and
`os.ReadFile` do; a link leads to no link. What setup and the worker do is one external
action, `Work`. `Apply` is one turn of `applyChanges`' loop, with the errors of `MkdirAll`,
`Remove` and `WriteFile` as the guards `CanWrite` and `CanRemove`; an entry that cannot be
read ends `Compare`. Modes, setup's exit in the export and `keepChanges`' own directory are
left out.

`Stream`. `r` is what `Read` keeps, `truth` what really happened, which only the properties
look at, and `garbled` the lines that were lost. `Writes` is one turn of `Read`'s loop. The
operators from `Ended` on are `readResult`, `columns`, `judgeProbe`, `proven` and the verdict
of `runOne`. Four token counts are one, since they are summed alike; the weekly window is
in `Sweep`; a line over 64 MB, which ends the run without a verdict, is not modelled. An allowed
call may fail in the words of a refusal, which the code counts as one. Only answers add to the
strings that are read, one at a time; the code takes those of every line, and those of one line in
the order of a map.

`Report`. `Record` is the body of `Runs`' loop and `BenchLog!Runs`, which `Sweep` uses, its
comment; `FoldAgrees` holds the two together. `Column`, `Refusals`, `Earliest` and
`FoldCell` are the rows, the refusals, the contamination line and `state.bench`. Sixteen
columns are three: one that is always known, a mean and a median that may not be. A run
carries the cutoff its arm had when it ran, which the profile may have changed since.
Fractions stand for floating point. The header is left out.

Left out of `Sweep`: repeated `--task` selections, `--cap-usd` (a cap is a constant per arm), several
corpora on one log, the workspace's directories.

## Runs

A name with others in brackets is the conjunction of them. Every bound is a CONSTANT named
in its cfg. All the passing runs finish in under three minutes on two workers.

| Run | Shows | Bounds, and why they are enough |
|---|---|---|
| `log_scan` | `PositionIsSeq`, `RefusesExactly`, `ReportsExactly`, `QuarantineSettles` | every log of up to 3 lines over all values of a line, seqs to 4: the shortest in which a damaged seq is confirmed across an unparseable line |
| `home_log` | `TypeOK`, `GaplessLog`, `AckedKept`, `EndsAreTold` (`ClosePairs`, `UnpairedIsUnclean`, `TakeoverHonest`), `RepairIsFirst`, refinement of `EventLog` | 2 processes, 3 takeovers, 1 caller's append, 1 power loss: one holder to die, one to repair, one to read the repair |
| `home_log_rot` | `OpenVerifies`, `QuarantinedOnce`, `TornMovedFirst`, `CallsReturn` | 3 takeovers, 1 rotten line, which may be a quarantine record itself; no symmetry, for `CallsReturn` |
| `home_log_tamper` | `OneStrayLine`, `OwnLinesStay` | 2 removals or replacements at any moment, 2 takeovers, 1 caller's append: with one of them an intruder shifts the lines of the holder, or the reverse; it takes a second for the one who was shifted to lose the home too and cut. A caller's line is 3 bytes, the log's own 2: a stray of either length puts a cut within a line of the other |
| `sweep` | `VerdictEndsItsRun`, `NotPaidTwice`, `NothingLeftUndone`, `RunsAccounted` (`TypeOK`, `RunsEarned`, `PaidRunsOnLog`), `BudgetHoldsButForTurns`, `ScoredByACertifiedCheck`, `InvocationReturns` | 2 invocations, one edit, one repoint, 2 repeats of one task, one budget the caps fit and one only an estimate does, workers that cost up to a turn more than their cap, and a list of arms that mixes adapters |
| `corpus_verify` | `TasksApart` (`TypeOK`, `MeasuredAlone`, `NoCloneCollision`), `CertifiedIsSound`, `VerifiedIsGreen`, `OwnReading`, `VerifyEnds` | 3 tasks of one repository on 2 places, one edit, one step that fails or check that hangs or gets no shell, one interrupt: the third task makes a goroutine wait, two share a suite, and the third has its commit under another clock |
| `checkouts` | `BoundaryIsTheRun`, `ScoredIsTheWorkers`, `TreesHold` (`TypeOK`, `FailsOnlyOnSwap`), `WritesStayPut` | 7 paths: a file, a file that may become a directory, a file in one, a link to a file, one to a directory, a path through it, and a dependency; 3 trees of base_sha; 5 operations, which turn each of those trees into every other; 6 disks, four with the user's home around `<root>` and two with it elsewhere, three with an unreadable directory |
| `stream` | `VerdictIsTrue` (`TypeOK`, `KnownFiguresAreTrue`, `VerdictIsTheRuns`), `RightFiguresAreKnown`, `RefusalsCountOnce`, `ProvenMeansUnseen` | 2 calls of a run, by 2 models, 3 of a probe, one lost line: a refusal told twice beside a call told once, and a probe whose clock is read before or after a leak |
| `report` | `FoldAgrees`, `RowsAddUp`, `RefusesExactly`, `ReportIsOfReadings` (`TypeOK`, `FiguresAreOfTheKnown`, `ContaminationIsTrue`) | 3 runs over 4 cells of 2 tasks, 2 arms, 2 repeats and 2 corpora, a cutoff of one arm given anew, and one mishap: a rerun with a lost line, or an even and an odd number of known values |
| `corpus_unrun`, `checkouts_vendored`, `sweep_rot` | what a comment says and the code does not do | see Findings |

`CHECK_DEADLOCK FALSE` is in every cfg because every system here may really stop: a scan
that ended, a home whose bounded takeovers are spent, a bounded number of invocations.

Symmetry is over processes, in runs with no liveness property only.

### Fairness

`HomeLog!FairSpec` is weak fairness of `Working(p)`: a process that is inside a call takes its next
step unless it dies. The code never waits inside a call, since flock is LOCK_NB. Nothing obliges a
process to make a call. `Sweep!FairSpec` is weak fairness of `Step` where the runner, one sequential
loop, waits on nothing or on a child with a deadline: the worker, setup, a check, the clock
(`workerDeadline`, `setupTimeout`, `checkTimeout`, `clockTimeout`). Its other children carry none:
git (verify.go:850), git archive and tar (verify.go:697), git ls-remote, which asks a network
(runner.go:969), and the node that is asked where it stands before anything is planned
(runner.go:149), which is behind an invocation when the model has it begin. One that hangs stalls
the invocation for good. `OnGit` says at which steps one is waited on, and `InvocationReturns` is
stated under `GitReturns`, weak fairness of those steps. `Stop`, edits and repoints are not fair:
they need not happen. `CorpusVerify!Spec` is weak fairness of each goroutine and of pass 2: the
scheduler runs every goroutine, and every command has a deadline (git and tar, which have none of
their own, are taken to end). Weak fairness is enough for the semaphore and the mutexes, since a
verify has finitely many goroutines and each takes them once.

## Proofs

`LogScanProofs` (four theorems) proves, for every log, that the loop agrees with the
positional statements of `LogFile`, by the invariant that the lines already passed are
exactly accounted for: `lastSeq + unreadable = at - 1`, the held-back lines are the last
`unreadable` ones, and events, bad lines and quarantined seqs are those of the prefix.
`HomeLog` opens logs with the statements of `LogFile`, so the theorem is what lets it
take scan in one step.

`HomeLogProofs` proves of `HomeLog!Spec`, for any number of processes, takeovers,
appends, rotten lines and power losses: `TypeOK`, `GaplessLog`, `AckedKept` and
`ImplementsEventLog`. None is inductive. `HomeInv` adds `Identity` (a process in a call
holds the lock file at the path and scanned the log at the path: nobody tampers under
`Spec`), `Elected` (flock[k] = p exactly when p is past `TakeLock` on k, so there is one
writer), `Measured` (the lines end at increasing bytes, none further out than the file, and the
last at its end when no tail is torn), and `Follows` (the writer's seq and size agree with the file
until an append of its own fails, after which it never writes). Without `Follows` a failed write could leave a
duplicate seq; without `Elected` it would have to hold for two writers at once. The
refinement maps `events <- log`, `durable <- synced`, `owner <-` the process holding the
flock of the lock file at the path; each action maps to one action of `EventLog` or to a
stutter.

`HomeLogHolders` proves `EndsAreTold` on top of `HomeInv`. `Ends` says of the writer, who is the
last holder there was, which of its two lines are on the log and synced at each place in its
code, and of every earlier holder what its fate left there; without the places, a crash could
leave a close nobody knows of. `Takeovers` says that a lock file with a text names the writer,
or a holder that ended uncleanly. Both speak of every holder at once, since a crash makes an
end of what was a writer.

It also proves `RepairIsFirst`, `TornMovedFirst`, `QuarantinedOnce` and `OpenVerifies`.
`Repair` follows a torn tail from the scan that finds it through its copy and its cut to its
record; `TornMovedFirst` is an action property that needs it at every step. `Named` says that
what a process still has to name is what a scan of the file would find unnamed now
(until a line rots or an append of its own fails), and never what a readable record names
already: alone, `QuarantinedOnce` says nothing of the records still to be written.

Its last part is about `TamperSpec`, where home.lock may be removed and the log replaced.
Nothing of `HomeInv` is left there: there may be several writers over one log.

* `OneStrayLine`, by `StrayInv`: a holder that strayed once has lost one of its two files and
  has no write ahead that it checked for; what was lost does not come back, since inodes only
  grow; and no two processes are the same holder. `Measured` is a part of it.
* `OwnLinesStay`, an action property, by `ShiftInv`: while a process owns the home the file ends
  no further behind the size it knows than `astray`, the bytes by which processes without the home
  ever made the file longer, and afterwards no line of its own does. It rests on flock, by which two
  writers never own the home at once, so that a line another adds is a stray. The bound is in bytes:
  where a caller's long line strays among the log's own short ones, a cut may take several lines for
  one, and the line it ends in is torn. What it says of a process that lost the home is
  weaker than that it cuts nothing of its own: with two removals the lines it wrote behind a stray
  are cut as well, acknowledged ones among them. Power losses are excluded, since one may take any
  line that was not synced.

`CorpusVerifyProofs` proves, for any tasks, order, jobs, edits, faults and interrupts:

* `TasksApart`, by `Mirrors`: the mutex of a mirror is held by the goroutine that clones or
  fetches it, and a mirror being cloned is not there yet.
* `OwnReading` and `VerifiedIsGreen`, by `Readings`: a suite of a task pass 1 let through is
  still to run, or has given it a reading of its own, green unless it refused it. It rests on
  what `Firsts` keeps: the first goroutine of each key, once.
* `CertifiedIsSound`, by `Checked`: the trees a task is past are those its check was right in,
  unless it is refused, was edited or was interrupted, or, at base or on the additions, hung or got
  no shell there; and an interrupted task that pass 1 let
  through has a suite still to run, which will refuse it. The theorem assumes `AllRun` (every
  log file can be created) and `Distinct` (no task is named twice). Neither is the code's to
  promise: `corpus_unrun` is the counterexample without the first, and without the second two
  goroutines share one directory (verify.go:278).

`SweepProofs` proves of `Sweep!Spec`, in which every line is readable, for any arms, tasks,
caps, budgets, invocations, failures, edits and repoints, the six invariants of the run `sweep`.
All rest on `Types`, the type of the session in each place of the code.

* `VerdictEndsItsRun`, by `Pairs` (the run a verdict names is the last of its cell before it)
  and `RunOf` (while its worker may run, the log ends with its bench.run). `sweep_rot` shows
  what an unreadable line does to it.
* `BudgetHoldsButForTurns`, by `Money`: what was charged covers what was paid but for a turn of each
  worker whose cost was never read, and a run that starts fits in the budget with its cap, which it
  may exceed by a turn.
* `RunsAccounted` and `ScoredByACertifiedCheck`, by `ProbeOf`, `Loads`, `Certs` and `Earned`: a
  task of the session is certified on the log in the version the sweep has read, except where it
  has yet to verify or to record it, and that version lies between the one loaded and the one on
  disk. The bounds on the version are what `ScoredByACertifiedCheck` is made of.
* `NotPaidTwice`, by `Once` (each run left is left once), `ArmsOf` and `Spared` (none of them
  carries a verdict): a verdict that is appended ends the head of the runs left, so `Spared`
  needs `Once`. The theorem assumes `NoTaskTwice`: selectTasks (runner.go:160) does not refuse a
  `--tasks` list that names a task twice, and the second copy of a run is then paid for too.
* `NothingLeftUndone`, by `Covered`: a cell of the plan is left to run, or ended in a verdict.

`CheckoutsProofs` proves, for any trees, homes, links and walk order, the three invariants and
the action property of the run `checkouts`.

* `BoundaryIsTheRun`, of `<root>` and of the user's home where that holds the run: what is beside
  the run's path parts from it at some name, and the entry at that name stands in a directory that
  was read, or below the first that could not be, which is denied whole. It needs no invariant but
  that what is denied was read from the home at launch.
* `TreesHold`, by `Trees`: each tree is well formed and has its links at their own places, and
  no link of the worker's is carried over. `WriteClears` shows that what `MkdirAll` and
  `WriteFile` let through is written neither above nor below a file, though a link may be followed
  on the way. That a scoring fails only on a swap rests on `Applied`.
* `ScoredIsTheWorkers`, by `Applied`: at each path stands what base_sha has or what its change
  makes of it, and the latter once the change is behind. Where nothing changed places, no
  path that changes has anything above it or below it in any of the trees (`Apart`), so that no
  change fails or meets a link, in whatever order they are applied.
* `WritesStayPut`, from `Trees` alone: a path means another only under a link, and the links of
  the scored tree are those of base_sha.

The theorems assume that a link leads to no link and to nothing that holds one, that git's trees
hold nothing but files and links, and that a directory stands in the home wherever something
stands below it.

`StreamProofs` proves, for any number of calls, models, durations and lost lines, the four
invariants of the run `stream`. `Kinds` says once what each kind of line does to each field of
`truth` and of `r`; the invariants then speak of one field each.

* `Bill` says that what the models are billed for adds up to what was paid, a sum over
  whichever models have worked so far. `ResultIs` draws from it that of the results a harness
  may give only one with the true bill passes the sum control. That is what `VerdictIsTrue`
  takes of a cost, and `RightFiguresAreKnown` turns it round.
* `Reading` ties each of the reader's variables to what happened and to which lines were lost;
  `RefusalsCountOnce` is a count over it, since the refusals read in the answers and those read
  in the result are one set.
* `Shown` says that what a call printed is among the strings read or its answer was lost, and
  that a line of the check is of a version no newer than the one on disk. `ProvenMeansUnseen`
  follows where the check was not edited, since then there is one version to look for.

`ReportProofs` proves, for any cells, arms, classes, readings, dates and lost lines, the four
invariants of the run `report`. Inductive is only `LogOK`: a verdict stands right behind a run,
and each has its type. The readers are operators of the log, so the proofs are about what
those compute.

* `FoldAgrees`: `BodyKeeps` says that a turn of the loop takes the records of the first n - 1
  events, as the comment of `Runs` has them, to those of the first n, whichever of the events are
  lost; `RecordsAre` makes of that the records of the whole log.
* `RowsAddUp` and `RefusesExactly` follow from it by sets: what is a row, and what is a column
  without a run, are statements about the runs of the log.
* `ReportIsOfReadings` is arithmetic over sets of runs. `InOrderIs` says that `InOrder` lists
  them by their values, each once; `MedianIsMiddle` that half of them lie on either side of
  what `Median` takes, for an even and an odd number; `SumBounds` that a sum lies between its
  number times the least and times the greatest; `SpreadIs` that a spread is between two values
  that are known. Fractions are compared by their products, so a division never comes in.

`SumOf` is a recursive function whose order of terms a CHOOSE picks: `AnyTurn` and `SumOfOneMore`
prove that the order does not matter. The theorems assume that the injected credential's billing
is none of the words `Billing` uses for another (`BillingAssumption`), and that the time a run was
watched is not negative.

Under the others the proofs assume only the named assumptions of the modules: `NoProc \notin
Proc`, bounds that are naturals, `Logs \subseteq Seq(Line)`, what corpus and profile loading
guarantee. That no arm is listed twice, in `ArmsAssumption`, is what `ParseArms` refuses
(profile.go:106).

The library's induction theorems take an operator, which the provers cannot instantiate. What a
loop does to a sequence (`Keep`, `Firsts`, the nested loops of `Plan`) is proved all the same,
since these are recursive functions or functions: a set of naturals that is not empty has
a least element (`Least`, from the well-foundedness of <), so a claim about the first n members
has no least counterexample.

`LogScan`'s type invariant is proved as a part of the loop's invariant and has no place in a
run of its own.

Every invariant and every action property of a passing run is stated by a theorem. Model-checked
only is the liveness: `CallsReturn`, `VerifyEnds` and `InvocationReturns` rest on fairness, and so
on ENABLED, which is out of the prover's reach.

## Findings

* `corpus_unrun` (verify.go:335). A landed check whose log file cannot be created did not run
  and is not refused; the same exit at base or on the additions is excused as well.
* `checkouts_vendored` (workspace.go:118). The walk of the worker's tree skips every
  `node_modules`, the walk of the export none: a file base_sha tracks there is deleted from
  the tree that is scored, though nobody touched it.
* `sweep_rot` (fold.go:220). A verdict whose bench.run line rotted is folded into an
  earlier run of the cell; the `cause` it carries would have told.

Read in the code, with no run of their own:

* log.go: an Open that fails after it stamped home.lock leaves the content that log.go:82
  takes for a death; log.repaired is not "the first event appended after a torn tail"
  (log.go:136) when the process dies between the cut and the append; with home.lock removed,
  a failing write cuts at an end that a stray line has moved (log.go:248), and so may take an
  acknowledged line of the process's own, whether it still owns the home or not.
* runner.go: a refused launch leaves its bench.run, though catalogue.go:50 says it carries no
  run record; the probe is launched with a cap the budget was never asked to hold
  (runner.go:458, 473); setup's failure in the export is scored as a failing reading
  (runner.go:888); a file and a directory that changed places, or an entry nobody can read,
  leave a paid run without a verdict and end the sweep (runner.go:832, 951); where base_sha
  has a link to a directory and the worker a directory, writes go through the link, though
  runner.go:954 removes a link at the path itself; every changed file is written without its
  execute bit (runner.go:955).
* verify.go: a check that hangs (124) or that gets no shell (125) at base or on the additions counts
  as the failure asked for there (verify.go:331, 346), and what it is worth is certified unseen; a
  task edited between its copies and its hash is certified with a hash of
  content that did not run (verify.go:352), which `CertifiedIsSound` excludes by name; a task
  named twice is verified by two goroutines in one directory (verify.go:278), so that a check
  which loses its checkout fails, which at base is what is asked.
* isolation.go, stream.go: ToolDeny has the siblings of the run in the user's home only where that
  holds the run, so that with FOLIOT_HOME outside it the file tools are denied nothing of it, though
  the comments (isolation.go:22, 27) have the real home denied; an error in the words of a refusal
  (stream.go:123) counts as one; the probe looks for the check as it is on disk when the worker has
  ended; `proven` asks for no line of the answer to look for, nor for the model that ran; a
  lost init line makes a green run that claimed success a false claim, since its model is
  unread; tokens have no total to be held against, so a model missing from the account makes
  them too few, though the cost is then unknown.
* fold.go, report.go: `Fold` counts the runs of every corpus together; the earliest date of an
  arm is wrong once an unread one came between (report.go:187); arms are listed in the order
  of their last runs after a rerun, not "the order each arm first ran" (report.go:96).

## Not modelled

Corpus loading and profile parsing (validation of one file at a time, with no state: the
models take what loads), confinement and the adapter's command line (each builds one command
for a platform's sandbox), the command line, the home root, the test environment, and the
scripts.

## What is left

A model of the corpus's records and of the profile would make their validation, which the other
modules assume, something that is checked; it keeps no state, and has no interleaving that a
test could not reach. A task that is named twice (verify.go:278) has a variable in `CorpusVerify`
and no property, since the code has no guard that one could hold to. The liveness properties
would be proved by a prover that knows ENABLED.
