------------------------------- MODULE Sweep -------------------------------
(***************************************************************************)
(* foliot bench run, estimate and probe: src/core/bench/runner.go.         *)
(*                                                                         *)
(* One invocation at a time holds the home (HomeLog.tla) and appends to    *)
(* its log.  It plans the cross product of arms, tasks and repeats, drops  *)
(* what already carries a verdict, refuses a plan the budget cannot hold,  *)
(* certifies its tasks, proves isolation with one paid probe, and then     *)
(* launches one paid worker per run, recording bench.run before it and     *)
(* bench.verdict after it.  Any step may fail or be killed, and the next   *)
(* invocation has only the log to go on.  Beside it, people edit and       *)
(* commit the corpus, and point an arm at another model.                   *)
(*                                                                         *)
(* Money is counted in whole units, and the content of a task (its record  *)
(* and its hidden check) is a version number, which is also its task_sha.  *)
(***************************************************************************)
EXTENDS BenchLog, FiniteSets, SequencesExt

CONSTANTS
  Arm, Task, Model,
  TaskSeq,          \* the corpus's tasks, in order
  ArmLists,         \* what --arms may name
  Repeats,          \* --repeats
  ArmRepeats,       \* an arm's own repeats, 0 when it has none
  CapOf,            \* the cap of one run of an arm, which its harness enforces
  Overshoot,        \* what a harness may spend beyond a cap: its last turn
  FirstModel,       \* the model the profile gives each arm at first
  AdapterOf,        \* the harness an arm runs on
  Budgets,          \* what --budget-usd may be
  EstimateTasks,    \* how many tasks an estimate runs
  MaxInvocations,   \* bound: invocations
  MaxEdits,         \* bound: edits of the corpus
  MaxRepoints,      \* bound: changes of an arm's model
  MaxRot            \* bound: events that stop being readable

ASSUME CorpusAssumption == TaskSeq \in Seq(Task) /\ TaskSeq # << >>
ASSUME ArmsAssumption ==
  /\ ArmLists \subseteq Seq(Arm) /\ << >> \notin ArmLists
  /\ \A arms \in ArmLists : IsInjective(arms)   \* ParseArms refuses an arm listed twice
  /\ FirstModel \in [Arm -> Model]
  /\ CapOf \in [Arm -> Nat \ {0}] /\ ArmRepeats \in [Arm -> Nat] /\ Repeats \in Nat \ {0}
ASSUME BudgetsAssumption ==
  Budgets \subseteq Nat \ {0} /\ EstimateTasks \in Nat \ {0} /\ Overshoot \in Nat
ASSUME BoundsAssumption == {MaxInvocations, MaxEdits, MaxRepoints, MaxRot} \subseteq Nat

VARIABLES
  events,    \* the benchmark's events on the log
  lost,      \* the positions no reader can read
  sha,       \* HEAD of the corpus repository
  dirty,     \* whether the corpus has changes that sha does not hold
  content,   \* the version of each task on disk
  model,     \* the model the profile gives each arm
  pc,        \* where the invocation is, "idle" when there is none
  s,         \* its session and options
  calls,     \* how many invocations there have been
  edits, repoints

envVars == <<lost, sha, dirty, content, model, edits, repoints>>
vars == <<events, envVars, pc, s, calls>>

Cell == [arm : Arm, task : Task, repeat : Nat]

\* A session before its invocation.  paid is what its workers cost in truth, bill what the last
\* one did, and unread how many of their costs no reading told: the code has none of the three.
NoSession ==
  [mode |-> "none", resume |-> FALSE, budget |-> 0, arms |-> << >>, models |-> << >>,
   plan |-> {}, runs |-> << >>, tasks |-> << >>, loaded |-> << >>,
   planSha |-> 0, planClean |-> FALSE, sha |-> 0, need |-> << >>, exits |-> << >>,
   probe |-> 0, run |-> 0, spent |-> 0, paid |-> 0, bill |-> 0, unread |-> 0, known |-> FALSE,
   full |-> FALSE,
   total |-> << >>, measured |-> << >>]

Init ==
  /\ events = << >> /\ lost = {}
  /\ sha = 1 /\ dirty = FALSE
  /\ content = [t \in Task |-> 0]
  /\ model = FirstModel
  /\ pc = "idle" /\ s = NoSession
  /\ calls = 0 /\ edits = 0 /\ repoints = 0

-----------------------------------------------------------------------------
(* Helpers *)

RepeatsOf(arm, repeats) == IF ArmRepeats[arm] > 0 THEN ArmRepeats[arm] ELSE repeats

\* plan: every arm on every task, each as often as the arm is repeated, in that order.
Plan(arms, tasks, repeats) ==
  FlattenSeq([a \in 1..Len(arms) |->
    FlattenSeq([t \in 1..Len(tasks) |->
      [r \in 1..RepeatsOf(arms[a], repeats) |->
        [arm |-> arms[a], task |-> tasks[t], repeat |-> r]]])])

\* What a loop keeps of a sequence: the members that are in S, in order.
Keep(seq, S) ==
  LET kept[n \in 0..Len(seq)] ==
        IF n = 0 THEN << >>
        ELSE IF seq[n] \in S THEN Append(kept[n - 1], seq[n]) ELSE kept[n - 1]
  IN kept[Len(seq)]

\* How many of the runs are an arm's.
Left(runs, arm) == Len(Keep(runs, {c \in ToSet(runs) : c.arm = arm}))

SumOverArms(arms, f(_)) == FoldSeq(LAMBDA a, sum : sum + f(a), 0, arms)

Caps(runs, arms) == SumOverArms(arms, LAMBDA a : CapOf[a] * Left(runs, a))

\* The estimates that have a mean for every arm with runs left.
Covering(runs, arms) ==
  {i \in Usable(events, lost, "estimate") :
     \A a \in ToSet(arms) : Left(runs, a) > 0 => a \in DOMAIN events[i].total}

\* An estimate's total is what n runs of an arm cost, so its mean times Left is this over n.
Projected(runs, arms, i) ==
  SumOverArms(arms, LAMBDA a : IF Left(runs, a) > 0 THEN events[i].total[a] * Left(runs, a) ELSE 0)

\* Whether the sweep may start: on its caps, or on what the newest covering estimate projects.
MayStart(runs, arms, budget) ==
  \/ Caps(runs, arms) <= budget
  \/ \E i \in Covering(runs, arms) :
       /\ \A j \in Covering(runs, arms) : j <= i
       /\ Projected(runs, arms, i) <= budget * events[i].n

Goto(step) == pc' = step

Record(e) == events' = Append(events, e)

\* The invocation is over; nothing of its session survives it.
End == pc' = "idle" /\ s' = NoSession

\* The run at the head of the plan.
Cur == Head(s.runs)

-----------------------------------------------------------------------------
(* Run and Estimate, up to the sweep *)

\* open loads the profile and the corpus and opens the log; then the runs are planned.
Invoke ==
  /\ pc = "idle"
  /\ calls < MaxInvocations
  /\ calls' = calls + 1
  /\ \E arms \in ArmLists, resume \in BOOLEAN, budget \in Budgets, mode \in {"run", "estimate"} :
       LET tasks == IF mode = "run" THEN TaskSeq
                    ELSE SubSeq(TaskSeq, 1, IF EstimateTasks < Len(TaskSeq) THEN EstimateTasks
                                            ELSE Len(TaskSeq))
           runs == Plan(arms, tasks, IF mode = "run" THEN Repeats ELSE 1)
       IN
       /\ mode = "estimate" => ~resume
       /\ s' = [NoSession EXCEPT
                  !.mode = mode, !.resume = resume, !.arms = arms, !.models = model,
                  !.budget = IF mode = "run" THEN budget ELSE 0,
                  !.plan = ToSet(runs), !.runs = runs, !.tasks = tasks, !.loaded = content,
                  !.total = [a \in ToSet(arms) |-> 0], !.measured = [a \in ToSet(arms) |-> 0]]
       /\ Goto(IF mode = "estimate" THEN "sweep" ELSE IF resume THEN "resume" ELSE "projection")
  /\ UNCHANGED <<events, envVars>>

\* foliot bench probe: one probe of the arm named first, on one task, and nothing after it.
InvokeProbe ==
  /\ pc = "idle"
  /\ calls < MaxInvocations
  /\ calls' = calls + 1
  /\ \E arms \in ArmLists, t \in ToSet(TaskSeq) :
       s' = [NoSession EXCEPT !.mode = "probe", !.arms = arms, !.models = model,
                              !.runs = <<[arm |-> Head(arms), task |-> t, repeat |-> 1]>>]
  /\ Goto("probe")
  /\ UNCHANGED <<events, envVars>>

\* A bug of the next: no verdict is found.
DoneCells_None == {}

\* Another: a verdict counts whatever model it was for.
DoneCells_AnyModel ==
  IF dirty THEN {}
  ELSE {events[i].cell : i \in {j \in Ended(events, lost) : events[j].sha = sha}}

\* The cells that carry a verdict for this sha and for the model their arm has now.
DoneCells ==
  IF dirty THEN {}
  ELSE {events[i].cell :
          i \in {j \in Ended(events, lost) :
                   /\ events[j].sha = sha
                   /\ \E a \in ToSet(s.arms) : /\ events[j].cell.arm = a
                                               /\ events[j].model = s.models[a]}}

\* resume drops the runs that are done, and the tasks left with none.
Resume ==
  /\ pc = "resume"
  /\ LET runs == Keep(s.runs, ToSet(s.runs) \ DoneCells) IN
       s' = [s EXCEPT
               !.runs = runs, !.planSha = sha, !.planClean = ~dirty,
               !.tasks = Keep(@, {c.task : c \in ToSet(runs)})]
  /\ Goto("projection")
  /\ UNCHANGED <<events, envVars, calls>>

Projection ==
  /\ pc = "projection"
  /\ MayStart(s.runs, s.arms, s.budget)
  /\ s.runs # << >>
  /\ Goto("sweep")
  /\ UNCHANGED <<events, envVars, s, calls>>

\* The budget cannot hold the plan, or no run is left of it.
NothingStarts ==
  /\ pc = "projection"
  /\ s.runs = << >> \/ ~MayStart(s.runs, s.arms, s.budget)
  /\ End
  /\ UNCHANGED <<events, envVars, calls>>

-----------------------------------------------------------------------------
(* sweep: certify, control, probe *)

OneAdapter == \A c \in ToSet(s.runs) : AdapterOf[c.arm] = AdapterOf[Cur.arm]

\* The probe would prove one adapter and every run claim it.
RefuseAdapters ==
  /\ pc = "sweep"
  /\ ~OneAdapter
  /\ End
  /\ UNCHANGED <<events, envVars, calls>>

\* verify: the sha the runs will carry is read, and the tasks a bench.verified record still
\* certifies are reused; one whose clock moved since it was loaded is verified again.
ReuseVerified ==
  /\ pc = "sweep"
  /\ OneAdapter
  /\ \E moved \in SUBSET {t \in ToSet(s.tasks) : s.loaded[t] # content[t]} :
       LET reused(t) == ~dirty /\ IsVerified(events, lost, t, content[t]) /\ t \notin moved
           need == Keep(s.tasks, {t \in ToSet(s.tasks) : ~reused(t)}) IN
       /\ s' = [s EXCEPT !.sha = sha, !.need = need,
                         !.exits = [t \in {u \in ToSet(s.tasks) : reused(u)} |-> content[t]]]
       /\ Goto(IF need = << >> THEN "control" ELSE "verify")
  /\ UNCHANGED <<events, envVars, calls>>

\* Verify passes every task on the corpus as it is now, which must still be the one read.
\* Its results wait for Certify.
VerifyTasks ==
  /\ pc = "verify"
  /\ ~dirty /\ sha = s.sha
  /\ s' = [s EXCEPT !.exits = [t \in DOMAIN s.exits \cup ToSet(s.need) |->
                                 IF t \in ToSet(s.need) THEN content[t] ELSE s.exits[t]]]
  /\ Goto("certify")
  /\ UNCHANGED <<events, envVars, calls>>

RefuseCorpus ==
  /\ pc = "verify"
  /\ dirty \/ sha # s.sha
  /\ End
  /\ UNCHANGED <<events, envVars, calls>>

\* One bench.verified for each task verified.
Certify ==
  /\ pc = "certify"
  /\ Record([type |-> "verified", task |-> Head(s.need), content |-> s.exits[Head(s.need)]])
  /\ s' = [s EXCEPT !.need = Tail(@)]
  /\ Goto(IF Tail(s.need) = << >> THEN "control" ELSE "certify")
  /\ UNCHANGED <<envVars, calls>>

\* The hidden check passes at landed_sha for every task, before anything is paid for.
Control ==
  /\ pc = "control"
  /\ Goto("probe")
  /\ UNCHANGED <<events, envVars, s, calls>>

\* A worker of the arm ran: what it cost, its cap and one turn at most, is paid, whether or not
\* its reading says so, and the reading of the weekly window, when it has one, is kept.
Worked(arm) ==
  \E cost \in 1..(CapOf[arm] + Overshoot), known \in BOOLEAN, full \in BOOLEAN :
    s' = [s EXCEPT !.paid = @ + cost, !.bill = cost, !.known = known, !.full = full]

\* What a reading adds to spent: its cost, or the cap when it has none.
Charge(cap) == IF s.known THEN s.bill ELSE cap

Unread == IF s.known THEN s.unread ELSE s.unread + 1

\* The probe's worker, unless admit refuses it.
LaunchProbe ==
  /\ pc = "probe"
  /\ Worked(Cur.arm)
  /\ Goto("probed")
  /\ UNCHANGED <<events, envVars, calls>>

\* bench.probe is recorded; the sweep goes on only when it proves isolation.  A probe asked
\* for without isolation proves nothing, like any other that fails.
RecordProbe ==
  /\ pc = "probed"
  /\ \E proven \in BOOLEAN :
       /\ Record([type |-> "probe", proven |-> proven, call |-> calls])
       /\ IF proven /\ s.mode # "probe"
          THEN /\ s' = [s EXCEPT !.probe = Len(events) + 1, !.spent = Charge(CapOf[Cur.arm]),
                                 !.unread = Unread, !.bill = 0, !.known = FALSE]
               /\ Goto("next")
          ELSE End
  /\ UNCHANGED <<envVars, calls>>

-----------------------------------------------------------------------------
(* sweep: the runs *)

\* A bug of the next: a run starts while anything is left of the budget.
Fits_Anything == s.budget > 0 => s.spent < s.budget

\* The next run's cap fits in what is left; an estimate has no budget.
Fits == s.budget > 0 => s.spent + CapOf[Cur.arm] <= s.budget

\* A bug of the next: a weekly window that is used up is waited for.
StopEarly_Waits ==
  /\ pc = "next"
  /\ s.runs # << >>
  /\ ~s.full /\ ~Fits
  /\ End
  /\ UNCHANGED <<events, envVars, calls>>

\* No further run starts: the weekly window is used up, or the budget.
StopEarly ==
  /\ pc = "next"
  /\ s.runs # << >>
  /\ s.full \/ ~Fits
  /\ End
  /\ UNCHANGED <<events, envVars, calls>>

\* A run gets its workspace, with a checkout of the task.
Prepare ==
  /\ pc = "next"
  /\ s.runs # << >>
  /\ ~s.full /\ Fits
  /\ Goto("prepared")
  /\ UNCHANGED <<events, envVars, s, calls>>

\* bench.run's data.
RunEvent(free) ==
  [type |-> "run", cell |-> Cur, model |-> s.models[Cur.arm], sha |-> s.sha,
   exits |-> s.exits[Cur.task], probe |-> s.probe, free |-> free, call |-> calls]

\* bench.run is appended before any worker; a checkout with history gets no worker.
RecordRun ==
  /\ pc = "prepared"
  /\ \E free \in BOOLEAN :
       /\ Record(RunEvent(free))
       /\ IF free THEN s' = [s EXCEPT !.run = Len(events) + 1] /\ Goto("recorded") ELSE End
  /\ UNCHANGED <<envVars, calls>>

Launch ==
  /\ pc = "recorded"
  /\ Worked(Cur.arm)
  /\ Goto("ran")
  /\ UNCHANGED <<events, envVars, calls>>

\* admit: the load or the clock control refuses a launch, the probe's too, and records it.
RefuseLaunch ==
  /\ pc \in {"probe", "recorded"}
  /\ Record([type |-> "refused", of |-> pc, cell |-> Cur, call |-> calls])
  /\ End
  /\ UNCHANGED <<envVars, calls>>

\* The hidden check has scored the worker's changes: bench.verdict, and the run is charged.
Score ==
  /\ pc = "ran"
  /\ Record([type |-> "verdict", cell |-> Cur, cause |-> s.run])
  /\ s' = [s EXCEPT
             !.runs = Tail(@), !.spent = @ + Charge(CapOf[Cur.arm]),
             !.unread = Unread, !.bill = 0, !.known = FALSE,
             !.total[Cur.arm] = IF s.known THEN @ + s.bill ELSE @,
             !.measured[Cur.arm] = IF s.known THEN @ + 1 ELSE @]
  /\ Goto("next")
  /\ UNCHANGED <<envVars, calls>>

\* Every run of the plan has its verdict.
FinishRun ==
  /\ pc = "next"
  /\ s.runs = << >> /\ s.mode = "run"
  /\ End
  /\ UNCHANGED <<events, envVars, calls>>

\* bench.estimate is recorded when every run of every arm had a known cost.
FinishEstimate ==
  /\ pc = "next"
  /\ s.runs = << >> /\ s.mode = "estimate"
  /\ IF \A a \in ToSet(s.arms) : s.measured[a] = Len(s.tasks)
     THEN Record([type |-> "estimate", total |-> s.total, n |-> Len(s.tasks)])
     ELSE UNCHANGED events
  /\ End
  /\ UNCHANGED <<envVars, calls>>

\* Any step fails, or the process is killed: the log stays as it is.
Stop ==
  /\ pc # "idle"
  /\ End
  /\ UNCHANGED <<events, envVars, calls>>

-----------------------------------------------------------------------------
(* Beside the invocation *)

Edit(t) ==
  /\ edits < MaxEdits
  /\ edits' = edits + 1
  /\ content' = [content EXCEPT ![t] = edits + 1]
  /\ dirty' = TRUE
  /\ UNCHANGED <<events, lost, sha, model, pc, s, calls, repoints>>

Commit ==
  /\ dirty
  /\ dirty' = FALSE
  /\ sha' = sha + 1
  /\ UNCHANGED <<events, lost, content, model, pc, s, calls, edits, repoints>>

Repoint(a, m) ==
  /\ repoints < MaxRepoints
  /\ m # model[a]
  /\ repoints' = repoints + 1
  /\ model' = [model EXCEPT ![a] = m]
  /\ UNCHANGED <<events, lost, sha, dirty, content, pc, s, calls, edits>>

\* A line of the log stops being readable; every reader passes it by from then on.
Rot(i) ==
  /\ Cardinality(lost) < MaxRot
  /\ i \notin lost
  /\ lost' = lost \cup {i}
  /\ UNCHANGED <<events, sha, dirty, content, model, pc, s, calls, edits, repoints>>

-----------------------------------------------------------------------------

Step ==
  \/ Resume \/ Projection \/ NothingStarts \/ RefuseAdapters \/ ReuseVerified \/ VerifyTasks
  \/ RefuseCorpus \/ Certify \/ Control \/ LaunchProbe \/ RecordProbe \/ StopEarly \/ Prepare
  \/ RecordRun \/ Launch \/ RefuseLaunch \/ Score \/ FinishRun \/ FinishEstimate

Environment ==
  \/ \E t \in Task : Edit(t)
  \/ Commit
  \/ \E a \in Arm, m \in Model : Repoint(a, m)

Next == Invoke \/ InvokeProbe \/ Step \/ Stop \/ Environment

Spec == Init /\ [][Next]_vars

\* On a disk that does not keep every line.
RotSpec == Init /\ [][Next \/ \E i \in 1..Len(events) : Rot(i)]_vars

\* Where the step waits for a child that carries no deadline: git, a git archive and its tar, or
\* git ls-remote, which asks a network (runner.go:969, verify.go:697-698, 850).  The worker, the
\* setup, the checks and the clock's reading carry one.
OnGit == pc \in {"resume", "sweep", "verify", "control", "probe", "next", "prepared", "ran"}

\* An invocation goes on, but for what it waits on with no deadline.
FairSpec == Spec /\ WF_vars(Step /\ ~OnGit)

\* What the code relies on and nothing in it bounds: its git children end.
GitReturns == WF_vars(Step /\ OnGit)

-----------------------------------------------------------------------------
(* Properties *)

TypeOK ==
  /\ \A i \in 1..Len(events) :
       events[i].type \in {"run", "verdict", "verified", "probe", "refused", "estimate"}
  /\ lost \subseteq 1..Len(events)
  /\ sha \in 1..(MaxEdits + 1) /\ dirty \in BOOLEAN
  /\ content \in [Task -> 0..MaxEdits] /\ model \in [Arm -> Model]
  /\ pc \in {"idle", "resume", "projection", "sweep", "verify", "certify", "control", "probe",
             "probed", "next", "prepared", "recorded", "ran"}
  /\ s.runs \in Seq(Cell) /\ s.plan \subseteq Cell /\ s.tasks \in Seq(Task)
  /\ s.probe \in 0..Len(events) /\ s.run \in 0..Len(events)
  /\ DOMAIN s.exits \subseteq Task /\ {s.spent, s.paid, s.bill, s.unread} \subseteq Nat
  /\ calls \in 0..MaxInvocations /\ edits \in 0..MaxEdits /\ repoints \in 0..MaxRepoints

\* The fold gives a run the verdict that ended it: a verdict pairs with its run by cell, and the
\* pair is the one its cause names (RunRecord, fold.go:148).
VerdictEndsItsRun ==
  \A r \in Runs(events, lost) : r.verdict # 0 => events[r.verdict].cause = r.run

\* An invocation that resumes never pays again for a run that carries a verdict for this sha and
\* model, however the earlier invocations ended (runner.go:266-268).
NotPaidTwice ==
  pc = "prepared" /\ s.resume /\ s.planClean /\ s.planSha = s.sha =>
    \A i \in Ended(events, lost) :
      ~(/\ events[i].cell = Cur /\ events[i].sha = s.sha
        /\ events[i].model = s.models[Cur.arm])

\* An invocation that comes to the end of its plan leaves no cell of it without a verdict of the
\* arm's model: what resume dropped, the log holds.
NothingLeftUndone ==
  pc \in {"projection", "next"} /\ s.runs = << >> =>
    \A c \in s.plan : \E i \in Ended(events, lost) :
      /\ events[i].cell = c /\ events[i].model = s.models[c.arm]
      /\ events[i].sha \in {s.planSha, s.sha}

\* Every run on the log was earned in its own invocation by a probe that proved isolation, and
\* its exit codes by a certification of its task (catalogue.go:44-45, runner.go:175-176).
RunsEarned ==
  \A i \in Usable(events, lost, "run") :
    /\ events[i].probe \in 1..(i - 1)
    /\ events[events[i].probe].type = "probe"
    /\ events[events[i].probe].proven /\ events[events[i].probe].call = events[i].call
    /\ \E v \in 1..(i - 1) : /\ events[v].type = "verified"
                             /\ events[v].task = events[i].cell.task
                             /\ events[v].content = events[i].exits

\* A run whose worker was paid is on the log, current and without a verdict, so that a runner
\* killed there leaves it to be found (catalogue.go:28-29).
PaidRunsOnLog ==
  pc = "ran" =>
    /\ s.run \in Current(events, lost) /\ VerdictsOf(events, lost, s.run) = {}
    /\ events[s.run].cell = Cur /\ events[s.run].call = calls

\* What is paid for is accounted for, before it is paid and while it runs.
RunsAccounted == TypeOK /\ RunsEarned /\ PaidRunsOnLog

\* Once a run starts, what is paid stays within the budget but for the overshoot of one last turn,
\* and of one more turn for each worker whose cost no reading told, which is charged at its cap:
\* beyond that only the probe may cost more (runner.go:473-474, 489).
BudgetHoldsButForTurns ==
  s.budget > 0 /\ s.run # 0 => s.paid <= s.budget + Overshoot * (s.unread + 1)

\* An invocation returns, if the git children it waits on with no deadline do.
InvocationReturns == GitReturns => (pc # "idle" ~> pc = "idle")

\* The hidden check that scores a run, which is the one on disk by then, was certified: unless it
\* was edited since this invocation loaded the corpus, a bench.verified on the log names its
\* content, whatever was edited and reused in earlier ones (runner.go:192-210, 892).
ScoredByACertifiedCheck ==
  pc = "ran" /\ content[Cur.task] = s.loaded[Cur.task] =>
    \E v \in 1..Len(events) : /\ events[v].type = "verified" /\ events[v].task = Cur.task
                              /\ events[v].content = content[Cur.task]

=============================================================================
