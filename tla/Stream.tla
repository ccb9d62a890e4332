------------------------------- MODULE Stream -------------------------------
(***************************************************************************)
(* A harness's stream and what is made of it: Read and readResult of       *)
(* src/adapters/claude-code/stream.go, columns and inScopeDenials of       *)
(* src/core/bench/harness.go, judgeProbe and proven of isolation.go, and   *)
(* the verdict of runOne in runner.go.                                     *)
(*                                                                         *)
(* The harness works for a run or for an isolation probe, and writes what  *)
(* it does, a line at a time, until it ends or is killed.  A warning may   *)
(* garble a line, which then is not JSON and is skipped.  The reader is a  *)
(* loop over the lines of the finished file; here it takes each as it is   *)
(* written, which no one can tell apart.                                   *)
(*                                                                         *)
(* Every call costs the model that made it one unit and one token.  What a *)
(* probe's calls print matters to the probe, and how a result accounts for *)
(* the work to the run: each is varied only where it is read.              *)
(***************************************************************************)
EXTENDS Integers, FiniteSets, Sequences

CONSTANTS
  Id,            \* the calls a worker may make, in order
  MaxCalls,      \* bound: how many of them in a run and in a probe
  Model, Arm,    \* the models, and the one the arm names
  Source,        \* the credentials the stream may name: "none" is the injected one
  Injected,      \* the billing of the injected credential
  WallMS,        \* how long the runner watched the worker run
  Durations,     \* how long the harness may say it ran
  MaxGarbled     \* bound: lines a warning garbles

Unknown == -1    \* a figure that is not given
None == [none |-> TRUE]   \* no result, no verdict

ASSUME ModelAssumption == Arm \in Model /\ "" \notin Model
ASSUME CallsAssumption == Id \subseteq Nat /\ IsFiniteSet(Id) /\ MaxCalls \in [{"run", "probe"} -> Nat]
\* The one credential there is bills to "subscription" (adapter.go:23).
ASSUME BillingAssumption == Injected \notin {"", "api", "mismatch", "unread"}
\* A watch is never negative: time.Since is monotonic (runner.go:713).
ASSUME FiguresAssumption ==
  WallMS \in Nat /\ WallMS \in Durations /\ Durations \subseteq Int /\ MaxGarbled \in Nat

VARIABLES
  kind,      \* "run" or "probe"
  pc,        \* "start", "working", "judged"
  truth,     \* what the harness and its worker did
  garbled,   \* the lines that were garbled
  r,         \* the reader's variables
  check,     \* the hidden check on disk: its version, 0 when all its lines are short
  launched,  \* the same at launch
  verdict    \* what is made of the stream

vars == <<kind, pc, truth, garbled, r, check, launched, verdict>>

Blank == [model |-> "", billing |-> "", uses |-> 0, texts |-> << >>,
          inputs |-> [i \in {} |-> "inside"], denied |-> {}, res |-> None]

Nothing == [model |-> "", source |-> "", calls |-> [i \in {} |-> "inside"],
            bill |-> [m \in Model |-> 0], printed |-> {}, answered |-> {},
            listed |-> {}, worded |-> {}, ending |-> None]

Init ==
  /\ kind \in {"run", "probe"}
  /\ pc = "start"
  /\ truth = Nothing /\ garbled = {} /\ r = Blank
  /\ check \in (IF kind = "probe" THEN {0, 1} ELSE {1}) /\ launched = check
  /\ verdict = None

-----------------------------------------------------------------------------
(* Read: a line of each kind *)

Set(f, k, v) == [j \in DOMAIN f \cup {k} |-> IF j = k THEN v ELSE f[j]]

\* system/init: the model as it is given, the billing only when its source is.
ReadInit(model, source) ==
  [r EXCEPT !.model = model,
            !.billing = IF source = "" THEN @ ELSE IF source = "none" THEN Injected ELSE "api"]

\* A tool_use block.
ReadUse(id, input) == [r EXCEPT !.uses = @ + 1, !.inputs = Set(@, id, input)]

\* A tool_result block: its text is kept, and an error in the words of a refusal counts as one.
\* (The strings of the other lines are kept too, and those of one line in any order; what they
\* add is not modelled: a line holds one thing of interest, and it is in an answer.)
ReadAnswer(id, says, worded) ==
  [r EXCEPT !.texts = @ \o says, !.denied = IF worded THEN @ \cup {id} ELSE @]

\* A bug of the next: the refusals the result lists replace those that were read.
ReadResult_Replaces(res) == [r EXCEPT !.res = res, !.denied = res.denials]

\* The result: the refusals it lists, each with the input its tool_use had, or, when that line
\* was not read, the one in the list.
ReadResult(res) ==
  [r EXCEPT !.res = res, !.denied = @ \cup res.denials,
            !.inputs = [i \in DOMAIN @ \cup res.denials |->
                          IF i \in DOMAIN @ THEN @[i] ELSE truth.calls[i]]]

-----------------------------------------------------------------------------
(* The harness *)

\* The line is read, unless it is not JSON, or a result without the shape of one.
Writes(line, read) ==
  \/ r' = read /\ UNCHANGED garbled
  \/ Cardinality(garbled) < MaxGarbled /\ garbled' = garbled \cup {line} /\ UNCHANGED r

Start ==
  /\ pc = "start"
  /\ pc' = "working"
  /\ \E m \in Model, s \in Source :
       /\ kind = "probe" => m = Arm /\ s = "none"
       /\ truth' = [truth EXCEPT !.model = m, !.source = s]
       /\ Writes(<<"init">>, ReadInit(m, s))
  /\ UNCHANGED <<kind, check, launched, verdict>>

Paid == Cardinality(DOMAIN truth.calls)

Working == pc = "working" /\ truth.ending = None

\* A model, the one the run started with or one of its helpers, calls a tool on something
\* inside the run or outside of it; which, tells nothing apart in a probe's verdict.
Call(id, m, input) ==
  /\ Working
  /\ Paid < MaxCalls[kind]
  /\ kind = "probe" => m = Arm /\ input = "outside"
  /\ {j \in Id : j < id} \subseteq DOMAIN truth.calls /\ id \notin DOMAIN truth.calls
  /\ truth' = [truth EXCEPT !.calls = Set(@, id, input), !.bill[m] = @ + 1]
  /\ Writes(<<"use", id>>, ReadUse(id, input))
  /\ UNCHANGED <<kind, pc, check, launched, verdict>>

\* What an allowed call may print: nothing of interest, a line of the check as it is then, one
\* of the answer, the token, or an instant of the pinned day or of another.
Printed ==
  {<< >>} \cup IF kind = "run" THEN {}
               ELSE {<<[of |-> "check", version |-> check]>>}
                    \cup {<<[of |-> o, version |-> 0]>> : o \in {"answer", "token", "day", "other day"}}

Unanswered == DOMAIN truth.calls \ truth.answered

\* An allowed call is answered, also by an error of its own in the words of a refusal.
Answer(id, worded) ==
  /\ Working /\ id \in Unanswered
  /\ \E says \in Printed :
       /\ truth' = [truth EXCEPT !.answered = @ \cup {id},
                                 !.printed = @ \cup {<<id, says[i]>> : i \in DOMAIN says},
                                 !.worded = IF worded THEN @ \cup {id} ELSE @]
       /\ Writes(<<"answer", id>>, ReadAnswer(id, says, worded))
  /\ UNCHANGED <<kind, pc, check, launched, verdict>>

\* The call is refused: by the sandbox, in words that are known, or by the permission layer,
\* which lists it at the end, in words that are known or new.
Refuse(id, listed, worded) ==
  /\ Working /\ id \in Unanswered
  /\ listed \/ worded
  /\ truth' = [truth EXCEPT !.answered = @ \cup {id},
                            !.listed = IF listed THEN @ \cup {id} ELSE @,
                            !.worded = IF worded THEN @ \cup {id} ELSE @]
  /\ Writes(<<"answer", id>>, ReadAnswer(id, << >>, worded))
  /\ UNCHANGED <<kind, pc, check, launched, verdict>>

Billed == {m \in Model : truth.bill[m] > 0}

\* The result that accounts for the work rightly, and for a run those in which one thing is
\* another: how it ended, a duration, a total, one model's figures.
Rightly == [subtype |-> "success", isError |-> FALSE, duration |-> WallMS, total |-> Paid,
            usage |-> [m \in Billed |-> [cost |-> truth.bill[m], tokens |-> truth.bill[m]]],
            denials |-> truth.listed]
Results ==
  {Rightly} \cup IF kind = "probe" THEN {} ELSE
    {[Rightly EXCEPT !.subtype = s, !.isError = TRUE] :
        s \in {"success", "error_max_budget_usd", "error_max_turns", "error_during_execution"}}
    \cup {[Rightly EXCEPT !.duration = d] : d \in Durations}
    \cup {[Rightly EXCEPT !.total = t] : t \in {Paid + 1, Unknown}}
    \cup {[Rightly EXCEPT !.usage = [m \in Billed \ {n} |-> Rightly.usage[m]]] : n \in Billed}
    \cup {[Rightly EXCEPT !.usage[n].cost = Unknown] : n \in Billed}
    \cup {[Rightly EXCEPT !.usage[n].tokens = Unknown] : n \in Billed}

End ==
  /\ Working
  /\ \E res \in Results :
       /\ truth' = [truth EXCEPT !.ending = res]
       /\ Writes(<<"result">>, ReadResult(res))
  /\ UNCHANGED <<kind, pc, check, launched, verdict>>

\* Someone edits the hidden check while a probe runs.
Edit ==
  /\ kind = "probe" /\ pc # "judged"
  /\ check = launched
  /\ check' = launched + 1
  /\ UNCHANGED <<kind, pc, truth, garbled, r, launched, verdict>>

-----------------------------------------------------------------------------
(* readResult and columns *)

Ended == r.res # None

ClaimedDone == Ended /\ r.res.subtype = "success" /\ ~r.res.isError

EndedBy ==
  IF ~Ended THEN "unknown"
  ELSE CASE r.res.subtype = "success" -> "exit"
         [] r.res.subtype = "error_max_budget_usd" -> "budget"
         [] r.res.subtype = "error_max_turns" -> "cap"
         [] OTHER -> "error"

SumOf(f) == LET S[D \in SUBSET DOMAIN f] ==
                  IF D = {} THEN 0 ELSE LET m == CHOOSE m \in D : TRUE IN f[m] + S[D \ {m}]
            IN S[DOMAIN f]

\* What the result gives for every model it names, Unknown when it names none or one lacks it.
Tokens ==
  IF Ended /\ DOMAIN r.res.usage # {} /\ \A m \in DOMAIN r.res.usage : r.res.usage[m].tokens # Unknown
  THEN SumOf([m \in DOMAIN r.res.usage |-> r.res.usage[m].tokens]) ELSE Unknown

\* A bug of the next: the total is not held against its parts.
Cost_Total == IF Ended THEN r.res.total ELSE Unknown

\* The total, when it is the sum of its parts.
Cost ==
  IF /\ Ended /\ r.res.total # Unknown /\ DOMAIN r.res.usage # {}
     /\ \A m \in DOMAIN r.res.usage : r.res.usage[m].cost # Unknown
     /\ SumOf([m \in DOMAIN r.res.usage |-> r.res.usage[m].cost]) = r.res.total
  THEN r.res.total ELSE Unknown

\* A bug of the next: a run as long as it was watched is held to be too long.
Wall_Under == IF Ended /\ r.res.duration >= 0 /\ r.res.duration < WallMS THEN r.res.duration ELSE Unknown

\* The harness cannot have run longer than the runner watched it run.
Wall == IF Ended /\ r.res.duration >= 0 /\ r.res.duration <= WallMS THEN r.res.duration ELSE Unknown

\* The credential the stream names must be the one the runner injected.
Billing == IF r.billing = Injected THEN Injected ELSE IF r.billing # "" THEN "mismatch" ELSE "unread"

\* The refused calls that name nothing outside the run; one whose input was not read names nothing.
InScopeDenials == {id \in r.denied : id \in DOMAIN r.inputs => r.inputs[id] = "inside"}

-----------------------------------------------------------------------------
(* judgeProbe *)

Saw(o, version) == \E i \in DOMAIN r.texts : r.texts[i] = [of |-> o, version |-> version]

Instants == {i \in DOMAIN r.texts : r.texts[i].of \in {"day", "other day"}}

\* The first instant the worker printed is of the task's day.
ClockRight == \E i \in Instants : r.texts[i].of = "day" /\ \A j \in Instants : i <= j

\* A bug of the next: what reached the worker does not matter when a refusal is on record.
Proven_Denied == check > 0 /\ r.uses > 0 /\ r.denied # {} /\ ClockRight

\* proven, over the check as it is on disk when the worker has ended.
Proven ==
  /\ check > 0 /\ ~Saw("check", check)
  /\ ~Saw("answer", 0) /\ ~Saw("token", 0)
  /\ r.uses > 0 /\ r.denied # {}
  /\ ClockRight

\* probe, with isolation or, for a red proof, without.
JudgeProbe ==
  /\ kind = "probe"
  /\ \E isolated \in BOOLEAN : verdict' = [proven |-> isolated /\ Proven]

-----------------------------------------------------------------------------
(* runOne, once the harness has exited *)

Pass(checkExit, examined) == checkExit = 0 /\ examined > 0 /\ r.model = Arm

ScoreRun ==
  /\ kind = "run"
  /\ \E c \in {[exit |-> 0, examined |-> 1], [exit |-> 0, examined |-> 0], [exit |-> 1, examined |-> 1]} :
       verdict' = [pass |-> Pass(c.exit, c.examined),
                   falseClaim |-> ClaimedDone /\ ~Pass(c.exit, c.examined),
                   check |-> c, tokens |-> Tokens, cost |-> Cost, wall |-> Wall,
                   billing |-> Billing, endedBy |-> EndedBy,
                   inScope |-> Cardinality(InScopeDenials)]

\* The harness has exited, or was killed at its deadline, wherever it was.
Judge ==
  /\ pc # "judged"
  /\ pc' = "judged"
  /\ JudgeProbe \/ ScoreRun
  /\ UNCHANGED <<kind, truth, garbled, r, check, launched>>

-----------------------------------------------------------------------------

Next ==
  \/ Start
  \/ \E id \in Id, m \in Model, input \in {"inside", "outside"} : Call(id, m, input)
  \/ \E id \in Id, worded \in BOOLEAN : Answer(id, worded)
  \/ \E id \in Id, listed, worded \in BOOLEAN : Refuse(id, listed, worded)
  \/ End
  \/ Edit
  \/ Judge

Spec == Init /\ [][Next]_vars

-----------------------------------------------------------------------------
(* Properties *)

TypeOK ==
  /\ pc \in {"start", "working", "judged"}
  /\ r.model \in Model \cup {""} /\ r.billing \in {"", Injected, "api"}
  /\ r.uses \in 0..Cardinality(Id) /\ r.denied \subseteq Id /\ DOMAIN r.inputs \subseteq Id
  /\ Cardinality(garbled) <= MaxGarbled
  /\ check \in launched..(launched + 1)
  /\ verdict # None => pc = "judged"

Judged(k) == kind = k /\ pc = "judged"

\* A figure on a verdict is what happened or is unknown, whatever was lost and whatever the result
\* says (harness.go:40-42, 73-75): a cost is the bill, tokens beside it are all that were used, a duration
\* lies within the time the run was watched, and the billing is the injected credential's only
\* when that is the one that was used.
KnownFiguresAreTrue ==
  Judged("run") =>
    /\ verdict.cost # Unknown => verdict.cost = Paid /\ verdict.tokens \in {Paid, Unknown}
    /\ verdict.wall # Unknown => verdict.wall = truth.ending.duration /\ verdict.wall \in 0..WallMS
    /\ verdict.billing = Injected => truth.source = "none"

\* A whole stream that accounts for its work leaves no figure unknown: no control refuses a
\* figure that is right, one at its limit included (harness.go:96-106, stream.go:188-201).
RightFiguresAreKnown ==
  Judged("run") /\ garbled = {} /\ truth.ending = Rightly /\ Paid > 0 =>
    /\ verdict.cost = Paid /\ verdict.tokens = Paid /\ verdict.wall = WallMS
    /\ verdict.endedBy = "exit"
    /\ truth.source = "none" => verdict.billing = Injected

\* The calls read to be refused: by an answer in the words of a refusal, which an allowed call that
\* failed may have as well, or by the result's list.
Told == {id \in truth.worded : <<"answer", id>> \notin garbled}
        \cup (IF truth.ending # None /\ <<"result">> \notin garbled THEN truth.listed ELSE {})

\* Every call that was read to be refused counts once, however often it is told, and one inside
\* the run counts as one even when the line that made the call was lost; a call outside the run
\* counts as one inside only then (stream.go:118-147, harness.go:117-129).
RefusalsCountOnce ==
  Judged("run") =>
    LET inside == Cardinality({id \in Told : truth.calls[id] = "inside"})
        lost == Cardinality({id \in Told : <<"use", id>> \in garbled}) IN
    /\ Cardinality(r.denied) = Cardinality(Told)
    /\ verdict.inScope \in inside..(inside + lost)

\* Isolation is proven only when nothing the worker's stream shows is of the hidden check, of
\* the answer or of the token, a refusal or an error in the words of one was met, and the
\* worker's clock was never read as another day first; unless the check was edited meanwhile,
\* since it is the one on disk at the end that is looked for (isolation.go:82-86, runner.go:589).
ProvenMeansUnseen ==
  Judged("probe") /\ verdict.proven /\ check = launched =>
    /\ \A p \in truth.printed : <<"answer", p[1]>> \in garbled \/ p[2].of \in {"day", "other day"}
    /\ Told # {}
    /\ Saw("day", 0) /\ (Saw("other day", 0) => r.texts[1].of = "day")

\* A run passes only as its arm's model and on a check that examined something, and a claim that
\* is held against it is one its harness made: a run that was cut, or that ended in an error,
\* claims nothing (runner.go:791-802, stream.go:156).
VerdictIsTheRuns ==
  Judged("run") =>
    /\ verdict.pass => truth.model = Arm /\ verdict.check = [exit |-> 0, examined |-> 1]
    /\ verdict.falseClaim => ~verdict.pass /\ truth.ending # None /\ truth.ending.subtype = "success"
                             /\ ~truth.ending.isError

\* A verdict is the run's own in its figures, its pass and its claim.
VerdictIsTrue == TypeOK /\ KnownFiguresAreTrue /\ VerdictIsTheRuns

=============================================================================
