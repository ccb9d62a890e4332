------------------------------- MODULE Report -------------------------------
(***************************************************************************)
(* What is read from the benchmark's events: the loops of Runs and Fold in *)
(* src/core/log/fold.go, and the report of src/core/bench/report.go.       *)
(*                                                                         *)
(* The log grows by runs and their verdicts, a run may be cut before its   *)
(* verdict, a line may be lost, and a task may change its class between    *)
(* two runs.  The readers change nothing: they are operators of the log,   *)
(* and a report is asked for any scope at any time.                        *)
(*                                                                         *)
(* A cell is one (corpus, task, arm, repeat).  A date is a number of days, *)
(* 0 when it was not read: it is a string in the code, and "" sorts first. *)
(* A mean or a median is a fraction.                                       *)
(***************************************************************************)
EXTENDS BenchLog, Integers, FiniteSets, SequencesExt

CONSTANTS
  Cells,        \* the cells that are run
  Corpus,       \* the corpus a report is asked for
  ModelOf,      \* the model each arm names
  Class,        \* the classes of tasks
  ClassAtStart, \* the class of each task at first
  Reading,      \* the verdicts a run may get: pass, cost_usd, wall_ms
  PublicSince,  \* when each task's landed change became public
  Cutoffs,      \* the months to which each arm's model is said to be trained, 0 when not said
  MonthLength,  \* days in a month
  MaxRuns,      \* bound: runs
  MaxMishaps    \* bound: lines lost, dates not read, classes changed

Unknown == -1
Unread == 0

Task == {c.task : c \in Cells}
Arm == {c.arm : c \in Cells}
Month(date) == date \div MonthLength

ASSUME TasksAssumption ==
  /\ ClassAtStart \in [Task -> Class] /\ ModelOf \in [Arm -> STRING]
  /\ PublicSince \in [Task -> Nat \ {Unread}] /\ Cutoffs \in [Arm -> SUBSET Nat]
ASSUME ReadingAssumption ==
  \A v \in Reading : v.pass \in BOOLEAN /\ {v.cost_usd, v.wall_ms} \subseteq Nat \cup {Unknown}
ASSUME ReportBounds == MonthLength \in Nat \ {0} /\ MaxRuns \in Nat /\ MaxMishaps \in Nat

VARIABLES
  events,   \* the log
  lost,     \* the lines no fold sees
  class     \* the class in each task's task.json

vars == <<events, lost, class>>

Init == events = << >> /\ lost = {} /\ class = ClassAtStart

-----------------------------------------------------------------------------
(* The log's growth *)

IsRun(e) == e.type = "run"

Changed == {t \in Task : class[t] # ClassAtStart[t]}
UnreadDates == {i \in 1..Len(events) : IsRun(events[i]) /\ events[i].public = Unread}
Mishaps == Cardinality(lost) + Cardinality(UnreadDates) + Cardinality(Changed)

\* runOne's bench.run, with the task's class as it is now, the cutoff the arm is said to have, and
\* the date when git gave it.
Launch(cell) ==
  /\ Cardinality({i \in 1..Len(events) : IsRun(events[i])}) < MaxRuns
  /\ \E date \in {PublicSince[cell.task], Unread}, cutoff \in Cutoffs[cell.arm] :
       /\ date = Unread => Mishaps < MaxMishaps
       /\ events' = Append(events, [type |-> "run", cell |-> cell, class |-> class[cell.task],
                                    model |-> ModelOf[cell.arm], cutoff |-> cutoff, public |-> date])
  /\ UNCHANGED <<lost, class>>

\* Its bench.verdict, which follows it with nothing in between.
Score ==
  /\ events # << >> /\ IsRun(Last(events))
  /\ \E v \in Reading :
       events' = Append(events, [type |-> "verdict", cell |-> Last(events).cell, reading |-> v])
  /\ UNCHANGED <<lost, class>>

\* A line stops parsing, or is quarantined.
Lose ==
  /\ Mishaps < MaxMishaps
  /\ \E i \in (1..Len(events)) \ lost : lost' = lost \cup {i}
  /\ UNCHANGED <<events, class>>

\* Someone moves a task to another class.
Reclassify ==
  /\ Mishaps < MaxMishaps
  /\ \E t \in Task, k \in Class : k # class[t] /\ class' = [class EXCEPT ![t] = k]
  /\ UNCHANGED <<events, lost>>

Next == (\E cell \in Cells : Launch(cell)) \/ Score \/ Lose \/ Reclassify

Spec == Init /\ [][Next]_vars

-----------------------------------------------------------------------------
(* Runs, as the loop it is *)

Set(f, k, v) == [j \in DOMAIN f \cup {k} |-> IF j = k THEN v ELSE f[j]]

\* A bug of the next: a rerun keeps the verdict of the run before it.
Record_Keeps(map, n) ==
  IF IsRun(events[n])
  THEN Set(map, events[n].cell,
           [run |-> n, verdict |-> IF events[n].cell \in DOMAIN map THEN map[events[n].cell].verdict ELSE 0])
  ELSE IF events[n].cell \in DOMAIN map THEN [map EXCEPT ![events[n].cell].verdict = n] ELSE map

\* One event: a run starts its cell again, and a verdict ends the run of its cell, if one was seen.
Record(map, n) ==
  IF IsRun(events[n]) THEN Set(map, events[n].cell, [run |-> n, verdict |-> 0])
  ELSE IF events[n].cell \in DOMAIN map THEN [map EXCEPT ![events[n].cell].verdict = n] ELSE map

\* The records, each the seq of a run and of its verdict.
Records ==
  LET Loop[n \in 0..Len(events)] ==
        IF n = 0 THEN [c \in {} |-> [run |-> 0, verdict |-> 0]]
        ELSE IF n \in lost THEN Loop[n - 1] ELSE Record(Loop[n - 1], n)
      byKey == Loop[Len(events)] IN
  {byKey[c] : c \in DOMAIN byKey}

Run(rec) == events[rec.run]
Verdict(rec) == events[rec.verdict].reading

-----------------------------------------------------------------------------
(* aggregate, of fractions as values *)

Less(x, y) == x.num * y.den < y.num * x.den
AtMost(x, y) == ~Less(y, x)
Whole(n) == [num |-> n, den |-> 1]

SumSeq(s) == LET Sum[i \in 0..Len(s)] == IF i = 0 THEN 0 ELSE Sum[i - 1] + s[i] IN Sum[Len(s)]

\* A bug of the next: the middle of an even number of values is the upper of the two.
Median_Upper(s) == Whole(s[Len(s) \div 2 + 1])

\* Of values in order; an index counts from 1 here.
Median(s) ==
  IF Len(s) % 2 = 1 THEN Whole(s[Len(s) \div 2 + 1])
  ELSE [num |-> s[Len(s) \div 2] + s[Len(s) \div 2 + 1], den |-> 2]

Mean(s) == [num |-> SumSeq(s), den |-> Len(s)]

Aggregate(agg, s) == IF agg = "median" THEN Median(s) ELSE Mean(s)

-----------------------------------------------------------------------------
(* Fold *)

WithVerdict == {rec \in Records : rec.verdict # 0}

\* A set of records in the order of a key, and of their seqs where it is the same.
InOrder(recs, key) ==
  LET UpTo(x) == {y \in recs : key[y] < key[x] \/ (key[y] = key[x] /\ y.run <= x.run)} IN
  [i \in 1..Cardinality(recs) |-> CHOOSE x \in recs : Cardinality(UpTo(x)) = i]

Value(rec, col) == IF col = "pass_rate" THEN (IF Verdict(rec).pass THEN 1 ELSE 0) ELSE Verdict(rec)[col]
Known(recs, col) == {rec \in recs : Value(rec, col) # Unknown}

\* The known values of a column, in order.
Values(recs, col) ==
  LET known == Known(recs, col)
      ordered == InOrder(known, [rec \in known |-> Value(rec, col)]) IN
  [i \in 1..Len(ordered) |-> Value(ordered[i], col)]

\* state.bench[class][model]: over every corpus, the costs that are known.
FoldCell(k, model) ==
  LET recs == {rec \in WithVerdict : Run(rec).class = k /\ Run(rec).model = model} IN
  [n |-> Cardinality(recs), pass |-> SumSeq(Values(recs, "pass_rate")),
   costMedian |-> IF Known(recs, "cost_usd") = {} THEN << >> ELSE <<Median(Values(recs, "cost_usd"))>>]

-----------------------------------------------------------------------------
(* Report, for the tasks in scope and the arms it is asked for *)

Scored(scope) == {rec \in WithVerdict : Run(rec).cell.corpus = Corpus /\ Run(rec).cell.task \in scope}

Arms(scope, asked) == IF asked = {} THEN {Run(rec).cell.arm : rec \in Scored(scope)} ELSE asked

ArmRuns(scope, arm) == {rec \in Scored(scope) : Run(rec).cell.arm = arm}

\* The classes the tasks in scope have now.
ClassesInScope(scope) == {class[t] : t \in scope}

\* A bug of the next: a class's rows are of every arm.
ClassRuns_AnyArm(scope, arm, k) == {rec \in Scored(scope) : Run(rec).class = k}

\* A class's runs are those launched as of that class.
ClassRuns(scope, arm, k) == {rec \in ArmRuns(scope, arm) : Run(rec).class = k}

Columns == {"pass_rate", "cost_usd", "wall_ms"}
Agg(col) == IF col = "wall_ms" THEN "median" ELSE "mean"

Least(fractions) == CHOOSE x \in fractions : \A y \in fractions : AtMost(x, y)
Greatest(fractions) == CHOOSE x \in fractions : \A y \in fractions : AtMost(y, x)
Minus(x, y) == [num |-> x.num * y.den - y.num * x.den, den |-> x.den * y.den]

\* One column of a row: its value over the runs in which it is known, its spread over their
\* repeats when they are of several, and in how many it is not known.
Column(recs, col) ==
  LET known == Known(recs, col)
      byRepeat == {Aggregate(Agg(col), Values({rec \in known : Run(rec).cell.repeat = k}, col)) :
                     k \in {Run(rec).cell.repeat : rec \in known}} IN
  [value |-> Aggregate(Agg(col), Values(known, col)),
   spread |-> IF Cardinality({Run(rec).cell.repeat : rec \in known}) > 1
              THEN <<Minus(Greatest(byRepeat), Least(byRepeat))>> ELSE << >>,
   unknown |-> Cardinality(recs) - Cardinality(known)]

\* A bug of the next: a column is refused only when its row has no runs.
Refused_NoRuns(recs) == IF recs = {} THEN Columns ELSE {}

\* The columns of a row that no run has a reading for.
Refused(recs) == {col \in Columns : Known(recs, col) = {}}

\* What the report refuses: no arm at all, an arm or a class of one over no runs, a column of a row.
Refusals(scope, asked) ==
  LET arms == Arms(scope, asked)
      filled == {arm \in arms : ArmRuns(scope, arm) # {}} IN
  (IF arms = {} THEN {<<>>} ELSE {})
  \cup {<<arm>> : arm \in arms \ filled}
  \cup (UNION {{<<arm, "all", col>> : col \in Refused(ArmRuns(scope, arm))} : arm \in filled})
  \cup UNION {UNION {IF ClassRuns(scope, arm, k) = {} THEN {<<arm, k>>}
                     ELSE {<<arm, k, col>> : col \in Refused(ClassRuns(scope, arm, k))} :
                       k \in ClassesInScope(scope)} : arm \in filled}

\* The runs whose change may have been public when the model was trained, by the cutoff of each.
AtOrAfterCutoff(recs) ==
  {rec \in recs : /\ Run(rec).cutoff # 0 /\ Run(rec).public # Unread
                  /\ Run(rec).cutoff >= Month(Run(rec).public)}

\* contamination's date: the loop over an arm's runs in the order of their seqs.
Earliest(recs) ==
  LET ordered == InOrder(recs, [rec \in recs |-> 0])
      Loop[i \in 0..Len(ordered)] ==
        IF i = 0 THEN Unread
        ELSE LET date == Run(ordered[i]).public
                 earliest == Loop[i - 1] IN
             IF earliest = Unread \/ date < earliest THEN date ELSE earliest IN
  Loop[Len(ordered)]

-----------------------------------------------------------------------------
(* Properties *)

TypeOK ==
  /\ \A i \in 1..Len(events) :
       /\ events[i].type \in {"run", "verdict"} /\ events[i].cell \in Cells
       /\ ~IsRun(events[i]) => IsRun(events[i - 1]) /\ events[i].reading \in Reading
  /\ lost \subseteq 1..Len(events)
  /\ class \in [Task -> Class]
  /\ Mishaps <= MaxMishaps
  /\ \A rec \in Records : IsRun(Run(rec)) /\ rec.verdict \in {0} \cup (rec.run + 1)..Len(events)

Scopes == {Task} \cup {{t} : t \in Task}
Asked == {{}, Arm}

\* The loop over the events makes what its comment says of their positions: of each cell the last
\* run that can be read, with the last verdict after it (fold.go:203-205).
FoldAgrees == Records = Runs(events, lost)

\* Every run with a verdict is in the rows it belongs in and in no other: an arm's runs are those
\* of its cells in scope, and while no task of theirs has changed its class each is in exactly one
\* of the arm's class rows (report.go:84-86, 107-138).
RowsAddUp ==
  \A scope \in Scopes, arm \in Arm :
    LET ended == {i \in Ended(events, lost) :
                    /\ events[i].cell.corpus = Corpus /\ events[i].cell.arm = arm
                    /\ events[i].cell.task \in scope}
        rows == {k \in ClassesInScope(scope) : ClassRuns(scope, arm, k) # {}} IN
    /\ {rec.run : rec \in ArmRuns(scope, arm)} = ended
    /\ \A k \in rows : ClassRuns(scope, arm, k) \subseteq ArmRuns(scope, arm)
    /\ (\A i \in ended : events[i].class = class[events[i].cell.task])
         => \A rec \in ArmRuns(scope, arm) : \E k \in rows : \A l \in rows :
              rec \in ClassRuns(scope, arm, l) <=> l = k

\* A report succeeds exactly when it was made of runs throughout: there is an arm, and each column
\* of every class in scope rests on a run of every arm that was asked for (report.go:37-38).
RefusesExactly ==
  \A scope \in Scopes, asked \in Asked :
    Refusals(scope, asked) = {} <=>
      /\ Arms(scope, asked) # {}
      /\ \A arm \in Arms(scope, asked), k \in ClassesInScope(scope), col \in Columns :
           \E r \in Runs(events, lost) :
             /\ r.verdict # 0 /\ events[r.run].class = k
             /\ events[r.run].cell.corpus = Corpus /\ events[r.run].cell.arm = arm
             /\ events[r.run].cell.task \in scope
             /\ col = "pass_rate" \/ events[r.verdict].reading[col] # Unknown

\* m is the middle of the values the records have in a column: halfway between the least value
\* that half of them do not exceed, and the greatest that half of them reach.
IsMiddle(m, recs, col) ==
  LET known == Known(recs, col)
      half(S) == 2 * Cardinality(S) >= Cardinality(known)
      lower == {Value(x, col) : x \in {y \in known : half({z \in known : Value(z, col) <= Value(y, col)})}}
      upper == {Value(x, col) : x \in {y \in known : half({z \in known : Value(z, col) >= Value(y, col)})}} IN
  \E a \in lower, b \in upper :
    /\ \A v \in lower : a <= v
    /\ \A v \in upper : v <= b
    /\ 2 * m.num = (a + b) * m.den

\* An unknown figure is no figure: an arm's mean lies among the values that are known, its median
\* in their middle, its spread is no wider than they are and is there only for several repeats,
\* and the unknown ones are told; and so for the median of Fold (report.go:197-264, fold.go:285-295).
FiguresAreOfTheKnown ==
  /\ \A arm \in Arm, col \in Columns :
       LET recs == ArmRuns(Task, arm)
           known == Known(recs, col)
           c == Column(recs, col) IN
       known # {} =>
         /\ \E x, y \in known : /\ AtMost(Whole(Value(x, col)), c.value)
                                /\ AtMost(c.value, Whole(Value(y, col)))
         /\ Agg(col) = "median" => IsMiddle(c.value, recs, col)
         /\ c.spread # << >> =>
              /\ AtMost(Whole(0), c.spread[1])
              /\ \E x, y \in known : /\ AtMost(c.spread[1], Whole(Value(x, col) - Value(y, col)))
                                     /\ Run(x).cell.repeat # Run(y).cell.repeat \/ x = y
         /\ c.unknown = Cardinality(recs \ known)
  /\ \A k \in Class, model \in {ModelOf[arm] : arm \in Arm} :
       LET cell == FoldCell(k, model)
           recs == {r \in Runs(events, lost) : r.verdict # 0 /\ events[r.run].class = k
                                              /\ events[r.run].model = model} IN
       /\ cell.n = Cardinality(recs)
       /\ cell.pass = Cardinality({r \in recs : events[r.verdict].reading.pass})
       /\ cell.costMedian = << >> <=> Known(recs, "cost_usd") = {}
       /\ cell.costMedian # << >> => IsMiddle(cell.costMedian[1], recs, "cost_usd")

\* The runs held to be open to recall are those whose change became public before the month after
\* their own cutoff began, an unread date never; and when every date of an arm was read, the one that is
\* printed is the earliest (report.go:181-195).
ContaminationIsTrue ==
  \A arm \in Arm :
    LET recs == ArmRuns(Task, arm) IN
    /\ AtOrAfterCutoff(recs) =
         {rec \in recs : /\ Run(rec).cutoff # 0
                         /\ Run(rec).public \in 1..((Run(rec).cutoff + 1) * MonthLength - 1)}
    /\ recs # {} /\ (\A rec \in recs : Run(rec).public # Unread) =>
         /\ \E rec \in recs : Run(rec).public = Earliest(recs)
         /\ \A rec \in recs : Earliest(recs) <= Run(rec).public

\* What a report prints of an arm is of readings: an unknown figure and an unread date are none.
ReportIsOfReadings == TypeOK /\ FiguresAreOfTheKnown /\ ContaminationIsTrue

=============================================================================
