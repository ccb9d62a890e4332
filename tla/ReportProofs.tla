--------------------------- MODULE ReportProofs ---------------------------
(***************************************************************************)
(* For any cells, arms, classes, readings and dates, and any log they can  *)
(* grow into: what the loops of Runs and of the report make of it.         *)
(*                                                                         *)
(* All that is inductive is LogOK: a verdict of the log stands right       *)
(* behind a run, and both have their type.  The rest is what the readers'  *)
(* operators compute of such a log: loops, which exist by LoopExists, and  *)
(* sums, medians and extremes over sets of runs.                           *)
(***************************************************************************)
EXTENDS Report, TLAPS, FiniteSetTheorems, WellFoundedInduction

-----------------------------------------------------------------------------
(* Induction over the naturals, and loops *)

LEMMA Lowest ==
  ASSUME NEW B \in SUBSET Nat, B # {}
  PROVE  \E n \in B : \A m \in B : n <= m
<1> DEFINE R == OpToRel(<, Nat)
<1>1. IsWellFoundedOn(R, Nat)
  BY NatLessThanWellFounded
<1>2. \A x, y \in Nat : <<x, y>> \in R <=> x < y
  BY DEF OpToRel
<1> HIDE DEF R
<1>3. PICK n \in B : \A m \in B : ~ (<<m, n>> \in R)
  BY <1>1, WFMin
<1>4. \A m \in B : ~ (m < n)
  BY <1>2, <1>3
<1>5. \A m \in B : n <= m
  BY <1>4
<1> QED BY <1>5

\* Induction up to a bound, over the set of the numbers a statement holds of.
LEMMA CountUp ==
  ASSUME NEW N \in Nat, NEW S, 0 \in S, \A n \in 1..N : n - 1 \in S => n \in S
  PROVE  0..N \subseteq S
<1> DEFINE B == (0..N) \ S
<1>1. SUFFICES ASSUME B # {} PROVE FALSE
  OBVIOUS
<1>2. PICK n \in B : \A m \in B : n <= m
  <2>1. B \in SUBSET Nat
    OBVIOUS
  <2> QED BY <1>1, <2>1, Lowest
<1>3. n \in 1..N /\ n - 1 \in 0..N /\ n - 1 \notin B
  BY <1>2
<1> QED BY <1>2, <1>3

\* A loop over 1..N that makes a value of a set from the value before is a function that exists.
IsLoop(g, V, N, base, step) ==
  /\ g \in [0..N -> V] /\ g[0] = base
  /\ \A n \in 1..N : g[n] = step[n][g[n - 1]]

LEMMA LoopExists ==
  ASSUME NEW V, NEW N \in Nat, NEW base \in V, NEW step \in [1..N -> [V -> V]]
  PROVE  \E g : IsLoop(g, V, N, base, step)
<1> DEFINE S == {n \in 0..N : \E g : IsLoop(g, V, n, base, step)}
<1>1. 0 \in S
  <2>1. IsLoop([k \in 0..0 |-> base], V, 0, base, step)
    BY DEF IsLoop
  <2> QED BY <2>1
<1>2. ASSUME NEW n \in 1..N, n - 1 \in S PROVE n \in S
  <2>1. PICK g : IsLoop(g, V, n - 1, base, step)
    BY <1>2
  <2> DEFINE h == [k \in 0..n |-> IF k < n THEN g[k] ELSE step[n][g[n - 1]]]
  <2>2. /\ n - 1 \in 0..n - 1 /\ g[n - 1] \in V /\ step[n][g[n - 1]] \in V
    BY <2>1 DEF IsLoop
  <2>3. \A k \in 0..n - 1 : k \in 0..n /\ k < n /\ h[k] = g[k] /\ g[k] \in V
    BY <2>1 DEF IsLoop
  <2>4. h[n] = step[n][g[n - 1]]
    OBVIOUS
  <2>5. h \in [0..n -> V]
    <3>1. \A k \in 0..n : k = n \/ k \in 0..n - 1
      OBVIOUS
    <3>2. \A k \in 0..n : h[k] \in V
      BY <3>1, <2>2, <2>3, <2>4
    <3> QED BY <3>2
  <2>6. h[0] = base
    BY <2>1, <2>3 DEF IsLoop
  <2>7. ASSUME NEW k \in 1..n PROVE h[k] = step[k][h[k - 1]]
    <3>1. k - 1 \in 0..n - 1
      OBVIOUS
    <3>2. CASE k = n
      BY <3>1, <3>2, <2>3, <2>4
    <3>3. CASE k # n
      <4>1. k \in 0..n - 1 /\ k \in 1..n - 1
        BY <3>3
      <4> QED BY <4>1, <3>1, <2>1, <2>3 DEF IsLoop
    <3> QED BY <3>2, <3>3
  <2> HIDE DEF h
  <2> QED BY <2>5, <2>6, <2>7 DEF IsLoop
<1> HIDE DEF S
<1>3. 0..N \subseteq S
  BY <1>1, <1>2, CountUp
<1> QED BY <1>3 DEF S

-----------------------------------------------------------------------------
(* The log *)

RunEvent ==
  [type : {"run"}, cell : Cells, class : Class, model : {ModelOf[a] : a \in Arm}, cutoff : Nat,
   public : Nat]
VerdictEvent == [type : {"verdict"}, cell : Cells, reading : Reading]

\* The log is of runs and of verdicts, each behind the run it ends; no date is the unread one but 0.
LogOK ==
  /\ events \in Seq(RunEvent \cup VerdictEvent)
  /\ \A i \in 1..Len(events) : ~IsRun(events[i]) => i > 1 /\ IsRun(events[i - 1])
  /\ lost \subseteq 1..Len(events)
  /\ class \in [Task -> Class]

LEMMA EventIs ==
  ASSUME LogOK
  PROVE  /\ Len(events) \in Nat
         /\ \A i \in 1..Len(events) :
              /\ events[i].cell \in Cells
              /\ events[i].type \in {"run", "verdict"}
              /\ IsRun(events[i]) => events[i] \in RunEvent
              /\ ~IsRun(events[i]) => events[i] \in VerdictEvent
<1>1. Len(events) \in Nat /\ \A i \in 1..Len(events) : events[i] \in RunEvent \cup VerdictEvent
  BY DEF LogOK
<1>2. \A e \in RunEvent : e.type = "run" /\ e.cell \in Cells
  BY DEF RunEvent
<1>3. \A e \in VerdictEvent : e.type = "verdict" /\ e.cell \in Cells
  BY DEF VerdictEvent
<1> QED BY <1>1, <1>2, <1>3 DEF IsRun

LEMMA UsableIs ==
  ASSUME LogOK
  PROVE  /\ \A i : i \in Usable(events, lost, "run") <=>
                     i \in 1..Len(events) /\ i \notin lost /\ IsRun(events[i])
         /\ \A i : i \in Usable(events, lost, "verdict") <=>
                     i \in 1..Len(events) /\ i \notin lost /\ ~IsRun(events[i])
BY EventIs DEF Usable, IsRun

-----------------------------------------------------------------------------
(* The loop of Runs *)

RunsUpTo(c, n) == {i \in Usable(events, lost, "run") : i <= n /\ events[i].cell = c}
EndsUpTo(c, r, n) == {i \in Usable(events, lost, "verdict") : r < i /\ i <= n /\ events[i].cell = c}
IsLast(m, S) == m \in S /\ \A j \in S : j <= m

Maps == UNION {[D -> [run : Nat, verdict : Nat]] : D \in SUBSET Cells}

\* The map holds, of the first n events, the last run of each cell and the last verdict behind it.
MapIs(map, n) ==
  /\ map \in Maps
  /\ \A c \in Cells : c \in DOMAIN map <=> RunsUpTo(c, n) # {}
  /\ \A c \in DOMAIN map :
       /\ IsLast(map[c].run, RunsUpTo(c, n))
       /\ IF EndsUpTo(c, map[c].run, n) = {} THEN map[c].verdict = 0
          ELSE IsLast(map[c].verdict, EndsUpTo(c, map[c].run, n))

LEMMA MapsAre ==
  ASSUME NEW map \in Maps
  PROVE  /\ DOMAIN map \subseteq Cells /\ map = [c \in DOMAIN map |-> map[c]]
         /\ \A c \in DOMAIN map : map[c] \in [run : Nat, verdict : Nat]
<1>1. PICK D \in SUBSET Cells : map \in [D -> [run : Nat, verdict : Nat]]
  BY DEF Maps
<1> QED BY <1>1

LEMMA MapIn ==
  ASSUME NEW map, map = [c \in DOMAIN map |-> map[c]], DOMAIN map \subseteq Cells,
         \A c \in DOMAIN map : map[c] \in [run : Nat, verdict : Nat]
  PROVE  map \in Maps
<1>1. map \in [DOMAIN map -> [run : Nat, verdict : Nat]]
  OBVIOUS
<1>2. DOMAIN map \in SUBSET Cells
  OBVIOUS
<1> HIDE DEF Maps
<1> QED BY <1>1, <1>2 DEF Maps

LEMMA RecordIs ==
  ASSUME LogOK, NEW n \in 1..Len(events), NEW map \in Maps
  PROVE  /\ Record(map, n) \in Maps
         /\ IsRun(events[n]) =>
              /\ DOMAIN Record(map, n) = DOMAIN map \cup {events[n].cell}
              /\ \A c \in DOMAIN Record(map, n) :
                   Record(map, n)[c] = IF c = events[n].cell THEN [run |-> n, verdict |-> 0] ELSE map[c]
         /\ ~IsRun(events[n]) =>
              /\ DOMAIN Record(map, n) = DOMAIN map
              /\ \A c \in DOMAIN map :
                   Record(map, n)[c] =
                     IF c = events[n].cell THEN [run |-> map[c].run, verdict |-> n] ELSE map[c]
<1>1. /\ DOMAIN map \subseteq Cells /\ map = [c \in DOMAIN map |-> map[c]]
      /\ \A c \in DOMAIN map : map[c] \in [run : Nat, verdict : Nat]
  BY MapsAre
<1>2. events[n].cell \in Cells /\ n \in Nat
  BY EventIs
<1> DEFINE e == events[n].cell
           new == [run |-> n, verdict |-> 0]
           r == Record(map, n)
<1>3. CASE IsRun(events[n])
  <2>1. r = [j \in DOMAIN map \cup {e} |-> IF j = e THEN new ELSE map[j]]
    BY <1>3 DEF Record, Set
  <2> HIDE DEF r, new
  <2>2. DOMAIN r = DOMAIN map \cup {e} /\ \A c \in DOMAIN r : r[c] = IF c = e THEN new ELSE map[c]
    BY <2>1
  <2>3. new \in [run : Nat, verdict : Nat]
    BY <1>2 DEF new
  <2>4. r \in Maps
    <3>1. r = [c \in DOMAIN r |-> r[c]] /\ DOMAIN r \subseteq Cells
      BY <2>1, <2>2, <1>1, <1>2
    <3>2. \A c \in DOMAIN r : r[c] \in [run : Nat, verdict : Nat]
      BY <2>2, <2>3, <1>1
    <3> QED BY <3>1, <3>2, MapIn
  <2> QED BY <2>2, <2>4, <1>3 DEF r, new
<1>4. CASE ~IsRun(events[n])
  <2>1. r = IF e \in DOMAIN map THEN [map EXCEPT ![e].verdict = n] ELSE map
    BY <1>4 DEF Record
  <2> HIDE DEF r
  <2>2. DOMAIN r = DOMAIN map /\ \A c \in DOMAIN map :
           r[c] = IF c = e THEN [map[c] EXCEPT !.verdict = n] ELSE map[c]
    BY <2>1, <1>1
  <2>3. \A c \in DOMAIN map : [map[c] EXCEPT !.verdict = n] = [run |-> map[c].run, verdict |-> n]
    BY <1>1
  <2>4. r \in Maps
    <3>1. r = [c \in DOMAIN r |-> r[c]] /\ DOMAIN r \subseteq Cells
      BY <2>1, <1>1
    <3>2. \A c \in DOMAIN r : r[c] \in [run : Nat, verdict : Nat]
      BY <2>2, <2>3, <1>1, <1>2
    <3> QED BY <3>1, <3>2, MapIn
  <2> QED BY <2>2, <2>3, <2>4, <1>4 DEF r
<1> QED BY <1>3, <1>4

\* What one more event adds to the runs and the verdicts of a cell.
LEMMA UpToGrows ==
  ASSUME LogOK, NEW n \in 1..Len(events), NEW c \in Cells
  PROVE  /\ RunsUpTo(c, n) = IF n \notin lost /\ IsRun(events[n]) /\ events[n].cell = c
                             THEN RunsUpTo(c, n - 1) \cup {n} ELSE RunsUpTo(c, n - 1)
         /\ \A r \in Nat : EndsUpTo(c, r, n) =
                     IF n \notin lost /\ ~IsRun(events[n]) /\ events[n].cell = c /\ r < n
                     THEN EndsUpTo(c, r, n - 1) \cup {n} ELSE EndsUpTo(c, r, n - 1)
<1>1. Len(events) \in Nat /\ n \in Nat
  BY EventIs
<1>2. \A i \in 1..Len(events) : i <= n <=> i <= n - 1 \/ i = n
  BY <1>1
<1>3. ~(n <= n - 1)
  BY <1>1
<1>4. \A i : i \in RunsUpTo(c, n) <=>
         i \in 1..Len(events) /\ i \notin lost /\ IsRun(events[i]) /\ i <= n /\ events[i].cell = c
  BY UsableIs DEF RunsUpTo
<1>5. \A i : i \in RunsUpTo(c, n - 1) <=>
         i \in 1..Len(events) /\ i \notin lost /\ IsRun(events[i]) /\ i <= n - 1 /\ events[i].cell = c
  BY UsableIs DEF RunsUpTo
<1>8. RunsUpTo(c, n) = IF n \notin lost /\ IsRun(events[n]) /\ events[n].cell = c
                       THEN RunsUpTo(c, n - 1) \cup {n} ELSE RunsUpTo(c, n - 1)
  BY <1>2, <1>3, <1>4, <1>5
<1>9. ASSUME NEW r \in Nat
      PROVE  EndsUpTo(c, r, n) = IF n \notin lost /\ ~IsRun(events[n]) /\ events[n].cell = c /\ r < n
                                 THEN EndsUpTo(c, r, n - 1) \cup {n} ELSE EndsUpTo(c, r, n - 1)
  <2>1. \A i : i \in EndsUpTo(c, r, n) <=>
           /\ i \in 1..Len(events) /\ i \notin lost /\ ~IsRun(events[i])
           /\ r < i /\ i <= n /\ events[i].cell = c
    BY UsableIs DEF EndsUpTo
  <2>2. \A i : i \in EndsUpTo(c, r, n - 1) <=>
           /\ i \in 1..Len(events) /\ i \notin lost /\ ~IsRun(events[i])
           /\ r < i /\ i <= n - 1 /\ events[i].cell = c
    BY UsableIs DEF EndsUpTo
  <2> QED BY <1>2, <1>3, <2>1, <2>2
<1> QED BY <1>8, <1>9

LEMMA RunBounds ==
  ASSUME LogOK, NEW n, NEW c
  PROVE  \A i \in RunsUpTo(c, n) : i \in 1..Len(events) /\ i <= n /\ IsRun(events[i])
BY UsableIs DEF RunsUpTo

LEMMA EndBounds ==
  ASSUME LogOK, NEW n, NEW c, NEW r
  PROVE  \A i \in EndsUpTo(c, r, n) : i \in 1..Len(events) /\ i <= n /\ r < i
BY UsableIs DEF EndsUpTo

\* The loop's body.
Body(map, n) == IF n \in lost THEN map ELSE Record(map, n)

LEMMA BodyKeeps ==
  ASSUME LogOK, NEW n \in 1..Len(events), NEW map, MapIs(map, n - 1)
  PROVE  MapIs(Body(map, n), n)
<1>1. /\ Len(events) \in Nat /\ n \in Nat /\ n - 1 \in 0..Len(events)
      /\ events[n].cell \in Cells
  BY EventIs
<1>2. /\ map \in Maps
      /\ \A c \in Cells : c \in DOMAIN map <=> RunsUpTo(c, n - 1) # {}
      /\ \A c \in DOMAIN map :
           /\ IsLast(map[c].run, RunsUpTo(c, n - 1))
           /\ IF EndsUpTo(c, map[c].run, n - 1) = {} THEN map[c].verdict = 0
              ELSE IsLast(map[c].verdict, EndsUpTo(c, map[c].run, n - 1))
  BY DEF MapIs
<1>3. DOMAIN map \subseteq Cells /\ \A c \in DOMAIN map : map[c] \in [run : Nat, verdict : Nat]
  BY <1>2, MapsAre
<1>4. \A c : \A i \in RunsUpTo(c, n - 1) : i \in Nat /\ i <= n - 1
  BY <1>1, RunBounds
<1>5. \A c, r : \A i \in EndsUpTo(c, r, n - 1) : i \in Nat /\ i <= n - 1
  BY <1>1, EndBounds
<1>6. \A c \in DOMAIN map : map[c].run < n
  BY <1>1, <1>2, <1>3, <1>4 DEF IsLast
<1> DEFINE e == events[n].cell
<1>7. CASE n \in lost
  <2>1. \A c \in Cells : RunsUpTo(c, n) = RunsUpTo(c, n - 1)
    BY <1>7, UpToGrows
  <2>2. \A c \in Cells : \A r \in Nat : EndsUpTo(c, r, n) = EndsUpTo(c, r, n - 1)
    BY <1>7, UpToGrows
  <2> QED BY <2>1, <2>2, <1>2, <1>3, <1>7 DEF MapIs, Body
<1>8. CASE n \notin lost /\ IsRun(events[n])
  <2> DEFINE r == Record(map, n)
  <2>1. /\ r \in Maps /\ DOMAIN r = DOMAIN map \cup {e}
        /\ \A c \in DOMAIN r : r[c] = IF c = e THEN [run |-> n, verdict |-> 0] ELSE map[c]
    BY <1>2, <1>8, RecordIs
  <2> HIDE DEF r
  <2>2. \A c \in Cells : RunsUpTo(c, n) = IF c = e THEN RunsUpTo(c, n - 1) \cup {n} ELSE RunsUpTo(c, n - 1)
    BY <1>8, UpToGrows
  <2>3. \A c \in Cells : \A s \in Nat : EndsUpTo(c, s, n) = EndsUpTo(c, s, n - 1)
    BY <1>8, UpToGrows
  <2>4. EndsUpTo(e, n, n - 1) = {}
    <3>1. \A i \in EndsUpTo(e, n, n - 1) : i \in 1..Len(events) /\ i <= n - 1 /\ n < i
      BY <1>1, EndBounds
    <3> QED BY <3>1, <1>1
  <2>5. ASSUME NEW c \in Cells PROVE c \in DOMAIN r <=> RunsUpTo(c, n) # {}
    BY <2>1, <2>2, <1>2
  <2>6. ASSUME NEW c \in DOMAIN r
        PROVE  /\ IsLast(r[c].run, RunsUpTo(c, n))
               /\ IF EndsUpTo(c, r[c].run, n) = {} THEN r[c].verdict = 0
                  ELSE IsLast(r[c].verdict, EndsUpTo(c, r[c].run, n))
    <3>1. CASE c = e
      <4>1. r[c].run = n /\ r[c].verdict = 0
        BY <2>1, <3>1
      <4>2. IsLast(n, RunsUpTo(c, n))
        BY <1>1, <1>4, <2>2, <3>1 DEF IsLast
      <4> QED BY <4>1, <4>2, <2>3, <2>4, <3>1, <1>1
    <3>2. CASE c # e
      <4>1. c \in DOMAIN map /\ c \in Cells /\ r[c] = map[c] /\ map[c].run \in Nat
        BY <2>1, <3>2, <1>3
      <4> QED BY <4>1, <3>2, <2>2, <2>3, <1>2
    <3> QED BY <3>1, <3>2
  <2> QED BY <2>1, <2>5, <2>6, <1>8 DEF MapIs, Body, r
<1>9. CASE n \notin lost /\ ~IsRun(events[n])
  <2> DEFINE r == Record(map, n)
  <2>1. /\ r \in Maps /\ DOMAIN r = DOMAIN map
        /\ \A c \in DOMAIN map :
             r[c] = IF c = e THEN [run |-> map[c].run, verdict |-> n] ELSE map[c]
    BY <1>2, <1>9, RecordIs
  <2> HIDE DEF r
  <2>2. \A c \in Cells : RunsUpTo(c, n) = RunsUpTo(c, n - 1)
    BY <1>9, UpToGrows
  <2>3. \A c \in Cells : \A s \in Nat : EndsUpTo(c, s, n) =
           IF c = e /\ s < n THEN EndsUpTo(c, s, n - 1) \cup {n} ELSE EndsUpTo(c, s, n - 1)
    BY <1>9, UpToGrows
  <2>4. ASSUME NEW c \in DOMAIN r
        PROVE  /\ IsLast(r[c].run, RunsUpTo(c, n))
               /\ IF EndsUpTo(c, r[c].run, n) = {} THEN r[c].verdict = 0
                  ELSE IsLast(r[c].verdict, EndsUpTo(c, r[c].run, n))
    <3>0. c \in DOMAIN map /\ c \in Cells
      BY <2>1, <1>3
    <3>1. r[c].run = map[c].run /\ r[c].run \in Nat
      BY <2>1, <3>0, <1>3
    <3>2. IsLast(r[c].run, RunsUpTo(c, n))
      BY <3>0, <3>1, <2>2, <1>2
    <3>3. CASE c = e
      <4>1. r[c].verdict = n /\ EndsUpTo(c, r[c].run, n) = EndsUpTo(c, r[c].run, n - 1) \cup {n}
        BY <2>1, <2>3, <3>0, <3>1, <3>3, <1>6
      <4>2. IsLast(n, EndsUpTo(c, r[c].run, n))
        BY <4>1, <1>1, <1>5 DEF IsLast
      <4> QED BY <4>1, <4>2, <3>2
    <3>4. CASE c # e
      <4>1. r[c] = map[c] /\ EndsUpTo(c, r[c].run, n) = EndsUpTo(c, r[c].run, n - 1)
        BY <2>1, <2>3, <3>0, <3>1, <3>4
      <4> QED BY <4>1, <3>0, <3>2, <1>2
    <3> QED BY <3>3, <3>4
  <2>5. \A c \in Cells : c \in DOMAIN r <=> RunsUpTo(c, n) # {}
    BY <2>1, <2>2, <1>2
  <2> QED BY <2>1, <2>4, <2>5, <1>9 DEF MapIs, Body, r
<1> QED BY <1>7, <1>8, <1>9

\* The records are the last run of each cell, with the last verdict behind it.
LEMMA RecordsAre ==
  ASSUME LogOK
  PROVE  \E map : MapIs(map, Len(events)) /\ Records = {map[c] : c \in DOMAIN map}
<1> DEFINE N == Len(events)
           none == [c \in {} |-> [run |-> 0, verdict |-> 0]]
           step == [n \in 1..N |-> [map \in Maps |-> Body(map, n)]]
           Loop[n \in 0..N] ==
             IF n = 0 THEN none ELSE IF n \in lost THEN Loop[n - 1] ELSE Record(Loop[n - 1], n)
<1>1. N \in Nat
  BY EventIs
<1>2. none \in Maps
  BY MapIn
<1>3. step \in [1..N -> [Maps -> Maps]]
  <2>1. \A n \in 1..N, map \in Maps : Body(map, n) \in Maps
    BY RecordIs DEF Body
  <2> HIDE DEF N
  <2> QED BY <2>1
<1>4. Loop = [n \in 0..N |-> IF n = 0 THEN none
                            ELSE IF n \in lost THEN Loop[n - 1] ELSE Record(Loop[n - 1], n)]
  <2>1. PICK g : IsLoop(g, Maps, N, none, step)
    BY <1>1, <1>2, <1>3, LoopExists
  <2>2. g = [n \in 0..N |-> IF n = 0 THEN none
                           ELSE IF n \in lost THEN g[n - 1] ELSE Record(g[n - 1], n)]
    <3>1. g \in [0..N -> Maps] /\ g[0] = none
      BY <2>1 DEF IsLoop
    <3>2. ASSUME NEW n \in 0..N, n # 0
          PROVE  g[n] = IF n \in lost THEN g[n - 1] ELSE Record(g[n - 1], n)
      <4>1. n \in 1..N /\ n - 1 \in 0..N
        BY <1>1, <3>2
      <4>2. g[n - 1] \in Maps /\ g[n] = step[n][g[n - 1]]
        BY <2>1, <3>1, <4>1 DEF IsLoop
      <4>3. g[n] = Body(g[n - 1], n)
        BY <4>1, <4>2
      <4> QED BY <4>3 DEF Body
    <3> HIDE DEF N, none, step
    <3> QED BY <3>1, <3>2
  <2> HIDE DEF N, none
  <2> QED BY <2>2
<1>5. Records = {Loop[N][c] : c \in DOMAIN Loop[N]}
  BY DEF Records
<1> HIDE DEF Loop
<1> DEFINE S == {n \in 0..N : MapIs(Loop[n], n)}
<1>6. 0 \in S
  <2>1. Loop[0] = none /\ 0 \in 0..N
    BY <1>1, <1>4
  <2>2. \A c : RunsUpTo(c, 0) = {}
    BY RunBounds
  <2>3. DOMAIN none = {}
    OBVIOUS
  <2> HIDE DEF none
  <2>4. MapIs(none, 0)
    BY <1>2, <2>2, <2>3 DEF MapIs
  <2> QED BY <2>1, <2>4
<1>7. ASSUME NEW n \in 1..N, n - 1 \in S PROVE n \in S
  <2>1. n \in 0..N /\ n # 0 /\ MapIs(Loop[n - 1], n - 1)
    BY <1>1, <1>7
  <2>2. Loop[n] = Body(Loop[n - 1], n)
    BY <1>4, <2>1 DEF Body
  <2>3. MapIs(Loop[n], n)
    BY <2>1, <2>2, BodyKeeps
  <2> QED BY <2>1, <2>3
<1>8. MapIs(Loop[N], N)
  <2> HIDE DEF S
  <2>1. 0..N \subseteq S
    BY <1>1, <1>6, <1>7, CountUp
  <2> QED BY <2>1, <1>1 DEF S
<1> HIDE DEF N
<1> QED BY <1>5, <1>8 DEF N

LEMMA RunsAre ==
  ASSUME LogOK
  PROVE  FoldAgrees
<1>1. PICK map : MapIs(map, Len(events)) /\ Records = {map[c] : c \in DOMAIN map}
  BY RecordsAre
<1> DEFINE N == Len(events)
           U == Usable(events, lost, "run")
           W == Usable(events, lost, "verdict")
<1>2. /\ DOMAIN map \subseteq Cells
      /\ \A c \in DOMAIN map : map[c] \in [run : Nat, verdict : Nat]
      /\ \A c \in Cells : c \in DOMAIN map <=> RunsUpTo(c, N) # {}
      /\ \A c \in DOMAIN map :
           /\ IsLast(map[c].run, RunsUpTo(c, N))
           /\ IF EndsUpTo(c, map[c].run, N) = {} THEN map[c].verdict = 0
              ELSE IsLast(map[c].verdict, EndsUpTo(c, map[c].run, N))
  BY <1>1, MapsAre DEF MapIs
<1>3. N \in Nat /\ \A i \in U : i \in 1..N /\ i <= N /\ events[i].cell \in Cells
  BY EventIs, UsableIs
<1>4. \A i \in W : i \in 1..N /\ i <= N
  <2>1. \A i \in W : i \in 1..N
    BY UsableIs
  <2> HIDE DEF N, U, W
  <2> QED BY <2>1, <1>3
<1>5. \A c : RunsUpTo(c, N) = {i \in U : events[i].cell = c}
  BY <1>3 DEF RunsUpTo
<1>6. \A i : VerdictsOf(events, lost, i) = EndsUpTo(events[i].cell, i, N)
  BY <1>4 DEF VerdictsOf, EndsUpTo
<1>7. \A i : i \in Current(events, lost) <=> i \in U /\ IsLast(i, RunsUpTo(events[i].cell, N))
  BY <1>5 DEF Current, IsLast
<1>8. ASSUME NEW c \in DOMAIN map PROVE map[c] \in Runs(events, lost)
  <2> DEFINE i == map[c].run
             v == map[c].verdict
  <2>1. i \in Current(events, lost) /\ events[i].cell = c
    BY <1>2, <1>5, <1>7, <1>8 DEF IsLast
  <2>2. map[c] = [run |-> i, verdict |-> v]
    BY <1>2, <1>8
  <2>3. IF VerdictsOf(events, lost, i) = {} THEN v = 0 ELSE IsLast(v, VerdictsOf(events, lost, i))
    BY <1>2, <1>6, <1>8, <2>1
  <2> HIDE DEF i, v
  <2> QED BY <2>1, <2>2, <2>3 DEF Runs, IsLast
<1>9. ASSUME NEW rec \in Runs(events, lost) PROVE \E c \in DOMAIN map : rec = map[c]
  <2>0. PICK i \in Current(events, lost) : \E v :
          /\ rec = [run |-> i, verdict |-> v]
          /\ IF VerdictsOf(events, lost, i) = {} THEN v = 0 ELSE IsLast(v, VerdictsOf(events, lost, i))
    BY <1>9 DEF Runs, IsLast
  <2>1. PICK v :
          /\ rec = [run |-> i, verdict |-> v]
          /\ IF VerdictsOf(events, lost, i) = {} THEN v = 0 ELSE IsLast(v, VerdictsOf(events, lost, i))
    BY <2>0
  <2> DEFINE c == events[i].cell
  <2>2. i \in U /\ c \in Cells /\ IsLast(i, RunsUpTo(c, N))
    BY <1>3, <1>7
  <2>3. c \in DOMAIN map
    BY <1>2, <2>2 DEF IsLast
  <2>4. IsLast(map[c].run, RunsUpTo(c, N))
    BY <1>2, <2>3
  <2>5. map[c].run = i
    BY <1>3, <1>5, <2>2, <2>4 DEF IsLast
  <2>6. IF VerdictsOf(events, lost, i) = {} THEN map[c].verdict = 0
        ELSE IsLast(map[c].verdict, VerdictsOf(events, lost, i))
    BY <1>2, <1>6, <2>3, <2>5
  <2>7. \A w \in VerdictsOf(events, lost, i) : w \in Nat
    BY <1>4 DEF VerdictsOf
  <2>8. map[c].verdict = v
    BY <2>1, <2>6, <2>7 DEF IsLast
  <2>9. map[c] = [run |-> map[c].run, verdict |-> map[c].verdict]
    BY <1>2, <2>3
  <2> QED BY <2>1, <2>3, <2>5, <2>8, <2>9
<1> QED BY <1>1, <1>8, <1>9 DEF FoldAgrees

-----------------------------------------------------------------------------
(* The log grows as it must *)

ReportInv == LogOK /\ IsFiniteSet(Changed) /\ Mishaps <= MaxMishaps

\* A log with one more event has the events it had.
LEMMA AppendIs ==
  ASSUME LogOK, NEW e \in RunEvent \cup VerdictEvent
  PROVE  /\ Append(events, e) \in Seq(RunEvent \cup VerdictEvent)
         /\ Len(Append(events, e)) = Len(events) + 1
         /\ Append(events, e)[Len(events) + 1] = e
         /\ \A i \in 1..Len(events) : Append(events, e)[i] = events[i]
BY DEF LogOK

LEMMA CountsAre ==
  ASSUME ReportInv
  PROVE  /\ IsFiniteSet(lost) /\ Cardinality(lost) \in Nat
         /\ IsFiniteSet(UnreadDates) /\ Cardinality(UnreadDates) \in Nat
         /\ IsFiniteSet(Changed) /\ Cardinality(Changed) \in Nat
         /\ Mishaps \in Nat
<1>1. IsFiniteSet(1..Len(events))
  BY EventIs, FS_Interval DEF ReportInv
<1>2. lost \in SUBSET (1..Len(events)) /\ UnreadDates \in SUBSET (1..Len(events))
  BY DEF ReportInv, LogOK, UnreadDates
<1>3. IsFiniteSet(lost) /\ IsFiniteSet(UnreadDates) /\ IsFiniteSet(Changed)
  BY <1>1, <1>2, FS_Subset DEF ReportInv
<1> QED BY <1>3, FS_CardinalityType DEF Mishaps

LEMMA InvInit == Init => ReportInv
<1> SUFFICES ASSUME Init PROVE ReportInv
  OBVIOUS
<1>1. events = << >> /\ lost = {} /\ class = ClassAtStart /\ Len(events) = 0
  BY DEF Init
<1>2. LogOK
  BY <1>1, TasksAssumption DEF LogOK
<1>3. Changed = {} /\ UnreadDates = {}
  BY <1>1 DEF Changed, UnreadDates
<1>4. Mishaps = 0
  BY <1>1, <1>3, FS_EmptySet DEF Mishaps
<1> QED BY <1>2, <1>3, <1>4, FS_EmptySet, ReportBounds DEF ReportInv

\* An event at the end: a verdict only behind its run, and one more unread date at most.
LEMMA InvAppend ==
  ASSUME ReportInv, NEW e \in RunEvent \cup VerdictEvent, events' = Append(events, e),
         UNCHANGED <<lost, class>>,
         e \in VerdictEvent => events # << >> /\ IsRun(Last(events)),
         e \in RunEvent /\ e.public = Unread => Mishaps < MaxMishaps
  PROVE  ReportInv'
<1> DEFINE N == Len(events)
<1>0. N \in Nat /\ LogOK /\ ReportInv
  BY EventIs DEF ReportInv
<1>1. /\ events' \in Seq(RunEvent \cup VerdictEvent) /\ Len(events') = N + 1
      /\ events'[N + 1] = e /\ \A i \in 1..N : events'[i] = events[i]
  BY <1>0, AppendIs
<1>2. lost' = lost /\ class' = class
  OBVIOUS
<1>3. \A x \in VerdictEvent : x.type = "verdict"
  BY DEF VerdictEvent
<1>4. \A x \in RunEvent : x.type = "run"
  BY DEF RunEvent
<1>5. ASSUME NEW i \in 1..N + 1, ~IsRun(events'[i]) PROVE i > 1 /\ IsRun(events'[i - 1])
  <2>1. CASE i = N + 1
    <3>1. e \in VerdictEvent
      BY <1>1, <1>4, <1>5, <2>1 DEF IsRun
    <3>2. N > 0 /\ Last(events) = events[N]
      BY <3>1, <1>0 DEF Last, LogOK
    <3>3. i - 1 = N /\ N \in 1..N
      BY <1>0, <2>1, <3>2
    <3> QED BY <1>1, <2>1, <3>1, <3>2, <3>3
  <2>2. CASE i # N + 1
    <3>1. i \in 1..N
      BY <1>0, <2>2
    <3>2. i > 1 /\ IsRun(events[i - 1])
      BY <1>0, <1>1, <1>5, <3>1 DEF LogOK
    <3>3. i - 1 \in 1..N
      BY <1>0, <3>1, <3>2
    <3> QED BY <1>1, <3>2, <3>3
  <2> QED BY <2>1, <2>2
<1>6. LogOK'
  <2>1. lost \subseteq 1..N /\ 1..N \subseteq 1..N + 1 /\ class \in [Task -> Class]
    BY <1>0 DEF LogOK
  <2> HIDE DEF N
  <2>2. lost' \subseteq 1..Len(events') /\ class' \in [Task -> Class]
    BY <1>1, <1>2, <2>1
  <2>3. \A i \in 1..Len(events') : ~IsRun(events'[i]) => i > 1 /\ IsRun(events'[i - 1])
    BY <1>1, <1>5
  <2> QED BY <1>1, <2>2, <2>3 DEF LogOK
<1>7. Changed' = Changed
  BY <1>2 DEF Changed
<1>8. UnreadDates' \subseteq UnreadDates \cup (IF Mishaps < MaxMishaps THEN {N + 1} ELSE {})
  <2>1. ASSUME NEW i \in UnreadDates' PROVE i \in UnreadDates \/ (i = N + 1 /\ Mishaps < MaxMishaps)
    <3>1. i \in 1..N + 1 /\ IsRun(events'[i]) /\ events'[i].public = Unread
      BY <1>1, <2>1 DEF UnreadDates
    <3>2. CASE i = N + 1
      <4>1. e \in RunEvent /\ e.public = Unread
        BY <1>1, <1>3, <3>1, <3>2 DEF IsRun
      <4> QED BY <4>1, <3>2
    <3>3. CASE i # N + 1
      <4>1. i \in 1..N
        BY <1>0, <3>1, <3>3
      <4> QED BY <4>1, <1>1, <3>1 DEF UnreadDates
    <3> QED BY <3>2, <3>3
  <2> QED BY <2>1
<1>9. /\ Cardinality(lost) \in Nat /\ Cardinality(UnreadDates) \in Nat /\ Cardinality(Changed) \in Nat
      /\ IsFiniteSet(UnreadDates) /\ Mishaps \in Nat
  BY <1>0, CountsAre
<1>10. /\ IsFiniteSet(UnreadDates') /\ Cardinality(UnreadDates') \in Nat
       /\ Cardinality(UnreadDates') <= Cardinality(UnreadDates) + (IF Mishaps < MaxMishaps THEN 1 ELSE 0)
  <2>1. CASE Mishaps < MaxMishaps
    <3> DEFINE T == UnreadDates \cup {N + 1}
    <3>1. IsFiniteSet(T) /\ Cardinality(T) <= Cardinality(UnreadDates) + 1 /\ Cardinality(T) \in Nat
      <4>1. IsFiniteSet(UnreadDates)
        BY <1>9
      <4>2. /\ IsFiniteSet(T)
            /\ Cardinality(T) = IF N + 1 \in UnreadDates THEN Cardinality(UnreadDates)
                                ELSE Cardinality(UnreadDates) + 1
        BY <4>1, FS_AddElement
      <4> HIDE DEF T
      <4> QED BY <4>2, <1>9
    <3>2. UnreadDates' \in SUBSET T
      BY <1>8, <2>1
    <3> HIDE DEF T
    <3>3. IsFiniteSet(UnreadDates') /\ Cardinality(UnreadDates') <= Cardinality(T)
      BY <3>1, <3>2, FS_Subset
    <3>4. Cardinality(UnreadDates') \in Nat
      BY <3>3, FS_CardinalityType
    <3> QED BY <3>1, <3>3, <3>4, <2>1, <1>9
  <2>2. CASE ~(Mishaps < MaxMishaps)
    <3>1. UnreadDates' \in SUBSET UnreadDates
      BY <1>8, <2>2
    <3>2. IsFiniteSet(UnreadDates') /\ Cardinality(UnreadDates') <= Cardinality(UnreadDates)
      BY <1>9, <3>1, FS_Subset
    <3>3. Cardinality(UnreadDates') \in Nat
      BY <3>2, FS_CardinalityType
    <3> QED BY <3>2, <3>3, <2>2, <1>9
  <2> QED BY <2>1, <2>2
<1>11. Mishaps' <= MaxMishaps
  <2>1. Mishaps = Cardinality(lost) + Cardinality(UnreadDates) + Cardinality(Changed)
    BY DEF Mishaps
  <2>2. Mishaps' = Cardinality(lost) + Cardinality(UnreadDates') + Cardinality(Changed)
    BY <1>2, <1>7 DEF Mishaps
  <2>3. Mishaps <= MaxMishaps /\ MaxMishaps \in Nat
    BY <1>0, ReportBounds DEF ReportInv
  <2> QED BY <2>1, <2>2, <2>3, <1>9, <1>10
<1> QED BY <1>0, <1>6, <1>7, <1>11 DEF ReportInv

LEMMA InvLaunch == ASSUME ReportInv, NEW cell \in Cells, Launch(cell) PROVE ReportInv'
<1>1. PICK date \in {PublicSince[cell.task], Unread}, cutoff \in Cutoffs[cell.arm] :
        /\ date = Unread => Mishaps < MaxMishaps
        /\ events' = Append(events, [type |-> "run", cell |-> cell, class |-> class[cell.task],
                                     model |-> ModelOf[cell.arm], cutoff |-> cutoff, public |-> date])
  BY DEF Launch
<1> DEFINE e == [type |-> "run", cell |-> cell, class |-> class[cell.task],
                 model |-> ModelOf[cell.arm], cutoff |-> cutoff, public |-> date]
<1>2. cell.task \in Task /\ cell.arm \in Arm
  BY DEF Task, Arm
<1>3. date \in Nat /\ cutoff \in Nat /\ class[cell.task] \in Class
  BY <1>2, TasksAssumption DEF ReportInv, LogOK, Unread
<1>4. e \in RunEvent /\ e.type = "run" /\ e.public = date
  BY <1>2, <1>3 DEF RunEvent
<1>5. events' = Append(events, e)
  BY <1>1
<1> HIDE DEF e
<1>6. e \notin VerdictEvent
  BY <1>4 DEF VerdictEvent
<1>7. UNCHANGED <<lost, class>>
  BY DEF Launch
<1> QED BY <1>1, <1>4, <1>5, <1>6, <1>7, InvAppend

LEMMA InvScore == ASSUME ReportInv, Score PROVE ReportInv'
<1>1. PICK v \in Reading :
        events' = Append(events, [type |-> "verdict", cell |-> Last(events).cell, reading |-> v])
  BY DEF Score
<1>2. events # << >> /\ IsRun(Last(events)) /\ UNCHANGED <<lost, class>>
  BY DEF Score
<1>3. Last(events).cell \in Cells
  <2>1. Len(events) \in 1..Len(events)
    BY <1>2 DEF ReportInv, LogOK
  <2> QED BY <2>1, EventIs DEF ReportInv, Last
<1> DEFINE e == [type |-> "verdict", cell |-> Last(events).cell, reading |-> v]
<1>4. e \in VerdictEvent /\ e.type = "verdict"
  BY <1>3 DEF VerdictEvent
<1>5. events' = Append(events, e)
  BY <1>1
<1> HIDE DEF e
<1>6. e \notin RunEvent
  BY <1>4 DEF RunEvent
<1> QED BY <1>2, <1>4, <1>5, <1>6, InvAppend

\* A mishap is counted once.
LEMMA InvLose == ASSUME ReportInv, Lose PROVE ReportInv'
<1>1. PICK i \in (1..Len(events)) \ lost : lost' = lost \cup {i}
  BY DEF Lose
<1>2. events' = events /\ class' = class /\ Mishaps < MaxMishaps
  BY DEF Lose
<1>3. LogOK'
  BY <1>1, <1>2 DEF ReportInv, LogOK, IsRun
<1>4. Changed' = Changed /\ UnreadDates' = UnreadDates
  BY <1>2 DEF Changed, UnreadDates, IsRun
<1>5. /\ Cardinality(lost) \in Nat /\ Cardinality(UnreadDates) \in Nat /\ Cardinality(Changed) \in Nat
      /\ IsFiniteSet(lost) /\ IsFiniteSet(Changed)
  BY CountsAre
<1>6. Cardinality(lost') = Cardinality(lost) + 1
  BY <1>1, <1>5, FS_AddElement
<1>7. Mishaps' <= MaxMishaps
  <2>1. Mishaps = Cardinality(lost) + Cardinality(UnreadDates) + Cardinality(Changed)
    BY DEF Mishaps
  <2>2. Mishaps' = Cardinality(lost') + Cardinality(UnreadDates) + Cardinality(Changed)
    BY <1>4 DEF Mishaps
  <2> QED BY <2>1, <2>2, <1>2, <1>5, <1>6, ReportBounds
<1> QED BY <1>3, <1>4, <1>5, <1>7 DEF ReportInv

LEMMA InvReclassify == ASSUME ReportInv, Reclassify PROVE ReportInv'
<1>1. PICK t \in Task, k \in Class : class' = [class EXCEPT ![t] = k]
  BY DEF Reclassify
<1>2. events' = events /\ lost' = lost /\ Mishaps < MaxMishaps
  BY DEF Reclassify
<1>3. class \in [Task -> Class] /\ class' \in [Task -> Class]
  BY <1>1 DEF ReportInv, LogOK
<1>4. LogOK'
  BY <1>2, <1>3 DEF ReportInv, LogOK, IsRun
<1>5. UnreadDates' = UnreadDates
  BY <1>2 DEF UnreadDates, IsRun
<1>6. Changed' \in SUBSET (Changed \cup {t})
  BY <1>1, <1>3 DEF Changed
<1>7. /\ Cardinality(lost) \in Nat /\ Cardinality(UnreadDates) \in Nat /\ Cardinality(Changed) \in Nat
      /\ IsFiniteSet(lost) /\ IsFiniteSet(Changed)
  BY CountsAre
<1>8. IsFiniteSet(Changed') /\ Cardinality(Changed') <= Cardinality(Changed) + 1 /\ Cardinality(Changed') \in Nat
  <2> DEFINE T == Changed \cup {t}
  <2>1. IsFiniteSet(T) /\ Cardinality(T) = IF t \in Changed THEN Cardinality(Changed) ELSE Cardinality(Changed) + 1
    BY <1>7, FS_AddElement
  <2>2. Changed' \in SUBSET T
    BY <1>6
  <2> HIDE DEF T
  <2>3. IsFiniteSet(Changed') /\ Cardinality(Changed') <= Cardinality(T)
    BY <2>1, <2>2, FS_Subset
  <2>4. Cardinality(Changed') \in Nat
    BY <2>3, FS_CardinalityType
  <2> QED BY <2>1, <2>3, <2>4, <1>7
<1>9. Mishaps' <= MaxMishaps
  <2>1. Mishaps = Cardinality(lost) + Cardinality(UnreadDates) + Cardinality(Changed)
    BY DEF Mishaps
  <2>2. Mishaps' = Cardinality(lost) + Cardinality(UnreadDates) + Cardinality(Changed')
    BY <1>2, <1>5 DEF Mishaps
  <2> QED BY <2>1, <2>2, <1>2, <1>7, <1>8, ReportBounds
<1> QED BY <1>4, <1>8, <1>9 DEF ReportInv

LEMMA InvNext == ReportInv /\ [Next]_vars => ReportInv'
<1> SUFFICES ASSUME ReportInv, [Next]_vars PROVE ReportInv'
  OBVIOUS
<1>1. CASE Next
  BY <1>1, InvLaunch, InvScore, InvLose, InvReclassify DEF Next
<1>2. CASE UNCHANGED vars
  <2>1. events' = events /\ lost' = lost /\ class' = class
    BY <1>2 DEF vars
  <2>2. LogOK'
    BY <2>1 DEF ReportInv, LogOK, IsRun
  <2>3. Changed' = Changed /\ UnreadDates' = UnreadDates
    BY <2>1 DEF Changed, UnreadDates, IsRun
  <2>4. Mishaps' = Mishaps
    BY <2>1, <2>3 DEF Mishaps
  <2> QED BY <2>2, <2>3, <2>4 DEF ReportInv
<1> QED BY <1>1, <1>2

LEMMA Invariance == Spec => []ReportInv
BY InvInit, InvNext, PTL DEF Spec

\* What Runs makes of the log is, of each cell, the last run that can be read with the last
\* verdict behind it, for any log, any lines lost and any cells (fold.go:203-233).
THEOREM RunsAgree == Spec => []FoldAgrees
<1>1. ReportInv => FoldAgrees
  BY RunsAre DEF ReportInv
<1> QED BY <1>1, Invariance, PTL

-----------------------------------------------------------------------------
(* Records *)

LEMMA RecordFacts ==
  ASSUME LogOK
  PROVE  /\ \A rec \in Records :
              /\ rec = [run |-> rec.run, verdict |-> rec.verdict]
              /\ rec.run \in 1..Len(events) /\ rec.run \in Nat
              /\ IsRun(Run(rec)) /\ Run(rec) \in RunEvent
              /\ rec.verdict # 0 =>
                   /\ rec.verdict \in 1..Len(events) /\ rec.verdict > rec.run
                   /\ Verdict(rec) \in Reading
         /\ \A x, y \in Records : x.run = y.run => x = y
         /\ Records = Runs(events, lost)
<1>1. Records = Runs(events, lost)
  BY RunsAre DEF FoldAgrees
<1>2. Len(events) \in Nat
  BY EventIs
<1>3. ASSUME NEW rec \in Records
      PROVE  /\ rec = [run |-> rec.run, verdict |-> rec.verdict]
             /\ rec.run \in Current(events, lost)
             /\ IF VerdictsOf(events, lost, rec.run) = {} THEN rec.verdict = 0
                ELSE IsLast(rec.verdict, VerdictsOf(events, lost, rec.run))
  <2>0. PICK i \in Current(events, lost) : \E v :
          /\ rec = [run |-> i, verdict |-> v]
          /\ IF VerdictsOf(events, lost, i) = {} THEN v = 0 ELSE IsLast(v, VerdictsOf(events, lost, i))
    BY <1>1, <1>3 DEF Runs, IsLast
  <2>1. PICK v :
          /\ rec = [run |-> i, verdict |-> v]
          /\ IF VerdictsOf(events, lost, i) = {} THEN v = 0 ELSE IsLast(v, VerdictsOf(events, lost, i))
    BY <2>0
  <2>2. rec.run = i /\ rec.verdict = v
    BY <2>1
  <2> QED BY <2>1, <2>2
<1>4. \A i \in Current(events, lost) : i \in 1..Len(events) /\ IsRun(events[i])
  BY UsableIs DEF Current
<1>5. \A i : \A v \in VerdictsOf(events, lost, i) :
         v \in 1..Len(events) /\ ~IsRun(events[v]) /\ i < v
  BY UsableIs DEF VerdictsOf
<1>6. \A i \in 1..Len(events) : ~IsRun(events[i]) => events[i].reading \in Reading
  BY EventIs DEF VerdictEvent
<1>7. ASSUME NEW rec \in Records
      PROVE  /\ rec.run \in 1..Len(events) /\ rec.run \in Nat
             /\ IsRun(Run(rec)) /\ Run(rec) \in RunEvent
  <2>1. rec.run \in 1..Len(events) /\ IsRun(events[rec.run])
    BY <1>3, <1>4
  <2>2. events[rec.run] \in RunEvent
    BY <2>1, EventIs
  <2> QED BY <1>2, <2>1, <2>2 DEF Run
<1>8. ASSUME NEW rec \in Records, rec.verdict # 0
      PROVE  /\ rec.verdict \in 1..Len(events) /\ rec.verdict > rec.run
             /\ Verdict(rec) \in Reading
  <2>1. rec.verdict \in VerdictsOf(events, lost, rec.run)
    BY <1>3, <1>8 DEF IsLast
  <2>2. rec.verdict \in 1..Len(events) /\ ~IsRun(events[rec.verdict]) /\ rec.run < rec.verdict
    BY <2>1, <1>5
  <2>3. Verdict(rec) \in Reading
    BY <2>2, <1>6 DEF Verdict
  <2> QED BY <2>2, <2>3, <1>7, <1>2
<1>9. ASSUME NEW x \in Records, NEW y \in Records, x.run = y.run PROVE x = y
  <2>1. x.verdict = y.verdict
    <3>1. CASE VerdictsOf(events, lost, x.run) = {}
      BY <1>3, <1>9, <3>1
    <3>2. CASE VerdictsOf(events, lost, x.run) # {}
      <4>1. /\ IsLast(x.verdict, VerdictsOf(events, lost, x.run))
            /\ IsLast(y.verdict, VerdictsOf(events, lost, x.run))
        BY <1>3, <1>9, <3>2
      <4>2. x.verdict \in Nat /\ y.verdict \in Nat /\ x.verdict <= y.verdict /\ y.verdict <= x.verdict
        BY <4>1, <1>2, <1>5 DEF IsLast
      <4> QED BY <4>2
    <3> QED BY <3>1, <3>2
  <2>2. x = [run |-> x.run, verdict |-> x.verdict] /\ y = [run |-> y.run, verdict |-> y.verdict]
    BY <1>3
  <2> QED BY <2>1, <2>2, <1>9
<1>10. \A rec \in Records : rec = [run |-> rec.run, verdict |-> rec.verdict]
  BY <1>3
<1> QED BY <1>1, <1>7, <1>8, <1>9, <1>10

LEMMA TypeHolds ==
  ASSUME ReportInv
  PROVE  TypeOK
<1>1. LogOK /\ Len(events) \in Nat
  BY EventIs DEF ReportInv
<1>2. ASSUME NEW i \in 1..Len(events)
      PROVE  /\ events[i].type \in {"run", "verdict"} /\ events[i].cell \in Cells
             /\ ~IsRun(events[i]) => IsRun(events[i - 1]) /\ events[i].reading \in Reading
  <2>1. ~IsRun(events[i]) => events[i].reading \in Reading
    BY <1>1, EventIs DEF VerdictEvent
  <2>2. ~IsRun(events[i]) => IsRun(events[i - 1])
    BY <1>1 DEF LogOK
  <2>3. events[i].type \in {"run", "verdict"} /\ events[i].cell \in Cells
    BY <1>1, EventIs
  <2> QED BY <2>1, <2>2, <2>3
<1>3. ASSUME NEW rec \in Records
      PROVE  IsRun(Run(rec)) /\ rec.verdict \in {0} \cup (rec.run + 1)..Len(events)
  <2>1. /\ rec.run \in Nat /\ IsRun(Run(rec))
        /\ rec.verdict # 0 => rec.verdict \in 1..Len(events) /\ rec.verdict > rec.run
    BY <1>1, RecordFacts
  <2>2. rec.verdict # 0 => rec.verdict \in (rec.run + 1)..Len(events)
    BY <1>1, <2>1
  <2> QED BY <2>1, <2>2
<1>4. lost \subseteq 1..Len(events) /\ class \in [Task -> Class] /\ Mishaps <= MaxMishaps
  BY DEF ReportInv, LogOK
<1> QED BY <1>2, <1>3, <1>4 DEF TypeOK

-----------------------------------------------------------------------------
(* Rows *)

LEMMA RowsOfArm ==
  ASSUME LogOK, NEW scope, NEW arm
  PROVE  {rec.run : rec \in ArmRuns(scope, arm)} =
           {i \in Ended(events, lost) :
              /\ events[i].cell.corpus = Corpus /\ events[i].cell.arm = arm
              /\ events[i].cell.task \in scope}
<1>1. Records = Runs(events, lost)
  BY RecordFacts
<1>2. Ended(events, lost) = {rec.run : rec \in WithVerdict}
  BY <1>1 DEF Ended, WithVerdict
<1> QED BY <1>2 DEF ArmRuns, Scored, Run

\* Every ended run is in the rows it belongs in and in no other, for any tasks, classes and arms,
\* and whatever class a task was moved to in between (report.go:84-86, 107-138).
THEOREM RowsHold == Spec => []RowsAddUp
<1>1. ASSUME ReportInv PROVE RowsAddUp
  <2> SUFFICES ASSUME NEW scope \in Scopes, NEW arm \in Arm
               PROVE  LET ended == {i \in Ended(events, lost) :
                              /\ events[i].cell.corpus = Corpus /\ events[i].cell.arm = arm
                              /\ events[i].cell.task \in scope}
                          rows == {k \in ClassesInScope(scope) : ClassRuns(scope, arm, k) # {}} IN
                      /\ {rec.run : rec \in ArmRuns(scope, arm)} = ended
                      /\ \A k \in rows : ClassRuns(scope, arm, k) \subseteq ArmRuns(scope, arm)
                      /\ (\A i \in ended : events[i].class = class[events[i].cell.task])
                           => \A rec \in ArmRuns(scope, arm) : \E k \in rows : \A l \in rows :
                                rec \in ClassRuns(scope, arm, l) <=> l = k
    BY DEF RowsAddUp
  <2> DEFINE ended == {i \in Ended(events, lost) :
                         /\ events[i].cell.corpus = Corpus /\ events[i].cell.arm = arm
                         /\ events[i].cell.task \in scope}
             rows == {k \in ClassesInScope(scope) : ClassRuns(scope, arm, k) # {}}
  <2>1. {rec.run : rec \in ArmRuns(scope, arm)} = ended
    BY <1>1, RowsOfArm DEF ReportInv
  <2>2. \A k : ClassRuns(scope, arm, k) \subseteq ArmRuns(scope, arm)
    BY DEF ClassRuns
  <2>3. ASSUME \A i \in ended : events[i].class = class[events[i].cell.task],
               NEW rec \in ArmRuns(scope, arm)
        PROVE  \E k \in rows : \A l \in rows : rec \in ClassRuns(scope, arm, l) <=> l = k
    <3>1. rec.run \in ended
      BY <2>1
    <3>2. Run(rec).class = class[Run(rec).cell.task]
      BY <2>3, <3>1 DEF Run
    <3>3. Run(rec).cell.task \in scope
      BY DEF ArmRuns, Scored
    <3>4. \A l : rec \in ClassRuns(scope, arm, l) <=> l = Run(rec).class
      BY DEF ClassRuns
    <3>5. Run(rec).class \in ClassesInScope(scope)
      BY <3>2, <3>3 DEF ClassesInScope
    <3>6. Run(rec).class \in rows
      BY <3>4, <3>5
    <3> QED BY <3>4, <3>6
  <2> QED BY <2>1, <2>2, <2>3
<1> QED BY <1>1, Invariance, PTL

-----------------------------------------------------------------------------
(* Refusals *)

\* A reading of the column by a run of the class: what a column of a row must rest on.
ReadBy(scope, arm, k, col) ==
  \E r \in Runs(events, lost) :
    /\ r.verdict # 0 /\ events[r.run].class = k
    /\ events[r.run].cell.corpus = Corpus /\ events[r.run].cell.arm = arm
    /\ events[r.run].cell.task \in scope
    /\ col = "pass_rate" \/ events[r.verdict].reading[col] # Unknown

LEMMA KnownIs ==
  ASSUME LogOK, NEW scope, NEW arm, NEW k, NEW col
  PROVE  Known(ClassRuns(scope, arm, k), col) # {} <=> ReadBy(scope, arm, k, col)
<1>1. Records = Runs(events, lost)
  BY RecordFacts
<1>2. \A rec : Value(rec, col) # Unknown <=> col = "pass_rate" \/ events[rec.verdict].reading[col] # Unknown
  <2>1. ASSUME NEW rec, col = "pass_rate" PROVE Value(rec, col) \in {0, 1} /\ Value(rec, col) # Unknown
    BY <2>1 DEF Value, Unknown
  <2>2. ASSUME NEW rec, col # "pass_rate" PROVE Value(rec, col) = events[rec.verdict].reading[col]
    BY <2>2 DEF Value, Verdict
  <2> QED BY <2>1, <2>2
<1>3. \A rec : rec \in Known(ClassRuns(scope, arm, k), col) <=>
         /\ rec \in Runs(events, lost) /\ rec.verdict # 0 /\ events[rec.run].class = k
         /\ events[rec.run].cell.corpus = Corpus /\ events[rec.run].cell.arm = arm
         /\ events[rec.run].cell.task \in scope
         /\ Value(rec, col) # Unknown
  BY <1>1 DEF Known, ClassRuns, ArmRuns, Scored, WithVerdict, Run
<1> QED BY <1>2, <1>3 DEF ReadBy

\* Nothing is refused when there is an arm, and no arm, class or column is.
LEMMA NoRefusal ==
  ASSUME NEW scope, NEW asked
  PROVE  Refusals(scope, asked) = {} <=>
           /\ Arms(scope, asked) # {}
           /\ \A arm \in Arms(scope, asked) :
                /\ ArmRuns(scope, arm) # {} /\ Refused(ArmRuns(scope, arm)) = {}
                /\ \A k \in ClassesInScope(scope) :
                     ClassRuns(scope, arm, k) # {} /\ Refused(ClassRuns(scope, arm, k)) = {}
<1> DEFINE arms == Arms(scope, asked)
           filled == {arm \in arms : ArmRuns(scope, arm) # {}}
           none == IF arms = {} THEN {<<>>} ELSE {}
           empty == {<<arm>> : arm \in arms \ filled}
           row(arm, k) == IF ClassRuns(scope, arm, k) = {} THEN {<<arm, k>>}
                          ELSE {<<arm, k, col>> : col \in Refused(ClassRuns(scope, arm, k))}
           total(arm) == {<<arm, "all", col>> : col \in Refused(ArmRuns(scope, arm))}
           all == UNION {total(arm) : arm \in filled}
           classes == UNION {UNION {row(arm, k) : k \in ClassesInScope(scope)} : arm \in filled}
<1>1. Refusals(scope, asked) = none \cup empty \cup all \cup classes
  BY Zenon DEF Refusals
<1>2. none = {} <=> arms # {}
  OBVIOUS
<1>3. empty = {} <=> \A arm \in arms : ArmRuns(scope, arm) # {}
  OBVIOUS
<1>4. all = {} <=> \A arm \in filled : Refused(ArmRuns(scope, arm)) = {}
  <2>1. \A arm : total(arm) = {} <=> Refused(ArmRuns(scope, arm)) = {}
    OBVIOUS
  <2> HIDE DEF total
  <2> QED BY <2>1
<1>5. \A arm, k : row(arm, k) = {} <=>
         ClassRuns(scope, arm, k) # {} /\ Refused(ClassRuns(scope, arm, k)) = {}
  OBVIOUS
<1> HIDE DEF row
<1>6. classes = {} <=> \A arm \in filled, k \in ClassesInScope(scope) : row(arm, k) = {}
  OBVIOUS
<1> HIDE DEF none, empty, all, classes
<1> QED BY <1>1, <1>2, <1>3, <1>4, <1>5, <1>6

\* A report is refused exactly when a column of it would rest on no run, for any tasks, classes,
\* arms and readings (report.go:37-38, 100-143).
THEOREM RefusalsAreExact == Spec => []RefusesExactly
<1>1. ASSUME ReportInv PROVE RefusesExactly
  <2>0. LogOK
    BY <1>1 DEF ReportInv
  <2> SUFFICES ASSUME NEW scope \in Scopes, NEW asked \in Asked
               PROVE  Refusals(scope, asked) = {} <=>
                        /\ Arms(scope, asked) # {}
                        /\ \A arm \in Arms(scope, asked), k \in ClassesInScope(scope), col \in Columns :
                             ReadBy(scope, arm, k, col)
    BY DEF RefusesExactly, ReadBy
  <2>1. \A arm, k, col : Known(ClassRuns(scope, arm, k), col) # {} <=> ReadBy(scope, arm, k, col)
    BY <2>0, KnownIs
  <2>2. ASSUME Refusals(scope, asked) = {}
        PROVE  /\ Arms(scope, asked) # {}
               /\ \A arm \in Arms(scope, asked), k \in ClassesInScope(scope), col \in Columns :
                    ReadBy(scope, arm, k, col)
    <3>1. /\ Arms(scope, asked) # {}
          /\ \A arm \in Arms(scope, asked), k \in ClassesInScope(scope) :
               Refused(ClassRuns(scope, arm, k)) = {}
      BY <2>2, NoRefusal
    <3> QED BY <2>1, <3>1 DEF Refused
  <2>3. ASSUME Arms(scope, asked) # {},
               \A arm \in Arms(scope, asked), k \in ClassesInScope(scope), col \in Columns :
                 ReadBy(scope, arm, k, col)
        PROVE  Refusals(scope, asked) = {}
    <3>1. "pass_rate" \in Columns
      BY DEF Columns
    <3>2. ASSUME NEW arm \in Arms(scope, asked), NEW k \in ClassesInScope(scope)
          PROVE  /\ Refused(ClassRuns(scope, arm, k)) = {} /\ ClassRuns(scope, arm, k) # {}
                 /\ Refused(ArmRuns(scope, arm)) = {} /\ ArmRuns(scope, arm) # {}
      <4>1. \A col \in Columns : Known(ClassRuns(scope, arm, k), col) # {}
        BY <2>1, <2>3
      <4>2. \A col : /\ Known(ClassRuns(scope, arm, k), col) \subseteq ClassRuns(scope, arm, k)
                     /\ Known(ClassRuns(scope, arm, k), col) \subseteq Known(ArmRuns(scope, arm), col)
                     /\ ClassRuns(scope, arm, k) \subseteq ArmRuns(scope, arm)
        BY DEF Known, ClassRuns
      <4>3. \A col \in Columns : Known(ArmRuns(scope, arm), col) # {}
        BY <4>1, <4>2
      <4> QED BY <3>1, <4>1, <4>2, <4>3 DEF Refused
    <3>3. ASSUME NEW arm \in Arms(scope, asked) PROVE ClassesInScope(scope) # {}
      <4>1. Task # {}
        <5>1. CASE asked = {}
          <6>1. PICK rec \in Scored(scope) : TRUE
            BY <3>3, <5>1 DEF Arms
          <6>2. rec \in Records
            BY DEF Scored, WithVerdict
          <6>3. Run(rec).cell \in Cells
            BY <2>0, <6>2, RecordFacts DEF RunEvent
          <6> QED BY <6>3 DEF Task
        <5>2. CASE asked # {}
          <6>1. arm \in Arm
            BY <3>3, <5>2 DEF Arms, Asked
          <6> QED BY <6>1 DEF Arm, Task
        <5> QED BY <5>1, <5>2
      <4>2. scope # {}
        BY <4>1 DEF Scopes
      <4> QED BY <4>2 DEF ClassesInScope
    <3>4. \A arm \in Arms(scope, asked) : Refused(ArmRuns(scope, arm)) = {} /\ ArmRuns(scope, arm) # {}
      BY <3>2, <3>3
    <3> QED BY <2>3, <3>2, <3>4, NoRefusal
  <2> QED BY <2>2, <2>3
<1> QED BY <1>1, Invariance, PTL

-----------------------------------------------------------------------------
(* Records in order *)

\* s is of the records, each once, and never goes down in the key.
Ordered(s, recs, key) ==
  /\ s \in [1..Cardinality(recs) -> recs]
  /\ \A i, j \in 1..Cardinality(recs) : s[i] = s[j] => i = j
  /\ \A x \in recs : \E i \in 1..Cardinality(recs) : s[i] = x
  /\ \A i, j \in 1..Cardinality(recs) : i <= j => key[s[i]] <= key[s[j]]

LEMMA InOrderIs ==
  ASSUME NEW recs, IsFiniteSet(recs), \A x \in recs : x.run \in Nat,
         \A x, y \in recs : x.run = y.run => x = y, NEW key \in [recs -> Int]
  PROVE  Ordered(InOrder(recs, key), recs, key)
<1> DEFINE n == Cardinality(recs)
           LE(y, x) == key[y] < key[x] \/ (key[y] = key[x] /\ y.run <= x.run)
           Below(x) == {y \in recs : LE(y, x)}
           rank == [x \in recs |-> Cardinality(Below(x))]
           s == InOrder(recs, key)
<1>1. n \in Nat
  BY FS_CardinalityType
<1>2. \A x \in recs : key[x] \in Int /\ x.run \in Nat
  OBVIOUS
<1>3. /\ \A x, y \in recs : LE(x, y) \/ LE(y, x)
      /\ \A x, y \in recs : LE(x, y) /\ LE(y, x) => x = y
      /\ \A x, y, z \in recs : LE(x, y) /\ LE(y, z) => LE(x, z)
      /\ \A x, y \in recs : LE(x, y) => key[x] <= key[y]
      /\ \A x \in recs : LE(x, x)
  BY <1>2
<1> HIDE DEF LE
<1>4. ASSUME NEW x \in recs
      PROVE  IsFiniteSet(Below(x)) /\ rank[x] \in 1..n /\ rank[x] \in Nat
  <2>1. Below(x) \in SUBSET recs /\ x \in Below(x) /\ rank[x] = Cardinality(Below(x))
    BY <1>3
  <2> HIDE DEF Below
  <2>2. IsFiniteSet(Below(x)) /\ Cardinality(Below(x)) <= n
    BY <2>1, FS_Subset
  <2>3. Cardinality(Below(x)) \in Nat /\ Cardinality(Below(x)) # 0
    BY <2>1, <2>2, FS_CardinalityType, FS_EmptySet
  <2> HIDE DEF n, rank
  <2> QED BY <2>1, <2>2, <2>3, <1>1
<1>5. ASSUME NEW x \in recs, NEW y \in recs, LE(y, x), x # y PROVE rank[y] < rank[x]
  <2>1. Below(y) \in SUBSET Below(x) /\ x \in Below(x) /\ x \notin Below(y)
    BY <1>3, <1>5
  <2>2. IsFiniteSet(Below(x)) /\ rank[x] = Cardinality(Below(x)) /\ rank[y] = Cardinality(Below(y))
    BY <1>4
  <2> HIDE DEF Below, rank
  <2>3. Cardinality(Below(y)) <= Cardinality(Below(x)) /\ Cardinality(Below(y)) # Cardinality(Below(x))
    BY <2>1, <2>2, FS_Subset
  <2>4. rank[x] \in Nat /\ rank[y] \in Nat
    BY <1>4
  <2> QED BY <2>2, <2>3, <2>4
<1>6. rank \in Injection(recs, 1..n)
  <2>1. rank \in [recs -> 1..n]
    <3>1. rank = [x \in recs |-> rank[x]]
      OBVIOUS
    <3> HIDE DEF rank, n
    <3> QED BY <3>1, <1>4
  <2>2. \A x, y \in recs : rank[x] = rank[y] => x = y
    <3> HIDE DEF rank, n
    <3>1. \A x, y \in recs : x # y => rank[x] < rank[y] \/ rank[y] < rank[x]
      BY <1>3, <1>5
    <3>2. \A x \in recs : rank[x] \in Nat
      BY <1>4
    <3> QED BY <3>1, <3>2
  <2> HIDE DEF rank, n
  <2> QED BY <2>1, <2>2 DEF Injection, IsInjective
<1>7. \A i \in 1..n : \E x \in recs : rank[x] = i
  <2> HIDE DEF rank
  <2>1. IsFiniteSet(1..n) /\ Cardinality(1..n) = n
    BY <1>1, FS_Interval
  <2>2. rank \in Surjection(recs, 1..n)
    BY <1>6, <2>1, FS_Injection
  <2> QED BY <2>2 DEF Surjection
<1>8. s = [i \in 1..n |-> CHOOSE x \in recs : Cardinality(Below(x)) = i]
  BY Zenon DEF InOrder, LE
<1>9. ASSUME NEW i \in 1..n PROVE s[i] \in recs /\ rank[s[i]] = i
  <2>1. s[i] = CHOOSE x \in recs : Cardinality(Below(x)) = i
    BY <1>8
  <2>2. \E x \in recs : Cardinality(Below(x)) = i
    BY <1>7
  <2> HIDE DEF s, Below
  <2> QED BY <2>1, <2>2
<1>10. s \in [1..n -> recs]
  <2> HIDE DEF Below, n
  <2> QED BY <1>8, <1>9
<1> HIDE DEF s, rank
<1>11. \A i, j \in 1..n : s[i] = s[j] => i = j
  BY <1>9
<1>12. \A x \in recs : \E i \in 1..n : s[i] = x
  <2>1. \A x \in recs : rank[x] \in 1..n
    BY <1>4
  <2>2. \A x, y \in recs : rank[x] = rank[y] => x = y
    BY <1>6 DEF Injection, IsInjective, rank
  <2> HIDE DEF n
  <2> QED BY <2>1, <2>2, <1>9
<1>13. ASSUME NEW i \in 1..n, NEW j \in 1..n, i <= j PROVE key[s[i]] <= key[s[j]]
  <2>1. s[i] \in recs /\ s[j] \in recs /\ rank[s[i]] = i /\ rank[s[j]] = j
    BY <1>9
  <2>2. i \in Nat /\ j \in Nat
    BY <1>1
  <2>3. LE(s[i], s[j])
    <3>1. CASE s[i] = s[j]
      BY <3>1, <2>1, <1>3
    <3>2. CASE s[i] # s[j]
      <4>1. ~LE(s[j], s[i])
        BY <3>2, <2>1, <2>2, <1>5, <1>13
      <4> QED BY <4>1, <2>1, <1>3
    <3> QED BY <3>1, <3>2
  <2> QED BY <2>1, <2>3, <1>3
<1> QED BY <1>10, <1>11, <1>12, <1>13 DEF Ordered, s

\* What a stretch of the order covers is as many as the stretch is long, what it is within no more.
LEMMA Stretch ==
  ASSUME NEW recs, IsFiniteSet(recs), NEW s, NEW key, Ordered(s, recs, key), NEW T \in SUBSET recs,
         NEW a \in Nat, NEW b \in Nat, 1 <= a, a <= b + 1, b <= Cardinality(recs)
  PROVE  /\ Cardinality(T) \in Nat
         /\ (\A i \in a..b : s[i] \in T) => Cardinality(T) >= b - a + 1
         /\ (\A z \in T : \E i \in a..b : s[i] = z) => Cardinality(T) <= b - a + 1
<1>0. Cardinality(recs) \in Nat
  BY FS_CardinalityType
<1>1. IsFiniteSet(T) /\ Cardinality(T) \in Nat
  BY FS_Subset, FS_CardinalityType
<1>2. IsFiniteSet(a..b) /\ Cardinality(a..b) = b - a + 1
  <2>1. IsFiniteSet(a..b) /\ Cardinality(a..b) = IF a > b THEN 0 ELSE b - a + 1
    BY FS_Interval
  <2>2. a > b => b - a + 1 = 0
    OBVIOUS
  <2> QED BY <2>1, <2>2
<1>3. a..b \subseteq 1..Cardinality(recs)
  BY <1>0
<1>4. \A i, j \in a..b : s[i] = s[j] => i = j
  BY <1>3 DEF Ordered
<1>5. ASSUME \A i \in a..b : s[i] \in T PROVE Cardinality(T) >= b - a + 1
  <2> DEFINE f == [i \in a..b |-> s[i]]
  <2>1. f \in Injection(a..b, T)
    BY <1>4, <1>5 DEF Injection, IsInjective
  <2> HIDE DEF f
  <2>2. Cardinality(a..b) <= Cardinality(T)
    BY <2>1, <1>1, FS_Injection
  <2> QED BY <2>2, <1>1, <1>2
<1>6. ASSUME \A z \in T : \E i \in a..b : s[i] = z PROVE Cardinality(T) <= b - a + 1
  <2> DEFINE g == [z \in T |-> CHOOSE i \in a..b : s[i] = z]
  <2>1. \A z \in T : g[z] \in a..b /\ s[g[z]] = z
    BY <1>6
  <2>2. g \in [T -> a..b]
    BY <2>1
  <2> HIDE DEF g
  <2>3. g \in Injection(T, a..b)
    BY <2>1, <2>2 DEF Injection, IsInjective
  <2>4. Cardinality(T) <= Cardinality(a..b)
    BY <2>3, <1>2, FS_Injection
  <2> QED BY <2>4, <1>1, <1>2
<1> QED BY <1>1, <1>5, <1>6

-----------------------------------------------------------------------------
(* Sums *)

\* The running sum of n numbers.
IsSum(g, s, n) ==
  g \in [0..n -> Nat] /\ g[0] = 0 /\ \A i \in 1..n : g[i] = g[i - 1] + s[i]

LEMMA SumIs ==
  ASSUME NEW n \in Nat, NEW s, s \in [1..n -> Nat], Len(s) = n
  PROVE  \E g : IsSum(g, s, n) /\ SumSeq(s) = g[n]
<1> DEFINE step == [i \in 1..n |-> [x \in Nat |-> x + s[i]]]
           Sum[i \in 0..Len(s)] == IF i = 0 THEN 0 ELSE Sum[i - 1] + s[i]
<1>1. step \in [1..n -> [Nat -> Nat]]
  OBVIOUS
<1>2. Sum = [i \in 0..Len(s) |-> IF i = 0 THEN 0 ELSE Sum[i - 1] + s[i]]
  <2>1. PICK g : IsLoop(g, Nat, n, 0, step)
    BY <1>1, LoopExists
  <2>2. g = [i \in 0..Len(s) |-> IF i = 0 THEN 0 ELSE g[i - 1] + s[i]]
    <3>1. g \in [0..n -> Nat] /\ g[0] = 0
      BY <2>1 DEF IsLoop
    <3>2. ASSUME NEW i \in 0..n, i # 0 PROVE g[i] = g[i - 1] + s[i]
      <4>1. i \in 1..n /\ i - 1 \in 0..n
        BY <3>2
      <4>2. g[i] = step[i][g[i - 1]] /\ g[i - 1] \in Nat
        BY <2>1, <3>1, <4>1 DEF IsLoop
      <4> QED BY <4>1, <4>2
    <3> QED BY <3>1, <3>2
  <2> QED BY <2>2
<1>3. SumSeq(s) = Sum[n]
  BY DEF SumSeq
<1> HIDE DEF Sum, step
<1>4. \A i \in 0..n : Sum[i] = IF i = 0 THEN 0 ELSE Sum[i - 1] + s[i]
  BY <1>2
<1>5. Sum[0] = 0 /\ \A i \in 1..n : Sum[i] = Sum[i - 1] + s[i]
  BY <1>4
<1> DEFINE S == {i \in 0..n : Sum[i] \in Nat}
<1>6. 0..n \subseteq S
  <2>1. 0 \in S
    BY <1>5
  <2>2. ASSUME NEW i \in 1..n, i - 1 \in S PROVE i \in S
    BY <1>5, <2>2
  <2> HIDE DEF S
  <2> QED BY <2>1, <2>2, CountUp
<1>7. Sum \in [0..n -> Nat]
  BY <1>2, <1>6
<1> QED BY <1>3, <1>5, <1>7 DEF IsSum

LEMMA SumBounds ==
  ASSUME NEW n \in Nat, NEW s, s \in [1..n -> Nat], Len(s) = n, NEW lo \in Nat, NEW hi \in Nat,
         \A i \in 1..n : lo <= s[i] /\ s[i] <= hi
  PROVE  SumSeq(s) \in Nat /\ lo * n <= SumSeq(s) /\ SumSeq(s) <= hi * n
<1>1. PICK g : IsSum(g, s, n) /\ SumSeq(s) = g[n]
  BY SumIs
<1> DEFINE S == {i \in 0..n : g[i] \in Nat /\ lo * i <= g[i] /\ g[i] <= hi * i}
<1>2. 0 \in S
  BY <1>1 DEF IsSum
<1>3. ASSUME NEW i \in 1..n, i - 1 \in S PROVE i \in S
  <2>1. g[i] = g[i - 1] + s[i] /\ s[i] \in Nat
    BY <1>1 DEF IsSum
  <2>2. g[i - 1] \in Nat /\ lo * (i - 1) <= g[i - 1] /\ g[i - 1] <= hi * (i - 1)
    BY <1>3
  <2>3. /\ lo * i = lo * (i - 1) + lo /\ hi * i = hi * (i - 1) + hi
        /\ lo * (i - 1) \in Nat /\ hi * (i - 1) \in Nat
    OBVIOUS
  <2>4. lo * i <= g[i] /\ g[i] <= hi * i /\ g[i] \in Nat
    BY <2>1, <2>2, <2>3
  <2> QED BY <2>4
<1> HIDE DEF S
<1>4. 0..n \subseteq S
  BY <1>2, <1>3, CountUp
<1> QED BY <1>1, <1>4 DEF S

\* A sum of noughts and ones is how many ones there are.
LEMMA SumOfOnes ==
  ASSUME NEW n \in Nat, NEW s, s \in [1..n -> {0, 1}], Len(s) = n
  PROVE  SumSeq(s) = Cardinality({i \in 1..n : s[i] = 1})
<1>0. s \in [1..n -> Nat]
  OBVIOUS
<1>1. PICK g : IsSum(g, s, n) /\ SumSeq(s) = g[n]
  BY <1>0, SumIs
<1> DEFINE Ones(i) == {j \in 1..i : s[j] = 1}
           S == {i \in 0..n : g[i] = Cardinality(Ones(i)) /\ IsFiniteSet(Ones(i))}
<1>2. 0 \in S
  <2>1. Ones(0) = {}
    OBVIOUS
  <2> QED BY <2>1, <1>1, FS_EmptySet DEF IsSum
<1>3. ASSUME NEW i \in 1..n, i - 1 \in S PROVE i \in S
  <2>1. g[i] = g[i - 1] + s[i] /\ s[i] \in {0, 1} /\ g[i - 1] \in Nat
    BY <1>1 DEF IsSum
  <2>2. g[i - 1] = Cardinality(Ones(i - 1)) /\ IsFiniteSet(Ones(i - 1)) /\ i \notin Ones(i - 1)
    BY <1>3
  <2>3. Ones(i) = IF s[i] = 1 THEN Ones(i - 1) \cup {i} ELSE Ones(i - 1)
    <3>1. \A j : j \in 1..i <=> j \in 1..(i - 1) \/ j = i
      OBVIOUS
    <3> QED BY <3>1
  <2> HIDE DEF Ones
  <2>4. IsFiniteSet(Ones(i - 1) \cup {i}) /\ Cardinality(Ones(i - 1) \cup {i}) = Cardinality(Ones(i - 1)) + 1
    BY <2>2, FS_AddElement
  <2>5. CASE s[i] = 1
    <3>1. g[i] = Cardinality(Ones(i)) /\ IsFiniteSet(Ones(i))
      BY <2>1, <2>2, <2>3, <2>4, <2>5
    <3> QED BY <3>1
  <2>6. CASE s[i] = 0
    <3>1. g[i] = Cardinality(Ones(i)) /\ IsFiniteSet(Ones(i))
      BY <2>1, <2>2, <2>3, <2>6
    <3> QED BY <3>1
  <2> QED BY <2>1, <2>5, <2>6
<1> HIDE DEF S, Ones
<1>4. 0..n \subseteq S
  BY <1>2, <1>3, CountUp
<1>5. g[n] = Cardinality(Ones(n))
  BY <1>4 DEF S
<1> QED BY <1>1, <1>5 DEF Ones

-----------------------------------------------------------------------------
(* The values of a column *)

\* Numbers in order, at least one.
Rising(v, n) ==
  /\ n \in Nat \ {0} /\ v \in [1..n -> Nat] /\ Len(v) = n
  /\ \A i, j \in 1..n : i <= j => v[i] <= v[j]

LEMMA Halves ==
  ASSUME NEW n \in Nat \ {0}
  PROVE  /\ n % 2 \in {0, 1} /\ n \div 2 \in Nat /\ n = 2 * (n \div 2) + (n % 2)
         /\ n \div 2 + 1 \in 1..n /\ (n % 2 = 0 => n \div 2 \in 1..n)
<1>1. n % 2 \in {0, 1}
  OBVIOUS
<1>2. n \div 2 \in Int
  OBVIOUS
<1>3. n = 2 * (n \div 2) + (n % 2)
  OBVIOUS
<1> DEFINE h == n \div 2
           r == n % 2
<1>4. h \in Int /\ r \in {0, 1} /\ n = 2 * h + r
  BY <1>1, <1>2, <1>3
<1> HIDE DEF h, r
<1>5. h \in Nat /\ h + 1 \in 1..n /\ (r = 0 => h \in 1..n)
  BY <1>4
<1> QED BY <1>4, <1>5 DEF h, r

\* A mean or a median lies between the least value and the greatest.
LEMMA AggregateIs ==
  ASSUME NEW v, NEW n, Rising(v, n), NEW agg
  PROVE  /\ Aggregate(agg, v).num \in Nat /\ Aggregate(agg, v).den \in Nat \ {0}
         /\ v[1] * Aggregate(agg, v).den <= Aggregate(agg, v).num
         /\ Aggregate(agg, v).num <= v[n] * Aggregate(agg, v).den
<1>1. /\ n \in Nat \ {0} /\ Len(v) = n /\ v \in [1..n -> Nat]
      /\ \A i, j \in 1..n : i <= j => v[i] <= v[j]
  BY DEF Rising
<1>2. 1 \in 1..n /\ n \in 1..n /\ \A i \in 1..n : v[i] \in Nat /\ v[1] <= v[i] /\ v[i] <= v[n]
  BY <1>1
<1>3. CASE agg = "median" /\ n % 2 = 1
  <2>1. Aggregate(agg, v) = [num |-> v[n \div 2 + 1], den |-> 1]
    BY <1>1, <1>3 DEF Aggregate, Median, Whole
  <2>2. n \div 2 + 1 \in 1..n
    BY <1>1, Halves
  <2>3. v[1] \in Nat /\ v[n] \in Nat /\ v[n \div 2 + 1] \in Nat /\ v[1] <= v[n \div 2 + 1] /\ v[n \div 2 + 1] <= v[n]
    BY <1>2, <2>2
  <2> QED BY <2>1, <2>3
<1>4. CASE agg = "median" /\ n % 2 # 1
  <2> DEFINE x == v[n \div 2]
             y == v[n \div 2 + 1]
  <2>1. Aggregate(agg, v) = [num |-> x + y, den |-> 2]
    BY <1>1, <1>4 DEF Aggregate, Median
  <2>2. n \div 2 + 1 \in 1..n /\ n \div 2 \in 1..n
    BY <1>1, <1>4, Halves
  <2>3. /\ x \in Nat /\ y \in Nat /\ v[1] \in Nat /\ v[n] \in Nat
        /\ v[1] <= x /\ x <= v[n] /\ v[1] <= y /\ y <= v[n]
    BY <1>2, <2>2
  <2> HIDE DEF x, y
  <2> QED BY <2>1, <2>3
<1>5. CASE agg # "median"
  <2>1. Aggregate(agg, v) = [num |-> SumSeq(v), den |-> n]
    BY <1>1, <1>5 DEF Aggregate, Mean
  <2>2. SumSeq(v) \in Nat /\ v[1] * n <= SumSeq(v) /\ SumSeq(v) <= v[n] * n
    BY <1>1, <1>2, SumBounds
  <2> QED BY <1>1, <2>1, <2>2
<1> QED BY <1>3, <1>4, <1>5

\* Records with a verdict, and only as many as can be counted.
Scorable(recs) == recs \subseteq WithVerdict /\ IsFiniteSet(recs)

LEMMA RecordsFinite ==
  ASSUME LogOK
  PROVE  IsFiniteSet(Records) /\ \A recs \in SUBSET WithVerdict : Scorable(recs)
<1>1. Len(events) \in Nat
  BY EventIs
<1>2. IsFiniteSet(1..Len(events))
  BY <1>1, FS_Interval
<1> DEFINE f == [rec \in Records |-> rec.run]
<1>3. f \in Injection(Records, 1..Len(events))
  BY RecordFacts DEF Injection, IsInjective
<1> HIDE DEF f
<1>4. IsFiniteSet(Records)
  BY <1>2, <1>3, FS_Injection
<1>5. WithVerdict \in SUBSET Records
  BY DEF WithVerdict
<1>6. ASSUME NEW recs \in SUBSET WithVerdict PROVE Scorable(recs)
  <2>1. recs \in SUBSET Records
    BY <1>5
  <2>2. IsFiniteSet(recs)
    BY <1>4, <2>1, FS_Subset
  <2> QED BY <2>2 DEF Scorable
<1> QED BY <1>4, <1>6

LEMMA ValueIs ==
  ASSUME LogOK, NEW rec \in WithVerdict, NEW col \in Columns
  PROVE  /\ Value(rec, col) \in Nat \cup {Unknown}
         /\ Value(rec, "pass_rate") \in {0, 1}
         /\ Value(rec, "pass_rate") = 1 <=> Verdict(rec).pass
         /\ Value(rec, "pass_rate") # Unknown
<1>1. Verdict(rec) \in Reading
  BY RecordFacts DEF WithVerdict
<1>2. /\ Verdict(rec).pass \in BOOLEAN
      /\ Verdict(rec).cost_usd \in Nat \cup {Unknown} /\ Verdict(rec).wall_ms \in Nat \cup {Unknown}
  BY <1>1, ReadingAssumption
<1>3. /\ Value(rec, "pass_rate") \in {0, 1}
      /\ Value(rec, "pass_rate") = 1 <=> Verdict(rec).pass
  <2>1. Value(rec, "pass_rate") = IF Verdict(rec).pass THEN 1 ELSE 0
    BY DEF Value
  <2> QED BY <2>1, <1>2
<1>4. \A c : c # "pass_rate" => Value(rec, c) = Verdict(rec)[c]
  BY DEF Value
<1>5. Value(rec, "cost_usd") \in Nat \cup {Unknown} /\ Value(rec, "wall_ms") \in Nat \cup {Unknown}
  BY <1>2, <1>4
<1>6. Value(rec, "pass_rate") # Unknown /\ Value(rec, "pass_rate") \in Nat \cup {Unknown}
  BY <1>3 DEF Unknown
<1> QED BY <1>3, <1>5, <1>6 DEF Columns

\* Values puts the known values of a column in order, one of each record.
LEMMA ValuesAre ==
  ASSUME LogOK, NEW recs, Scorable(recs), NEW col \in Columns
  PROVE  /\ IsFiniteSet(Known(recs, col)) /\ Cardinality(Known(recs, col)) \in Nat
         /\ \A x \in Known(recs, col) : Value(x, col) \in Nat
         /\ \E s : /\ Ordered(s, Known(recs, col), [x \in Known(recs, col) |-> Value(x, col)])
                   /\ Values(recs, col) = [i \in 1..Cardinality(Known(recs, col)) |-> Value(s[i], col)]
         /\ Known(recs, col) # {} => Rising(Values(recs, col), Cardinality(Known(recs, col)))
<1> DEFINE known == Known(recs, col)
           n == Cardinality(known)
           key == [x \in known |-> Value(x, col)]
           s == InOrder(known, key)
           v == Values(recs, col)
<1>1. known \in SUBSET recs /\ known \subseteq Records /\ IsFiniteSet(recs) /\ recs \subseteq WithVerdict
  BY DEF Known, Scorable, WithVerdict
<1>2. IsFiniteSet(known) /\ n \in Nat
  <2> HIDE DEF known
  <2> QED BY <1>1, FS_Subset, FS_CardinalityType
<1>3. \A x \in known : Value(x, col) \in Nat
  BY <1>1, ValueIs DEF Known
<1>4. (\A x \in known : x.run \in Nat) /\ \A x, y \in known : x.run = y.run => x = y
  BY <1>1, RecordFacts
<1>5. key \in [known -> Int]
  BY <1>3
<1>6. Ordered(s, known, key)
  <2> HIDE DEF known, key, s
  <2> QED BY <1>2, <1>4, <1>5, InOrderIs DEF s
<1>7. s \in [1..n -> known]
  BY <1>6 DEF Ordered
<1>8. Len(s) = n
  <2> HIDE DEF s, n, known
  <2> QED BY <1>2, <1>7
<1>9. v = [i \in 1..n |-> Value(s[i], col)]
  <2>1. v = [i \in 1..Len(s) |-> Value(s[i], col)]
    BY DEF Values
  <2> QED BY <2>1, <1>8
<1>10. \A i, j \in 1..n : i <= j => v[i] <= v[j]
  <2>1. \A i \in 1..n : v[i] = key[s[i]]
    BY <1>7, <1>9
  <2>2. \A i, j \in 1..n : i <= j => key[s[i]] <= key[s[j]]
    BY <1>6 DEF Ordered
  <2> HIDE DEF n, v, key, s, known
  <2> QED BY <2>1, <2>2
<1>11. ASSUME known # {} PROVE Rising(v, n)
  <2>1. n # 0
    <3> HIDE DEF known
    <3> QED BY <1>2, <1>11, FS_EmptySet
  <2>2. v \in [1..n -> Nat]
    <3> HIDE DEF s, n, known, v
    <3> QED BY <1>3, <1>7, <1>9
  <2> HIDE DEF n, v
  <2>3. Len(v) = n
    BY <1>2, <2>2
  <2> QED BY <1>2, <1>10, <2>1, <2>2, <2>3 DEF Rising
<1> HIDE DEF s
<1> QED BY <1>2, <1>3, <1>6, <1>9, <1>11

\* The median of the values is their middle.
LEMMA MedianIsMiddle ==
  ASSUME LogOK, NEW recs, Scorable(recs), NEW col \in Columns, Known(recs, col) # {}
  PROVE  IsMiddle(Median(Values(recs, col)), recs, col)
<1> DEFINE known == Known(recs, col)
           n == Cardinality(known)
           v == Values(recs, col)
           key == [x \in known |-> Value(x, col)]
           h == n \div 2
           p == IF n % 2 = 1 THEN h + 1 ELSE h
           UpTo(x) == {z \in known : Value(z, col) <= Value(x, col)}
           From(x) == {z \in known : Value(z, col) >= Value(x, col)}
           half(S) == 2 * Cardinality(S) >= n
           lower == {Value(x, col) : x \in {y \in known : half(UpTo(y))}}
           upper == {Value(x, col) : x \in {y \in known : half(From(y))}}
<1>1. /\ IsFiniteSet(known) /\ Rising(v, n) /\ \A x \in known : Value(x, col) \in Nat
      /\ \E s : Ordered(s, known, key) /\ v = [i \in 1..n |-> Value(s[i], col)]
  BY ValuesAre
<1>2. PICK s : Ordered(s, known, key) /\ v = [i \in 1..n |-> Value(s[i], col)]
  BY <1>1
<1> HIDE DEF known, v
<1>3. /\ n \in Nat \ {0} /\ v \in [1..n -> Nat] /\ Len(v) = n
      /\ \A i, j \in 1..n : i <= j => v[i] <= v[j]
  BY <1>1 DEF Rising
<1>4. /\ n % 2 \in {0, 1} /\ h \in Nat /\ n = 2 * h + (n % 2)
      /\ h + 1 \in 1..n /\ (n % 2 = 0 => h \in 1..n)
  BY <1>3, Halves
<1> HIDE DEF h, n
<1>5. /\ p \in 1..n /\ h + 1 \in 1..n /\ p \in Nat /\ n \in Nat /\ h \in Nat
      /\ 2 * p >= n /\ 2 * (p - 1) < n /\ 2 * (n - h) >= n /\ 2 * (n - h - 1) < n
  BY <1>3, <1>4
<1>6. /\ s \in [1..n -> known] /\ \A x \in known : \E i \in 1..n : s[i] = x
      /\ \A i \in 1..n : v[i] = Value(s[i], col) /\ v[i] \in Nat
  BY <1>2, <1>3 DEF Ordered, n
<1> HIDE DEF p
<1>7. \A x \in known : UpTo(x) \in SUBSET known /\ From(x) \in SUBSET known
  OBVIOUS
<1>8. v[p] \in lower
  <2>1. s[p] \in known /\ v[p] = Value(s[p], col)
    BY <1>5, <1>6
  <2>2. \A i \in 1..p : s[i] \in UpTo(s[p])
    <3>1. \A i \in 1..p : i \in 1..n /\ i <= p
      BY <1>5
    <3>2. \A i \in 1..p : v[i] <= v[p]
      BY <3>1, <1>3, <1>5
    <3> QED BY <3>1, <3>2, <1>5, <1>6
  <2>3. UpTo(s[p]) \in SUBSET known
    BY <2>1, <1>7
  <2> HIDE DEF UpTo
  <2>4. Cardinality(UpTo(s[p])) \in Nat /\ Cardinality(UpTo(s[p])) >= p - 1 + 1
    <3>1. 1 \in Nat /\ p \in Nat /\ 1 <= 1 /\ 1 <= p + 1 /\ p <= Cardinality(known)
      BY <1>5 DEF n
    <3> QED BY <1>1, <1>2, <2>2, <2>3, <3>1, Stretch
  <2>5. half(UpTo(s[p]))
    BY <2>4, <1>5
  <2> HIDE DEF half
  <2> QED BY <2>1, <2>5
<1>9. ASSUME NEW x \in known, half(UpTo(x)) PROVE v[p] <= Value(x, col)
  <2> SUFFICES ASSUME ~(v[p] <= Value(x, col)) PROVE FALSE
    OBVIOUS
  <2>0. Value(x, col) \in Nat /\ v[p] \in Nat /\ Value(x, col) < v[p]
    BY <1>1, <1>5, <1>6
  <2>1. \A z \in UpTo(x) : \E i \in 1..(p - 1) : s[i] = z
    <3> SUFFICES ASSUME NEW z \in UpTo(x) PROVE \E i \in 1..(p - 1) : s[i] = z
      OBVIOUS
    <3>1. z \in known /\ Value(z, col) <= Value(x, col) /\ Value(z, col) \in Nat
      BY <1>1
    <3>2. PICK i \in 1..n : s[i] = z
      BY <3>1, <1>6
    <3>3. v[i] = Value(z, col)
      BY <3>2, <1>6
    <3>4. ~(p <= i)
      BY <2>0, <3>1, <3>3, <1>3, <1>5
    <3>5. i \in 1..(p - 1)
      BY <3>4, <1>5
    <3> QED BY <3>2, <3>5
  <2>2. UpTo(x) \in SUBSET known
    BY <1>7
  <2> HIDE DEF UpTo
  <2>3. Cardinality(UpTo(x)) \in Nat /\ Cardinality(UpTo(x)) <= (p - 1) - 1 + 1
    <3> DEFINE o == 1
               q == p - 1
    <3>1. o \in Nat /\ q \in Nat /\ 1 <= o /\ o <= q + 1 /\ q <= Cardinality(known)
      BY <1>5 DEF n
    <3>2. \A z \in UpTo(x) : \E i \in o..q : s[i] = z
      BY <2>1
    <3> HIDE DEF o, q
    <3>3. Cardinality(UpTo(x)) \in Nat /\ Cardinality(UpTo(x)) <= q - o + 1
      BY <1>1, <1>2, <2>2, <3>1, <3>2, Stretch
    <3> QED BY <3>3, <1>5 DEF o, q
  <2>4. 2 * Cardinality(UpTo(x)) >= n
    BY <1>9
  <2> QED BY <2>3, <2>4, <1>5
<1>10. v[h + 1] \in upper
  <2>1. s[h + 1] \in known /\ v[h + 1] = Value(s[h + 1], col)
    BY <1>5, <1>6
  <2>2. \A i \in (h + 1)..n : s[i] \in From(s[h + 1])
    <3>1. \A i \in (h + 1)..n : i \in 1..n /\ h + 1 <= i
      BY <1>5
    <3>2. \A i \in (h + 1)..n : v[h + 1] <= v[i]
      BY <3>1, <1>3, <1>5
    <3> QED BY <3>1, <3>2, <1>5, <1>6
  <2>3. From(s[h + 1]) \in SUBSET known
    BY <2>1, <1>7
  <2> HIDE DEF From
  <2>4. Cardinality(From(s[h + 1])) \in Nat /\ Cardinality(From(s[h + 1])) >= n - (h + 1) + 1
    <3>1. h + 1 \in Nat /\ n \in Nat /\ 1 <= h + 1 /\ h + 1 <= n + 1 /\ n <= Cardinality(known)
      BY <1>5 DEF n
    <3> QED BY <1>1, <1>2, <2>2, <2>3, <3>1, Stretch
  <2>5. half(From(s[h + 1]))
    BY <2>4, <1>5
  <2> HIDE DEF half
  <2> QED BY <2>1, <2>5
<1>11. ASSUME NEW x \in known, half(From(x)) PROVE Value(x, col) <= v[h + 1]
  <2> SUFFICES ASSUME ~(Value(x, col) <= v[h + 1]) PROVE FALSE
    OBVIOUS
  <2>0. Value(x, col) \in Nat /\ v[h + 1] \in Nat /\ v[h + 1] < Value(x, col)
    BY <1>1, <1>5, <1>6
  <2>1. \A z \in From(x) : \E i \in (h + 2)..n : s[i] = z
    <3> SUFFICES ASSUME NEW z \in From(x) PROVE \E i \in (h + 2)..n : s[i] = z
      OBVIOUS
    <3>1. z \in known /\ Value(z, col) >= Value(x, col) /\ Value(z, col) \in Nat
      BY <1>1
    <3>2. PICK i \in 1..n : s[i] = z
      BY <3>1, <1>6
    <3>3. v[i] = Value(z, col)
      BY <3>2, <1>6
    <3>4. ~(i <= h + 1)
      BY <2>0, <3>1, <3>3, <1>3, <1>5
    <3>5. i \in (h + 2)..n
      BY <3>4, <1>5
    <3> QED BY <3>2, <3>5
  <2>2. From(x) \in SUBSET known
    BY <1>7
  <2> HIDE DEF From
  <2>3. Cardinality(From(x)) \in Nat /\ Cardinality(From(x)) <= n - (h + 2) + 1
    <3>1. h + 2 \in Nat /\ n \in Nat /\ 1 <= h + 2 /\ h + 2 <= n + 1 /\ n <= Cardinality(known)
      BY <1>5 DEF n
    <3> QED BY <1>1, <1>2, <2>1, <2>2, <3>1, Stretch
  <2>4. 2 * Cardinality(From(x)) >= n
    BY <1>11
  <2> QED BY <2>3, <2>4, <1>5
<1>12. 2 * Median(v).num = (v[p] + v[h + 1]) * Median(v).den
  <2>0. v[p] \in Nat /\ v[h + 1] \in Nat
    BY <1>5, <1>6
  <2>1. CASE n % 2 = 1
    <3>1. Median(v) = [num |-> v[h + 1], den |-> 1] /\ p = h + 1
      BY <2>1, <1>3 DEF Median, Whole, h, p
    <3> QED BY <3>1, <2>0
  <2>2. CASE n % 2 # 1
    <3>1. Median(v) = [num |-> v[h] + v[h + 1], den |-> 2] /\ p = h
      BY <2>2, <1>3 DEF Median, h, p
    <3> QED BY <3>1, <2>0
  <2> QED BY <2>1, <2>2
<1>13. \A x \in lower : v[p] <= x
  BY <1>9
<1>14. \A x \in upper : x <= v[h + 1]
  BY <1>11
<1> HIDE DEF lower, upper
<1>15. \E a \in lower, b \in upper :
         /\ \A x \in lower : a <= x
         /\ \A x \in upper : x <= b
         /\ 2 * Median(v).num = (a + b) * Median(v).den
  BY <1>8, <1>10, <1>12, <1>13, <1>14
<1> QED BY <1>15, Zenon DEF IsMiddle, lower, upper, UpTo, From, half, n, known, v

-----------------------------------------------------------------------------
(* Fractions *)

IsFraction(x) == x.num \in Nat /\ x.den \in Nat \ {0}

LEMMA Times ==
  ASSUME NEW a \in Int, NEW b \in Int, NEW k \in Nat \ {0}
  PROVE  (a < b => a * k < b * k) /\ (a <= b => a * k <= b * k) /\ a * k \in Int
<1>1. (b - a) * k = b * k - a * k
  OBVIOUS
<1>2. a < b => (b - a) * k > 0
  OBVIOUS
<1>3. a <= b => (b - a) * k >= 0
  OBVIOUS
<1>4. a * k \in Int /\ b * k \in Int
  OBVIOUS
<1> QED BY <1>1, <1>2, <1>3, <1>4

LEMMA LessIsOrder ==
  ASSUME NEW x, NEW y, NEW z, IsFraction(x), IsFraction(y), IsFraction(z)
  PROVE  ~Less(x, x) /\ (Less(x, y) /\ Less(y, z) => Less(x, z))
<1> DEFINE a == x.num
           b == x.den
           c == y.num
           d == y.den
           e == z.num
           f == z.den
<1>1. /\ a \in Nat /\ b \in Nat \ {0} /\ c \in Nat /\ d \in Nat \ {0} /\ e \in Nat /\ f \in Nat \ {0}
      /\ Less(x, x) <=> a * b < a * b
      /\ Less(x, y) <=> a * d < c * b
      /\ Less(y, z) <=> c * f < e * d
      /\ Less(x, z) <=> a * f < e * b
  BY DEF IsFraction, Less
<1> HIDE DEF a, b, c, d, e, f
<1>2. ~(a * b < a * b)
  <2>1. a * b \in Int
    BY <1>1
  <2> HIDE DEF Less
  <2> QED BY <2>1
<1>3. ASSUME a * d < c * b, c * f < e * d PROVE a * f < e * b
  <2>1. /\ a * d \in Int /\ c * b \in Int /\ c * f \in Int /\ e * d \in Int
        /\ a * f \in Int /\ e * b \in Int
    BY <1>1
  <2>2. (a * d) * f < (c * b) * f /\ (c * f) * b < (e * d) * b
    BY <1>1, <1>3, <2>1, Times
  <2>3. (a * d) * f = (a * f) * d /\ (c * b) * f = (c * f) * b /\ (e * d) * b = (e * b) * d
    BY <1>1
  <2>4. (a * f) * d \in Int /\ (c * f) * b \in Int /\ (e * b) * d \in Int
    BY <1>1
  <2>5. (a * f) * d < (e * b) * d
    BY <2>2, <2>3, <2>4
  <2>6. e * b <= a * f => (e * b) * d <= (a * f) * d
    BY <1>1, <2>1, Times
  <2> QED BY <2>1, <2>4, <2>5, <2>6
<1> QED BY <1>1, <1>2, <1>3

\* Some of finitely many fractions is greatest, and some is least.
LEMMA Extremes ==
  ASSUME NEW F, IsFiniteSet(F), F # {}, \A x \in F : IsFraction(x)
  PROVE  /\ Greatest(F) \in F /\ \A y \in F : AtMost(y, Greatest(F))
         /\ Least(F) \in F /\ \A y \in F : AtMost(Least(F), y)
<1>1. /\ \A x \in F : ~Less(x, x)
      /\ \A x, y, z \in F : Less(x, y) /\ Less(y, z) => Less(x, z)
  BY LessIsOrder
<1> DEFINE Above(x) == {y \in F : Less(x, y)}
           Under(x) == {y \in F : Less(y, x)}
<1>2. \A x \in F : /\ IsFiniteSet(Above(x)) /\ Cardinality(Above(x)) \in Nat
                   /\ IsFiniteSet(Under(x)) /\ Cardinality(Under(x)) \in Nat
  <2>1. \A x \in F : Above(x) \in SUBSET F /\ Under(x) \in SUBSET F
    OBVIOUS
  <2> HIDE DEF Above, Under
  <2> QED BY <2>1, FS_Subset, FS_CardinalityType
<1>3. \E x \in F : Above(x) = {}
  <2> DEFINE B == {Cardinality(Above(x)) : x \in F}
  <2>1. B \in SUBSET Nat /\ B # {}
    BY <1>2
  <2>2. PICK n \in B : \A m \in B : n <= m
    BY <2>1, Lowest
  <2>3. PICK x \in F : n = Cardinality(Above(x))
    OBVIOUS
  <2>4. ASSUME NEW y \in Above(x) PROVE FALSE
    <3>1. y \in F /\ Less(x, y)
      OBVIOUS
    <3>2. Above(y) \in SUBSET Above(x) /\ y \notin Above(y)
      BY <1>1, <3>1
    <3>3. Cardinality(Above(x)) <= Cardinality(Above(y))
      BY <2>2, <2>3, <3>1
    <3> HIDE DEF Above
    <3>4. Cardinality(Above(y)) <= Cardinality(Above(x)) /\ Cardinality(Above(y)) # Cardinality(Above(x))
      BY <1>2, <2>4, <3>2, FS_Subset
    <3>5. Cardinality(Above(y)) \in Nat /\ Cardinality(Above(x)) \in Nat
      BY <1>2, <3>1
    <3> QED BY <3>3, <3>4, <3>5
  <2> QED BY <2>4
<1>4. \E x \in F : Under(x) = {}
  <2> DEFINE B == {Cardinality(Under(x)) : x \in F}
  <2>1. B \in SUBSET Nat /\ B # {}
    BY <1>2
  <2>2. PICK n \in B : \A m \in B : n <= m
    BY <2>1, Lowest
  <2>3. PICK x \in F : n = Cardinality(Under(x))
    OBVIOUS
  <2>4. ASSUME NEW y \in Under(x) PROVE FALSE
    <3>1. y \in F /\ Less(y, x)
      OBVIOUS
    <3>2. Under(y) \in SUBSET Under(x) /\ y \notin Under(y)
      BY <1>1, <3>1
    <3>3. Cardinality(Under(x)) <= Cardinality(Under(y))
      BY <2>2, <2>3, <3>1
    <3> HIDE DEF Under
    <3>4. Cardinality(Under(y)) <= Cardinality(Under(x)) /\ Cardinality(Under(y)) # Cardinality(Under(x))
      BY <1>2, <2>4, <3>2, FS_Subset
    <3>5. Cardinality(Under(y)) \in Nat /\ Cardinality(Under(x)) \in Nat
      BY <1>2, <3>1
    <3> QED BY <3>3, <3>4, <3>5
  <2> QED BY <2>4
<1>5. \E x \in F : \A y \in F : AtMost(y, x)
  BY <1>3 DEF AtMost
<1>6. \E x \in F : \A y \in F : AtMost(x, y)
  BY <1>4 DEF AtMost
<1> QED BY <1>5, <1>6 DEF Greatest, Least

-----------------------------------------------------------------------------
(* Columns *)

\* An aggregate of known values lies between the values of two records.
LEMMA AggregateOf ==
  ASSUME LogOK, NEW recs, Scorable(recs), NEW col \in Columns, Known(recs, col) # {}, NEW agg
  PROVE  LET a == Aggregate(agg, Values(recs, col)) IN
         /\ IsFraction(a)
         /\ \E x, y \in Known(recs, col) :
              Value(x, col) * a.den <= a.num /\ a.num <= Value(y, col) * a.den
<1> DEFINE known == Known(recs, col)
           n == Cardinality(known)
           v == Values(recs, col)
           a == Aggregate(agg, v)
           key == [x \in known |-> Value(x, col)]
<1>1. /\ Rising(v, n)
      /\ \E s : Ordered(s, known, key) /\ v = [i \in 1..n |-> Value(s[i], col)]
  BY ValuesAre
<1>2. PICK s : Ordered(s, known, key) /\ v = [i \in 1..n |-> Value(s[i], col)]
  BY <1>1
<1> HIDE DEF known, v
<1>3. 1 \in 1..n /\ n \in 1..n
  BY <1>1 DEF Rising
<1>4. s[1] \in known /\ s[n] \in known /\ v[1] = Value(s[1], col) /\ v[n] = Value(s[n], col)
  BY <1>2, <1>3 DEF Ordered
<1> HIDE DEF n
<1>5. /\ a.num \in Nat /\ a.den \in Nat \ {0}
      /\ v[1] * a.den <= a.num /\ a.num <= v[n] * a.den
  BY <1>1, AggregateIs
<1> HIDE DEF a
<1>6. IsFraction(a) /\ \E x, y \in known : Value(x, col) * a.den <= a.num /\ a.num <= Value(y, col) * a.den
  BY <1>4, <1>5 DEF IsFraction
<1> QED BY <1>6 DEF a, v, known

\* The spread of a column over repeats is no more than between two runs of different repeats.
LEMMA SpreadIs ==
  ASSUME LogOK, NEW recs, Scorable(recs), NEW col \in Columns, Known(recs, col) # {},
         Column(recs, col).spread # << >>
  PROVE  LET known == Known(recs, col)
             c == Column(recs, col) IN
         /\ AtMost(Whole(0), c.spread[1])
         /\ \E x, y \in known : /\ AtMost(c.spread[1], Whole(Value(x, col) - Value(y, col)))
                                /\ Run(x).cell.repeat # Run(y).cell.repeat \/ x = y
<1> DEFINE known == Known(recs, col)
           Repeats == {Run(rec).cell.repeat : rec \in known}
           R(k) == {rec \in known : Run(rec).cell.repeat = k}
           A(k) == Aggregate(Agg(col), Values(R(k), col))
           F == {A(k) : k \in Repeats}
           G == Greatest(F)
           L == Least(F)
           c == Column(recs, col)
<1>1. c.spread = IF Cardinality(Repeats) > 1 THEN <<Minus(G, L)>> ELSE << >>
  BY Zenon DEF Column
<1>2. c.spread[1] = Minus(G, L)
  <2>1. c.spread = <<Minus(G, L)>>
    BY <1>1
  <2> HIDE DEF c, G, L
  <2> QED BY <2>1
<1>3. known \in SUBSET recs /\ IsFiniteSet(known) /\ known \subseteq WithVerdict
  <2>1. known \in SUBSET recs /\ recs \subseteq WithVerdict /\ IsFiniteSet(recs)
    BY DEF Known, Scorable
  <2> HIDE DEF known
  <2> QED BY <2>1, FS_Subset
<1>4. ASSUME NEW k \in Repeats
      PROVE  /\ IsFraction(A(k))
             /\ \E x, y \in R(k) :
                  Value(x, col) * A(k).den <= A(k).num /\ A(k).num <= Value(y, col) * A(k).den
  <2>1. R(k) # {} /\ R(k) \in SUBSET known
    OBVIOUS
  <2>2. Known(R(k), col) = R(k)
    BY DEF Known
  <2> HIDE DEF R, known
  <2>3. Scorable(R(k))
    BY <1>3, <2>1, FS_Subset DEF Scorable
  <2> QED BY <2>1, <2>2, <2>3, AggregateOf
<1>5. IsFiniteSet(F) /\ F # {}
  <2> DEFINE f == [rec \in known |-> A(Run(rec).cell.repeat)]
  <2>1. f \in Surjection(known, F)
    <3> HIDE DEF A
    <3> QED BY DEF Surjection
  <2>2. F # {}
    <3>1. Repeats # {}
      OBVIOUS
    <3> HIDE DEF Repeats, A
    <3> QED BY <3>1
  <2> HIDE DEF f, F, known
  <2> QED BY <1>3, <2>1, <2>2, FS_Surjection
<1>6. \A x \in F : IsFraction(x)
  BY <1>4
<1>7. G \in F /\ L \in F /\ AtMost(L, G)
  <2> HIDE DEF F
  <2> QED BY <1>5, <1>6, Extremes
<1>8. PICK k \in Repeats, l \in Repeats : G = A(k) /\ L = A(l)
  <2> HIDE DEF A, G, L
  <2> QED BY <1>7
<1>9. PICK x \in R(k), y \in R(l) :
        /\ G.num <= Value(x, col) * G.den
        /\ Value(y, col) * L.den <= L.num
  <2> HIDE DEF A, G, L, R, Repeats
  <2> QED BY <1>4, <1>8
<1>10. IsFraction(G) /\ IsFraction(L)
  BY <1>6, <1>7
<1>11. x \in known /\ y \in known /\ Run(x).cell.repeat = k /\ Run(y).cell.repeat = l
  OBVIOUS
<1>12. Value(x, col) \in Nat /\ Value(y, col) \in Nat
  BY <1>11, ValuesAre
<1> DEFINE m == Minus(G, L)
<1> HIDE DEF F, A, R, Repeats, G, L, c, known
<1>13. /\ G.num \in Nat /\ G.den \in Nat \ {0} /\ L.num \in Nat /\ L.den \in Nat \ {0}
       /\ m.num = G.num * L.den - L.num * G.den /\ m.den = L.den * G.den
  BY <1>10 DEF IsFraction, Minus
<1>14. L.num * G.den <= G.num * L.den /\ L.num * G.den \in Int /\ G.num * L.den \in Int
  BY <1>7, <1>13 DEF AtMost, Less
<1>15. AtMost(Whole(0), m)
  <2>1. m.num \in Int /\ m.num >= 0 /\ m.den \in Int
    BY <1>13, <1>14
  <2> HIDE DEF m
  <2> QED BY <2>1 DEF AtMost, Less, Whole
<1>16. CASE k = l
  <2>1. G = L
    BY <1>8, <1>16 DEF A
  <2>2. m.num = 0 /\ m.den \in Int
    BY <1>13, <2>1
  <2> HIDE DEF m
  <2>3. AtMost(m, Whole(Value(x, col) - Value(x, col)))
    BY <1>12, <2>2 DEF AtMost, Less, Whole
  <2> QED BY <1>2, <1>11, <1>15, <2>3 DEF m, c, known
<1>17. CASE k # l
  <2> DEFINE p == Value(x, col)
             q == Value(y, col)
  <2>1. p \in Nat /\ q \in Nat /\ G.num <= p * G.den /\ q * L.den <= L.num
    BY <1>9, <1>12
  <2> HIDE DEF p, q
  <2> DEFINE gn == G.num
             gd == G.den
             ln == L.num
             ld == L.den
  <2>2. gn \in Int /\ ln \in Int /\ gd \in Nat \ {0} /\ ld \in Nat \ {0} /\ p \in Int /\ q \in Int
    BY <1>13, <2>1
  <2>3. gn <= p * gd /\ q * ld <= ln
    BY <2>1
  <2>4. m.num = gn * ld - ln * gd /\ m.den = ld * gd
    BY <1>13
  <2> HIDE DEF gn, gd, ln, ld, m
  <2>5. p * gd \in Int /\ q * ld \in Int
    BY <2>2
  <2>6. gn * ld <= (p * gd) * ld
    BY <2>2, <2>3, <2>5, Times
  <2>7. (q * ld) * gd <= ln * gd
    BY <2>2, <2>3, <2>5, Times
  <2>8. (p - q) * (ld * gd) = (p * gd) * ld - (q * ld) * gd
    BY <2>2
  <2>9. /\ gn * ld \in Int /\ ln * gd \in Int /\ (p * gd) * ld \in Int /\ (q * ld) * gd \in Int
        /\ ld * gd \in Int /\ (p - q) * (ld * gd) \in Int
    BY <2>2
  <2>10. m.num <= (p - q) * m.den /\ m.num \in Int /\ m.den \in Int /\ (p - q) * m.den \in Int
    BY <2>4, <2>6, <2>7, <2>8, <2>9
  <2>11. AtMost(m, Whole(p - q))
    BY <2>2, <2>10 DEF AtMost, Less, Whole
  <2> QED BY <1>2, <1>11, <1>15, <1>17, <2>11 DEF m, c, known, p, q
<1> QED BY <1>16, <1>17

LEMMA ColumnsAreOfTheKnown ==
  ASSUME LogOK, NEW recs, Scorable(recs), NEW col \in Columns, Known(recs, col) # {}
  PROVE  LET known == Known(recs, col)
             c == Column(recs, col) IN
         /\ \E x, y \in known : /\ AtMost(Whole(Value(x, col)), c.value)
                                /\ AtMost(c.value, Whole(Value(y, col)))
         /\ Agg(col) = "median" => IsMiddle(c.value, recs, col)
         /\ c.spread # << >> =>
              /\ AtMost(Whole(0), c.spread[1])
              /\ \E x, y \in known : /\ AtMost(c.spread[1], Whole(Value(x, col) - Value(y, col)))
                                     /\ Run(x).cell.repeat # Run(y).cell.repeat \/ x = y
         /\ c.unknown = Cardinality(recs \ known)
<1> DEFINE known == Known(recs, col)
           c == Column(recs, col)
           a == Aggregate(Agg(col), Values(recs, col))
<1>1. \E x, y \in known : AtMost(Whole(Value(x, col)), c.value) /\ AtMost(c.value, Whole(Value(y, col)))
  <2>0. Values(known, col) = Values(recs, col)
    <3>1. Known(known, col) = known
      BY DEF Known
    <3> HIDE DEF known
    <3> QED BY <3>1, Zenon DEF Values, known
  <2>1. c.value = a
    BY <2>0 DEF Column
  <2>2. IsFraction(a) /\ \E x, y \in known : Value(x, col) * a.den <= a.num /\ a.num <= Value(y, col) * a.den
    BY AggregateOf
  <2>3. PICK x \in known, y \in known : Value(x, col) * a.den <= a.num /\ a.num <= Value(y, col) * a.den
    BY <2>2
  <2>4. Value(x, col) \in Nat /\ Value(y, col) \in Nat
    BY ValuesAre
  <2>5. a.num \in Nat /\ a.den \in Nat
    BY <2>2 DEF IsFraction
  <2> HIDE DEF a, c, known
  <2>6. AtMost(Whole(Value(x, col)), a) /\ AtMost(a, Whole(Value(y, col)))
    BY <2>3, <2>4, <2>5 DEF AtMost, Less, Whole
  <2> QED BY <2>1, <2>6
<1>2. ASSUME Agg(col) = "median" PROVE IsMiddle(c.value, recs, col)
  <2>0. Values(known, col) = Values(recs, col)
    <3>1. Known(known, col) = known
      BY DEF Known
    <3> HIDE DEF known
    <3> QED BY <3>1, Zenon DEF Values, known
  <2>1. c.value = Median(Values(recs, col))
    BY <1>2, <2>0 DEF Column, Aggregate
  <2> QED BY <2>1, MedianIsMiddle
<1>3. c.unknown = Cardinality(recs \ known)
  <2>1. c.unknown = Cardinality(recs) - Cardinality(known)
    BY DEF Column
  <2>2. recs \cap known = known /\ IsFiniteSet(recs)
    BY DEF Known, Scorable
  <2> HIDE DEF known, c
  <2>3. Cardinality(recs \ known) = Cardinality(recs) - Cardinality(recs \cap known)
    BY <2>2, FS_Difference
  <2> QED BY <2>1, <2>2, <2>3
<1>4. c.spread # << >> =>
        /\ AtMost(Whole(0), c.spread[1])
        /\ \E x, y \in known : /\ AtMost(c.spread[1], Whole(Value(x, col) - Value(y, col)))
                               /\ Run(x).cell.repeat # Run(y).cell.repeat \/ x = y
  BY SpreadIs
<1> HIDE DEF known, c
<1>5. /\ \E x, y \in known : /\ AtMost(Whole(Value(x, col)), c.value)
                             /\ AtMost(c.value, Whole(Value(y, col)))
      /\ Agg(col) = "median" => IsMiddle(c.value, recs, col)
      /\ c.spread # << >> =>
           /\ AtMost(Whole(0), c.spread[1])
           /\ \E x, y \in known : /\ AtMost(c.spread[1], Whole(Value(x, col) - Value(y, col)))
                                  /\ Run(x).cell.repeat # Run(y).cell.repeat \/ x = y
      /\ c.unknown = Cardinality(recs \ known)
  BY <1>1, <1>2, <1>3, <1>4
<1> QED BY <1>5 DEF known, c

\* What Fold counts of a cell of its state is what there is.
LEMMA FoldCells ==
  ASSUME LogOK, NEW k, NEW model
  PROVE  LET cell == FoldCell(k, model)
             recs == {r \in Runs(events, lost) : r.verdict # 0 /\ events[r.run].class = k
                                                  /\ events[r.run].model = model} IN
         /\ cell.n = Cardinality(recs)
         /\ cell.pass = Cardinality({r \in recs : events[r.verdict].reading.pass})
         /\ cell.costMedian = << >> <=> Known(recs, "cost_usd") = {}
         /\ cell.costMedian # << >> => IsMiddle(cell.costMedian[1], recs, "cost_usd")
<1> DEFINE cell == FoldCell(k, model)
           recs == {r \in Runs(events, lost) : r.verdict # 0 /\ events[r.run].class = k
                                                /\ events[r.run].model = model}
           v == Values(recs, "pass_rate")
           n == Cardinality(recs)
           passed == {r \in recs : events[r.verdict].reading.pass}
<1>1. recs = {rec \in WithVerdict : Run(rec).class = k /\ Run(rec).model = model}
  BY RecordFacts DEF WithVerdict, Run
<1>2. cell = [n |-> Cardinality(recs), pass |-> SumSeq(v),
              costMedian |-> IF Known(recs, "cost_usd") = {} THEN << >>
                             ELSE <<Median(Values(recs, "cost_usd"))>>]
  BY <1>1 DEF FoldCell
<1>3. recs \in SUBSET WithVerdict /\ Scorable(recs)
  BY <1>1, RecordsFinite
<1>4. passed = {r \in recs : Verdict(r).pass}
  BY DEF Verdict
<1> HIDE DEF recs, cell
<1>5. "pass_rate" \in Columns /\ "cost_usd" \in Columns
  BY DEF Columns
<1>6. Known(recs, "pass_rate") = recs
  BY <1>3, <1>5, ValueIs DEF Known
<1>7. SumSeq(v) = Cardinality(passed)
  <2> DEFINE key == [x \in recs |-> Value(x, "pass_rate")]
  <2>1. /\ IsFiniteSet(recs) /\ n \in Nat
        /\ \E s : Ordered(s, recs, key) /\ v = [i \in 1..n |-> Value(s[i], "pass_rate")]
    BY <1>3, <1>5, <1>6, ValuesAre
  <2>2. PICK s : Ordered(s, recs, key) /\ v = [i \in 1..n |-> Value(s[i], "pass_rate")]
    BY <2>1
  <2>3. /\ \A i \in 1..n : s[i] \in recs
        /\ \A i, j \in 1..n : s[i] = s[j] => i = j
        /\ \A x \in recs : \E i \in 1..n : s[i] = x
    BY <2>2 DEF Ordered
  <2>4. \A x \in recs : /\ Value(x, "pass_rate") \in {0, 1}
                        /\ Value(x, "pass_rate") = 1 <=> x \in passed
    BY <1>3, <1>4, <1>5, ValueIs
  <2> HIDE DEF n, v, passed
  <2>5. v \in [1..n -> {0, 1}] /\ \A i \in 1..n : v[i] = 1 <=> s[i] \in passed
    BY <2>2, <2>3, <2>4
  <2>6. Len(v) = n
    BY <2>1, <2>5
  <2>7. SumSeq(v) = Cardinality({i \in 1..n : v[i] = 1})
    BY <2>1, <2>5, <2>6, SumOfOnes
  <2> DEFINE ones == {i \in 1..n : v[i] = 1}
             f == [i \in ones |-> s[i]]
  <2>8. IsFiniteSet(ones)
    <3>1. IsFiniteSet(1..n) /\ ones \in SUBSET (1..n)
      BY <2>1, FS_Interval
    <3> HIDE DEF ones
    <3> QED BY <3>1, FS_Subset
  <2>9. f \in Injection(ones, passed)
    BY <2>3, <2>5 DEF Injection, IsInjective
  <2>10. f \in Surjection(ones, passed)
    <3>1. f \in [ones -> passed]
      BY <2>5
    <3>2. \A x \in passed : \E i \in ones : s[i] = x
      <4>1. passed \subseteq recs
        BY DEF passed
      <4> QED BY <4>1, <2>3, <2>5
    <3> QED BY <3>1, <3>2 DEF Surjection
  <2> HIDE DEF f, ones
  <2>11. Cardinality(passed) = Cardinality(ones)
    BY <2>8, <2>9, <2>10, FS_Surjection
  <2> QED BY <2>7, <2>11 DEF ones
<1>8. ASSUME Known(recs, "cost_usd") # {} PROVE IsMiddle(Median(Values(recs, "cost_usd")), recs, "cost_usd")
  BY <1>3, <1>5, <1>8, MedianIsMiddle
<1>9. cell.costMedian = IF Known(recs, "cost_usd") = {} THEN << >> ELSE <<Median(Values(recs, "cost_usd"))>>
  BY <1>2
<1>10. cell.n = n /\ cell.pass = SumSeq(v)
  BY <1>2
<1> DEFINE m == Median(Values(recs, "cost_usd"))
           none == Known(recs, "cost_usd") = {}
<1> HIDE DEF m, none
<1>11. cell.costMedian = IF none THEN << >> ELSE <<m>>
  BY <1>9 DEF none, m
<1>12. cell.costMedian = << >> <=> none
  BY <1>11
<1>13. cell.costMedian # << >> => cell.costMedian[1] = m
  BY <1>11
<1>14. /\ cell.n = n /\ cell.pass = Cardinality(passed)
       /\ cell.costMedian = << >> <=> Known(recs, "cost_usd") = {}
       /\ cell.costMedian # << >> => IsMiddle(cell.costMedian[1], recs, "cost_usd")
  BY <1>7, <1>8, <1>10, <1>12, <1>13 DEF none, m
<1> QED BY <1>14 DEF cell, recs, passed, n

LEMMA FiguresHold == ASSUME LogOK PROVE FiguresAreOfTheKnown
<1>1. \A arm : Scorable(ArmRuns(Task, arm))
  <2>1. \A arm : ArmRuns(Task, arm) \in SUBSET WithVerdict
    BY DEF ArmRuns, Scored
  <2> QED BY <2>1, RecordsFinite
<1> QED BY <1>1, ColumnsAreOfTheKnown, FoldCells, Zenon DEF FiguresAreOfTheKnown

-----------------------------------------------------------------------------
(* Contamination *)

\* A day is in a month or before it when it is before the next one begins.
LEMMA MonthIs ==
  ASSUME NEW day \in Nat, NEW month \in Nat
  PROVE  month >= Month(day) <=> day <= (month + 1) * MonthLength - 1
<1> DEFINE m == MonthLength
           q == day \div m
           r == day % m
<1>1. m \in Nat \ {0}
  BY ReportBounds
<1> HIDE DEF m
<1>2. q \in Int
  BY <1>1
<1>3. r \in Int /\ 0 <= r /\ r < m
  BY <1>1
<1>4. day = m * q + r
  BY <1>1
<1>5. Month(day) = q
  BY DEF Month, m
<1> HIDE DEF q, r
<1>6. /\ q <= month => q * m <= month * m
      /\ month + 1 <= q => (month + 1) * m <= q * m
      /\ q * m \in Int /\ month * m \in Int /\ (month + 1) * m \in Int
  BY <1>1, <1>2, Times
<1>7. (month + 1) * m = month * m + m /\ m * q = q * m
  BY <1>1, <1>2
<1>8. ASSUME q <= month PROVE day <= (month + 1) * m - 1
  BY <1>1, <1>3, <1>4, <1>6, <1>7, <1>8
<1>9. ASSUME ~(q <= month) PROVE ~(day <= (month + 1) * m - 1)
  <2>1. month + 1 <= q
    BY <1>2, <1>9
  <2> QED BY <1>3, <1>4, <1>6, <1>7, <2>1
<1> QED BY <1>2, <1>5, <1>8, <1>9 DEF m

\* The loop finds the earliest of the dates when every one was read.
LEMMA EarliestIs ==
  ASSUME LogOK, NEW recs, Scorable(recs), recs # {}, \A rec \in recs : Run(rec).public # Unread
  PROVE  /\ \E rec \in recs : Run(rec).public = Earliest(recs)
         /\ \A rec \in recs : Earliest(recs) <= Run(rec).public
<1> DEFINE n == Cardinality(recs)
           key == [rec \in recs |-> 0]
           s == InOrder(recs, key)
           date(i) == Run(s[i]).public
           step == [i \in 1..n |-> [e \in Nat |-> IF e = Unread \/ date(i) < e THEN date(i) ELSE e]]
           Loop[i \in 0..Len(s)] ==
             IF i = 0 THEN Unread
             ELSE LET d == Run(s[i]).public
                      earliest == Loop[i - 1] IN
                  IF earliest = Unread \/ d < earliest THEN d ELSE earliest
<1>1. /\ IsFiniteSet(recs) /\ recs \subseteq Records
      /\ \A x \in recs : Run(x).public \in Nat /\ x.run \in Nat
      /\ \A x, y \in recs : x.run = y.run => x = y
  BY RecordFacts DEF Scorable, WithVerdict, RunEvent
<1>2. Ordered(s, recs, key)
  <2>1. key \in [recs -> Int]
    OBVIOUS
  <2> HIDE DEF key
  <2> QED BY <1>1, <2>1, InOrderIs
<1>3. /\ n \in Nat \ {0} /\ s \in [1..n -> recs] /\ \A x \in recs : \E i \in 1..n : s[i] = x
  <2>1. n \in Nat /\ n # 0
    BY <1>1, FS_CardinalityType, FS_EmptySet
  <2> QED BY <1>2, <2>1 DEF Ordered
<1> HIDE DEF n, s
<1>4. Len(s) = n
  BY <1>3
<1>5. \A i \in 1..n : date(i) \in Nat /\ date(i) # Unread
  BY <1>1, <1>3
<1>6. Earliest(recs) = Loop[n]
  <2>1. Earliest(recs) = Loop[Len(s)]
    BY Zenon DEF Earliest, s
  <2> HIDE DEF Loop
  <2> QED BY <1>4, <2>1
<1>7. Loop = [i \in 0..n |-> IF i = 0 THEN Unread
                             ELSE IF Loop[i - 1] = Unread \/ date(i) < Loop[i - 1] THEN date(i)
                                  ELSE Loop[i - 1]]
  <2>1. step \in [1..n -> [Nat -> Nat]]
    BY <1>5
  <2>2. PICK g : IsLoop(g, Nat, n, Unread, step)
    BY <1>3, <2>1, LoopExists DEF Unread
  <2>3. g = [i \in 0..n |-> IF i = 0 THEN Unread
                            ELSE IF g[i - 1] = Unread \/ date(i) < g[i - 1] THEN date(i) ELSE g[i - 1]]
    <3>1. g \in [0..n -> Nat] /\ g[0] = Unread
      BY <2>2 DEF IsLoop
    <3>2. ASSUME NEW i \in 0..n, i # 0
          PROVE  g[i] = IF g[i - 1] = Unread \/ date(i) < g[i - 1] THEN date(i) ELSE g[i - 1]
      <4>1. i \in 1..n /\ i - 1 \in 0..n
        BY <1>3, <3>2
      <4>2. g[i] = step[i][g[i - 1]] /\ g[i - 1] \in Nat
        BY <2>2, <3>1, <4>1 DEF IsLoop
      <4> HIDE DEF date
      <4> QED BY <4>1, <4>2
    <3> HIDE DEF date, step
    <3> QED BY <3>1, <3>2
  <2> HIDE DEF date
  <2>4. g = [i \in 0..Len(s) |-> IF i = 0 THEN Unread
                            ELSE IF g[i - 1] = Unread \/ date(i) < g[i - 1] THEN date(i) ELSE g[i - 1]]
    BY <1>4, <2>3
  <2>5. Loop = [i \in 0..Len(s) |-> IF i = 0 THEN Unread
                             ELSE IF Loop[i - 1] = Unread \/ date(i) < Loop[i - 1] THEN date(i)
                                  ELSE Loop[i - 1]]
    BY <2>4 DEF date
  <2> HIDE DEF Loop
  <2> QED BY <1>4, <2>5
<1> HIDE DEF Loop
<1> DEFINE Right(i) == /\ Loop[i] \in Nat
                       /\ i = 0 => Loop[i] = Unread
                       /\ i # 0 => /\ \E j \in 1..i : Loop[i] = date(j)
                                   /\ \A j \in 1..i : Loop[i] <= date(j)
           S == {i \in 0..n : Right(i)}
<1> HIDE DEF date
<1>8. 0 \in S
  <2>1. Loop[0] = Unread
    BY <1>3, <1>7
  <2> QED BY <2>1, <1>3 DEF Unread
<1>9. ASSUME NEW i \in 1..n, i - 1 \in S PROVE i \in S
  <2>1. Loop[i] = IF Loop[i - 1] = Unread \/ date(i) < Loop[i - 1] THEN date(i) ELSE Loop[i - 1]
    <3>1. i \in 0..n /\ i # 0
      BY <1>3
    <3> QED BY <3>1, <1>7
  <2>2. Loop[i - 1] \in Nat /\ date(i) \in Nat /\ date(i) # Unread
    BY <1>5, <1>9
  <2>3. \A j : j \in 1..i <=> j \in 1..(i - 1) \/ j = i
    BY <1>3
  <2>4. \A j \in 1..(i - 1) : date(j) \in Nat /\ date(j) # Unread
    BY <1>3, <1>5
  <2>5. CASE i = 1
    <3>1. Loop[i - 1] = Unread
      BY <1>9, <2>5
    <3>2. Loop[i] = date(i)
      BY <2>1, <3>1
    <3>3. \A j \in 1..i : j = i
      BY <2>5
    <3>4. Right(i)
      BY <2>2, <2>5, <3>2, <3>3
    <3> HIDE DEF Right
    <3> QED BY <3>4, <1>3
  <2>6. CASE i # 1
    <3>1. PICK j \in 1..(i - 1) : Loop[i - 1] = date(j)
      BY <1>9, <2>6
    <3>2. \A m \in 1..(i - 1) : Loop[i - 1] <= date(m)
      BY <1>9, <2>6
    <3>3. Loop[i - 1] # Unread
      BY <2>4, <3>1
    <3>4. Loop[i] \in Nat /\ i # 0
      BY <2>1, <2>2, <1>3
    <3>5. \E m \in 1..i : Loop[i] = date(m)
      BY <2>1, <2>3, <3>1
    <3>6. Loop[i] <= date(i) /\ Loop[i] <= Loop[i - 1]
      BY <2>1, <2>2, <3>3
    <3>7. \A m \in 1..i : Loop[i] <= date(m)
      BY <2>2, <2>3, <2>4, <3>2, <3>4, <3>6
    <3>8. Right(i)
      BY <3>4, <3>5, <3>7
    <3> HIDE DEF Right
    <3> QED BY <3>8, <1>3
  <2> QED BY <2>5, <2>6
<1> HIDE DEF S, Right
<1>10. Right(n)
  <2>1. 0..n \subseteq S
    BY <1>3, <1>8, <1>9, CountUp
  <2> QED BY <2>1, <1>3 DEF S
<1>11. (\E j \in 1..n : Loop[n] = date(j)) /\ \A j \in 1..n : Loop[n] <= date(j)
  BY <1>3, <1>10 DEF Right
<1> QED BY <1>3, <1>6, <1>11 DEF date

LEMMA ContaminationHolds == ASSUME LogOK PROVE ContaminationIsTrue
<1> SUFFICES ASSUME NEW arm \in Arm
             PROVE  LET recs == ArmRuns(Task, arm) IN
                    /\ AtOrAfterCutoff(recs) =
                         {rec \in recs : /\ Run(rec).cutoff # 0
                                         /\ Run(rec).public \in 1..((Run(rec).cutoff + 1) * MonthLength - 1)}
                    /\ recs # {} /\ (\A rec \in recs : Run(rec).public # Unread) =>
                         /\ \E rec \in recs : Run(rec).public = Earliest(recs)
                         /\ \A rec \in recs : Earliest(recs) <= Run(rec).public
  BY DEF ContaminationIsTrue
<1> DEFINE recs == ArmRuns(Task, arm)
<1>1. recs \in SUBSET WithVerdict /\ Scorable(recs)
  <2>1. recs \in SUBSET WithVerdict
    BY DEF ArmRuns, Scored
  <2> QED BY <2>1, RecordsFinite
<1> HIDE DEF recs
<1>2. \A rec \in recs : Run(rec).public \in Nat /\ Run(rec).cutoff \in Nat
  BY <1>1, RecordFacts DEF WithVerdict, RunEvent
<1>3. MonthLength \in Nat
  BY ReportBounds
<1>4. ASSUME NEW rec \in recs
      PROVE  Run(rec).public # Unread /\ Run(rec).cutoff >= Month(Run(rec).public)
               <=> Run(rec).public \in 1..((Run(rec).cutoff + 1) * MonthLength - 1)
  <2> DEFINE d == Run(rec).public
             c == Run(rec).cutoff
             e == (c + 1) * MonthLength - 1
  <2>1. d \in Nat /\ c \in Nat /\ e \in Int
    BY <1>2, <1>3
  <2>2. c >= Month(d) <=> d <= e
    BY <1>3, <2>1, MonthIs
  <2> HIDE DEF d, c, e
  <2>3. d # 0 /\ d <= e <=> d \in 1..e
    BY <2>1
  <2> QED BY <2>2, <2>3 DEF d, c, e, Unread
<1>5. AtOrAfterCutoff(recs) =
        {rec \in recs : /\ Run(rec).cutoff # 0
                        /\ Run(rec).public \in 1..((Run(rec).cutoff + 1) * MonthLength - 1)}
  BY <1>4 DEF AtOrAfterCutoff
<1>6. recs # {} /\ (\A rec \in recs : Run(rec).public # Unread) =>
        /\ \E rec \in recs : Run(rec).public = Earliest(recs)
        /\ \A rec \in recs : Earliest(recs) <= Run(rec).public
  BY <1>1, EarliestIs
<1> QED BY <1>5, <1>6 DEF recs

\* What a report prints of an arm is of readings, for any figures, any of them unknown, and any
\* dates: a mean and a median lie where their values do, a spread is between two repeats, and the
\* runs held to be open to recall are those the dates make so (report.go:181-264, fold.go:285-295).
THEOREM FiguresAreReadings == Spec => []ReportIsOfReadings
<1>1. ReportInv => ReportIsOfReadings
  BY TypeHolds, FiguresHold, ContaminationHolds DEF ReportInv, ReportIsOfReadings
<1> QED BY <1>1, Invariance, PTL

=============================================================================
