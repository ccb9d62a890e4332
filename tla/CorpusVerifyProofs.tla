------------------------- MODULE CorpusVerifyProofs -------------------------
(***************************************************************************)
(* For any tasks, any order of them, any number of jobs, edits and         *)
(* failures: what CorpusVerify promises of the tasks it verifies.          *)
(***************************************************************************)
EXTENDS CorpusVerify, TLAPS, FiniteSetTheorems, WellFoundedInduction

-----------------------------------------------------------------------------
(* The keys of the visible suites *)

\* A set of natural numbers that is not empty has a least one.
LEMMA Least ==
  ASSUME NEW B, B \subseteq Nat, B # {}
  PROVE  \E n \in B : \A m \in B : n <= m
<1> DEFINE R == OpToRel(<, Nat)
<1>1. IsWellFoundedOn(R, Nat)
  BY NatLessThanWellFounded
<1>2. \A x, y \in Nat : <<x, y>> \in R <=> x < y
  BY DEF OpToRel
<1> HIDE DEF R
<1>3. PICK x \in B : \A y \in B : ~ (<<y, x>> \in R)
  BY <1>1, WFMin
<1>4. \A y \in B : ~ (y < x)
  BY <1>2, <1>3
<1>5. \A y \in B : x <= y
  BY <1>4
<1> QED BY <1>5

\* The numbers of T up to n, in order: what a loop that appends them has kept.
Keeps(g, T, N) ==
  g = [n \in 0..N |-> IF n = 0 THEN << >>
                      ELSE IF n \in T THEN Append(g[n - 1], n) ELSE g[n - 1]]

\* That recursion has a solution.
LEMMA KeptExists ==
  ASSUME NEW T, NEW N \in Nat
  PROVE  \E g : Keeps(g, T, N)
<1> DEFINE B == {n \in Nat : ~ \E g : Keeps(g, T, n)}
<1>1. SUFFICES ASSUME B # {} PROVE FALSE
  OBVIOUS
<1>2. PICK n \in B : \A m \in B : n <= m
  BY <1>1, Least
<1>3. n # 0
  <2> DEFINE g == [k \in 0..0 |-> << >>]
  <2>1. Keeps(g, T, 0)
    BY DEF Keeps
  <2> QED BY <2>1, <1>2
<1>4. PICK g : Keeps(g, T, n - 1)
  <2>1. n - 1 \in Nat /\ n - 1 \notin B
    BY <1>2, <1>3
  <2> QED BY <2>1
<1> DEFINE h == [k \in 0..n |-> IF k < n THEN g[k]
                                ELSE IF n \in T THEN Append(g[n - 1], n) ELSE g[n - 1]]
<1>5. Keeps(h, T, n)
  <2>1. \A k \in 0..n - 1 : h[k] = g[k]
    BY <1>2, <1>3
  <2>2. h[0] = << >>
    BY <2>1, <1>2, <1>3, <1>4 DEF Keeps
  <2>3. ASSUME NEW k \in 1..n PROVE h[k] = IF k \in T THEN Append(h[k - 1], k) ELSE h[k - 1]
    <3>1. k - 1 \in 0..n - 1 /\ k \in 0..n
      BY <1>2
    <3>2. CASE k = n
      <4>1. h[n] = IF n \in T THEN Append(g[n - 1], n) ELSE g[n - 1]
        BY <3>1, <3>2
      <4> QED BY <4>1, <3>1, <3>2, <2>1
    <3>3. CASE k # n
      <4>1. k \in 0..n - 1 /\ k # 0
        BY <3>3, <1>2
      <4> QED BY <4>1, <3>1, <2>1, <1>4 DEF Keeps
    <3> QED BY <3>2, <3>3
  <2>4. h = [k \in 0..n |-> h[k]]
    OBVIOUS
  <2>5. \A k \in 0..n : k # 0 => k \in 1..n
    BY <1>2
  <2> HIDE DEF h
  <2> QED BY <2>2, <2>3, <2>4, <2>5 DEF Keeps
<1> QED BY <1>2, <1>5

\* What an append adds to the members of a sequence.
LEMMA Appended ==
  ASSUME NEW S, NEW s \in Seq(S), NEW e \in S, NEW q, q = Append(s, e)
  PROVE  /\ q \in Seq(S)
         /\ \A x : (\E k \in 1..Len(q) : q[k] = x) <=> x = e \/ \E k \in 1..Len(s) : s[k] = x
<1>1. q \in Seq(S) /\ Len(s) \in Nat /\ Len(q) = Len(s) + 1 /\ q[Len(s) + 1] = e
      /\ \A k \in 1..Len(s) : q[k] = s[k]
  OBVIOUS
<1>2. \A k \in 1..Len(q) : k = Len(s) + 1 \/ k \in 1..Len(s)
  BY <1>1
<1>3. \A k \in 1..Len(s) : k \in 1..Len(q)
  BY <1>1
<1>4. Len(s) + 1 \in 1..Len(q)
  BY <1>1
<1> QED BY <1>1, <1>2, <1>3, <1>4, Zenon

\* And it keeps those numbers and no others.
LEMMA KeptRange ==
  ASSUME NEW T, NEW N \in Nat, NEW g, Keeps(g, T, N)
  PROVE  /\ g[N] \in Seq(1..N)
         /\ \A n \in 1..N : n \in T <=> \E k \in 1..Len(g[N]) : g[N][k] = n
<1> DEFINE Right(n) == /\ g[n] \in Seq(1..N)
                       /\ \A k \in 1..Len(g[n]) : g[n][k] <= n
                       /\ \A m \in 1..n : m \in T <=> \E k \in 1..Len(g[n]) : g[n][k] = m
           B == {n \in 0..N : ~ Right(n)}
<1>1. SUFFICES ASSUME B # {} PROVE FALSE
  OBVIOUS
<1>2. PICK n \in B : \A m \in B : n <= m
  <2>1. B \subseteq Nat
    OBVIOUS
  <2> QED BY <1>1, <2>1, Least
<1>3. n # 0
  <2>1. g[0] = << >>
    BY DEF Keeps
  <2>2. Right(0)
    BY <2>1
  <2> QED BY <2>2, <1>2
<1>4. n \in 1..N /\ n - 1 \in 0..N /\ Right(n - 1)
  BY <1>2, <1>3
<1>5. g[n] = IF n \in T THEN Append(g[n - 1], n) ELSE g[n - 1]
  BY <1>3, <1>4 DEF Keeps
<1>6. Right(n)
  <2> DEFINE s == g[n - 1]
  <2>0. s \in Seq(1..N) /\ (\A k \in 1..Len(s) : s[k] <= n - 1)
        /\ \A m \in 1..n - 1 : m \in T <=> \E k \in 1..Len(s) : s[k] = m
    BY <1>4
  <2> HIDE DEF s
  <2>1. CASE n \in T
    <3>1. g[n] = Append(s, n)
      BY <1>5, <2>1 DEF s
    <3>2. g[n] \in Seq(1..N)
      BY <3>1, <2>0, <1>4, Appended
    <3>3. \A x : (\E k \in 1..Len(g[n]) : g[n][k] = x) <=> x = n \/ \E k \in 1..Len(s) : s[k] = x
      <4>1. s \in Seq(1..N) /\ n \in 1..N
        BY <2>0, <1>4
      <4> DEFINE q == g[n]
      <4>2. q = Append(s, n)
        BY <3>1
      <4> HIDE DEF q
      <4>3. \A x : (\E k \in 1..Len(q) : q[k] = x) <=> x = n \/ \E k \in 1..Len(s) : s[k] = x
        BY <4>1, <4>2, Appended
      <4> QED BY <4>3 DEF q
    <3>4. \A k \in 1..Len(g[n]) : g[n][k] <= n
      <4>1. \A k \in 1..Len(s) : s[k] \in 1..N
        BY <2>0
      <4>2. \A k \in 1..Len(s) : s[k] <= n
        BY <4>1, <2>0, <1>4
      <4>3. \A x : (x = n \/ \E k \in 1..Len(s) : s[k] = x) => x <= n
        BY <4>2, <1>4
      <4> QED BY <4>3, <3>3
    <3>5. \A m \in 1..n : m # n => m \in 1..n - 1
      BY <1>4
    <3> QED BY <3>2, <3>3, <3>4, <3>5, <2>0, <2>1
  <2>2. CASE n \notin T
    <3>1. g[n] = s
      BY <1>5, <2>2 DEF s
    <3>2. \A k \in 1..Len(s) : s[k] \in 1..N /\ s[k] <= n - 1 /\ s[k] # n
      BY <2>0, <1>4
    <3>3. \A k \in 1..Len(s) : s[k] <= n
      BY <3>2, <1>4
    <3>4. ASSUME NEW m \in 1..n PROVE m \in T <=> \E k \in 1..Len(s) : s[k] = m
      <4>1. CASE m = n
        BY <4>1, <3>2, <2>2
      <4>2. CASE m # n
        BY <4>2, <2>0, <1>4
      <4> QED BY <4>1, <4>2
    <3> QED BY <3>1, <3>3, <3>4, <2>0
  <2> QED BY <2>1, <2>2
<1> QED BY <1>2, <1>6

\* Every key of a task pass 1 let through is among the keys pass 2 runs.
LEMMA FirstsCover ==
  /\ Firsts \in Seq(DOMAIN Holder)
  /\ \A n \in DOMAIN Holder : hash[Holder[n].i] # -1 =>
       \E k \in 1..Len(Firsts) : KeyOf(Holder[Firsts[k]]) = KeyOf(Holder[n])
<1> DEFINE N == 2 * Len(Ids)
           holds(n) == hash[Holder[n].i] # -1
           first(n) == holds(n) /\ \A m \in 1..n - 1 : holds(m) => KeyOf(Holder[m]) # KeyOf(Holder[n])
           T == {n \in 1..N : first(n)}
           upTo[n \in 0..N] ==
             IF n = 0 THEN << >>
             ELSE IF first(n) THEN Append(upTo[n - 1], n) ELSE upTo[n - 1]
<1>1. N \in Nat
  BY IdsAssumption
<1>2. DOMAIN Holder = 1..N
  BY DEF Holder
<1>3. Keeps(upTo, T, N)
  <2>1. \A n \in 0..N : n # 0 => (n \in T <=> first(n))
    BY <1>1
  <2>2. PICK g : Keeps(g, T, N)
    BY <1>1, KeptExists
  <2>3. g = [n \in 0..N |-> IF n = 0 THEN << >>
                            ELSE IF first(n) THEN Append(g[n - 1], n) ELSE g[n - 1]]
    <3> HIDE DEF T, first, N
    <3> QED BY <2>1, <2>2 DEF Keeps
  <2>4. upTo = [n \in 0..N |-> IF n = 0 THEN << >>
                              ELSE IF first(n) THEN Append(upTo[n - 1], n) ELSE upTo[n - 1]]
    <3> HIDE DEF first, N
    <3> QED BY <2>3
  <2> HIDE DEF upTo, T, first, N
  <2> QED BY <2>1, <2>4 DEF Keeps
<1>4. Firsts = upTo[N]
  BY DEF Firsts
<1>5. /\ Firsts \in Seq(1..N)
      /\ \A n \in 1..N : n \in T <=> \E k \in 1..Len(Firsts) : Firsts[k] = n
  <2> HIDE DEF upTo, T, N
  <2>1. \A g : Keeps(g, T, N) =>
          /\ g[N] \in Seq(1..N)
          /\ \A n \in 1..N : n \in T <=> \E k \in 1..Len(g[N]) : g[N][k] = n
    BY <1>1, KeptRange
  <2> QED BY <2>1, <1>3, <1>4
<1>6. ASSUME NEW n \in 1..N, holds(n)
      PROVE  \E m \in T : KeyOf(Holder[m]) = KeyOf(Holder[n])
  <2> DEFINE B == {m \in 1..N : holds(m) /\ KeyOf(Holder[m]) = KeyOf(Holder[n])}
  <2>1. PICK m \in B : \A b \in B : m <= b
    <3>1. B \subseteq Nat /\ B # {}
      BY <1>6
    <3> HIDE DEF B
    <3> QED BY <3>1, Least
  <2>2. \A b \in 1..m - 1 : b \in 1..N /\ b \notin B
    BY <2>1, <1>1
  <2>3. m \in T
    BY <2>1, <2>2
  <2>4. KeyOf(Holder[m]) = KeyOf(Holder[n])
    BY <2>1
  <2> HIDE DEF T
  <2> QED BY <2>3, <2>4
<1>7. T \subseteq 1..N
  OBVIOUS
<1> HIDE DEF T, N
<1>8. ASSUME NEW n \in 1..N, holds(n)
      PROVE  \E k \in 1..Len(Firsts) : KeyOf(Holder[Firsts[k]]) = KeyOf(Holder[n])
  <2>1. PICK m \in T : KeyOf(Holder[m]) = KeyOf(Holder[n])
    BY <1>6, <1>8
  <2>2. PICK k \in 1..Len(Firsts) : Firsts[k] = m
    BY <2>1, <1>5, <1>7
  <2> QED BY <2>1, <2>2
<1> QED BY <1>2, <1>5, <1>8

\* Holder lists both ends of every task.
LEMMA HolderOf ==
  /\ \A n \in DOMAIN Holder : Holder[n].i \in Goroutine /\ Holder[n].p \in {"base", "landed"}
  /\ \A i \in Goroutine, p \in {"base", "landed"} :
       \E n \in DOMAIN Holder : Holder[n].i = i /\ Holder[n].p = p
<1>1. Len(Ids) \in Nat
  BY IdsAssumption
<1>2. \A n \in 1..2 * Len(Ids) : (n + 1) \div 2 \in 1..Len(Ids)
  BY <1>1
<1>3. \A i \in 1..Len(Ids) :
        /\ 2 * i - 1 \in 1..2 * Len(Ids) /\ 2 * i \in 1..2 * Len(Ids)
        /\ (2 * i) \div 2 = i /\ (2 * i + 1) \div 2 = i
        /\ (2 * i - 1) % 2 = 1 /\ (2 * i) % 2 = 0
  BY <1>1
<1>4. ASSUME NEW i \in Goroutine
      PROVE  \E n \in DOMAIN Holder : Holder[n].i = i /\ Holder[n].p = "base"
  <2>1. 2 * i - 1 \in DOMAIN Holder
    BY <1>3 DEF Holder, Goroutine
  <2>2. ((2 * i - 1) + 1) \div 2 = i /\ (2 * i - 1) % 2 = 1
    BY <1>3 DEF Goroutine
  <2> QED BY <2>1, <2>2 DEF Holder
<1>5. ASSUME NEW i \in Goroutine
      PROVE  \E n \in DOMAIN Holder : Holder[n].i = i /\ Holder[n].p = "landed"
  <2>1. 2 * i \in DOMAIN Holder
    BY <1>3 DEF Holder, Goroutine
  <2>2. (2 * i + 1) \div 2 = i /\ (2 * i) % 2 # 1
    BY <1>3 DEF Goroutine
  <2> QED BY <2>1, <2>2 DEF Holder
<1>6. \A n \in DOMAIN Holder : Holder[n].i \in Goroutine
  BY <1>2 DEF Holder, Goroutine
<1>7. \A n \in DOMAIN Holder : Holder[n].p \in {"base", "landed"}
  BY DEF Holder
<1> QED BY <1>4, <1>5, <1>6, <1>7

-----------------------------------------------------------------------------
(* Types *)

Why == {"record", "collision", "mirror", "work", "hash", "visible"} \cup ToSet(Phases)

\* What pass 1 keeps of its tasks.
TypeOfMirrors == lock \in [Repos -> {0} \cup Goroutine] /\ mirror \subseteq Repos
TypeOfPlaces ==
  /\ at \in [Goroutine -> {"queued", "mirror", "clone", "fetch", "work", "tree", "check",
                           "hash", "done"}]
  /\ phase \in [Goroutine -> 1..3] /\ \A i \in Goroutine : phase[i] \in 1..Trees(i)
TypeOfVersions ==
  /\ loaded \in [Goroutine -> 0..MaxEdits] /\ copied \in [Goroutine -> 0..MaxEdits]
  /\ hash \in [Goroutine -> -1..MaxEdits]
TypeOfFlags ==
  /\ whole \in [Goroutine -> BOOLEAN] /\ clockless \in [Goroutine -> BOOLEAN]
  /\ spoilt \in [Goroutine -> SUBSET ToSet(Phases)]

TypeOfTasks == TypeOfMirrors /\ TypeOfPlaces /\ TypeOfVersions /\ TypeOfFlags

\* Why tasks are refused.
TypeOfRefusals == refused \in [Goroutine -> SUBSET Why]

\* What is counted, and no version is later than the edits there were.
TypeOfCounts ==
  /\ edits \in 0..MaxEdits /\ faults \in 0..MaxFaults /\ unrun \in 0..MaxUnrun
  /\ content \in [Task -> 0..edits]
  /\ cancelled \in BOOLEAN

\* Where pass 2 is.
TypeOfSuite ==
  /\ suite.at \in {"wait", "clone", "first", "reclone", "rerun", "ended"}
  /\ suite.todo \in Seq(DOMAIN Holder)
  /\ suite.todo = << >> <=> suite.at \in {"wait", "ended"}
  /\ suite = [at |-> suite.at, todo |-> suite.todo]
  /\ \A i \in Goroutine, p \in {"base", "landed"} : reading[i][p].outcome \in Visible

Types == TypeOfTasks /\ TypeOfRefusals /\ TypeOfCounts /\ TypeOfSuite

LEMMA Bounds ==
  /\ MaxEdits \in Nat /\ MaxFaults \in Nat /\ MaxUnrun \in Nat /\ Jobs \in Nat \ {0}
  /\ Len(Ids) \in Nat /\ \A i \in Goroutine : Ids[i] \in Task
<1>1. MaxEdits \in {MaxEdits, MaxFaults, MaxUnrun} /\ MaxFaults \in {MaxEdits, MaxFaults, MaxUnrun}
      /\ MaxUnrun \in {MaxEdits, MaxFaults, MaxUnrun}
  OBVIOUS
<1> QED BY <1>1, ChecksAssumption, IdsAssumption DEF Goroutine

LEMMA PhaseFacts ==
  /\ \A n \in 1..3 : Phases[n] \in Why
  /\ \A n \in 1..3 : Phases[n] \in ToSet(Phases)
  /\ Phases[1] = "base" /\ Phases[2] = "landed" /\ Phases[3] = "additions"
  /\ \A i \in Goroutine : Trees(i) \in {2, 3} /\ 1..Trees(i) \subseteq 1..3
<1>1. DOMAIN Phases = 1..3 /\ Phases[1] = "base" /\ Phases[2] = "landed" /\ Phases[3] = "additions"
  BY DEF Phases
<1>2. \A n \in 1..3 : Phases[n] \in ToSet(Phases)
  BY <1>1 DEF ToSet
<1>3. \A n \in 1..3 : Phases[n] \in Why
  BY <1>2 DEF Why
<1> QED BY <1>1, <1>2, <1>3 DEF Trees

LEMMA Reasons ==
  /\ {"record", "collision", "mirror", "work", "hash", "visible"} \subseteq Why
  /\ \A n \in 1..3 : Phases[n] \in Why
  BY PhaseFacts DEF Why

LEMMA TypesInit == Init => Types
<1> SUFFICES ASSUME Init PROVE Types
  OBVIOUS
<1>1. TypeOfTasks
  BY Bounds, PhaseFacts
  DEF Init, TypeOfTasks, TypeOfMirrors, TypeOfPlaces, TypeOfVersions, TypeOfFlags
<1>2. TypeOfCounts
  <2>1. 0 \in 0..0 /\ 0 \in 0..MaxEdits /\ 0 \in 0..MaxFaults /\ 0 \in 0..MaxUnrun
    BY Bounds
  <2> QED BY <2>1 DEF Init, TypeOfCounts
<1>3. TypeOfSuite
  BY DEF Init, TypeOfSuite, Unread, Visible
<1>4. TypeOfRefusals
  BY DEF Init, TypeOfRefusals
<1> QED BY <1>1, <1>2, <1>3, <1>4 DEF Types

\* A task's refusals only grow, by reasons that are known.
LEMMA RefusalsGrow ==
  ASSUME NEW i \in Goroutine, VerifyTask(i), TypeOfTasks, TypeOfRefusals
  PROVE  refused' = refused \/ \E w \in Why : Refuse(i, w)
<1>1. CASE Start(i)
  BY <1>1, Reasons DEF Start, Refuse
<1>2. CASE LockMirror(i)
  BY <1>2, Reasons DEF LockMirror, Refuse
<1>3. CASE CloneMirror(i)
  BY <1>3, Reasons DEF CloneMirror, Refuse
<1>4. CASE FetchMirror(i)
  BY <1>4, Reasons DEF FetchMirror, Refuse
<1>5. CASE EmptyWork(i)
  BY <1>5, Reasons DEF EmptyWork, Refuse
<1>6. CASE Checkout(i)
  <2>1. phase[i] \in 1..3 /\ Phases[phase[i]] \in Why
    BY Reasons DEF TypeOfTasks, TypeOfPlaces
  <2> QED BY <1>6, <2>1, Reasons DEF Checkout, Refuse
<1>7. CASE Check(i)
  <2>1. phase[i] \in 1..3 /\ Phases[phase[i]] \in Why
    BY Reasons DEF TypeOfTasks, TypeOfPlaces
  <2>2. PICK exit : refused' = [refused EXCEPT ![i] = IF Refuses(Phases[phase[i]], exit)
                                                     THEN @ \cup {Phases[phase[i]]} ELSE @]
    BY <1>7 DEF Check
  <2>3. CASE Refuses(Phases[phase[i]], exit)
    BY <2>1, <2>2, <2>3 DEF Refuse
  <2>4. CASE ~Refuses(Phases[phase[i]], exit)
    BY <2>2, <2>4 DEF TypeOfRefusals
  <2> QED BY <2>3, <2>4
<1>8. CASE Hash(i)
  BY <1>8, Reasons DEF Hash, Refuse
<1> QED BY <1>1, <1>2, <1>3, <1>4, <1>5, <1>6, <1>7, <1>8 DEF VerifyTask

LEMMA RefusalTypes ==
  ASSUME Types, NEW i \in Goroutine, VerifyTask(i)
  PROVE  TypeOfRefusals'
<1>1. refused' = refused \/ \E w \in Why : Refuse(i, w)
  BY RefusalsGrow DEF Types
<1> QED BY <1>1 DEF Types, TypeOfRefusals, Refuse

LEMMA MirrorTypes ==
  ASSUME Types, NEW i \in Goroutine, VerifyTask(i)
  PROVE  TypeOfMirrors'
<1>0. Rec(i).repo \in Repos /\ TypeOfMirrors
  BY Bounds DEF Rec, Repos, Types, TypeOfTasks
<1>1. CASE LockMirror(i)
  BY <1>1, <1>0 DEF TypeOfMirrors, LockMirror, diskVars
<1>2. CASE CloneMirror(i)
  BY <1>2, <1>0 DEF TypeOfMirrors, CloneMirror, Unlock
<1>3. CASE FetchMirror(i)
  BY <1>3, <1>0 DEF TypeOfMirrors, FetchMirror, Unlock, diskVars
<1>4. CASE Start(i) \/ EmptyWork(i) \/ Checkout(i) \/ Check(i) \/ Hash(i)
  BY <1>4 DEF TypeOfMirrors, Types, TypeOfTasks, diskVars, Start, EmptyWork, Checkout, Check, Hash
<1> QED BY <1>1, <1>2, <1>3, <1>4 DEF VerifyTask

LEMMA NextPlace ==
  ASSUME TypeOfPlaces, NEW i \in Goroutine, NextPhase(i)
  PROVE  TypeOfPlaces'
<1>1. phase[i] \in Nat /\ Trees(i) \in Nat /\ phase[i] <= Trees(i) /\ Trees(i)' = Trees(i)
  BY PhaseFacts DEF TypeOfPlaces, Trees, Rec
<1>2. \A j \in Goroutine : (1..Trees(j))' = 1..Trees(j)
  BY DEF Trees, Rec
<1>3. CASE phase[i] < Trees(i)
  <2>1. phase[i] + 1 \in 1..Trees(i) /\ phase[i] + 1 \in 1..3
    BY <1>1, <1>3, PhaseFacts
  <2> QED BY <2>1, <1>2, <1>3 DEF TypeOfPlaces, NextPhase, Goto
<1>4. CASE ~(phase[i] < Trees(i))
  BY <1>2, <1>4 DEF TypeOfPlaces, NextPhase, Goto
<1> QED BY <1>3, <1>4

LEMMA PlaceTypes ==
  ASSUME Types, NEW i \in Goroutine, VerifyTask(i)
  PROVE  TypeOfPlaces'
<1>0. TypeOfPlaces
  BY DEF Types, TypeOfTasks
<1>1. CASE Checkout(i)
  BY <1>1, <1>0, NextPlace DEF TypeOfPlaces, Checkout, Goto, Trees, Rec
<1>2. CASE Check(i)
  BY <1>2, <1>0, NextPlace DEF Check
<1>3. CASE Start(i) \/ LockMirror(i) \/ CloneMirror(i) \/ FetchMirror(i) \/ EmptyWork(i) \/ Hash(i)
  BY <1>0, <1>3 DEF TypeOfPlaces, Goto, Trees, Rec, Start, LockMirror, CloneMirror, FetchMirror, EmptyWork, Hash
<1> QED BY <1>1, <1>2, <1>3 DEF VerifyTask

LEMMA VersionTypes ==
  ASSUME Types, NEW i \in Goroutine, VerifyTask(i)
  PROVE  TypeOfVersions'
<1>0. TypeOfVersions
  BY DEF Types, TypeOfTasks
<1>9. content[Ids[i]] \in 0..MaxEdits
  BY Bounds DEF Types, TypeOfCounts
<1>10. content[Ids[i]] \in -1..MaxEdits
  BY <1>9, Bounds
<1>1. CASE Start(i)
  BY <1>1, <1>0, <1>9 DEF TypeOfVersions, Start
<1>2. CASE Checkout(i)
  BY <1>2, <1>0, <1>9 DEF TypeOfVersions, Checkout
<1>3. CASE Hash(i)
  BY <1>3, <1>0, <1>10 DEF TypeOfVersions, Hash
<1>4. CASE LockMirror(i) \/ CloneMirror(i) \/ FetchMirror(i) \/ EmptyWork(i) \/ Check(i)
  BY <1>0, <1>4 DEF TypeOfVersions, LockMirror, CloneMirror, FetchMirror, EmptyWork, Check
<1> QED BY <1>1, <1>2, <1>3, <1>4 DEF VerifyTask

LEMMA FlagTypes ==
  ASSUME Types, NEW i \in Goroutine, VerifyTask(i)
  PROVE  TypeOfFlags'
<1>0. TypeOfFlags
  BY DEF Types, TypeOfTasks
<1>1. CASE EmptyWork(i)
  BY <1>1, <1>0 DEF TypeOfFlags, EmptyWork
<1>2. CASE Checkout(i)
  BY <1>2, <1>0 DEF TypeOfFlags, Checkout, Without
<1>3. CASE Check(i)
  <2>1. phase[i] \in 1..3 /\ Phases[phase[i]] \in ToSet(Phases)
    BY PhaseFacts DEF Types, TypeOfTasks, TypeOfPlaces
  <2>2. PICK exit : spoilt' = [spoilt EXCEPT ![i] = IF exit \in {"hung", "broken"}
                                                   THEN @ \cup {Phases[phase[i]]} ELSE @]
    BY <1>3 DEF Check
  <2>3. spoilt' \in [Goroutine -> SUBSET ToSet(Phases)]
    BY <2>1, <2>2, <1>0 DEF TypeOfFlags
  <2> QED BY <1>3, <1>0, <2>3 DEF TypeOfFlags, Check, Without
<1>4. CASE Start(i) \/ LockMirror(i) \/ CloneMirror(i) \/ FetchMirror(i) \/ Hash(i)
  BY <1>0, <1>4 DEF TypeOfFlags, Start, LockMirror, CloneMirror, FetchMirror, Hash
<1> QED BY <1>1, <1>2, <1>3, <1>4 DEF VerifyTask

LEMMA TaskTypes ==
  ASSUME Types, NEW i \in Goroutine, VerifyTask(i)
  PROVE  TypeOfTasks'
BY MirrorTypes, PlaceTypes, VersionTypes, FlagTypes DEF TypeOfTasks

LEMMA CountTypes ==
  ASSUME Types, NEW i \in Goroutine, VerifyTask(i)
  PROVE  TypeOfCounts'
<1>1. edits \in 0..MaxEdits /\ content \in [Task -> 0..edits] /\ cancelled \in BOOLEAN
  BY DEF Types, TypeOfCounts
<1>2. UNCHANGED <<edits, content, cancelled>>
  BY DEF VerifyTask, Start, LockMirror, CloneMirror, FetchMirror, EmptyWork, Checkout, Check, Hash,
         diskVars
<1>3. faults' = faults \/ (faults < MaxFaults /\ faults' = faults + 1)
  BY DEF VerifyTask, Start, LockMirror, CloneMirror, FetchMirror, EmptyWork, Checkout, Check, Hash,
         Works, Fails, Spoils
<1>4. faults' \in 0..MaxFaults
  BY <1>3, Bounds DEF Types, TypeOfCounts
<1>5. unrun' = unrun \/ (unrun < MaxUnrun /\ unrun' = unrun + 1)
  <2>1. CASE Check(i)
    BY <2>1 DEF Check, Spoils
  <2>2. CASE ~Check(i)
    BY <2>2 DEF VerifyTask, Start, LockMirror, CloneMirror, FetchMirror, EmptyWork, Checkout, Hash
  <2> QED BY <2>1, <2>2
<1>6. unrun' \in 0..MaxUnrun
  BY <1>5, Bounds DEF Types, TypeOfCounts
<1> QED BY <1>1, <1>2, <1>4, <1>6 DEF TypeOfCounts

LEMMA SuiteSame ==
  ASSUME Types, UNCHANGED suiteVars
  PROVE  TypeOfSuite'
BY DEF Types, TypeOfSuite, suiteVars, Visible

-----------------------------------------------------------------------------
(* The steps of pass 2 *)

\* What a run that gives a reading has found.
Found(outcome, failure) ==
  /\ outcome \in Visible /\ (failure # "" \/ outcome = "green")
  /\ suite.at \in {"clone", "first", "reclone", "rerun"}
  /\ suite.at \in {"clone", "reclone"} => failure # ""
  /\ Give(outcome, failure)

\* A step within a run: no reading is given, and no command is started after an interrupt.
Within ==
  /\ suite.at \in {"clone", "first", "reclone"} /\ suite'.at \in {"first", "reclone", "rerun"}
  /\ suite' = [at |-> suite'.at, todo |-> suite.todo]
  /\ suite.at \in {"clone", "reclone"} => ~cancelled
  /\ UNCHANGED <<reading, refused>>

LEMMA SuiteSteps ==
  ASSUME TypeOfSuite, VerifyVisible
  PROVE  /\ StartSuites \/ Within \/ \E outcome, failure : Found(outcome, failure)
         /\ UNCHANGED <<diskVars, lock, taskVars, cancelled, unrun>>
         /\ faults' = faults \/ (faults < MaxFaults /\ faults' = faults + 1)
<1> DEFINE Known == StartSuites \/ Within \/ \E outcome, failure : Found(outcome, failure)
<1>1. CASE StartSuites
  BY <1>1 DEF StartSuites
<1>2. CASE PrepareSuite
  <2>1. suite.at \in {"clone", "reclone"}
    BY <1>2 DEF PrepareSuite
  <2>2. ASSUME ~cancelled, UNCHANGED <<reading, refused>>,
               suite' = [suite EXCEPT !.at = IF @ = "clone" THEN "first" ELSE "rerun"]
        PROVE  Within
    BY <2>1, <2>2 DEF Within, TypeOfSuite
  <2>3. ASSUME Give(IF suite.at = "clone" THEN "failed" ELSE "red", "failed")
        PROVE  \E outcome, failure : Found(outcome, failure)
    <3>1. Found(IF suite.at = "clone" THEN "failed" ELSE "red", "failed")
      BY <2>1, <2>3 DEF Found, Visible
    <3> QED BY <3>1
  <2> QED BY <1>2, <2>2, <2>3 DEF PrepareSuite, Works, Fails
<1>3. CASE FirstRun
  <2>1. suite.at = "first"
    BY <1>3 DEF FirstRun
  <2>2. ASSUME NEW outcome \in {"green", "zero", "killed", "red"}, Verdict(outcome)
        PROVE  Known
    <3>1. CASE outcome = "red"
      <4>1. Within
        BY <3>1, <2>1, <2>2 DEF Verdict, Within, TypeOfSuite
      <4> QED BY <4>1
    <3>2. CASE outcome # "red"
      <4>1. Found(outcome, IF outcome = "green" THEN "" ELSE outcome)
        BY <3>2, <2>1, <2>2 DEF Verdict, Found, Visible
      <4> QED BY <4>1
    <3> QED BY <3>1, <3>2
  <2>3. \E outcome \in {"green", "zero", "killed", "red"} : Verdict(outcome)
    BY <1>3 DEF FirstRun
  <2>4. Known
    BY <2>2, <2>3
  <2>5. UNCHANGED <<diskVars, lock, taskVars, cancelled, unrun>>
        /\ (faults' = faults \/ (faults < MaxFaults /\ faults' = faults + 1))
    BY <1>3 DEF FirstRun, Fails
  <2> QED BY <2>4, <2>5
<1>4. CASE Rerun
  <2>1. PICK green \in BOOLEAN : Give("red", Named(green))
    BY <1>4 DEF Rerun
  <2>2. Found("red", Named(green))
    BY <1>4, <2>1 DEF Rerun, Found, Visible, Named
  <2> QED BY <1>4, <2>2 DEF Rerun
<1> QED BY <1>1, <1>2, <1>3, <1>4 DEF VerifyVisible

\* After a reading the key at hand is done with, and every other one is still to run.
LEMMA OnToNext ==
  ASSUME TypeOfSuite, NEW outcome, NEW failure, Found(outcome, failure)
  PROVE  /\ suite.todo # << >> /\ Head(suite.todo) \in DOMAIN Holder
         /\ Tail(suite.todo) \in Seq(DOMAIN Holder)
         /\ suite' = Suites(Tail(suite.todo))
         /\ \A k \in 1..Len(suite.todo) :
              \/ suite.todo[k] = Head(suite.todo)
              \/ \E m \in 1..Len(Tail(suite.todo)) : Tail(suite.todo)[m] = suite.todo[k]
<1> DEFINE s == suite.todo
<1>1. s \in Seq(DOMAIN Holder) /\ s # << >> /\ suite' = Suites(Tail(s))
  BY DEF TypeOfSuite, Found, Give
<1> HIDE DEF s
<1>2. Head(s) = s[1] /\ Len(s) \in Nat \ {0} /\ Len(Tail(s)) = Len(s) - 1
      /\ Head(s) \in DOMAIN Holder /\ Tail(s) \in Seq(DOMAIN Holder)
      /\ \A m \in 1..Len(s) - 1 : Tail(s)[m] = s[m + 1]
  BY <1>1
<1>3. \A k \in 1..Len(s) : k = 1 \/ (k - 1 \in 1..Len(s) - 1 /\ (k - 1) + 1 = k)
  BY <1>2
<1>4. \A k \in 1..Len(s) : s[k] = Head(s) \/ \E m \in 1..Len(Tail(s)) : Tail(s)[m] = s[k]
  BY <1>2, <1>3
<1> QED BY <1>1, <1>2, <1>4 DEF s

LEMMA SuiteTypes ==
  ASSUME Types, VerifyVisible
  PROVE  Types'
<1>1. TypeOfTasks' /\ TypeOfCounts'
  <2>1. UNCHANGED <<diskVars, lock, taskVars, cancelled, unrun>>
        /\ (faults' = faults \/ (faults < MaxFaults /\ faults' = faults + 1))
    BY SuiteSteps DEF Types
  <2>2. faults' \in 0..MaxFaults
    BY <2>1, Bounds DEF Types, TypeOfCounts
  <2>3. TypeOfTasks'
    BY <2>1 DEF Types, TypeOfTasks, TypeOfMirrors, TypeOfPlaces, TypeOfVersions, TypeOfFlags,
               taskVars, diskVars, Trees, Rec
  <2> QED BY <2>1, <2>2, <2>3 DEF Types, TypeOfCounts, diskVars
<1>2. CASE StartSuites
  <2>1. TypeOfSuite'
    BY <1>2, FirstsCover DEF Types, TypeOfSuite, StartSuites, Suites, Visible
  <2>2. TypeOfRefusals'
    BY <1>2 DEF Types, TypeOfRefusals, StartSuites
  <2> QED BY <1>1, <2>1, <2>2 DEF Types
<1>3. CASE Within
  <2>1. TypeOfSuite'
    BY <1>3 DEF Types, TypeOfSuite, Within, Visible
  <2>2. TypeOfRefusals'
    BY <1>3 DEF Types, TypeOfRefusals, Within
  <2> QED BY <1>1, <2>1, <2>2 DEF Types
<1>4. ASSUME NEW outcome, NEW failure, Found(outcome, failure) PROVE Types'
  <2>1. Tail(suite.todo) \in Seq(DOMAIN Holder) /\ suite' = Suites(Tail(suite.todo))
    BY <1>4, OnToNext DEF Types
  <2>2. \A i \in Goroutine, p \in {"base", "landed"} : reading'[i][p].outcome \in Visible
    BY <1>4 DEF Types, TypeOfSuite, Found, Give
  <2>3. TypeOfSuite'
    BY <2>1, <2>2 DEF TypeOfSuite, Suites
  <2>4. refused' \in [Goroutine -> SUBSET Why]
    BY <1>4, Reasons DEF Types, TypeOfRefusals, Found, Give
  <2> QED BY <1>1, <2>3, <2>4 DEF Types, TypeOfRefusals
<1> QED BY <1>2, <1>3, <1>4, SuiteSteps DEF Types

LEMMA TypesStep == Types /\ [Next]_vars => Types'
<1> SUFFICES ASSUME Types, [Next]_vars PROVE Types'
  OBVIOUS
<1>1. ASSUME NEW i \in Goroutine, VerifyTask(i) PROVE Types'
  <2>1. UNCHANGED suiteVars
    BY <1>1 DEF VerifyTask, Start, LockMirror, CloneMirror, FetchMirror, EmptyWork, Checkout, Check,
               Hash
  <2> QED BY <1>1, <2>1, TaskTypes, RefusalTypes, CountTypes, SuiteSame DEF Types
<1>2. ASSUME NEW t \in Task, Edit(t) PROVE Types'
  <2>1. edits \in 0..MaxEdits /\ edits < MaxEdits /\ edits' = edits + 1
        /\ content \in [Task -> 0..edits] /\ content' = [content EXCEPT ![t] = @ + 1]
    BY <1>2 DEF Edit, Types, TypeOfCounts
  <2>2. edits' \in 0..MaxEdits
    BY <2>1, Bounds
  <2>3. \A u \in Task : content[u] \in 0..edits' /\ content[u] + 1 \in 0..edits'
    BY <2>1, Bounds
  <2>4. content' \in [Task -> 0..edits']
    BY <2>1, <2>3
  <2>5. TypeOfCounts'
    BY <1>2, <2>2, <2>4 DEF Edit, Types, TypeOfCounts
  <2>6. TypeOfTasks'
    BY <1>2 DEF Edit, Types, TypeOfTasks, TypeOfMirrors, TypeOfPlaces, TypeOfVersions, TypeOfFlags,
               taskVars, Trees, Rec
  <2> QED BY <1>2, <2>5, <2>6, SuiteSame DEF Types, TypeOfRefusals, Edit
<1>3. CASE Interrupt \/ UNCHANGED vars
  <2>1. TypeOfTasks'
    BY <1>3 DEF Interrupt, vars, Types, TypeOfTasks, TypeOfMirrors, TypeOfPlaces, TypeOfVersions,
               TypeOfFlags, taskVars, diskVars, Trees, Rec
  <2>2. TypeOfCounts'
    BY <1>3 DEF Interrupt, vars, Types, TypeOfCounts, diskVars
  <2>3. UNCHANGED <<suiteVars, refused>>
    BY <1>3 DEF Interrupt, vars
  <2> QED BY <2>1, <2>2, <2>3, SuiteSame DEF Types, TypeOfRefusals
<1> QED BY <1>1, <1>2, <1>3, SuiteTypes DEF Next

\* The invariant of CorpusVerify that says of what its variables are.
LEMMA TypesHold == Types => TypeOK
<1> SUFFICES ASSUME Types PROVE TypeOK
  OBVIOUS
<1>1. content \in [Task -> 0..MaxEdits]
  <2>1. \A n \in 0..edits : n \in 0..MaxEdits
    BY Bounds DEF Types, TypeOfCounts
  <2> QED BY <2>1 DEF Types, TypeOfCounts
<1> QED BY <1>1 DEF TypeOK, Types, TypeOfTasks, TypeOfMirrors, TypeOfPlaces, TypeOfVersions,
                   TypeOfFlags, TypeOfRefusals, TypeOfCounts, TypeOfSuite, Why

-----------------------------------------------------------------------------
(* Tasks apart *)

\* A mirror's mutex is held by the one goroutine that is cloning or fetching it, and what is
\* being cloned is not there.
Mirrors ==
  /\ \A r \in Repos : lock[r] # 0 => at[lock[r]] \in {"clone", "fetch"} /\ Rec(lock[r]).repo = r
  /\ \A i \in Goroutine : at[i] \in {"clone", "fetch"} => lock[Rec(i).repo] = i
  /\ \A i \in Goroutine : at[i] = "clone" => Rec(i).repo \notin mirror

\* What a step of pass 1 is to the other goroutines.
LEMMA OthersStay ==
  ASSUME Types, NEW i \in Goroutine, VerifyTask(i), NEW j \in Goroutine, j # i
  PROVE  at'[j] = at[j] /\ refused'[j] = refused[j] /\ hash'[j] = hash[j] /\ loaded'[j] = loaded[j]
         /\ phase'[j] = phase[j] /\ copied'[j] = copied[j] /\ clockless'[j] = clockless[j]
         /\ spoilt'[j] = spoilt[j]
<1>1. at'[j] = at[j] /\ hash'[j] = hash[j] /\ loaded'[j] = loaded[j] /\ phase'[j] = phase[j]
      /\ copied'[j] = copied[j] /\ clockless'[j] = clockless[j] /\ spoilt'[j] = spoilt[j]
  BY DEF VerifyTask, Start, LockMirror, CloneMirror, FetchMirror, EmptyWork, Checkout, Check, Hash,
         Goto, NextPhase, Types, TypeOfTasks, TypeOfPlaces, TypeOfVersions, TypeOfFlags
<1>2. refused' = refused \/ \E w \in Why : Refuse(i, w)
  BY RefusalsGrow DEF Types
<1>3. refused'[j] = refused[j]
  BY <1>2 DEF Types, TypeOfRefusals, Refuse
<1> QED BY <1>1, <1>3

LEMMA RepoOf == \A i \in Goroutine : Rec(i).repo \in Repos
BY Bounds DEF Rec, Repos

\* A step that leaves the mirrors alone keeps Mirrors when its goroutine neither is at one nor
\* gets there.
LEMMA MirrorsSame ==
  ASSUME Types, Mirrors, NEW i \in Goroutine, VerifyTask(i), UNCHANGED <<lock, mirror>>,
         at[i] \notin {"clone", "fetch"}, at'[i] \notin {"clone", "fetch"}
  PROVE  Mirrors'
<1>1. \A j \in Goroutine : at'[j] \in {"clone", "fetch"} => at'[j] = at[j]
  BY OthersStay
<1>2. \A j \in Goroutine : at[j] \in {"clone", "fetch"} => at'[j] = at[j]
  BY OthersStay
<1>3. \A r \in Repos : lock[r] # 0 => lock[r] \in Goroutine
  BY DEF Types, TypeOfTasks, TypeOfMirrors
<1> QED BY <1>1, <1>2, <1>3 DEF Mirrors, Rec

LEMMA MirrorsStep ==
  ASSUME Types, Mirrors, NEW i \in Goroutine, VerifyTask(i)
  PROVE  Mirrors'
<1> DEFINE r == Rec(i).repo
<1>1. r \in Repos /\ i # 0 /\ \A j \in Goroutine : j # 0
  BY RepoOf DEF Goroutine
<1>2. \A j \in Goroutine \ {i} : at'[j] = at[j]
  BY OthersStay
<1>3. lock \in [Repos -> {0} \cup Goroutine] /\ at \in [Goroutine -> {"queued", "mirror", "clone",
        "fetch", "work", "tree", "check", "hash", "done"}]
  BY DEF Types, TypeOfTasks, TypeOfMirrors, TypeOfPlaces
<1>4. CASE LockMirror(i)
  <2>1. /\ at[i] = "mirror" /\ lock[r] = 0 /\ lock' = [lock EXCEPT ![r] = i] /\ mirror' = mirror
        /\ at'[i] = IF r \in mirror THEN "fetch" ELSE "clone"
    BY <1>4, <1>3 DEF LockMirror, Goto, diskVars
  <2>2. lock'[r] = i /\ \A q \in Repos \ {r} : lock'[q] = lock[q]
    BY <2>1, <1>1, <1>3
  <2>3. \A j \in Goroutine \ {i} : at[j] \in {"clone", "fetch"} => Rec(j).repo # r
    BY <2>1, <1>1 DEF Mirrors
  <2>4. \A q \in Repos : lock'[q] # 0 => at'[lock'[q]] \in {"clone", "fetch"} /\ Rec(lock'[q]).repo = q
    <3> SUFFICES ASSUME NEW q \in Repos, lock'[q] # 0
                 PROVE  at'[lock'[q]] \in {"clone", "fetch"} /\ Rec(lock'[q]).repo = q
      OBVIOUS
    <3>1. CASE q = r
      BY <3>1, <2>1, <2>2
    <3>2. CASE q # r
      <4>1. lock'[q] = lock[q] /\ lock[q] \in Goroutine /\ at[lock[q]] \in {"clone", "fetch"}
            /\ Rec(lock[q]).repo = q
        BY <3>2, <2>2, <1>3 DEF Mirrors
      <4>2. lock[q] # i
        BY <4>1, <2>1
      <4> QED BY <4>1, <4>2, <1>2
    <3> QED BY <3>1, <3>2
  <2>5. \A j \in Goroutine : at'[j] \in {"clone", "fetch"} => lock'[Rec(j).repo] = j
    BY <2>2, <2>3, <1>2, RepoOf DEF Mirrors
  <2>6. \A j \in Goroutine : at'[j] = "clone" => Rec(j).repo \notin mirror'
    BY <2>1, <1>2 DEF Mirrors
  <2> QED BY <2>4, <2>5, <2>6 DEF Mirrors, Rec
<1>5. CASE CloneMirror(i) /\ at'[i] = "fetch"
  <2>1. at[i] = "clone" /\ lock' = lock /\ mirror' \subseteq mirror \cup {r}
    BY <1>5, <1>3 DEF CloneMirror, Goto
  <2>2. lock[r] = i
    BY <2>1 DEF Mirrors
  <2>3. \A j \in Goroutine \ {i} : at[j] \in {"clone", "fetch"} => Rec(j).repo # r
    BY <2>2 DEF Mirrors
  <2>4. \A q \in Repos : lock[q] # 0 => at'[lock[q]] \in {"clone", "fetch"} /\ Rec(lock[q]).repo = q
    BY <2>1, <1>2, <1>3, <1>5 DEF Mirrors
  <2>5. \A j \in Goroutine : at'[j] \in {"clone", "fetch"} => lock[Rec(j).repo] = j
    BY <2>2, <1>2 DEF Mirrors
  <2>6. \A j \in Goroutine : at'[j] = "clone" => Rec(j).repo \notin mirror'
    BY <2>1, <2>3, <1>2, <1>5 DEF Mirrors
  <2> QED BY <2>1, <2>4, <2>5, <2>6 DEF Mirrors, Rec
<1>6. CASE (CloneMirror(i) \/ FetchMirror(i)) /\ at'[i] # "fetch"
  <2>1. /\ at[i] \in {"clone", "fetch"} /\ lock' = [lock EXCEPT ![r] = 0] /\ mirror' = mirror
        /\ at'[i] \notin {"clone", "fetch"}
    BY <1>6, <1>3 DEF CloneMirror, FetchMirror, Goto, Unlock, diskVars
  <2>2. lock'[r] = 0 /\ \A q \in Repos \ {r} : lock'[q] = lock[q]
    BY <2>1, <1>1, <1>3
  <2>3. lock[r] = i
    BY <2>1 DEF Mirrors
  <2>4. \A j \in Goroutine \ {i} : at[j] \in {"clone", "fetch"} => Rec(j).repo # r
    BY <2>3 DEF Mirrors
  <2>5. \A q \in Repos : lock'[q] # 0 => at'[lock'[q]] \in {"clone", "fetch"} /\ Rec(lock'[q]).repo = q
    <3> SUFFICES ASSUME NEW q \in Repos, lock'[q] # 0
                 PROVE  at'[lock'[q]] \in {"clone", "fetch"} /\ Rec(lock'[q]).repo = q
      OBVIOUS
    <3>1. q # r /\ lock'[q] = lock[q] /\ lock[q] \in Goroutine /\ at[lock[q]] \in {"clone", "fetch"}
          /\ Rec(lock[q]).repo = q
      BY <2>2, <1>3 DEF Mirrors
    <3> QED BY <3>1, <1>2
  <2>6. \A j \in Goroutine : at'[j] \in {"clone", "fetch"} => lock'[Rec(j).repo] = j
    BY <2>1, <2>2, <2>4, <1>2, RepoOf DEF Mirrors
  <2>7. \A j \in Goroutine : at'[j] = "clone" => Rec(j).repo \notin mirror'
    BY <2>1, <1>2 DEF Mirrors
  <2> QED BY <2>5, <2>6, <2>7 DEF Mirrors, Rec
<1>7. CASE Start(i) \/ EmptyWork(i) \/ Checkout(i) \/ Check(i) \/ Hash(i)
  <2>1. at[i] \notin {"clone", "fetch"} /\ at'[i] \notin {"clone", "fetch"}
        /\ UNCHANGED <<lock, mirror>>
    BY <1>7, <1>3 DEF Start, EmptyWork, Checkout, Check, Hash, Goto, NextPhase, diskVars
  <2> QED BY <2>1, MirrorsSame
<1>8. FetchMirror(i) => at'[i] # "fetch"
  BY <1>3 DEF FetchMirror, Goto
<1> QED BY <1>4, <1>5, <1>6, <1>7, <1>8 DEF VerifyTask

\* No clone meets a mirror that is there.
LEMMA CollisionStep ==
  ASSUME Types, Mirrors, NoCloneCollision, NEW i \in Goroutine, VerifyTask(i)
  PROVE  NoCloneCollision'
<1>1. \A n \in 1..3 : Phases[n] # "collision"
  <2>1. \A n \in 1..3 : n = 1 \/ n = 2 \/ n = 3
    OBVIOUS
  <2> QED BY <2>1, PhaseFacts
<1>2. phase[i] \in 1..3
  BY DEF Types, TypeOfTasks, TypeOfPlaces
<1>3. \/ refused' = refused
      \/ \E w \in {"record", "mirror", "work", "hash", Phases[phase[i]]} : Refuse(i, w)
  <2>1. CASE CloneMirror(i)
    <3>1. Rec(i).repo \notin mirror
      BY <2>1 DEF CloneMirror, Mirrors
    <3> QED BY <2>1, <3>1 DEF CloneMirror
  <2>2. CASE Check(i)
    <3>1. PICK exit : refused' = [refused EXCEPT ![i] = IF Refuses(Phases[phase[i]], exit)
                                                       THEN @ \cup {Phases[phase[i]]} ELSE @]
      BY <2>2 DEF Check
    <3>2. CASE Refuses(Phases[phase[i]], exit)
      BY <3>1, <3>2 DEF Refuse
    <3>3. CASE ~Refuses(Phases[phase[i]], exit)
      BY <3>1, <3>3 DEF Types, TypeOfRefusals
    <3> QED BY <3>2, <3>3
  <2>3. CASE ~CloneMirror(i) /\ ~Check(i)
    BY <2>3 DEF VerifyTask, Start, LockMirror, FetchMirror, EmptyWork, Checkout, Hash
  <2> QED BY <2>1, <2>2, <2>3
<1>4. CASE refused' = refused
  BY <1>4 DEF NoCloneCollision
<1>5. ASSUME NEW w \in {"record", "mirror", "work", "hash", Phases[phase[i]]}, Refuse(i, w)
      PROVE  NoCloneCollision'
  <2>1. w # "collision"
    BY <1>1, <1>2
  <2>2. \A j \in Goroutine : refused'[j] \subseteq refused[j] \cup {w}
    BY <1>5 DEF Refuse, Types, TypeOfRefusals
  <2> QED BY <2>1, <2>2 DEF NoCloneCollision
<1> QED BY <1>3, <1>4, <1>5

LEMMA AloneStep ==
  ASSUME Types, MeasuredAlone, NEW i \in Goroutine, VerifyTask(i)
  PROVE  MeasuredAlone'
<1>1. at[i] # "done" /\ UNCHANGED suiteVars
  BY DEF VerifyTask, Start, LockMirror, CloneMirror, FetchMirror, EmptyWork, Checkout, Check, Hash
<1>2. suite'.at = "wait"
  BY <1>1 DEF MeasuredAlone, suiteVars
<1>3. IsFiniteSet(Goroutine)
  BY Bounds, FS_Interval DEF Goroutine
<1>4. IsFiniteSet(Working)
  <2>1. Working \subseteq Goroutine
    BY DEF Working
  <2> QED BY <2>1, <1>3, FS_Subset
<1>5. CASE Start(i)
  <2>1. Working' \subseteq Working \cup {i}
    BY OthersStay DEF Working
  <2>2. IsFiniteSet(Working \cup {i}) /\ Cardinality(Working \cup {i}) <= Cardinality(Working) + 1
        /\ Cardinality(Working) \in Nat
    <3>1. Cardinality(Working) \in Nat
      BY <1>4, FS_CardinalityType
    <3>2. IsFiniteSet(Working \cup {i})
          /\ Cardinality(Working \cup {i}) = IF i \in Working THEN Cardinality(Working)
                                            ELSE Cardinality(Working) + 1
      BY <1>4, FS_AddElement
    <3> QED BY <3>1, <3>2
  <2>3. Cardinality(Working') <= Cardinality(Working \cup {i}) /\ Cardinality(Working') \in Nat
        /\ Cardinality(Working \cup {i}) \in Nat
    BY <2>1, <2>2, FS_Subset, FS_CardinalityType
  <2>4. Cardinality(Working) < Jobs /\ Jobs \in Nat
    BY <1>5, Bounds DEF Start
  <2>5. Cardinality(Working') <= Jobs
    BY <2>2, <2>3, <2>4
  <2>6. Cardinality(Working)' = Cardinality(Working')
    OBVIOUS
  <2> QED BY <2>5, <2>6, <1>2 DEF MeasuredAlone
<1>6. CASE ~Start(i)
  <2>1. at[i] # "queued"
    BY <1>6 DEF VerifyTask, LockMirror, CloneMirror, FetchMirror, EmptyWork, Checkout, Check, Hash
  <2>2. Working' \subseteq Working
    BY <2>1, <1>1, OthersStay DEF Working
  <2>3. Cardinality(Working') <= Cardinality(Working) /\ Cardinality(Working') \in Nat
        /\ Cardinality(Working) \in Nat
    BY <2>2, <1>4, FS_Subset, FS_CardinalityType
  <2>4. Cardinality(Working) <= Jobs /\ Jobs \in Nat
    BY Bounds DEF MeasuredAlone
  <2>5. Cardinality(Working') <= Jobs
    BY <2>3, <2>4
  <2> QED BY <2>5, <1>2 DEF MeasuredAlone
<1> QED BY <1>5, <1>6

\* Types, Mirrors and what they keep apart, of every step.
Apart == Types /\ Mirrors /\ MeasuredAlone /\ NoCloneCollision

LEMMA ApartInit == Init => Apart
<1> SUFFICES ASSUME Init PROVE Apart
  OBVIOUS
<1>1. Working = {}
  BY DEF Init, Working
<1>2. Cardinality(Working) <= Jobs
  BY <1>1, FS_EmptySet, Bounds
<1>3. MeasuredAlone
  BY <1>2 DEF Init, MeasuredAlone
<1>4. Mirrors
  BY DEF Init, Mirrors
<1>5. NoCloneCollision
  BY DEF Init, NoCloneCollision
<1> QED BY <1>3, <1>4, <1>5, TypesInit DEF Apart

LEMMA ApartStep == Apart /\ [Next]_vars => Apart'
<1> SUFFICES ASSUME Apart, [Next]_vars PROVE Apart'
  OBVIOUS
<1>1. Types'
  BY TypesStep DEF Apart
<1>2. ASSUME NEW i \in Goroutine, VerifyTask(i) PROVE Apart'
  BY <1>1, <1>2, MirrorsStep, CollisionStep, AloneStep DEF Apart
<1>3. CASE VerifyVisible
  <2>1. UNCHANGED <<lock, mirror, at>> /\ (StartSuites \/ Within \/ \E o, f : Found(o, f))
    BY <1>3, SuiteSteps DEF Apart, Types, diskVars, taskVars
  <2>2. Mirrors' /\ Cardinality(Working') <= Jobs
    BY <2>1 DEF Apart, Mirrors, MeasuredAlone, Working, Rec
  <2>3. \A i \in Goroutine : at[i] = "done"
    BY <2>1 DEF Apart, MeasuredAlone, StartSuites, Within, Found
  <2>4. \A i \in Goroutine : "collision" \notin refused'[i]
    <3>1. CASE StartSuites \/ Within
      BY <3>1 DEF Apart, NoCloneCollision, StartSuites, Within
    <3>2. ASSUME NEW o, NEW f, Found(o, f) PROVE \A i \in Goroutine : "collision" \notin refused'[i]
      <4>1. \A i \in Goroutine : refused'[i] \subseteq refused[i] \cup {"visible"}
        BY <3>2 DEF Found, Give
      <4> QED BY <4>1 DEF Apart, NoCloneCollision
    <3> QED BY <2>1, <3>1, <3>2
  <2> QED BY <1>1, <2>1, <2>2, <2>3, <2>4 DEF Apart, MeasuredAlone, NoCloneCollision
<1>4. CASE (\E t \in Task : Edit(t)) \/ Interrupt \/ UNCHANGED vars
  <2>1. UNCHANGED <<lock, mirror, at, refused, suite>>
    BY <1>4 DEF Edit, Interrupt, vars, diskVars, taskVars, suiteVars
  <2> QED BY <1>1, <2>1 DEF Apart, Mirrors, MeasuredAlone, Working, NoCloneCollision, Rec
<1> QED BY <1>2, <1>3, <1>4 DEF Next

\* Whatever fails, is edited or is interrupted, no task is disturbed by the others that are
\* verified at once: no mirror is cloned twice, no more than --jobs tasks are at work, and no
\* visible suite runs beside a hidden check (verify.go:155, 641).
THEOREM CorpusKeepsApart == Spec => []TasksApart
<1>1. Apart => TasksApart
  BY TypesHold DEF Apart, TasksApart
<1> QED BY ApartInit, ApartStep, <1>1, PTL DEF Spec

-----------------------------------------------------------------------------
(* Readings *)

\* The key of a task's suite at base or at landed is still to run.
Queued(i, p) == \E k \in 1..Len(suite.todo) : KeyOf(Holder[suite.todo[k]]) = VisibleKey(i, p)

\* A task pass 1 let through has a hash, and each of its suites is still to run or has given
\* it a reading of its own, green unless it refused it.
ReadingOf(i, p) ==
  /\ reading[i][p] # Unread => reading[i][p].run = VisibleRun(i, p)
  /\ suite.at # "wait" /\ hash[i] # -1 =>
       \/ Queued(i, p)
       \/ reading[i][p] # Unread /\ (refused[i] = {} => reading[i][p].outcome = "green")

Hashed(i) == (at[i] = "done" /\ refused[i] = {} => hash[i] # -1) /\ (hash[i] # -1 => at[i] = "done")

Readings ==
  /\ \A i \in Goroutine : Hashed(i)
  /\ \A i \in Goroutine, p \in {"base", "landed"} : ReadingOf(i, p)

LEMMA ReadingsInit == Init => Readings
<1> SUFFICES ASSUME Init PROVE Readings
  OBVIOUS
<1>1. \A i \in Goroutine : Hashed(i)
  BY DEF Init, Hashed
<1>2. \A i \in Goroutine, p \in {"base", "landed"} : ReadingOf(i, p)
  BY DEF Init, ReadingOf
<1> QED BY <1>1, <1>2 DEF Readings

LEMMA HashedStep ==
  ASSUME Apart, Readings, NEW i \in Goroutine, VerifyTask(i)
  PROVE  Hashed(i)'
<1>1. at \in [Goroutine -> {"queued", "mirror", "clone", "fetch", "work", "tree", "check",
                           "hash", "done"}]
      /\ refused \in [Goroutine -> SUBSET Why] /\ hash \in [Goroutine -> -1..MaxEdits]
  BY DEF Apart, Types, TypeOfTasks, TypeOfPlaces, TypeOfVersions, TypeOfRefusals
<1>2. at[i] # "done" /\ hash[i] = -1
  BY DEF VerifyTask, Start, LockMirror, CloneMirror, FetchMirror, EmptyWork, Checkout, Check, Hash,
         Readings, Hashed
<1>3. CASE Hash(i)
  <2>1. at'[i] = "done"
    BY <1>1, <1>3 DEF Hash, Goto
  <2>2. content[Ids[i]] # -1
    <3>1. content[Ids[i]] \in 0..edits /\ edits \in 0..MaxEdits
      BY Bounds DEF Apart, Types, TypeOfCounts
    <3> QED BY <3>1, Bounds
  <2>3. CASE refused[i] = {} /\ hash' = [hash EXCEPT ![i] = content[Ids[i]]]
    BY <2>1, <2>2, <2>3, <1>1 DEF Hashed
  <2>4. ASSUME NEW w, Refuse(i, w) PROVE Hashed(i)'
    BY <2>1, <2>4, <1>1 DEF Hashed, Refuse
  <2>5. CASE refused[i] # {} /\ refused' = refused
    BY <2>1, <2>5 DEF Hashed
  <2> QED BY <2>3, <2>4, <2>5, <1>3 DEF Hash
<1>4. CASE ~Hash(i)
  <2>1. hash' = hash
    BY <1>4 DEF VerifyTask, Start, LockMirror, CloneMirror, FetchMirror, EmptyWork, Checkout, Check
  <2>2. at'[i] = "done" => refused'[i] # {}
    BY <1>1, <1>2, <1>4
    DEF VerifyTask, Start, LockMirror, CloneMirror, FetchMirror, EmptyWork, Checkout, Check, Goto,
        NextPhase, Refuse
  <2> QED BY <2>1, <2>2, <1>2 DEF Hashed
<1> QED BY <1>3, <1>4

\* Pass 2 is still to start when pass 1 takes a step.
LEMMA StillPass1 ==
  ASSUME Apart, NEW i \in Goroutine, VerifyTask(i)
  PROVE  at[i] # "done" /\ suite.at = "wait" /\ suite' = suite /\ reading' = reading
BY DEF VerifyTask, Start, LockMirror, CloneMirror, FetchMirror, EmptyWork, Checkout, Check, Hash,
       Apart, MeasuredAlone, suiteVars

\* A reading reaches every task that holds its key, and is of its own run.
LEMMA Given ==
  ASSUME Types, NEW outcome, NEW failure, Found(outcome, failure),
         NEW i \in Goroutine, NEW p \in {"base", "landed"}
  PROVE  LET mine == hash[i] # -1 /\ VisibleKey(i, p) = KeyOf(Holder[Head(suite.todo)]) IN
         /\ ~mine => reading'[i][p] = reading[i][p]
         /\ mine => /\ reading'[i][p] = [run |-> VisibleRun(i, p), outcome |-> outcome]
                    /\ failure # "" => refused'[i] # {}
         /\ refused[i] \subseteq refused'[i]
         /\ Queued(i, p) /\ ~mine /\ hash[i] # -1 => Queued(i, p)'
<1> DEFINE h == Holder[Head(suite.todo)]
           mine == hash[i] # -1 /\ VisibleKey(i, p) = KeyOf(h)
<1>1. Give(outcome, failure)
  BY DEF Found
<1>2. reading'[i][p] = IF mine THEN [run |-> VisibleRun(h.i, h.p), outcome |-> outcome]
                       ELSE reading[i][p]
  BY <1>1 DEF Give
<1>3. mine => VisibleRun(h.i, h.p) = VisibleRun(i, p)
  BY DEF KeyOf, VisibleKey
<1>4. refused'[i] = IF failure # "" /\ \E q \in {"base", "landed"} :
                         hash[i] # -1 /\ VisibleKey(i, q) = KeyOf(h)
                    THEN refused[i] \cup {"visible"} ELSE refused[i]
  BY <1>1 DEF Give
<1>5. ASSUME Queued(i, p), VisibleKey(i, p) # KeyOf(h) PROVE Queued(i, p)'
  <2>1. PICK k \in 1..Len(suite.todo) : KeyOf(Holder[suite.todo[k]]) = VisibleKey(i, p)
    BY <1>5 DEF Queued
  <2>2. suite.todo[k] # Head(suite.todo)
    BY <2>1, <1>5
  <2>3. PICK m \in 1..Len(Tail(suite.todo)) : Tail(suite.todo)[m] = suite.todo[k]
    BY <2>1, <2>2, OnToNext DEF Types
  <2>4. suite'.todo = Tail(suite.todo)
    BY <1>1 DEF Give, Suites
  <2>5. KeyOf(Holder[suite'.todo[m]]) = VisibleKey(i, p) /\ m \in 1..Len(suite'.todo)
    BY <2>1, <2>3, <2>4
  <2>6. \A n : KeyOf(Holder[n])' = KeyOf(Holder[n])
    BY DEF KeyOf, VisibleKey, VisibleRun, Holder, Rec
  <2>7. VisibleKey(i, p)' = VisibleKey(i, p)
    BY DEF VisibleKey, VisibleRun, Rec
  <2> QED BY <2>5, <2>6, <2>7 DEF Queued, KeyOf, VisibleKey, VisibleRun, Holder, Rec
<1> QED BY <1>2, <1>3, <1>4, <1>5

\* Every key of a task that is let through is to run when pass 2 starts.
LEMMA AllQueued ==
  ASSUME StartSuites, NEW i \in Goroutine, NEW p \in {"base", "landed"}, hash[i] # -1
  PROVE  Queued(i, p)'
<1>1. PICK n \in DOMAIN Holder : Holder[n].i = i /\ Holder[n].p = p
  BY HolderOf
<1>2. PICK k \in 1..Len(Firsts) : KeyOf(Holder[Firsts[k]]) = KeyOf(Holder[n])
  BY <1>1, FirstsCover
<1>3. suite'.todo = Firsts
  BY DEF StartSuites, Suites
<1>4. KeyOf(Holder[suite'.todo[k]]) = VisibleKey(i, p) /\ k \in 1..Len(suite'.todo)
  BY <1>1, <1>2, <1>3 DEF KeyOf
<1> QED BY <1>4 DEF Queued, KeyOf, VisibleKey, VisibleRun, Holder, Rec

LEMMA ReadingsStep == Apart /\ Readings /\ [Next]_vars => Readings'
<1> SUFFICES ASSUME Apart, Readings, [Next]_vars PROVE Readings'
  OBVIOUS
<1>1. ASSUME NEW i \in Goroutine, VerifyTask(i) PROVE Readings'
  <2>1. suite.at = "wait" /\ suite' = suite /\ reading' = reading
    BY <1>1, StillPass1
  <2>2. ASSUME NEW j \in Goroutine PROVE Hashed(j)'
    <3>1. CASE j = i
      BY <1>1, <3>1, HashedStep
    <3>2. CASE j # i
      BY <1>1, <3>2, OthersStay DEF Apart, Readings, Hashed
    <3> QED BY <3>1, <3>2
  <2>3. ASSUME NEW j \in Goroutine, NEW p \in {"base", "landed"} PROVE ReadingOf(j, p)'
    BY <2>1 DEF Readings, ReadingOf, VisibleRun, Rec, Unread
  <2> QED BY <2>2, <2>3 DEF Readings
<1>2. CASE StartSuites
  <2>1. UNCHANGED <<at, hash, refused, reading>>
    BY <1>2 DEF StartSuites, taskVars
  <2>2. ASSUME NEW i \in Goroutine, NEW p \in {"base", "landed"} PROVE ReadingOf(i, p)'
    BY <1>2, <2>1, AllQueued DEF Readings, ReadingOf, VisibleRun, Rec, Unread
  <2> QED BY <2>1, <2>2 DEF Readings, Hashed
<1>3. CASE Within /\ VerifyVisible
  <2>1. UNCHANGED <<at, hash, refused, reading>> /\ suite.at # "wait" /\ suite'.todo = suite.todo
    BY <1>3, SuiteSteps DEF Within, taskVars, Apart, Types
  <2>2. ASSUME NEW i \in Goroutine, NEW p \in {"base", "landed"} PROVE ReadingOf(i, p)'
    <3>1. Queued(i, p)' <=> Queued(i, p)
      BY <2>1 DEF Queued, KeyOf, VisibleKey, VisibleRun, Holder, Rec
    <3> QED BY <2>1, <3>1 DEF Readings, ReadingOf, VisibleRun, Rec, Unread
  <2> QED BY <2>1, <2>2 DEF Readings, Hashed
<1>4. ASSUME NEW outcome, NEW failure, Found(outcome, failure), VerifyVisible PROVE Readings'
  <2>1. UNCHANGED <<at, hash>> /\ suite.at # "wait" /\ (failure # "" \/ outcome = "green")
    BY <1>4, SuiteSteps DEF Found, taskVars, Apart, Types
  <2>2. ASSUME NEW i \in Goroutine PROVE Hashed(i)'
    <3>1. refused[i] \subseteq refused'[i]
      BY <1>4, Given DEF Apart
    <3> QED BY <2>1, <3>1 DEF Readings, Hashed
  <2>3. ASSUME NEW i \in Goroutine, NEW p \in {"base", "landed"} PROVE ReadingOf(i, p)'
    <3> DEFINE mine == hash[i] # -1 /\ VisibleKey(i, p) = KeyOf(Holder[Head(suite.todo)])
    <3>1. /\ ~mine => reading'[i][p] = reading[i][p]
          /\ mine => /\ reading'[i][p] = [run |-> VisibleRun(i, p), outcome |-> outcome]
                     /\ failure # "" => refused'[i] # {}
          /\ refused[i] \subseteq refused'[i]
          /\ Queued(i, p) /\ ~mine /\ hash[i] # -1 => Queued(i, p)'
      BY <1>4, Given DEF Apart
    <3>2. ReadingOf(i, p) /\ VisibleRun(i, p)' = VisibleRun(i, p)
      BY DEF Readings, VisibleRun, Rec
    <3>3. CASE mine
      <4>1. reading'[i][p] = [run |-> VisibleRun(i, p), outcome |-> outcome]
            /\ (failure # "" => refused'[i] # {})
        BY <3>1, <3>3
      <4>2. VisibleRun(i, p) # << >>
        BY DEF VisibleRun
      <4>3. reading'[i][p].run = VisibleRun(i, p) /\ reading'[i][p].outcome = outcome
        <5> DEFINE v == VisibleRun(i, p)
                   r == reading'[i][p]
        <5>1. r = [run |-> v, outcome |-> outcome]
          BY <4>1
        <5> HIDE DEF v, r
        <5>2. r.run = v /\ r.outcome = outcome
          BY <5>1
        <5> QED BY <5>2 DEF v, r
      <4>4. reading'[i][p] # Unread
        BY <4>2, <4>3 DEF Unread
      <4>5. refused'[i] = {} => reading'[i][p].outcome = "green"
        BY <4>1, <4>3, <2>1
      <4> HIDE DEF mine
      <4>6. Unread' = Unread
        BY DEF Unread
      <4> QED BY <4>3, <4>4, <4>5, <4>6, <3>2 DEF ReadingOf
    <3>4. CASE ~mine
      <4>1. reading'[i][p] = reading[i][p] /\ refused[i] \subseteq refused'[i]
            /\ (Queued(i, p) /\ hash[i] # -1 => Queued(i, p)')
        BY <3>1, <3>4
      <4> HIDE DEF mine
      <4> QED BY <4>1, <2>1, <3>2 DEF ReadingOf, Unread
    <3> QED BY <3>3, <3>4
  <2> QED BY <2>2, <2>3 DEF Readings
<1>5. CASE (\E t \in Task : Edit(t)) \/ Interrupt \/ UNCHANGED vars
  <2>1. UNCHANGED <<at, hash, refused, suite, reading>>
    BY <1>5 DEF Edit, Interrupt, vars, taskVars, suiteVars
  <2>2. ASSUME NEW i \in Goroutine, NEW p \in {"base", "landed"} PROVE ReadingOf(i, p)'
    <3>1. Queued(i, p)' <=> Queued(i, p)
      BY <2>1 DEF Queued, KeyOf, VisibleKey, VisibleRun, Holder, Rec
    <3> QED BY <2>1, <3>1 DEF Readings, ReadingOf, VisibleRun, Rec, Unread
  <2> QED BY <2>1, <2>2 DEF Readings, Hashed
<1>6. VerifyVisible => StartSuites \/ Within \/ \E o, f : Found(o, f)
  BY SuiteSteps DEF Apart, Types
<1> QED BY <1>1, <1>2, <1>3, <1>4, <1>5, <1>6 DEF Next

\* When verify has ended no key is still to run.
LEMMA NoneQueued ==
  ASSUME Types, Ended, NEW i, NEW p
  PROVE  ~Queued(i, p)
<1>1. suite.todo = << >>
  BY DEF Types, TypeOfSuite, Ended
<1> QED BY <1>1 DEF Queued

\* A reading a task is given is of its own commit, suite and clock, and every task pass 1 let
\* through is given both: no two runs that differ share a key, and no key is left out
\* (verifyVisible, verify.go:393).
THEOREM CorpusReadsOwn == Spec => []OwnReading
<1>1. Apart /\ Readings => OwnReading
  <2> SUFFICES ASSUME Apart, Readings, NEW i \in Goroutine, NEW p \in {"base", "landed"}
               PROVE  /\ reading[i][p] # Unread => reading[i][p].run = VisibleRun(i, p)
                      /\ Ended /\ hash[i] # -1 => reading[i][p] # Unread
    BY DEF OwnReading
  <2> QED BY NoneQueued DEF Apart, Readings, ReadingOf, Ended
<1> QED BY ApartInit, ApartStep, ReadingsInit, ReadingsStep, <1>1, PTL DEF Spec

\* A task whose verdict is ok has both visible suites green in a first run, whoever ran them:
\* a second run excuses nothing, and no failure is lost on the way to a holder (verify.go:485).
THEOREM CorpusOkIsGreen == Spec => []VerifiedIsGreen
<1>1. Apart /\ Readings => VerifiedIsGreen
  <2> SUFFICES ASSUME Apart, Readings, NEW i \in Goroutine, Ok(i), NEW p \in {"base", "landed"}
               PROVE  reading[i][p].outcome = "green"
    BY DEF VerifiedIsGreen
  <2>1. Ended /\ refused[i] = {} /\ suite.at # "wait"
    BY DEF Ok, Ended
  <2>2. at[i] = "done"
    BY <2>1 DEF Apart, MeasuredAlone
  <2>3. hash[i] # -1 /\ ReadingOf(i, p)
    BY <2>1, <2>2 DEF Readings, Hashed
  <2> QED BY <2>1, <2>3, NoneQueued DEF Apart, ReadingOf
<1> QED BY ApartInit, ApartStep, ReadingsInit, ReadingsStep, <1>1, PTL DEF Spec

-----------------------------------------------------------------------------
(* Certified checks *)

\* The hidden check, in the version loaded, exits in the nth tree as it must, or it was to fail
\* there and hung or could not run.
Right(i, n) ==
  \/ Passes(Ids[i], loaded[i], Phases[n]) <=> Phases[n] = "landed"
  \/ Phases[n] # "landed" /\ Phases[n] \in spoilt[i]

AllRight(i) == \A n \in 1..Trees(i) : Right(i, n)

\* The trees a task is past are the ones its check was right in: unless the task is refused,
\* was edited since its load, or was interrupted.
Judged(i) ==
  at[i] \in {"tree", "check", "hash"} /\ refused[i] = {} /\ content[Ids[i]] = loaded[i] /\ ~cancelled =>
    \A n \in 1..Trees(i) : n < phase[i] \/ at[i] = "hash" => Right(i, n)

CheckoutOf(i) ==
  /\ at[i] \in {"queued", "mirror", "clone", "fetch", "work"} => phase[i] = 1
  /\ at[i] # "queued" => loaded[i] <= content[Ids[i]]
  /\ at[i] = "check" => whole[i] /\ loaded[i] <= copied[i] /\ copied[i] <= content[Ids[i]]
  /\ clockless[i] => refused[i] # {}

\* An interrupted task whose check was not judged is let through by pass 1, and its suites are
\* still to run: they will refuse it.
Doubt(i) ==
  /\ cancelled /\ suite.at \in {"wait", "clone", "ended"}
  /\ suite.at # "wait" => Queued(i, "base")

Certified(i) ==
  hash[i] # -1 /\ refused[i] = {} /\ loaded[i] = hash[i] => AllRight(i) \/ Doubt(i)

Checked == \A i \in Goroutine : Judged(i) /\ CheckoutOf(i) /\ Certified(i)

\* What the theorem asks: no task is named twice, and every log file can be created.
Distinct == \A i, j \in Goroutine : Ids[i] = Ids[j] => i = j
AllRun == MaxUnrun = 0

LEMMA CheckedInit == Init => Checked
<1> SUFFICES ASSUME Init, NEW i \in Goroutine PROVE Judged(i) /\ CheckoutOf(i) /\ Certified(i)
  BY DEF Checked
<1> QED BY DEF Init, Judged, CheckoutOf, Certified

\* The versions of a task, as numbers.
LEMMA Numbers ==
  ASSUME Types, NEW i \in Goroutine
  PROVE  /\ content[Ids[i]] \in Nat /\ loaded[i] \in Nat /\ copied[i] \in Nat /\ phase[i] \in 1..3
         /\ phase[i] \in 1..Trees(i)
<1>1. content[Ids[i]] \in 0..edits /\ edits \in 0..MaxEdits
  BY Bounds DEF Types, TypeOfCounts
<1>2. loaded[i] \in 0..MaxEdits /\ copied[i] \in 0..MaxEdits
  BY DEF Types, TypeOfTasks, TypeOfVersions
<1> QED BY <1>1, <1>2, Bounds DEF Types, TypeOfTasks, TypeOfPlaces

\* The check of an uninterrupted task runs in a checkout nobody takes away, so its exit is its
\* own, unless it is one of the two that come of the machine.
LEMMA ExitIsItsOwn ==
  ASSUME Apart, AllRun, NEW i \in Goroutine, Check(i), CheckoutOf(i), ~cancelled,
         content[Ids[i]] = loaded[i], refused'[i] = {}
  PROVE  refused[i] = {} /\ \A n : n = phase[i] => Right(i, n)'
<1> DEFINE p == Phases[phase[i]]
<1>1. whole[i] /\ copied[i] = loaded[i]
  BY Numbers DEF CheckoutOf, Check, Apart
<1>2. unrun \in 0..0
  BY DEF Apart, Types, TypeOfCounts, AllRun
<1>3. ~(unrun < MaxUnrun)
  BY <1>2 DEF AllRun
<1>4. PICK exit \in Exit :
        /\ exit \in {"hung", "broken"} \/ exit \in Exits(i, p)
        /\ spoilt' = [spoilt EXCEPT ![i] = IF exit \in {"hung", "broken"} THEN @ \cup {p} ELSE @]
        /\ refused' = [refused EXCEPT ![i] = IF Refuses(p, exit) THEN @ \cup {p} ELSE @]
  BY <1>3 DEF Check, Spoils
<1>5. refused'[i] = IF Refuses(p, exit) THEN refused[i] \cup {p} ELSE refused[i]
  BY <1>4 DEF Apart, Types, TypeOfRefusals
<1>6. ~Refuses(p, exit) /\ refused[i] = {}
  BY <1>5
<1>7. phase[i] \in 1..3
  BY Numbers DEF Apart
<1>8. p \in {"base", "landed", "additions"}
  <2>1. phase[i] = 1 \/ phase[i] = 2 \/ phase[i] = 3
    BY <1>7
  <2> QED BY <2>1, PhaseFacts
<1>9. loaded' = loaded /\ wrong' = wrong
  BY DEF Check, diskVars
<1>10. CASE exit \in {"hung", "broken"}
  <2>1. p # "landed"
    BY <1>10, <1>6 DEF Refuses
  <2>2. p \in spoilt'[i]
    BY <1>10, <1>4 DEF Apart, Types, TypeOfTasks, TypeOfFlags
  <2>3. ASSUME NEW n, n = phase[i] PROVE Right(i, n)'
    <3>1. Phases[n] = p
      BY <2>3
    <3> QED BY <3>1, <2>1, <2>2 DEF Right
  <2> QED BY <1>6, <2>3
<1>11. CASE exit \notin {"hung", "broken"}
  <2>1. exit = IF Passes(Ids[i], loaded[i], p) THEN "0" ELSE "nonzero"
    BY <1>1, <1>4, <1>11 DEF Exits
  <2>2. Passes(Ids[i], loaded[i], p) <=> p = "landed"
    <3> HIDE DEF p
    <3> QED BY <2>1, <1>6, <1>8 DEF Refuses
  <2>3. ASSUME NEW n, n = phase[i] PROVE Right(i, n)'
    <3>1. Passes(Ids[i], loaded[i], Phases[n]) <=> Phases[n] = "landed"
      BY <2>2, <2>3
    <3> QED BY <3>1, <1>9 DEF Right, Passes
  <2> QED BY <1>6, <2>3
<1> QED BY <1>10, <1>11

\* The trees a check was spoilt in are not forgotten.
LEMMA SpoiltGrows ==
  ASSUME Types, NEW i \in Goroutine, VerifyTask(i)
  PROVE  spoilt[i] \subseteq spoilt'[i] /\ (~Check(i) => spoilt' = spoilt)
<1>1. CASE Check(i)
  <2>1. PICK exit : spoilt' = [spoilt EXCEPT ![i] = IF exit \in {"hung", "broken"}
                                                   THEN @ \cup {Phases[phase[i]]} ELSE @]
    BY <1>1 DEF Check
  <2> QED BY <1>1, <2>1 DEF Types, TypeOfTasks, TypeOfFlags
<1>2. CASE ~Check(i)
  BY <1>2 DEF VerifyTask, Start, LockMirror, CloneMirror, FetchMirror, EmptyWork, Checkout, Hash
<1> QED BY <1>1, <1>2

\* What a step of pass 1 leaves: the tasks' content, and every other goroutine's checkout.
LEMMA OthersChecked ==
  ASSUME Apart, Distinct, NEW i \in Goroutine, VerifyTask(i), NEW j \in Goroutine, j # i,
         Judged(j), CheckoutOf(j), Certified(j)
  PROVE  (Judged(j) /\ CheckoutOf(j) /\ Certified(j))'
<1>1. UNCHANGED <<content, wrong, cancelled, suite>>
  BY DEF VerifyTask, Start, LockMirror, CloneMirror, FetchMirror, EmptyWork, Checkout, Check, Hash,
         diskVars, suiteVars
<1>2. at'[j] = at[j] /\ refused'[j] = refused[j] /\ hash'[j] = hash[j] /\ loaded'[j] = loaded[j]
      /\ phase'[j] = phase[j] /\ copied'[j] = copied[j] /\ clockless'[j] = clockless[j]
      /\ spoilt'[j] = spoilt[j]
  BY OthersStay DEF Apart
<1>3. whole[j] => whole'[j]
  <2>1. Ids[j] # Ids[i]
    BY DEF Distinct
  <2>2. whole \in [Goroutine -> BOOLEAN]
    BY DEF Apart, Types, TypeOfTasks, TypeOfFlags
  <2> QED BY <2>1, <2>2
    DEF VerifyTask, Start, LockMirror, CloneMirror, FetchMirror, EmptyWork, Checkout, Check, Hash,
        Without
<1>4. \A n : Right(j, n)' <=> Right(j, n)
  BY <1>1, <1>2 DEF Right, Passes
<1>5. Trees(j)' = Trees(j)
  BY DEF Trees, Rec
<1>6. Doubt(j)' <=> Doubt(j)
  BY <1>1 DEF Doubt, Queued, KeyOf, VisibleKey, VisibleRun, Holder, Rec
<1>7. Judged(j)'
  BY <1>1, <1>2, <1>4, <1>5 DEF Judged
<1>8. CheckoutOf(j)'
  BY <1>1, <1>2, <1>3 DEF CheckoutOf
<1>9. Certified(j)'
  BY <1>1, <1>2, <1>4, <1>5, <1>6 DEF Certified, AllRight
<1> QED BY <1>7, <1>8, <1>9

LEMMA CheckoutStep ==
  ASSUME Apart, Distinct, NEW i \in Goroutine, VerifyTask(i), CheckoutOf(i)
  PROVE  CheckoutOf(i)'
<1>1. content' = content /\ content[Ids[i]] \in Nat /\ loaded[i] \in Nat /\ copied[i] \in Nat
  BY Numbers
  DEF VerifyTask, Start, LockMirror, CloneMirror, FetchMirror, EmptyWork, Checkout, Check, Hash,
      diskVars, Apart
<1>2. /\ at \in [Goroutine -> {"queued", "mirror", "clone", "fetch", "work", "tree", "check",
                             "hash", "done"}]
      /\ phase \in [Goroutine -> 1..3]
      /\ loaded \in [Goroutine -> 0..MaxEdits] /\ copied \in [Goroutine -> 0..MaxEdits]
      /\ whole \in [Goroutine -> BOOLEAN] /\ clockless \in [Goroutine -> BOOLEAN]
      /\ refused \in [Goroutine -> SUBSET Why]
  BY DEF Apart, Types, TypeOfTasks, TypeOfPlaces, TypeOfVersions, TypeOfFlags, TypeOfRefusals
<1>3. refused[i] \subseteq refused'[i]
  <2>1. refused' = refused \/ \E w \in Why : Refuse(i, w)
    BY RefusalsGrow DEF Apart, Types
  <2> QED BY <2>1, <1>2 DEF Refuse
<1>4. CASE Start(i)
  BY <1>1, <1>2, <1>3, <1>4 DEF Start, Goto, CheckoutOf
<1>5. CASE LockMirror(i) \/ CloneMirror(i) \/ FetchMirror(i) \/ EmptyWork(i) \/ Hash(i)
  BY <1>1, <1>2, <1>3, <1>5 DEF LockMirror, CloneMirror, FetchMirror, EmptyWork, Hash, Goto, CheckoutOf
<1>6. CASE Checkout(i)
  <2>1. at[i] = "tree" /\ loaded' = loaded
    BY <1>6 DEF Checkout
  <2>2. CASE /\ ~clockless[i] /\ whole' = [whole EXCEPT ![i] = TRUE]
             /\ copied' = [copied EXCEPT ![i] = content[Ids[i]]]
             /\ Goto(i, "check") /\ UNCHANGED <<phase, clockless, refused>>
    BY <2>1, <2>2, <1>1, <1>2 DEF Goto, CheckoutOf
  <2>3. CASE NextPhase(i) /\ Refuse(i, Phases[phase[i]])
    BY <2>1, <2>3, <1>1, <1>2 DEF NextPhase, Goto, Refuse, CheckoutOf
  <2>4. CASE NextPhase(i) /\ UNCHANGED <<clockless, refused>>
    BY <2>1, <2>4, <1>1, <1>2 DEF NextPhase, Goto, CheckoutOf
  <2> QED BY <1>6, <2>2, <2>3, <2>4 DEF Checkout
<1>7. CASE Check(i)
  <2>1. at[i] = "check" /\ NextPhase(i) /\ UNCHANGED <<loaded, copied, clockless>>
    BY <1>7 DEF Check
  <2> QED BY <2>1, <1>1, <1>2, <1>3 DEF NextPhase, Goto, CheckoutOf
<1> QED BY <1>4, <1>5, <1>6, <1>7 DEF VerifyTask

LEMMA JudgedStep ==
  ASSUME Apart, AllRun, NEW i \in Goroutine, VerifyTask(i), CheckoutOf(i), Judged(i)
  PROVE  Judged(i)'
<1>1. UNCHANGED <<content, wrong, cancelled>>
  BY DEF VerifyTask, Start, LockMirror, CloneMirror, FetchMirror, EmptyWork, Checkout, Check, Hash,
         diskVars
<1>2. /\ at \in [Goroutine -> {"queued", "mirror", "clone", "fetch", "work", "tree", "check",
                             "hash", "done"}]
      /\ phase \in [Goroutine -> 1..3] /\ phase[i] \in 1..Trees(i) /\ Trees(i) \in {2, 3}
      /\ refused \in [Goroutine -> SUBSET Why]
  BY PhaseFacts DEF Apart, Types, TypeOfTasks, TypeOfPlaces, TypeOfRefusals
<1>3. Trees(i)' = Trees(i)
  BY DEF Trees, Rec
<1>4. loaded'[i] = loaded[i] => \A n : Right(i, n) => Right(i, n)'
  BY <1>1, SpoiltGrows DEF Apart, Right, Passes
<1>5. CASE Start(i) \/ LockMirror(i) \/ CloneMirror(i) \/ FetchMirror(i) \/ Hash(i)
  <2>1. at'[i] \notin {"tree", "check", "hash"}
    BY <1>2, <1>5 DEF Start, LockMirror, CloneMirror, FetchMirror, Hash, Goto
  <2> QED BY <2>1 DEF Judged
<1>6. CASE EmptyWork(i)
  <2>1. phase'[i] = 1 /\ at'[i] \in {"tree", "done"}
    BY <1>2, <1>6 DEF EmptyWork, Goto, CheckoutOf
  <2>2. \A n \in 1..Trees(i) : ~(n < 1)
    BY <1>2
  <2> QED BY <2>1, <2>2, <1>3 DEF Judged
<1>7. CASE Checkout(i)
  <2>1. at[i] = "tree" /\ loaded' = loaded
    BY <1>7 DEF Checkout
  <2>2. CASE Goto(i, "check") /\ UNCHANGED <<phase, refused>>
    <3>1. at'[i] = "check"
      BY <2>2, <1>2 DEF Goto
    <3> QED BY <2>1, <2>2, <3>1, <1>1, <1>3, <1>4 DEF Judged
  <2>3. CASE Refuse(i, Phases[phase[i]])
    <3>1. refused'[i] # {}
      BY <2>3, <1>2 DEF Refuse
    <3> QED BY <3>1 DEF Judged
  <2>4. CASE clockless[i] /\ UNCHANGED refused
    <3>1. refused'[i] # {}
      BY <2>4 DEF CheckoutOf
    <3> QED BY <3>1 DEF Judged
  <2> QED BY <1>7, <2>2, <2>3, <2>4 DEF Checkout
<1>8. CASE Check(i)
  <2>1. at[i] = "check" /\ loaded' = loaded /\ NextPhase(i)
    BY <1>8 DEF Check
  <2> SUFFICES ASSUME refused'[i] = {}, content[Ids[i]] = loaded[i], ~cancelled,
                      NEW n \in 1..Trees(i), n < phase'[i] \/ at'[i] = "hash"
               PROVE  Right(i, n)'
    BY <2>1, <1>1, <1>3 DEF Judged
  <2>2. refused[i] = {} /\ \A m : m = phase[i] => Right(i, m)'
    BY <1>8, ExitIsItsOwn
  <2>3. \A m \in 1..Trees(i) : m < phase[i] => Right(i, m)
    BY <2>1, <2>2 DEF Judged
  <2>4. n < phase[i] \/ n = phase[i]
    <3>1. phase[i] \in Nat /\ n \in Nat /\ Trees(i) \in Nat /\ n <= Trees(i) /\ phase[i] <= Trees(i)
      BY <1>2
    <3>2. CASE phase[i] < Trees(i)
      <4>1. phase'[i] = phase[i] + 1 /\ at'[i] = "tree"
        BY <3>2, <2>1, <1>2 DEF NextPhase, Goto
      <4> QED BY <4>1, <3>1
    <3>3. CASE ~(phase[i] < Trees(i))
      BY <3>1, <3>3
    <3> QED BY <3>2, <3>3
  <2> QED BY <2>1, <2>2, <2>3, <2>4, <1>4
<1> QED BY <1>5, <1>6, <1>7, <1>8 DEF VerifyTask

LEMMA CertifiedStep ==
  ASSUME Apart, Readings, NEW i \in Goroutine, VerifyTask(i), Judged(i)
  PROVE  Certified(i)'
<1>1. suite.at = "wait" /\ suite' = suite /\ at[i] # "done" /\ hash[i] = -1
  BY StillPass1 DEF Readings, Hashed
<1>2. UNCHANGED <<content, wrong, cancelled>> /\ Trees(i)' = Trees(i)
  BY DEF VerifyTask, Start, LockMirror, CloneMirror, FetchMirror, EmptyWork, Checkout, Check, Hash,
         diskVars, Trees, Rec
<1>3. hash \in [Goroutine -> -1..MaxEdits]
  BY DEF Apart, Types, TypeOfTasks, TypeOfVersions
<1>4. CASE Hash(i) /\ refused[i] = {} /\ hash' = [hash EXCEPT ![i] = content[Ids[i]]]
  <2>1. at[i] = "hash" /\ loaded' = loaded /\ hash'[i] = content[Ids[i]]
    BY <1>3, <1>4 DEF Hash
  <2>2. \A n : Right(i, n) => Right(i, n)'
    BY <2>1, <1>2, SpoiltGrows DEF Apart, Right, Passes
  <2>3. CASE cancelled
    BY <2>3, <1>1, <1>2 DEF Certified, Doubt
  <2>4. CASE ~cancelled
    <3>1. content[Ids[i]] = loaded[i] => AllRight(i)
      BY <2>1, <2>4, <1>4 DEF Judged, AllRight
    <3> QED BY <3>1, <2>1, <2>2, <1>2 DEF Certified, AllRight
  <2> QED BY <2>3, <2>4
<1>5. CASE ~Hash(i) \/ hash' = hash
  <2>1. hash' = hash
    BY <1>5 DEF VerifyTask, Start, LockMirror, CloneMirror, FetchMirror, EmptyWork, Checkout, Check
  <2> QED BY <2>1, <1>1 DEF Certified
<1>6. Hash(i) => hash' = hash \/ (refused[i] = {} /\ hash' = [hash EXCEPT ![i] = content[Ids[i]]])
  BY DEF Hash
<1> QED BY <1>4, <1>5, <1>6

LEMMA CheckedStep ==
  ASSUME AllRun, Distinct
  PROVE  Apart /\ Readings /\ Checked /\ [Next]_vars => Checked'
<1> SUFFICES ASSUME Apart, Readings, Checked, [Next]_vars PROVE Checked'
  OBVIOUS
<1>0. \A j \in Goroutine : Judged(j) /\ CheckoutOf(j) /\ Certified(j)
  BY DEF Checked
<1>1. ASSUME NEW i \in Goroutine, VerifyTask(i) PROVE Checked'
  <2>1. ASSUME NEW j \in Goroutine PROVE (Judged(j) /\ CheckoutOf(j) /\ Certified(j))'
    <3>1. CASE j = i
      BY <1>0, <1>1, <3>1, JudgedStep, CheckoutStep, CertifiedStep
    <3>2. CASE j # i
      BY <1>0, <1>1, <3>2, OthersChecked
    <3> QED BY <3>1, <3>2
  <2> QED BY <2>1 DEF Checked
<1>2. CASE VerifyVisible
  <2>1. UNCHANGED <<content, wrong, cancelled, at, phase, loaded, copied, whole, clockless, spoilt, hash>>
        /\ (StartSuites \/ Within \/ \E o, f : Found(o, f))
    BY <1>2, SuiteSteps DEF Apart, Types, diskVars, taskVars
  <2>2. \A j \in Goroutine : at[j] = "done"
    BY <2>1 DEF Apart, MeasuredAlone, StartSuites, Within, Found
  <2>3. ASSUME NEW j \in Goroutine PROVE refused[j] \subseteq refused'[j]
    <3>1. ASSUME NEW o, NEW f, Found(o, f) PROVE refused[j] \subseteq refused'[j]
      BY <3>1, Given DEF Apart
    <3> QED BY <2>1, <3>1 DEF StartSuites, Within
  <2>4. \A j \in Goroutine : Judged(j)' /\ CheckoutOf(j)'
    BY <1>0, <2>1, <2>2, <2>3 DEF Judged, CheckoutOf
  <2>5. ASSUME NEW j \in Goroutine PROVE Certified(j)'
    <3> SUFFICES ASSUME hash[j] # -1, refused'[j] = {}, loaded[j] = hash[j], ~AllRight(j)
                 PROVE  Doubt(j)'
      <4>1. AllRight(j)' <=> AllRight(j)
        BY <2>1 DEF AllRight, Right, Passes, Trees, Rec
      <4> QED BY <4>1, <2>1 DEF Certified
    <3>1. refused[j] = {} /\ Doubt(j)
      BY <1>0, <2>3 DEF Certified
    <3>2. CASE StartSuites
      <4>1. Queued(j, "base")'
        BY <3>2, AllQueued
      <4>2. suite'.at \in {"clone", "ended"}
        BY <3>2 DEF StartSuites, Suites
      <4> QED BY <3>1, <4>1, <4>2, <2>1 DEF Doubt
    <3>3. CASE Within
      BY <3>1, <3>3 DEF Doubt, Within
    <3>4. ASSUME NEW o, NEW f, Found(o, f) PROVE Doubt(j)'
      <4>1. suite.at = "clone" /\ Queued(j, "base") /\ cancelled
        BY <3>1, <3>4 DEF Doubt, Found
      <4>2. f # ""
        BY <4>1, <3>4 DEF Found
      <4> DEFINE mine == hash[j] # -1 /\ VisibleKey(j, "base") = KeyOf(Holder[Head(suite.todo)])
      <4>5. /\ ~mine => reading'[j]["base"] = reading[j]["base"]
            /\ mine => /\ reading'[j]["base"] = [run |-> VisibleRun(j, "base"), outcome |-> o]
                       /\ f # "" => refused'[j] # {}
            /\ refused[j] \subseteq refused'[j]
            /\ Queued(j, "base") /\ ~mine /\ hash[j] # -1 => Queued(j, "base")'
        <5>1. "base" \in {"base", "landed"}
          OBVIOUS
        <5> QED BY <3>4, <5>1, Given DEF Apart
      <4>3. Queued(j, "base")'
        <5> HIDE DEF mine
        <5> QED BY <4>1, <4>2, <4>5
      <4>4. suite'.at \in {"clone", "ended"}
        BY <3>4 DEF Found, Give, Suites
      <4> QED BY <4>1, <4>3, <4>4, <2>1 DEF Doubt
    <3> QED BY <2>1, <3>2, <3>3, <3>4
  <2> QED BY <2>4, <2>5 DEF Checked
<1>3. ASSUME NEW t \in Task, Edit(t) PROVE Checked'
  <2>1. UNCHANGED <<wrong, cancelled, suite, at, phase, loaded, copied, whole, clockless, spoilt, hash,
                   refused>>
        /\ content' = [content EXCEPT ![t] = @ + 1] /\ content \in [Task -> 0..edits]
    BY <1>3 DEF Edit, taskVars, suiteVars, Apart, Types, TypeOfCounts
  <2>2. ASSUME NEW j \in Goroutine PROVE (Judged(j) /\ CheckoutOf(j) /\ Certified(j))'
    <3>1. Ids[j] \in Task /\ content[Ids[j]] \in Nat /\ loaded[j] \in Nat /\ copied[j] \in Nat
      BY Numbers, Bounds DEF Apart
    <3>2. content'[Ids[j]] = content[Ids[j]]
          \/ (content'[Ids[j]] = content[Ids[j]] + 1 /\ content[Ids[j]] < content'[Ids[j]])
      BY <2>1, <3>1
    <3>3. (AllRight(j)' <=> AllRight(j)) /\ (\A n : Right(j, n)' <=> Right(j, n)) /\ Trees(j)' = Trees(j)
      BY <2>1 DEF AllRight, Right, Passes, Trees, Rec
    <3>4. Doubt(j)' <=> Doubt(j)
      BY <2>1 DEF Doubt, Queued, KeyOf, VisibleKey, VisibleRun, Holder, Rec
    <3>5. CheckoutOf(j)'
      BY <1>0, <2>1, <3>1, <3>2 DEF CheckoutOf
    <3>6. Judged(j)'
      <4>1. CASE content'[Ids[j]] = content[Ids[j]]
        BY <4>1, <1>0, <2>1, <3>3 DEF Judged
      <4>2. CASE content[Ids[j]] < content'[Ids[j]] /\ content'[Ids[j]] = content[Ids[j]] + 1
        <5>1. at[j] # "queued" => content'[Ids[j]] # loaded[j]
          BY <4>2, <3>1, <1>0 DEF CheckoutOf
        <5> QED BY <5>1, <2>1 DEF Judged
      <4> QED BY <3>2, <4>1, <4>2
    <3>7. Certified(j)'
      BY <1>0, <2>1, <3>3, <3>4 DEF Certified
    <3> QED BY <3>5, <3>6, <3>7
  <2> QED BY <2>2 DEF Checked
<1>4. CASE Interrupt \/ UNCHANGED vars
  <2>1. UNCHANGED <<content, wrong, suite, at, phase, loaded, copied, whole, clockless, spoilt, hash,
                   refused>>
        /\ (cancelled => cancelled')
    BY <1>4 DEF Interrupt, vars, diskVars, taskVars, suiteVars
  <2>2. ASSUME NEW j \in Goroutine PROVE (Judged(j) /\ CheckoutOf(j) /\ Certified(j))'
    <3>1. (AllRight(j)' <=> AllRight(j)) /\ (\A n : Right(j, n)' <=> Right(j, n)) /\ Trees(j)' = Trees(j)
      BY <2>1 DEF AllRight, Right, Passes, Trees, Rec
    <3>2. Doubt(j) => Doubt(j)'
      BY <2>1 DEF Doubt, Queued, KeyOf, VisibleKey, VisibleRun, Holder, Rec
    <3>3. CheckoutOf(j)'
      BY <1>0, <2>1 DEF CheckoutOf
    <3>4. Judged(j)'
      BY <1>0, <2>1, <3>1 DEF Judged
    <3>5. Certified(j)'
      BY <1>0, <2>1, <3>1, <3>2 DEF Certified
    <3> QED BY <3>3, <3>4, <3>5
  <2> QED BY <2>2 DEF Checked
<1> QED BY <1>1, <1>2, <1>3, <1>4 DEF Next

\* A task whose verdict is ok has a hidden check that passes at landed, and that fails at base and
\* on the additions (the six criteria, main.go:52) or hung or could not run there, which the code
\* takes for the failure it asks for (verify.go:331, 346).  Beyond that no failed step and no
\* interrupt lets a check through, when no task is named twice on the command line and every log
\* file of a check can be created: without the latter, CorpusUnrun is a run where it does not hold.
THEOREM CorpusCertifiesSound ==
  ASSUME AllRun, Distinct
  PROVE  Spec => []CertifiedIsSound
<1>1. Apart /\ Checked => CertifiedIsSound
  <2> SUFFICES ASSUME Apart, Checked, NEW i \in Goroutine, Ok(i), loaded[i] = hash[i],
                      NEW n \in 1..Trees(i)
               PROVE  \/ Passes(Ids[i], hash[i], Phases[n]) <=> Phases[n] = "landed"
                      \/ Phases[n] # "landed" /\ Phases[n] \in spoilt[i]
    BY DEF CertifiedIsSound
  <2>1. Ended /\ refused[i] = {} /\ suite.at = "ended"
    BY DEF Ok, Ended
  <2>2. hash[i] # -1
    <3>1. loaded[i] \in Nat
      BY Numbers DEF Apart
    <3> QED BY <3>1
  <2>3. AllRight(i) \/ Doubt(i)
    BY <2>1, <2>2 DEF Checked, Certified
  <2>4. ~Doubt(i)
    BY <2>1, NoneQueued DEF Doubt, Apart
  <2> QED BY <2>3, <2>4 DEF AllRight, Right
<1>2. Apart /\ Readings /\ Checked /\ [Next]_vars => Checked'
  BY CheckedStep
<1> QED BY ApartInit, ApartStep, ReadingsInit, ReadingsStep, CheckedInit, <1>1, <1>2, PTL DEF Spec

=============================================================================
