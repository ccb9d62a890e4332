---------------------------- MODULE SweepProofs -----------------------------
(***************************************************************************)
(* For any arms, tasks, budgets, invocations, failures, edits and changes  *)
(* of model: what Sweep promises of the runs it pays for.  Every line of   *)
(* the log is readable here, as Spec has it.                               *)
(***************************************************************************)
EXTENDS Sweep, TLAPS, FiniteSetTheorems, WellFoundedInduction

-----------------------------------------------------------------------------
(* Sequences *)

\* A set of natural numbers that is not empty has a least one.
LEMMA Least ==
  ASSUME NEW B, B \subseteq Nat, B # {}
  PROVE  \E n \in B : \A m \in B : n <= m
<1> DEFINE R == OpToRel(<, Nat)
<1>1. IsWellFoundedOn(R, Nat)
  BY NatLessThanWellFounded
<1>2. \A x, y \in Nat : <<x, y>> \in R <=> x < y
  BY DEF OpToRel
<1> HIDE DEF R
<1>3. PICK x \in B : \A y \in B : ~ (<<y, x>> \in R)
  BY <1>1, WFMin
<1>4. \A y \in B : ~ (y < x)
  BY <1>2, <1>3
<1>5. \A y \in B : x <= y
  BY <1>4
<1> QED BY <1>5

\* What an append makes of a sequence.
LEMMA Appended ==
  ASSUME NEW S, NEW q \in Seq(S), NEW e
  PROVE  /\ \A T : e \in T /\ q \in Seq(T) => Append(q, e) \in Seq(T)
         /\ Len(q) \in Nat /\ Len(Append(q, e)) = Len(q) + 1
         /\ Append(q, e)[Len(q) + 1] = e /\ \A k \in 1..Len(q) : Append(q, e)[k] = q[k]
         /\ DOMAIN q = 1..Len(q) /\ DOMAIN Append(q, e) = 1..Len(q) + 1
         /\ ToSet(Append(q, e)) = ToSet(q) \cup {e}
<1> DEFINE T == S \cup {e}
           p == Append(q, e)
<1>1. q \in Seq(T) /\ Len(q) \in Nat /\ DOMAIN q = 1..Len(q)
  OBVIOUS
<1>2. p \in Seq(T) /\ Len(p) = Len(q) + 1 /\ p[Len(q) + 1] = e /\ \A k \in 1..Len(q) : p[k] = q[k]
  BY <1>1
<1>3. DOMAIN p = 1..Len(q) + 1
  BY <1>2
<1>4. \A k \in 1..Len(q) + 1 : k = Len(q) + 1 \/ k \in 1..Len(q)
  BY <1>1
<1>5. Len(q) + 1 \in 1..Len(q) + 1 /\ \A k \in 1..Len(q) : k \in 1..Len(q) + 1
  BY <1>1
<1>6. ToSet(p) = ToSet(q) \cup {e}
  <2> HIDE DEF p
  <2> QED BY <1>1, <1>2, <1>3, <1>4, <1>5 DEF ToSet
<1> QED BY <1>1, <1>2, <1>3, <1>6

\* The head of a sequence and the rest of it are its members, once each when they are.
LEMMA HeadAndTail ==
  ASSUME NEW S, NEW q \in Seq(S), q # << >>
  PROVE  /\ Head(q) \in ToSet(q) /\ Head(q) \in S /\ Tail(q) \in Seq(S)
         /\ ToSet(q) = {Head(q)} \cup ToSet(Tail(q))
         /\ IsInjective(q) => IsInjective(Tail(q)) /\ Head(q) \notin ToSet(Tail(q))
<1>1. /\ Head(q) = q[1] /\ Len(q) \in Nat \ {0} /\ Len(Tail(q)) = Len(q) - 1
      /\ Head(q) \in S /\ Tail(q) \in Seq(S)
      /\ \A m \in 1..Len(q) - 1 : Tail(q)[m] = q[m + 1]
      /\ DOMAIN q = 1..Len(q) /\ DOMAIN Tail(q) = 1..Len(q) - 1
  OBVIOUS
<1>2. /\ \A k \in 1..Len(q) : k = 1 \/ (k - 1 \in 1..Len(q) - 1 /\ (k - 1) + 1 = k)
      /\ \A m \in 1..Len(q) - 1 : m + 1 \in 1..Len(q) /\ m + 1 # 1
      /\ 1 \in 1..Len(q)
  BY <1>1
<1>3. ToSet(q) = {Head(q)} \cup ToSet(Tail(q))
  <2>1. ToSet(q) = {q[k] : k \in 1..Len(q)} /\ ToSet(Tail(q)) = {Tail(q)[m] : m \in 1..Len(q) - 1}
    BY <1>1 DEF ToSet
  <2>2. \A k \in 1..Len(q) : q[k] = Head(q) \/ \E m \in 1..Len(q) - 1 : q[k] = Tail(q)[m]
    BY <1>1, <1>2
  <2>3. \A m \in 1..Len(q) - 1 : \E k \in 1..Len(q) : q[k] = Tail(q)[m]
    BY <1>1, <1>2
  <2>4. \E k \in 1..Len(q) : q[k] = Head(q)
    BY <1>1, <1>2
  <2> QED BY <2>1, <2>2, <2>3, <2>4
<1>4. ASSUME IsInjective(q) PROVE IsInjective(Tail(q)) /\ Head(q) \notin ToSet(Tail(q))
  <2>1. \A a, b \in 1..Len(q) : q[a] = q[b] => a = b
    BY <1>1, <1>4 DEF IsInjective
  <2>2. \A a, b \in 1..Len(q) - 1 : a + 1 = b + 1 => a = b
    BY <1>1
  <2>3. \A a, b \in 1..Len(q) - 1 : Tail(q)[a] = Tail(q)[b] => a = b
    BY <1>1, <1>2, <2>1, <2>2
  <2>4. \A a \in 1..Len(q) - 1 : Tail(q)[a] # q[1]
    BY <1>1, <1>2, <2>1
  <2> QED BY <1>1, <2>3, <2>4 DEF IsInjective, ToSet
<1> QED BY <1>1, <1>3, <1>4

\* What the loop of Keep has after each member.
Keeps(g, q, S, N) ==
  g = [n \in 0..N |-> IF n = 0 THEN << >>
                      ELSE IF q[n] \in S THEN Append(g[n - 1], q[n]) ELSE g[n - 1]]

LEMMA KeepExists ==
  ASSUME NEW q, NEW S, NEW N \in Nat
  PROVE  \E g : Keeps(g, q, S, N)
<1> DEFINE B == {n \in Nat : ~ \E g : Keeps(g, q, S, n)}
<1>1. SUFFICES ASSUME B # {} PROVE FALSE
  OBVIOUS
<1>2. PICK n \in B : \A m \in B : n <= m
  BY <1>1, Least
<1>3. n # 0
  <2> DEFINE g == [k \in 0..0 |-> << >>]
  <2>1. Keeps(g, q, S, 0)
    BY DEF Keeps
  <2> QED BY <2>1, <1>2
<1>4. PICK g : Keeps(g, q, S, n - 1)
  <2>1. n - 1 \in Nat /\ n - 1 \notin B
    BY <1>2, <1>3
  <2> QED BY <2>1
<1> DEFINE h == [k \in 0..n |-> IF k < n THEN g[k]
                                ELSE IF q[n] \in S THEN Append(g[n - 1], q[n]) ELSE g[n - 1]]
<1>5. Keeps(h, q, S, n)
  <2>1. \A k \in 0..n - 1 : h[k] = g[k]
    BY <1>2, <1>3
  <2>2. h[0] = << >>
    BY <2>1, <1>2, <1>3, <1>4 DEF Keeps
  <2>3. ASSUME NEW k \in 1..n PROVE h[k] = IF q[k] \in S THEN Append(h[k - 1], q[k]) ELSE h[k - 1]
    <3>1. k - 1 \in 0..n - 1 /\ k \in 0..n
      BY <1>2
    <3>2. CASE k = n
      <4>1. h[n] = IF q[n] \in S THEN Append(g[n - 1], q[n]) ELSE g[n - 1]
        BY <3>1, <3>2
      <4> QED BY <4>1, <3>1, <3>2, <2>1
    <3>3. CASE k # n
      <4>1. k \in 0..n - 1 /\ k # 0
        BY <3>3, <1>2
      <4> QED BY <4>1, <3>1, <2>1, <1>4 DEF Keeps
    <3> QED BY <3>2, <3>3
  <2>4. h = [k \in 0..n |-> h[k]]
    OBVIOUS
  <2>5. \A k \in 0..n : k # 0 => k \in 1..n
    BY <1>2
  <2> HIDE DEF h
  <2> QED BY <2>2, <2>3, <2>4, <2>5 DEF Keeps
<1> QED BY <1>2, <1>5

\* Keep keeps the members that are in S, once each when they were.
LEMMA Kept ==
  ASSUME NEW T, NEW q \in Seq(T), NEW S
  PROVE  /\ Keep(q, S) \in Seq(T) /\ ToSet(Keep(q, S)) = ToSet(q) \cap S
         /\ IsInjective(q) => IsInjective(Keep(q, S))
<1> DEFINE N == Len(q)
           kept[n \in 0..N] ==
             IF n = 0 THEN << >>
             ELSE IF q[n] \in S THEN Append(kept[n - 1], q[n]) ELSE kept[n - 1]
<1>1. N \in Nat /\ DOMAIN q = 1..N /\ \A n \in 1..N : q[n] \in T
  OBVIOUS
<1>2. kept = [n \in 0..N |-> IF n = 0 THEN << >>
                            ELSE IF q[n] \in S THEN Append(kept[n - 1], q[n]) ELSE kept[n - 1]]
  <2>1. PICK g : Keeps(g, q, S, N)
    BY <1>1, KeepExists
  <2>2. g = [n \in 0..N |-> IF n = 0 THEN << >>
                            ELSE IF q[n] \in S THEN Append(g[n - 1], q[n]) ELSE g[n - 1]]
    BY <2>1 DEF Keeps
  <2> HIDE DEF N
  <2> QED BY <2>2
<1>3. Keep(q, S) = kept[N]
  BY DEF Keep
<1> HIDE DEF kept, N
<1> DEFINE Right(n) == /\ kept[n] \in Seq(T)
                       /\ ToSet(kept[n]) = {q[k] : k \in 1..n} \cap S
                       /\ IsInjective(q) => IsInjective(kept[n])
           B == {n \in 0..N : ~ Right(n)}
<1>4. SUFFICES ASSUME B # {} PROVE FALSE
  <2>1. ASSUME B = {} PROVE Right(N)
    <3>1. N \in 0..N /\ N \notin B
      BY <1>1, <2>1
    <3> QED BY <3>1
  <2>2. {q[k] : k \in 1..N} = ToSet(q)
    BY <1>1 DEF ToSet
  <2> QED BY <2>1, <2>2, <1>3
<1>5. PICK n \in B : \A m \in B : n <= m
  <2>1. B \subseteq Nat
    BY <1>1
  <2> QED BY <1>4, <2>1, Least
<1>6. n # 0
  <2>1. kept[0] = << >>
    BY <1>1, <1>2
  <2>2. {q[k] : k \in 1..0} = {}
    OBVIOUS
  <2>3. Right(0)
    BY <2>1, <2>2 DEF ToSet, IsInjective
  <2> QED BY <2>3, <1>5
<1>7. n \in 1..N /\ n - 1 \in 0..N /\ n - 1 \notin B
  <2>1. n \in 0..N
    BY <1>5
  <2>2. n \in 1..N /\ n - 1 \in 0..N /\ ~ (n <= n - 1)
    BY <2>1, <1>1, <1>6
  <2> HIDE DEF B
  <2> QED BY <2>2, <1>5
<1>8. Right(n - 1)
  BY <1>7
<1>9. kept[n] = IF q[n] \in S THEN Append(kept[n - 1], q[n]) ELSE kept[n - 1]
  BY <1>2, <1>6, <1>7
<1>10. {q[k] : k \in 1..n} = {q[k] : k \in 1..n - 1} \cup {q[n]}
  <2>1. \A k : k \in 1..n <=> k \in 1..n - 1 \/ k = n
    BY <1>7, <1>1
  <2> QED BY <2>1
<1> DEFINE p == kept[n - 1]
<1>11. p \in Seq(T) /\ ToSet(p) = {q[k] : k \in 1..n - 1} \cap S
       /\ (IsInjective(q) => IsInjective(p))
  BY <1>8
<1>12. kept[n] = IF q[n] \in S THEN Append(p, q[n]) ELSE p
  BY <1>9
<1> HIDE DEF p
<1>13. CASE q[n] \in S
  <2>1. kept[n] = Append(p, q[n])
    BY <1>12, <1>13
  <2>2. /\ Append(p, q[n]) \in Seq(T) /\ ToSet(Append(p, q[n])) = ToSet(p) \cup {q[n]}
        /\ Len(p) \in Nat /\ DOMAIN Append(p, q[n]) = 1..Len(p) + 1 /\ DOMAIN p = 1..Len(p)
        /\ Append(p, q[n])[Len(p) + 1] = q[n] /\ \A k \in 1..Len(p) : Append(p, q[n])[k] = p[k]
    BY <1>1, <1>7, <1>11, Appended
  <2>3. ASSUME IsInjective(q) PROVE IsInjective(Append(p, q[n]))
    <3>1. q[n] \notin {q[k] : k \in 1..n - 1}
      BY <2>3, <1>1, <1>7 DEF IsInjective
    <3>2. \A k \in 1..Len(p) : p[k] # q[n]
      BY <3>1, <2>2, <1>11 DEF ToSet
    <3>3. \A a, b \in 1..Len(p) : p[a] = p[b] => a = b
      BY <2>2, <2>3, <1>11 DEF IsInjective
    <3>4. \A k \in 1..Len(p) + 1 : k \in 1..Len(p) \/ k = Len(p) + 1
      BY <2>2
    <3> DEFINE w == Append(p, q[n])
    <3>5. \A a, b \in 1..Len(p) + 1 : w[a] = w[b] => a = b
      BY <3>2, <3>3, <3>4, <2>2
    <3> QED BY <3>5, <2>2 DEF IsInjective
  <2>4. ToSet(kept[n]) = {q[k] : k \in 1..n} \cap S
    BY <2>1, <2>2, <1>10, <1>11, <1>13
  <2> QED BY <2>1, <2>2, <2>3, <2>4, <1>5
<1>14. CASE q[n] \notin S
  <2>1. kept[n] = p
    BY <1>12, <1>14
  <2>2. ToSet(p) = {q[k] : k \in 1..n} \cap S
    BY <1>10, <1>11, <1>14
  <2> QED BY <2>1, <2>2, <1>11, <1>5
<1> QED BY <1>13, <1>14

LEMMA Joined ==
  ASSUME NEW T, NEW p \in Seq(T), NEW q \in Seq(T)
  PROVE  /\ p \o q \in Seq(T) /\ ToSet(p \o q) = ToSet(p) \cup ToSet(q)
         /\ IsInjective(p) /\ IsInjective(q) /\ ToSet(p) \cap ToSet(q) = {} => IsInjective(p \o q)
<1> DEFINE w == p \o q
<1>1. /\ w \in Seq(T) /\ Len(p) \in Nat /\ Len(q) \in Nat /\ Len(w) = Len(p) + Len(q)
      /\ DOMAIN p = 1..Len(p) /\ DOMAIN q = 1..Len(q) /\ DOMAIN w = 1..Len(p) + Len(q)
      /\ \A k \in 1..Len(p) : w[k] = p[k]
      /\ \A k \in 1..Len(p) + Len(q) : k > Len(p) => w[k] = q[k - Len(p)]
  OBVIOUS
<1> HIDE DEF w
<1>2. \A k \in 1..Len(p) + Len(q) :
        k \in 1..Len(p) \/ (k > Len(p) /\ k - Len(p) \in 1..Len(q) /\ k = (k - Len(p)) + Len(p))
  BY <1>1
<1>3. \A k \in 1..Len(q) : /\ k + Len(p) \in 1..Len(p) + Len(q) /\ k + Len(p) > Len(p)
                           /\ (k + Len(p)) - Len(p) = k
  BY <1>1
<1>4. \A k \in 1..Len(p) : k \in 1..Len(p) + Len(q)
  BY <1>1
<1>5. ToSet(w) = ToSet(p) \cup ToSet(q)
  <2>1. /\ ToSet(p) = {p[k] : k \in 1..Len(p)} /\ ToSet(q) = {q[k] : k \in 1..Len(q)}
        /\ ToSet(w) = {w[k] : k \in 1..Len(p) + Len(q)}
    BY <1>1 DEF ToSet
  <2>2. \A k \in 1..Len(p) + Len(q) : w[k] \in ToSet(p) \cup ToSet(q)
    BY <2>1, <1>1, <1>2
  <2>3. \A k \in 1..Len(p) : p[k] \in ToSet(w)
    BY <2>1, <1>1, <1>4
  <2>4. \A k \in 1..Len(q) : q[k] \in ToSet(w)
    BY <2>1, <1>1, <1>3
  <2> QED BY <2>1, <2>2, <2>3, <2>4
<1>6. ASSUME IsInjective(p), IsInjective(q), ToSet(p) \cap ToSet(q) = {}
      PROVE  IsInjective(w)
  <2>1. /\ \A a, b \in 1..Len(p) : p[a] = p[b] => a = b
        /\ \A a, b \in 1..Len(q) : q[a] = q[b] => a = b
    BY <1>1, <1>6 DEF IsInjective
  <2>2. \A a \in 1..Len(p), b \in 1..Len(q) : p[a] # q[b]
    BY <1>1, <1>6 DEF ToSet
  <2>3. \A a, b \in 1..Len(p) + Len(q) : w[a] = w[b] => a = b
    <3> SUFFICES ASSUME NEW a \in 1..Len(p) + Len(q), NEW b \in 1..Len(p) + Len(q), w[a] = w[b]
                 PROVE  a = b
      OBVIOUS
    <3>1. CASE a \in 1..Len(p) /\ b \in 1..Len(p)
      BY <3>1, <2>1, <1>1
    <3>2. CASE a \in 1..Len(p) /\ b > Len(p)
      BY <3>2, <2>2, <1>1, <1>2
    <3>3. CASE a > Len(p) /\ b \in 1..Len(p)
      <4>1. p[b] = q[a - Len(p)] /\ a - Len(p) \in 1..Len(q)
        BY <3>3, <1>1, <1>2
      <4> QED BY <4>1, <3>3, <2>2
    <3>4. CASE a > Len(p) /\ b > Len(p)
      <4>1. /\ a - Len(p) \in 1..Len(q) /\ b - Len(p) \in 1..Len(q)
            /\ a = (a - Len(p)) + Len(p) /\ b = (b - Len(p)) + Len(p)
        BY <3>4, <1>1, <1>2
      <4>2. q[a - Len(p)] = q[b - Len(p)]
        BY <3>4, <1>1
      <4>3. a - Len(p) = b - Len(p)
        BY <4>1, <4>2, <2>1
      <4> QED BY <4>1, <4>3
    <3> QED BY <3>1, <3>2, <3>3, <3>4, <1>2
  <2> QED BY <2>3, <1>1 DEF IsInjective
<1> QED BY <1>1, <1>5, <1>6 DEF w

\* What the loop of FlattenSeq has after each sequence.
Flattens(g, ss, N) ==
  g = [n \in 1..N |-> IF n = 1 THEN ss[n] ELSE g[n - 1] \o ss[n]]

LEMMA FlattenExists ==
  ASSUME NEW ss, NEW N \in Nat
  PROVE  \E g : Flattens(g, ss, N)
<1> DEFINE B == {n \in Nat : ~ \E g : Flattens(g, ss, n)}
<1>1. SUFFICES ASSUME B # {} PROVE FALSE
  OBVIOUS
<1>2. PICK n \in B : \A m \in B : n <= m
  BY <1>1, Least
<1>3. n # 0
  <2> DEFINE g == [k \in 1..0 |-> << >>]
  <2>1. g = [k \in 1..0 |-> IF k = 1 THEN ss[k] ELSE g[k - 1] \o ss[k]]
    OBVIOUS
  <2>2. Flattens(g, ss, 0)
    BY <2>1 DEF Flattens
  <2> QED BY <2>2, <1>2
<1>4. PICK g : Flattens(g, ss, n - 1)
  <2>1. n - 1 \in Nat /\ n - 1 \notin B
    BY <1>2, <1>3
  <2> QED BY <2>1
<1> DEFINE h == [k \in 1..n |-> IF k < n THEN g[k] ELSE IF n = 1 THEN ss[n] ELSE g[n - 1] \o ss[n]]
<1>5. Flattens(h, ss, n)
  <2>1. \A k \in 1..n - 1 : h[k] = g[k]
    BY <1>2, <1>3
  <2>2. ASSUME NEW k \in 1..n PROVE h[k] = IF k = 1 THEN ss[k] ELSE h[k - 1] \o ss[k]
    <3>1. CASE k = n
      <4>1. h[n] = IF n = 1 THEN ss[n] ELSE g[n - 1] \o ss[n]
        BY <3>1
      <4>2. n # 1 => n - 1 \in 1..n - 1
        BY <1>2, <1>3
      <4> QED BY <4>1, <4>2, <3>1, <2>1
    <3>2. CASE k # n
      <4>1. k \in 1..n - 1 /\ (k # 1 => k - 1 \in 1..n - 1)
        BY <3>2, <1>2
      <4> QED BY <4>1, <2>1, <1>4 DEF Flattens
    <3> QED BY <3>1, <3>2
  <2>3. h = [k \in 1..n |-> h[k]]
    OBVIOUS
  <2> HIDE DEF h
  <2> QED BY <2>2, <2>3 DEF Flattens
<1> QED BY <1>2, <1>5

\* FlattenSeq has the members of its sequences, once each when they were and share none.
LEMMA Flattened ==
  ASSUME NEW T, NEW ss \in Seq(Seq(T))
  PROVE  /\ FlattenSeq(ss) \in Seq(T)
         /\ ToSet(FlattenSeq(ss)) = UNION {ToSet(ss[i]) : i \in DOMAIN ss}
         /\ (/\ \A i \in DOMAIN ss : IsInjective(ss[i])
             /\ \A i, j \in DOMAIN ss : i # j => ToSet(ss[i]) \cap ToSet(ss[j]) = {}) =>
              IsInjective(FlattenSeq(ss))
<1> DEFINE N == Len(ss)
           flatten[i \in 1..N] == IF i = 1 THEN ss[i] ELSE flatten[i - 1] \o ss[i]
           Apt == /\ \A i \in 1..N : IsInjective(ss[i])
                  /\ \A i, j \in 1..N : i # j => ToSet(ss[i]) \cap ToSet(ss[j]) = {}
           Of(n) == UNION {ToSet(ss[i]) : i \in 1..n}
<1>1. N \in Nat /\ DOMAIN ss = 1..N /\ \A n \in 1..N : ss[n] \in Seq(T)
  OBVIOUS
<1>2. flatten = [i \in 1..N |-> IF i = 1 THEN ss[i] ELSE flatten[i - 1] \o ss[i]]
  <2>1. PICK g : Flattens(g, ss, N)
    BY <1>1, FlattenExists
  <2>2. g = [i \in 1..N |-> IF i = 1 THEN ss[i] ELSE g[i - 1] \o ss[i]]
    BY <2>1 DEF Flattens
  <2> HIDE DEF N
  <2> QED BY <2>2
<1>3. FlattenSeq(ss) = IF N = 0 THEN ss ELSE flatten[N]
  BY DEF FlattenSeq
<1> HIDE DEF flatten, N, Apt, Of
<1> DEFINE Right(n) == /\ flatten[n] \in Seq(T) /\ ToSet(flatten[n]) = Of(n)
                       /\ Apt => IsInjective(flatten[n])
           B == {n \in 1..N : ~ Right(n)}
<1>4. B = {}
  <2> SUFFICES ASSUME B # {} PROVE FALSE
    OBVIOUS
  <2>1. PICK n \in B : \A m \in B : n <= m
    <3>1. B \subseteq Nat
      BY <1>1
    <3> HIDE DEF B
    <3> QED BY <3>1, Least
  <2>2. n \in 1..N /\ ~Right(n)
    BY <2>1
  <2>3. ss[n] \in Seq(T) /\ (Apt => IsInjective(ss[n]))
    BY <1>1, <2>2 DEF Apt
  <2>4. n # 1
    <3>1. flatten[1] = ss[1] /\ Of(1) = ToSet(ss[1])
      <4>1. 1..1 = {1}
        OBVIOUS
      <4>2. n = 1 => flatten[1] = ss[1]
        BY <1>2, <2>2
      <4>3. 1 \in 1..N
        BY <1>1, <2>2
      <4> QED BY <1>2, <4>1, <4>3 DEF Of
    <3> QED BY <3>1, <2>2, <2>3
  <2>5. n - 1 \in 1..N /\ Right(n - 1)
    <3>1. n - 1 \in 1..N /\ ~ (n <= n - 1)
      BY <2>2, <2>4, <1>1
    <3> QED BY <3>1, <2>1
  <2>6. flatten[n] = flatten[n - 1] \o ss[n]
    BY <1>2, <2>2, <2>4
  <2>7. Of(n) = Of(n - 1) \cup ToSet(ss[n])
    <3>1. \A i : i \in 1..n <=> i \in 1..n - 1 \/ i = n
      BY <2>2, <1>1
    <3> QED BY <3>1 DEF Of
  <2>8. Apt => Of(n - 1) \cap ToSet(ss[n]) = {}
    <3>1. \A i \in 1..n - 1 : i \in 1..N /\ i # n
      BY <2>2, <1>1
    <3> QED BY <3>1, <2>2 DEF Apt, Of
  <2> DEFINE p == flatten[n - 1]
  <2>9. p \in Seq(T) /\ ToSet(p) = Of(n - 1) /\ (Apt => IsInjective(p)) /\ flatten[n] = p \o ss[n]
    BY <2>5, <2>6
  <2> HIDE DEF p
  <2>10. /\ p \o ss[n] \in Seq(T) /\ ToSet(p \o ss[n]) = ToSet(p) \cup ToSet(ss[n])
         /\ IsInjective(p) /\ IsInjective(ss[n]) /\ ToSet(p) \cap ToSet(ss[n]) = {} =>
              IsInjective(p \o ss[n])
    BY <2>3, <2>9, Joined
  <2>11. Right(n)
    BY <2>3, <2>7, <2>8, <2>9, <2>10
  <2> QED BY <2>2, <2>11
<1>5. CASE N = 0
  <2>1. ToSet(ss) = {} /\ IsInjective(ss) /\ ss = << >>
    BY <1>1, <1>5 DEF ToSet, IsInjective, N
  <2>2. UNION {ToSet(ss[i]) : i \in DOMAIN ss} = {}
    <3>1. DOMAIN ss = {}
      BY <1>1, <1>5
    <3> QED BY <3>1
  <2>3. << >> \in Seq(T)
    OBVIOUS
  <2>4. FlattenSeq(ss) = << >>
    BY <2>1, <1>3, <1>5
  <2> QED BY <2>1, <2>2, <2>3, <2>4
<1>6. CASE N # 0
  <2>1. N \in 1..N
    BY <1>1, <1>6
  <2>2. Right(N)
    <3>1. N \notin B
      BY <1>4
    <3> QED BY <2>1, <3>1
  <2> QED BY <2>2, <1>1, <1>3, <1>6 DEF Of, Apt
<1> QED BY <1>5, <1>6

\* The plan: cells of the arms and the tasks named, some when there are any, each once when none
\* is named twice.
LEMMA Planned ==
  ASSUME NEW arms \in Seq(Arm), NEW tasks \in Seq(Task), NEW repeats \in Nat \ {0},
         ArmRepeats \in [Arm -> Nat]
  PROVE  /\ Plan(arms, tasks, repeats) \in Seq(Cell)
         /\ \A c \in ToSet(Plan(arms, tasks, repeats)) : c.arm \in ToSet(arms) /\ c.task \in ToSet(tasks)
         /\ arms # << >> /\ tasks # << >> => Plan(arms, tasks, repeats) # << >>
         /\ IsInjective(arms) /\ IsInjective(tasks) => IsInjective(Plan(arms, tasks, repeats))
<1> DEFINE R(a) == RepeatsOf(arms[a], repeats)
           cell(a, t, r) == [arm |-> arms[a], task |-> tasks[t], repeat |-> r]
           cells(a, t) == [r \in 1..R(a) |-> cell(a, t, r)]
           lists(a) == [t \in 1..Len(tasks) |-> cells(a, t)]
           all == [a \in 1..Len(arms) |-> FlattenSeq(lists(a))]
<1>1. Len(arms) \in Nat /\ Len(tasks) \in Nat /\ DOMAIN arms = 1..Len(arms)
      /\ DOMAIN tasks = 1..Len(tasks)
  OBVIOUS
<1>2. \A a \in 1..Len(arms) : arms[a] \in Arm /\ R(a) \in Nat \ {0}
  BY DEF RepeatsOf
<1>3. \A t \in 1..Len(tasks) : tasks[t] \in Task
  OBVIOUS
<1>4. \A a \in 1..Len(arms), t \in 1..Len(tasks) : \A r \in 1..R(a) : cell(a, t, r) \in Cell
  BY <1>2, <1>3 DEF Cell
<1>5. \A a, t, r, b, u, v : cell(a, t, r) = cell(b, u, v) => arms[a] = arms[b] /\ tasks[t] = tasks[u] /\ r = v
  OBVIOUS
<1>6. \A a, t, r : cell(a, t, r).arm = arms[a] /\ cell(a, t, r).task = tasks[t]
  OBVIOUS
<1> HIDE DEF R, cell
<1>7. ASSUME NEW a \in 1..Len(arms), NEW t \in 1..Len(tasks)
      PROVE  /\ cells(a, t) \in Seq(Cell) /\ ToSet(cells(a, t)) = {cell(a, t, r) : r \in 1..R(a)}
             /\ IsInjective(cells(a, t))
  <2> DEFINE n == R(a)
             c(r) == cell(a, t, r)
             q == [r \in 1..n |-> c(r)]
  <2>1. n \in Nat /\ \A r \in 1..n : c(r) \in Cell
    BY <1>2, <1>4
  <2>2. \A r, u : c(r) = c(u) => r = u
    BY <1>5
  <2>3. cells(a, t) = q /\ {cell(a, t, r) : r \in 1..R(a)} = {c(r) : r \in 1..n}
    OBVIOUS
  <2> HIDE DEF n, c
  <2>4. q \in Seq(Cell) /\ DOMAIN q = 1..n /\ \A r \in 1..n : q[r] = c(r)
    BY <2>1
  <2> HIDE DEF q
  <2>5. ToSet(q) = {c(r) : r \in 1..n}
    BY <2>4 DEF ToSet
  <2>6. IsInjective(q)
    <3>1. \A r, u \in 1..n : q[r] = q[u] => r = u
      BY <2>4, <2>2
    <3> QED BY <2>4, <3>1 DEF IsInjective
  <2> QED BY <2>3, <2>4, <2>5, <2>6
<1> HIDE DEF cells
<1>8. ASSUME NEW a \in 1..Len(arms)
      PROVE  /\ FlattenSeq(lists(a)) \in Seq(Cell)
             /\ ToSet(FlattenSeq(lists(a))) = UNION {ToSet(cells(a, t)) : t \in 1..Len(tasks)}
             /\ IsInjective(tasks) => IsInjective(FlattenSeq(lists(a)))
  <2>1. lists(a) \in Seq(Seq(Cell)) /\ DOMAIN lists(a) = 1..Len(tasks)
        /\ \A t \in 1..Len(tasks) : lists(a)[t] = cells(a, t)
    BY <1>1, <1>7
  <2> DEFINE q == lists(a)
  <2>2. ASSUME IsInjective(tasks), NEW t \in 1..Len(tasks), NEW u \in 1..Len(tasks), t # u
        PROVE  ToSet(cells(a, t)) \cap ToSet(cells(a, u)) = {}
    <3>1. tasks[t] # tasks[u]
      BY <2>2, <1>1 DEF IsInjective
    <3> QED BY <3>1, <1>5, <1>7
  <2> HIDE DEF lists
  <2>3. /\ FlattenSeq(q) \in Seq(Cell) /\ ToSet(FlattenSeq(q)) = UNION {ToSet(q[t]) : t \in DOMAIN q}
        /\ (/\ \A t \in DOMAIN q : IsInjective(q[t])
            /\ \A t, u \in DOMAIN q : t # u => ToSet(q[t]) \cap ToSet(q[u]) = {}) =>
             IsInjective(FlattenSeq(q))
    BY <2>1, Flattened
  <2>4. {ToSet(q[t]) : t \in DOMAIN q} = {ToSet(cells(a, t)) : t \in 1..Len(tasks)}
    BY <2>1
  <2> QED BY <2>1, <2>2, <2>3, <2>4, <1>7
<1> HIDE DEF lists
<1>9. /\ all \in Seq(Seq(Cell)) /\ DOMAIN all = 1..Len(arms)
      /\ \A a \in 1..Len(arms) : all[a] = FlattenSeq(lists(a))
  BY <1>1, <1>8
<1>10. Plan(arms, tasks, repeats) = FlattenSeq(all)
  BY DEF Plan, lists, cells, cell, R
<1> HIDE DEF all
<1>11. ASSUME NEW a \in 1..Len(arms)
       PROVE  ToSet(all[a]) = {c \in Cell : \E t \in 1..Len(tasks) : \E r \in 1..R(a) : c = cell(a, t, r)}
  BY <1>4, <1>7, <1>8, <1>9
<1>12. /\ FlattenSeq(all) \in Seq(Cell)
       /\ ToSet(FlattenSeq(all)) = UNION {ToSet(all[a]) : a \in DOMAIN all}
       /\ (/\ \A a \in DOMAIN all : IsInjective(all[a])
           /\ \A a, b \in DOMAIN all : a # b => ToSet(all[a]) \cap ToSet(all[b]) = {}) =>
            IsInjective(FlattenSeq(all))
  BY <1>9, Flattened
<1>13. ASSUME NEW c \in ToSet(FlattenSeq(all)) PROVE c.arm \in ToSet(arms) /\ c.task \in ToSet(tasks)
  <2>1. PICK a \in 1..Len(arms) : c \in ToSet(all[a])
    BY <1>9, <1>12, <1>13
  <2>2. PICK t \in 1..Len(tasks) : \E r \in 1..R(a) : c = cell(a, t, r)
    BY <2>1, <1>11
  <2> QED BY <2>2, <1>1, <1>6 DEF ToSet
<1>14. ASSUME arms # << >>, tasks # << >> PROVE FlattenSeq(all) # << >>
  <2>1. 1 \in 1..Len(arms) /\ 1 \in 1..Len(tasks)
    BY <1>1, <1>14
  <2>2. 1 \in 1..R(1)
    BY <2>1, <1>2
  <2>3. cell(1, 1, 1) \in ToSet(all[1])
    BY <2>1, <2>2, <1>4, <1>11
  <2>4. cell(1, 1, 1) \in ToSet(FlattenSeq(all))
    BY <2>1, <2>3, <1>9, <1>12
  <2>5. ToSet(<< >>) = {}
    BY DEF ToSet
  <2> QED BY <2>4, <2>5
<1>15. ASSUME IsInjective(arms), IsInjective(tasks) PROVE IsInjective(FlattenSeq(all))
  <2>1. \A a \in 1..Len(arms) : IsInjective(all[a])
    BY <1>8, <1>9, <1>15
  <2>2. ASSUME NEW a \in 1..Len(arms), NEW b \in 1..Len(arms), a # b
        PROVE  ToSet(all[a]) \cap ToSet(all[b]) = {}
    <3>1. arms[a] # arms[b]
      BY <2>2, <1>1, <1>15 DEF IsInjective
    <3>2. \A c \in ToSet(all[a]) : c.arm = arms[a]
      <4> TAKE c \in ToSet(all[a])
      <4>1. PICK t \in 1..Len(tasks) : \E r \in 1..R(a) : c = cell(a, t, r)
        BY <1>11
      <4> QED BY <4>1, <1>6
    <3>3. \A c \in ToSet(all[b]) : c.arm = arms[b]
      <4> TAKE c \in ToSet(all[b])
      <4>1. PICK t \in 1..Len(tasks) : \E r \in 1..R(b) : c = cell(b, t, r)
        BY <1>11
      <4> QED BY <4>1, <1>6
    <3> QED BY <3>1, <3>2, <3>3
  <2>3. /\ \A a \in DOMAIN all : IsInjective(all[a])
        /\ \A a, b \in DOMAIN all : a # b => ToSet(all[a]) \cap ToSet(all[b]) = {}
    <3>1. DOMAIN all = 1..Len(arms)
      BY <1>9
    <3> QED BY <2>1, <2>2, <3>1
  <2> QED BY <2>3, <1>12
<1> QED BY <1>10, <1>12, <1>13, <1>14, <1>15

\* Part of a sequence from its start: of the same members, each once when they were.
LEMMA Fronted ==
  ASSUME NEW T, NEW q \in Seq(T), NEW n \in 1..Len(q)
  PROVE  /\ SubSeq(q, 1, n) \in Seq(T) /\ SubSeq(q, 1, n) # << >>
         /\ IsInjective(q) => IsInjective(SubSeq(q, 1, n))
<1> DEFINE p == SubSeq(q, 1, n)
<1>1. /\ p \in Seq(T) /\ Len(p) = n /\ DOMAIN p = 1..n /\ \A k \in 1..n : p[k] = q[k]
      /\ DOMAIN q = 1..Len(q) /\ Len(q) \in Nat /\ n \in Nat /\ n >= 1 /\ n <= Len(q)
  OBVIOUS
<1>2. p # << >>
  BY <1>1
<1> HIDE DEF p
<1>3. \A k \in 1..n : k \in 1..Len(q)
  BY <1>1
<1>4. IsInjective(q) => IsInjective(p)
  BY <1>1, <1>3 DEF IsInjective
<1> QED BY <1>1, <1>2, <1>4 DEF p

-----------------------------------------------------------------------------
(* What the folds make of a log of which every line is readable *)

\* A set of positions that is not empty has a last one.
LEMMA Latest ==
  ASSUME NEW N \in Nat, NEW B, B \subseteq 1..N, B # {}
  PROVE  \E n \in B : \A m \in B : m <= n
<1> DEFINE C == {m \in Nat : \A b \in B : b <= m}
<1>1. N \in C
  OBVIOUS
<1>2. PICK n \in C : \A m \in C : n <= m
  <2>1. C \subseteq Nat /\ C # {}
    BY <1>1
  <2> HIDE DEF C
  <2> QED BY <2>1, Least
<1>3. ASSUME n \notin B PROVE FALSE
  <2>1. PICK b \in B : TRUE
    OBVIOUS
  <2>2. n \in Nat /\ b \in Nat /\ 1 <= b /\ b <= n
    BY <1>2, <2>1
  <2>3. n - 1 \in Nat
    BY <2>2
  <2>4. \A a \in B : a <= n - 1
    <3> TAKE a \in B
    <3>1. a \in Nat /\ a <= n /\ a # n
      BY <1>2, <1>3
    <3> QED BY <3>1, <2>2
  <2>5. n - 1 \in C
    BY <2>3, <2>4
  <2> QED BY <2>2, <2>5, <1>2
<1> QED BY <1>2, <1>3

\* The events a fold may read are those of their type.
LEMMA AllUsable ==
  ASSUME NEW q
  PROVE  \A type : Usable(q, {}, type) = {i \in 1..Len(q) : q[i].type = type}
BY DEF Usable

\* The runs that ended are the current ones some later verdict carries the cell of.
LEMMA EndedAre ==
  ASSUME NEW S, NEW q \in Seq(S)
  PROVE  Ended(q, {}) = {i \in Current(q, {}) : VerdictsOf(q, {}, i) # {}}
<1> DEFINE V(i) == VerdictsOf(q, {}, i)
           Cu == Current(q, {})
<1>1. Len(q) \in Nat /\ \A i : V(i) \subseteq 1..Len(q)
  BY DEF VerdictsOf, Usable
<1>2. \A i : V(i) # {} => \E v \in V(i) : \A u \in V(i) : u <= v
  <2> TAKE i
  <2> HIDE DEF V
  <2> QED BY <1>1, Latest
<1>3. ASSUME NEW i \in Ended(q, {}) PROVE i \in Cu /\ V(i) # {}
  <2>1. PICK r \in Runs(q, {}) : r.verdict # 0 /\ i = r.run
    BY <1>3 DEF Ended
  <2>2. CASE \E j \in Cu : r = [run |-> j, verdict |-> 0]
    BY <2>1, <2>2
  <2>3. CASE \E j \in Cu : \E v \in V(j) : r = [run |-> j, verdict |-> v]
    BY <2>1, <2>3
  <2>4. \/ \E j \in Cu : r = [run |-> j, verdict |-> 0]
        \/ \E j \in Cu : \E v \in V(j) : r = [run |-> j, verdict |-> v]
    <3> HIDE DEF V, Cu
    <3> QED BY <2>1 DEF Runs, V, Cu
  <2> QED BY <2>2, <2>3, <2>4
<1>4. ASSUME NEW i \in Cu, V(i) # {} PROVE i \in Ended(q, {})
  <2>1. PICK v \in V(i) : \A u \in V(i) : u <= v
    BY <1>2, <1>4
  <2> DEFINE r == [run |-> i, verdict |-> v]
  <2>2. r \in Runs(q, {})
    BY <2>1 DEF Runs
  <2>3. r.verdict # 0 /\ r.run = i
    BY <2>1, <1>1
  <2> HIDE DEF r
  <2> QED BY <2>2, <2>3 DEF Ended
<1> QED BY <1>3, <1>4

\* What an append changes of the runs that ended: a run supersedes the one of its cell, a
\* verdict ends it, and no other event does either.
LEMMA EndedAfter ==
  ASSUME NEW S, NEW q \in Seq(S), NEW e
  PROVE  /\ e.type \notin {"run", "verdict"} => Ended(Append(q, e), {}) = Ended(q, {})
         /\ e.type = "run" =>
              Ended(Append(q, e), {}) = {i \in Ended(q, {}) : q[i].cell # e.cell}
         /\ e.type = "verdict" =>
              Ended(Append(q, e), {}) =
                Ended(q, {}) \cup {i \in Current(q, {}) : q[i].cell = e.cell}
         /\ \A i \in Ended(q, {}) : i \in 1..Len(q) /\ Append(q, e)[i] = q[i]
<1> DEFINE p == Append(q, e)
           N == Len(q)
           Run(w, i) == i \in 1..Len(w) /\ w[i].type = "run"
           Cur1(w, i) == Run(w, i) /\ \A j : Run(w, j) /\ w[j].cell = w[i].cell => j <= i
           Ver(w, i) == \E v \in 1..Len(w) : w[v].type = "verdict" /\ i < v /\ w[v].cell = w[i].cell
<1>1. p \in Seq(S \cup {e}) /\ Len(p) = N + 1 /\ N \in Nat /\ p[N + 1] = e /\ \A k \in 1..N : p[k] = q[k]
  BY Appended
<1>2. /\ \A i : i \in Current(p, {}) <=> Cur1(p, i)
      /\ \A i : i \in Current(q, {}) <=> Cur1(q, i)
      /\ \A i : VerdictsOf(p, {}, i) # {} <=> Ver(p, i)
      /\ \A i : VerdictsOf(q, {}, i) # {} <=> Ver(q, i)
  BY DEF Current, VerdictsOf, Usable
<1>3. /\ Ended(p, {}) = {i \in Current(p, {}) : VerdictsOf(p, {}, i) # {}}
      /\ Ended(q, {}) = {i \in Current(q, {}) : VerdictsOf(q, {}, i) # {}}
  BY <1>1, EndedAre
<1>4. /\ \A i : i \in Ended(p, {}) <=> Cur1(p, i) /\ Ver(p, i)
      /\ \A i : i \in Ended(q, {}) <=> Cur1(q, i) /\ Ver(q, i)
  BY <1>2, <1>3
<1> HIDE DEF p, N
<1>5. \A k : k \in 1..Len(p) <=> k \in 1..N \/ k = N + 1
  BY <1>1
<1>6. N + 1 \notin 1..N /\ \A k \in 1..N : k < N + 1 /\ ~ (N + 1 <= k) /\ k <= N + 1
  BY <1>1
<1>7. Len(q) = N
  BY DEF N
<1>8. \A i : Run(p, i) <=> Run(q, i) \/ (i = N + 1 /\ e.type = "run")
  BY <1>1, <1>5, <1>6, <1>7
<1>9. \A i \in 1..N : Ver(p, i) <=> Ver(q, i) \/ (e.type = "verdict" /\ e.cell = q[i].cell)
  BY <1>1, <1>5, <1>6, <1>7
<1>10. ~ Ver(p, N + 1)
  BY <1>1, <1>5, <1>6
<1>11. \A i \in 1..N : Cur1(p, i) <=> Cur1(q, i) /\ ~ (e.type = "run" /\ e.cell = q[i].cell)
  BY <1>1, <1>6, <1>7, <1>8
<1>12. \A i : Cur1(p, i) /\ Ver(p, i) => i \in 1..N
  BY <1>5, <1>10
<1>13. \A i : Cur1(q, i) => i \in 1..N
  BY <1>7
<1> HIDE DEF Cur1, Ver
<1>14. e.type \notin {"run", "verdict"} => Ended(p, {}) = Ended(q, {})
  BY <1>4, <1>9, <1>11, <1>12, <1>13
<1>15. e.type = "run" => Ended(p, {}) = {i \in Ended(q, {}) : q[i].cell # e.cell}
  BY <1>4, <1>9, <1>11, <1>12, <1>13
<1>16. e.type = "verdict" => Ended(p, {}) = Ended(q, {}) \cup {i \in Current(q, {}) : q[i].cell = e.cell}
  BY <1>2, <1>4, <1>9, <1>11, <1>12, <1>13
<1>17. \A i \in Ended(q, {}) : i \in 1..Len(q) /\ p[i] = q[i]
  BY <1>1, <1>4, <1>7, <1>13
<1> QED BY <1>14, <1>15, <1>16, <1>17 DEF p

-----------------------------------------------------------------------------
(* What each action sets of the session *)

\* The names of a session's fields.
Fields == DOMAIN NoSession

\* What an invocation was asked for, and loaded.
KeepsOptions ==
  /\ s'.mode = s.mode /\ s'.resume = s.resume /\ s'.budget = s.budget /\ s'.arms = s.arms
  /\ s'.models = s.models /\ s'.plan = s.plan /\ s'.loaded = s.loaded
KeepsPlan ==
  s'.runs = s.runs /\ s'.tasks = s.tasks /\ s'.planSha = s.planSha /\ s'.planClean = s.planClean
KeepsChecks == s'.sha = s.sha /\ s'.need = s.need /\ s'.exits = s.exits
KeepsMoney ==
  s'.spent = s.spent /\ s'.paid = s.paid /\ s'.bill = s.bill /\ s'.unread = s.unread
KeepsPlaces == s'.probe = s.probe /\ s'.run = s.run

LEMMA Names ==
  /\ "mode" \in Fields /\ "resume" \in Fields /\ "budget" \in Fields /\ "arms" \in Fields
  /\ "models" \in Fields /\ "plan" \in Fields /\ "runs" \in Fields /\ "tasks" \in Fields
  /\ "loaded" \in Fields /\ "planSha" \in Fields /\ "planClean" \in Fields /\ "sha" \in Fields
  /\ "need" \in Fields /\ "exits" \in Fields /\ "probe" \in Fields /\ "run" \in Fields
  /\ "spent" \in Fields /\ "paid" \in Fields /\ "bill" \in Fields /\ "known" \in Fields
  /\ "unread" \in Fields
  /\ "full" \in Fields /\ "total" \in Fields /\ "measured" \in Fields
BY DEF Fields, NoSession

LEMMA NoneYet ==
  /\ NoSession.mode = "none" /\ NoSession.resume = FALSE /\ NoSession.budget = 0
  /\ NoSession.plan = {} /\ NoSession.runs = << >> /\ NoSession.tasks = << >>
  /\ NoSession.planSha = 0 /\ NoSession.planClean = FALSE /\ NoSession.sha = 0
  /\ NoSession.need = << >> /\ NoSession.exits = << >>
  /\ NoSession.probe = 0 /\ NoSession.run = 0
  /\ NoSession.spent = 0 /\ NoSession.paid = 0 /\ NoSession.bill = 0 /\ NoSession.unread = 0
BY DEF NoSession

\* A session that starts with its plan: run or estimate.
LEMMA InvokeSets ==
  ASSUME Invoke
  PROVE  /\ DOMAIN s' = Fields
         /\ s'.mode \in {"run", "estimate"} /\ s'.budget \in Nat
         /\ s'.runs \in Seq(Cell) /\ s'.runs # << >> /\ s'.plan = ToSet(s'.runs)
         /\ s'.tasks \in Seq(Task) /\ s'.loaded = content
         /\ \A c \in ToSet(s'.runs) : c.arm \in ToSet(s'.arms) /\ c.task \in ToSet(s'.tasks)
         /\ IsInjective(TaskSeq) => IsInjective(s'.runs)
         /\ s'.planSha = 0 /\ s'.planClean = FALSE /\ s'.sha = 0
         /\ s'.need = << >> /\ s'.exits = << >> /\ s'.probe = 0 /\ s'.run = 0
         /\ s'.spent = 0 /\ s'.paid = 0 /\ s'.bill = 0 /\ s'.unread = 0
         /\ pc' \in {"sweep", "resume", "projection"}
         /\ s'.resume => pc' = "resume"
         /\ UNCHANGED <<events, envVars>> /\ calls' = calls + 1 /\ calls < MaxInvocations
<1>1. PICK arms \in ArmLists, resume \in BOOLEAN, budget \in Budgets, mode \in {"run", "estimate"} :
        LET tasks == IF mode = "run" THEN TaskSeq
                     ELSE SubSeq(TaskSeq, 1, IF EstimateTasks < Len(TaskSeq) THEN EstimateTasks
                                             ELSE Len(TaskSeq))
            runs == Plan(arms, tasks, IF mode = "run" THEN Repeats ELSE 1)
        IN
        /\ mode = "estimate" => ~resume
        /\ s' = [NoSession EXCEPT
                   !.mode = mode, !.resume = resume, !.arms = arms, !.models = model,
                   !.budget = IF mode = "run" THEN budget ELSE 0,
                   !.plan = ToSet(runs), !.runs = runs, !.tasks = tasks, !.loaded = content,
                   !.total = [a \in ToSet(arms) |-> 0], !.measured = [a \in ToSet(arms) |-> 0]]
        /\ Goto(IF mode = "estimate" THEN "sweep" ELSE IF resume THEN "resume" ELSE "projection")
  BY DEF Invoke
<1> DEFINE few == IF EstimateTasks < Len(TaskSeq) THEN EstimateTasks ELSE Len(TaskSeq)
           tasks == IF mode = "run" THEN TaskSeq ELSE SubSeq(TaskSeq, 1, few)
           times == IF mode = "run" THEN Repeats ELSE 1
           runs == Plan(arms, tasks, times)
<1>2. s' = [NoSession EXCEPT
              !.mode = mode, !.resume = resume, !.arms = arms, !.models = model,
              !.budget = IF mode = "run" THEN budget ELSE 0,
              !.plan = ToSet(runs), !.runs = runs, !.tasks = tasks, !.loaded = content,
              !.total = [a \in ToSet(arms) |-> 0], !.measured = [a \in ToSet(arms) |-> 0]]
  BY <1>1
<1>3. /\ pc' = IF mode = "estimate" THEN "sweep" ELSE IF resume THEN "resume" ELSE "projection"
      /\ mode = "estimate" => ~resume
  BY <1>1 DEF Goto
<1>4. tasks \in Seq(Task) /\ tasks # << >> /\ (IsInjective(TaskSeq) => IsInjective(tasks))
  <2>1. few \in 1..Len(TaskSeq)
    BY CorpusAssumption, BudgetsAssumption
  <2> HIDE DEF few
  <2> QED BY <2>1, CorpusAssumption, Fronted
<1>5. arms \in Seq(Arm) /\ arms # << >> /\ IsInjective(arms) /\ times \in Nat \ {0}
      /\ ArmRepeats \in [Arm -> Nat]
  BY <1>1, ArmsAssumption
<1> HIDE DEF tasks, times
<1>6. /\ runs \in Seq(Cell)
      /\ \A c \in ToSet(runs) : c.arm \in ToSet(arms) /\ c.task \in ToSet(tasks)
      /\ runs # << >>
      /\ IsInjective(TaskSeq) => IsInjective(runs)
  BY <1>4, <1>5, Planned
<1> HIDE DEF runs
<1>7. /\ s'.mode = mode /\ s'.resume = resume /\ s'.arms = arms /\ s'.plan = ToSet(runs)
      /\ s'.runs = runs /\ s'.tasks = tasks /\ s'.loaded = content
  BY <1>2, Names DEF Fields
<1>10. s'.budget \in Nat
  <2> DEFINE b == IF mode = "run" THEN budget ELSE 0
  <2>1. s'.budget = b
    BY <1>2, Names DEF Fields
  <2> QED BY <2>1, <1>1, BudgetsAssumption
<1>8. /\ s'.planSha = NoSession.planSha /\ s'.planClean = NoSession.planClean
      /\ s'.sha = NoSession.sha /\ s'.need = NoSession.need /\ s'.exits = NoSession.exits
      /\ s'.probe = NoSession.probe /\ s'.run = NoSession.run /\ s'.spent = NoSession.spent
      /\ s'.paid = NoSession.paid /\ s'.bill = NoSession.bill /\ DOMAIN s' = Fields
      /\ s'.unread = NoSession.unread
  BY <1>2, Names DEF Fields
<1>9. UNCHANGED <<events, envVars>> /\ calls' = calls + 1 /\ calls < MaxInvocations
  BY DEF Invoke
<1> QED BY <1>3, <1>4, <1>6, <1>7, <1>8, <1>9, <1>10, NoneYet

LEMMA InvokeProbeSets ==
  ASSUME InvokeProbe
  PROVE  /\ DOMAIN s' = Fields /\ s'.mode = "probe" /\ ~s'.resume /\ s'.budget = 0
         /\ s'.runs \in Seq(Cell) /\ s'.runs # << >> /\ IsInjective(s'.runs) /\ s'.plan = {}
         /\ s'.tasks = << >> /\ s'.planSha = 0 /\ s'.planClean = FALSE /\ s'.sha = 0
         /\ s'.need = << >> /\ s'.exits = << >> /\ s'.probe = 0 /\ s'.run = 0
         /\ s'.spent = 0 /\ s'.paid = 0 /\ s'.bill = 0 /\ s'.unread = 0
         /\ pc' = "probe" /\ UNCHANGED <<events, envVars>>
         /\ calls' = calls + 1 /\ calls < MaxInvocations
<1>1. PICK arms \in ArmLists, t \in ToSet(TaskSeq) :
        s' = [NoSession EXCEPT !.mode = "probe", !.arms = arms, !.models = model,
                               !.runs = <<[arm |-> Head(arms), task |-> t, repeat |-> 1]>>]
  BY DEF InvokeProbe
<1> DEFINE c == [arm |-> Head(arms), task |-> t, repeat |-> 1]
           runs == <<c>>
<1>2. s' = [NoSession EXCEPT !.mode = "probe", !.arms = arms, !.models = model, !.runs = runs]
  BY <1>1
<1>3. c \in Cell
  <2>1. arms \in Seq(Arm) /\ arms # << >>
    BY ArmsAssumption
  <2>2. Head(arms) \in Arm
    BY <2>1
  <2>3. t \in Task
    BY CorpusAssumption DEF ToSet
  <2> QED BY <2>2, <2>3 DEF Cell
<1> HIDE DEF c
<1>4. runs \in Seq(Cell) /\ runs # << >> /\ DOMAIN runs = {1}
  BY <1>3
<1>5. IsInjective(runs)
  BY <1>4 DEF IsInjective
<1> HIDE DEF runs
<1>6. s'.mode = "probe" /\ s'.runs = runs
  BY <1>2, Names DEF Fields
<1>7. /\ s'.planSha = NoSession.planSha /\ s'.planClean = NoSession.planClean
      /\ s'.sha = NoSession.sha /\ s'.need = NoSession.need /\ s'.exits = NoSession.exits
      /\ s'.probe = NoSession.probe /\ s'.run = NoSession.run /\ s'.spent = NoSession.spent
      /\ s'.paid = NoSession.paid /\ s'.bill = NoSession.bill /\ DOMAIN s' = Fields
      /\ s'.unread = NoSession.unread
      /\ s'.resume = NoSession.resume /\ s'.budget = NoSession.budget
      /\ s'.plan = NoSession.plan /\ s'.tasks = NoSession.tasks
  BY <1>2, Names DEF Fields
<1>8. /\ UNCHANGED <<events, envVars>> /\ calls' = calls + 1 /\ calls < MaxInvocations
      /\ pc' = "probe"
  BY DEF InvokeProbe, Goto
<1> QED BY <1>4, <1>5, <1>6, <1>7, <1>8, NoneYet

LEMMA ResumeSets ==
  ASSUME DOMAIN s = Fields, Resume
  PROVE  /\ DOMAIN s' = Fields /\ pc = "resume" /\ pc' = "projection"
         /\ s'.runs = Keep(s.runs, ToSet(s.runs) \ DoneCells)
         /\ s'.tasks = Keep(s.tasks, {c.task : c \in ToSet(s'.runs)})
         /\ s'.planSha = sha /\ s'.planClean = ~dirty
         /\ KeepsOptions /\ KeepsChecks /\ KeepsMoney /\ KeepsPlaces
         /\ UNCHANGED <<events, envVars, calls>>
<1> DEFINE runs == Keep(s.runs, ToSet(s.runs) \ DoneCells)
           tasks == Keep(s.tasks, {c.task : c \in ToSet(runs)})
<1>1. /\ s' = [s EXCEPT !.runs = runs, !.planSha = sha, !.planClean = ~dirty, !.tasks = tasks]
      /\ pc = "resume" /\ pc' = "projection" /\ UNCHANGED <<events, envVars, calls>>
  BY DEF Resume, Goto
<1>2. tasks = Keep(s.tasks, {c.task : c \in ToSet(runs)})
  OBVIOUS
<1> HIDE DEF tasks
<1>3. runs = Keep(s.runs, ToSet(s.runs) \ DoneCells)
  OBVIOUS
<1> HIDE DEF runs
<1>4. s'.runs = runs /\ s'.tasks = tasks /\ s'.planSha = sha /\ s'.planClean = ~dirty
  BY <1>1, Names
<1>5. DOMAIN s' = Fields /\ KeepsOptions /\ KeepsChecks /\ KeepsMoney /\ KeepsPlaces
  BY <1>1, Names DEF KeepsOptions, KeepsChecks, KeepsMoney, KeepsPlaces
<1> QED BY <1>1, <1>2, <1>3, <1>4, <1>5

\* The tasks a record certifies, and those it does not.
LEMMA ReuseSets ==
  ASSUME DOMAIN s = Fields, s.tasks \in Seq(Task), lost = {}, ReuseVerified
  PROVE  /\ DOMAIN s' = Fields /\ pc = "sweep" /\ s'.sha = sha
         /\ s'.need \in Seq(Task)
         /\ pc' = IF s'.need = << >> THEN "control" ELSE "verify"
         /\ \A t \in DOMAIN s'.exits :
              /\ t \in ToSet(s.tasks) /\ s'.exits[t] = content[t]
              /\ IsVerified(events, {}, t, content[t])
         /\ \A t \in ToSet(s.tasks) : t \in DOMAIN s'.exits \/ t \in ToSet(s'.need)
         /\ KeepsOptions /\ KeepsPlan /\ KeepsMoney /\ KeepsPlaces
         /\ UNCHANGED <<events, envVars, calls>>
<1>1. PICK moved \in SUBSET {t \in ToSet(s.tasks) : s.loaded[t] # content[t]} :
        LET reused(t) == ~dirty /\ IsVerified(events, lost, t, content[t]) /\ t \notin moved
            need == Keep(s.tasks, {t \in ToSet(s.tasks) : ~reused(t)}) IN
        /\ s' = [s EXCEPT !.sha = sha, !.need = need,
                          !.exits = [t \in {u \in ToSet(s.tasks) : reused(u)} |-> content[t]]]
        /\ Goto(IF need = << >> THEN "control" ELSE "verify")
  BY DEF ReuseVerified
<1> DEFINE reused(t) == ~dirty /\ IsVerified(events, lost, t, content[t]) /\ t \notin moved
           rest == {t \in ToSet(s.tasks) : ~reused(t)}
           need == Keep(s.tasks, rest)
           exits == [t \in {u \in ToSet(s.tasks) : reused(u)} |-> content[t]]
<1>2. /\ s' = [s EXCEPT !.sha = sha, !.need = need, !.exits = exits]
      /\ pc' = IF need = << >> THEN "control" ELSE "verify"
  BY <1>1 DEF Goto
<1>3. DOMAIN exits = {u \in ToSet(s.tasks) : reused(u)}
  OBVIOUS
<1>4. \A t \in DOMAIN exits : exits[t] = content[t]
  OBVIOUS
<1>5. \A t : reused(t) => IsVerified(events, {}, t, content[t])
  OBVIOUS
<1> HIDE DEF reused, exits
<1>6. need \in Seq(Task) /\ ToSet(need) = ToSet(s.tasks) \cap rest
  <2> HIDE DEF rest
  <2> QED BY Kept
<1> HIDE DEF need
<1>7. s'.sha = sha /\ s'.need = need /\ s'.exits = exits
  BY <1>2, Names
<1>8. DOMAIN s' = Fields /\ KeepsOptions /\ KeepsPlan /\ KeepsMoney /\ KeepsPlaces
  BY <1>2, Names DEF KeepsOptions, KeepsPlan, KeepsMoney, KeepsPlaces
<1>9. pc = "sweep" /\ UNCHANGED <<events, envVars, calls>>
  BY DEF ReuseVerified
<1>10. \A t \in DOMAIN exits : t \in ToSet(s.tasks) /\ IsVerified(events, {}, t, content[t])
  BY <1>3, <1>5
<1>11. \A t \in ToSet(s.tasks) : t \in DOMAIN exits \/ t \in ToSet(need)
  BY <1>3, <1>6
<1> QED BY <1>2, <1>4, <1>6, <1>7, <1>8, <1>9, <1>10, <1>11

LEMMA VerifySets ==
  ASSUME DOMAIN s = Fields, VerifyTasks
  PROVE  /\ DOMAIN s' = Fields /\ pc = "verify" /\ pc' = "certify"
         /\ DOMAIN s'.exits = DOMAIN s.exits \cup ToSet(s.need)
         /\ \A t \in DOMAIN s'.exits :
              s'.exits[t] = IF t \in ToSet(s.need) THEN content[t] ELSE s.exits[t]
         /\ s'.need = s.need /\ s'.sha = s.sha
         /\ KeepsOptions /\ KeepsPlan /\ KeepsMoney /\ KeepsPlaces
         /\ UNCHANGED <<events, envVars, calls>>
<1> DEFINE exits == [t \in DOMAIN s.exits \cup ToSet(s.need) |->
                       IF t \in ToSet(s.need) THEN content[t] ELSE s.exits[t]]
<1>1. /\ s' = [s EXCEPT !.exits = exits]
      /\ pc = "verify" /\ pc' = "certify" /\ UNCHANGED <<events, envVars, calls>>
  BY DEF VerifyTasks, Goto
<1>2. /\ DOMAIN exits = DOMAIN s.exits \cup ToSet(s.need)
      /\ \A t \in DOMAIN exits : exits[t] = IF t \in ToSet(s.need) THEN content[t] ELSE s.exits[t]
  OBVIOUS
<1> HIDE DEF exits
<1>3. s'.exits = exits
  BY <1>1, Names
<1>4. /\ DOMAIN s' = Fields /\ KeepsOptions /\ KeepsPlan /\ KeepsMoney /\ KeepsPlaces
      /\ s'.need = s.need /\ s'.sha = s.sha
  BY <1>1, Names DEF KeepsOptions, KeepsPlan, KeepsMoney, KeepsPlaces
<1> QED BY <1>1, <1>2, <1>3, <1>4

LEMMA CertifySets ==
  ASSUME DOMAIN s = Fields, Certify
  PROVE  /\ DOMAIN s' = Fields /\ pc = "certify" /\ s'.need = Tail(s.need)
         /\ Record([type |-> "verified", task |-> Head(s.need), content |-> s.exits[Head(s.need)]])
         /\ pc' = IF s'.need = << >> THEN "control" ELSE "certify"
         /\ s'.exits = s.exits /\ s'.sha = s.sha
         /\ KeepsOptions /\ KeepsPlan /\ KeepsMoney /\ KeepsPlaces
         /\ UNCHANGED <<envVars, calls>>
<1> DEFINE need == Tail(s.need)
<1>1. /\ s' = [s EXCEPT !.need = need] /\ UNCHANGED <<envVars, calls>> /\ pc = "certify"
      /\ pc' = IF need = << >> THEN "control" ELSE "certify"
      /\ Record([type |-> "verified", task |-> Head(s.need), content |-> s.exits[Head(s.need)]])
  BY DEF Certify, Goto
<1>2. need = Tail(s.need)
  OBVIOUS
<1> HIDE DEF need
<1>3. s'.need = need
  BY <1>1, Names
<1>4. /\ DOMAIN s' = Fields /\ KeepsOptions /\ KeepsPlan /\ KeepsMoney /\ KeepsPlaces
      /\ s'.exits = s.exits /\ s'.sha = s.sha
  BY <1>1, Names DEF KeepsOptions, KeepsPlan, KeepsMoney, KeepsPlaces
<1> QED BY <1>1, <1>2, <1>3, <1>4

LEMMA WorkedSets ==
  ASSUME DOMAIN s = Fields, s.paid \in Nat, NEW arm \in Arm, Worked(arm)
  PROVE  /\ DOMAIN s' = Fields
         /\ s'.bill \in 1..(CapOf[arm] + Overshoot) /\ s'.paid = s.paid + s'.bill
         /\ KeepsOptions /\ KeepsPlan /\ KeepsChecks /\ KeepsPlaces
         /\ s'.spent = s.spent /\ s'.unread = s.unread
<1>1. PICK cost \in 1..(CapOf[arm] + Overshoot), known \in BOOLEAN, full \in BOOLEAN :
        s' = [s EXCEPT !.paid = @ + cost, !.bill = cost, !.known = known, !.full = full]
  BY DEF Worked
<1>2. s'.bill = cost /\ s'.paid = s.paid + cost
  BY <1>1, Names
<1>3. /\ DOMAIN s' = Fields /\ KeepsOptions /\ KeepsPlan /\ KeepsChecks /\ KeepsPlaces
      /\ s'.spent = s.spent /\ s'.unread = s.unread
  BY <1>1, Names DEF KeepsOptions, KeepsPlan, KeepsChecks, KeepsPlaces
<1> QED BY <1>2, <1>3

\* A probe that proves isolation, of an invocation that goes on.
ProbeProves ==
  /\ pc = "probed" /\ s.mode # "probe" /\ pc' = "next"
  /\ Record([type |-> "probe", proven |-> TRUE, call |-> calls])
  /\ s' = [s EXCEPT !.probe = Len(events) + 1, !.spent = Charge(CapOf[Cur.arm]),
                    !.unread = Unread, !.bill = 0, !.known = FALSE]
  /\ UNCHANGED <<envVars, calls>>

LEMMA ProbeSets ==
  ASSUME DOMAIN s = Fields, ProbeProves
  PROVE  /\ DOMAIN s' = Fields /\ s'.probe = Len(events) + 1 /\ s'.run = s.run
         /\ s'.spent = Charge(CapOf[Cur.arm]) /\ s'.bill = 0 /\ s'.paid = s.paid
         /\ s'.unread = Unread
         /\ KeepsOptions /\ KeepsPlan /\ KeepsChecks
<1> DEFINE charge == Charge(CapOf[Cur.arm])
           at == Len(events) + 1
           unread == Unread
<1>1. s' = [s EXCEPT !.probe = at, !.spent = charge, !.unread = unread, !.bill = 0,
                     !.known = FALSE]
  BY DEF ProbeProves
<1>2. at = Len(events) + 1 /\ charge = Charge(CapOf[Cur.arm]) /\ unread = Unread
  OBVIOUS
<1> HIDE DEF charge, at, unread
<1>3. s'.probe = at /\ s'.spent = charge /\ s'.bill = 0 /\ s'.unread = unread
  BY <1>1, Names
<1>4. /\ DOMAIN s' = Fields /\ KeepsOptions /\ KeepsPlan /\ KeepsChecks
      /\ s'.run = s.run /\ s'.paid = s.paid
  BY <1>1, Names DEF KeepsOptions, KeepsPlan, KeepsChecks
<1> QED BY <1>2, <1>3, <1>4

\* A run whose checkout has no history: its worker may start.
RunStarts ==
  /\ pc = "prepared" /\ pc' = "recorded"
  /\ Record(RunEvent(TRUE))
  /\ s' = [s EXCEPT !.run = Len(events) + 1]
  /\ UNCHANGED <<envVars, calls>>

LEMMA RunSets ==
  ASSUME DOMAIN s = Fields, RunStarts
  PROVE  /\ DOMAIN s' = Fields /\ s'.run = Len(events) + 1 /\ s'.probe = s.probe
         /\ KeepsOptions /\ KeepsPlan /\ KeepsChecks /\ KeepsMoney
<1> DEFINE at == Len(events) + 1
<1>1. s' = [s EXCEPT !.run = at]
  BY DEF RunStarts
<1>2. at = Len(events) + 1
  OBVIOUS
<1> HIDE DEF at
<1>3. s'.run = at
  BY <1>1, Names
<1>4. /\ DOMAIN s' = Fields /\ KeepsOptions /\ KeepsPlan /\ KeepsChecks /\ KeepsMoney
      /\ s'.probe = s.probe
  BY <1>1, Names DEF KeepsOptions, KeepsPlan, KeepsChecks, KeepsMoney
<1> QED BY <1>2, <1>3, <1>4

LEMMA ScoreSets ==
  ASSUME DOMAIN s = Fields, Score
  PROVE  /\ DOMAIN s' = Fields /\ pc = "ran" /\ pc' = "next"
         /\ Record([type |-> "verdict", cell |-> Cur, cause |-> s.run])
         /\ s'.runs = Tail(s.runs) /\ s'.spent = s.spent + Charge(CapOf[Cur.arm])
         /\ s'.bill = 0 /\ s'.paid = s.paid /\ s'.unread = Unread
         /\ s'.tasks = s.tasks /\ s'.planSha = s.planSha /\ s'.planClean = s.planClean
         /\ KeepsOptions /\ KeepsChecks /\ KeepsPlaces
         /\ UNCHANGED <<envVars, calls>>
<1> DEFINE charge == Charge(CapOf[Cur.arm])
           unread == Unread
<1>1. PICK total, measured :
        s' = [s EXCEPT !.runs = Tail(@), !.spent = @ + charge, !.unread = unread, !.bill = 0,
                       !.known = FALSE, !.total = total, !.measured = measured]
  BY DEF Score
<1>2. charge = Charge(CapOf[Cur.arm]) /\ unread = Unread
  OBVIOUS
<1> HIDE DEF charge, unread
<1>3. s'.runs = Tail(s.runs) /\ s'.spent = s.spent + charge /\ s'.bill = 0 /\ s'.unread = unread
  BY <1>1, Names
<1>4. /\ DOMAIN s' = Fields /\ KeepsOptions /\ KeepsChecks /\ KeepsPlaces
      /\ s'.tasks = s.tasks /\ s'.planSha = s.planSha /\ s'.planClean = s.planClean
      /\ s'.paid = s.paid
  BY <1>1, Names DEF KeepsOptions, KeepsChecks, KeepsPlaces
<1>5. /\ Record([type |-> "verdict", cell |-> Cur, cause |-> s.run])
      /\ pc = "ran" /\ pc' = "next" /\ UNCHANGED <<envVars, calls>>
  BY DEF Score, Goto
<1> QED BY <1>2, <1>3, <1>4, <1>5

\* A step that ends the invocation; at most it records what kept it from going on, a run
\* without a worker, or an estimate.
Ends ==
  /\ End
  /\ UNCHANGED <<envVars, calls>>
  /\ \/ UNCHANGED events
     \/ \E e : e.type \in {"probe", "refused", "estimate"} /\ Record(e)
     \/ pc = "prepared" /\ Record(RunEvent(FALSE))

\* A step of the people beside it.
Beside == UNCHANGED <<events, pc, s, calls, lost>>

\* A step that only moves the invocation on.
Moves ==
  /\ \/ pc = "projection" /\ pc' = "sweep" /\ s.runs # << >>
     \/ pc = "control" /\ pc' = "probe"
     \/ pc = "next" /\ pc' = "prepared" /\ s.runs # << >> /\ Fits
  /\ UNCHANGED <<events, envVars, s, calls>>

\* What a step can be.
LEMMA Kinds ==
  ASSUME [Next]_vars
  PROVE  \/ Beside \/ Ends \/ Moves \/ Invoke \/ InvokeProbe
         \/ Resume \/ ReuseVerified \/ VerifyTasks \/ Certify
         \/ LaunchProbe \/ ProbeProves \/ RunStarts \/ Launch \/ Score
<1>1. CASE UNCHANGED vars
  BY <1>1 DEF vars, envVars, Beside
<1>2. CASE Environment
  BY <1>2 DEF Environment, Edit, Commit, Repoint, Beside
<1>3. CASE NothingStarts \/ RefuseAdapters \/ RefuseCorpus \/ StopEarly \/ FinishRun \/ Stop
  BY <1>3 DEF NothingStarts, RefuseAdapters, RefuseCorpus, StopEarly, FinishRun, Stop, Ends
<1>4. CASE RefuseLaunch
  <2> DEFINE e == [type |-> "refused", of |-> pc, cell |-> Cur, call |-> calls]
  <2>1. e.type = "refused"
    OBVIOUS
  <2>2. Record(e) /\ End /\ UNCHANGED <<envVars, calls>>
    BY <1>4 DEF RefuseLaunch
  <2> HIDE DEF e
  <2>3. \E d : d.type \in {"probe", "refused", "estimate"} /\ Record(d)
    BY <2>1, <2>2
  <2> QED BY <2>2, <2>3 DEF Ends
<1>5. CASE FinishEstimate
  <2> DEFINE e == [type |-> "estimate", total |-> s.total, n |-> Len(s.tasks)]
  <2>1. e.type = "estimate"
    OBVIOUS
  <2>2. UNCHANGED events \/ Record(e)
    BY <1>5 DEF FinishEstimate
  <2>3. End /\ UNCHANGED <<envVars, calls>>
    BY <1>5 DEF FinishEstimate
  <2> HIDE DEF e
  <2>4. Record(e) => \E d : d.type \in {"probe", "refused", "estimate"} /\ Record(d)
    BY <2>1
  <2> QED BY <2>2, <2>3, <2>4 DEF Ends
<1>6. CASE Projection \/ Control \/ Prepare
  BY <1>6 DEF Projection, Control, Prepare, Moves, Goto
<1>7. CASE RecordProbe
  <2>1. PICK proven \in BOOLEAN :
          /\ Record([type |-> "probe", proven |-> proven, call |-> calls])
          /\ IF proven /\ s.mode # "probe"
             THEN /\ s' = [s EXCEPT !.probe = Len(events) + 1, !.spent = Charge(CapOf[Cur.arm]),
                                    !.unread = Unread, !.bill = 0, !.known = FALSE]
                  /\ Goto("next")
             ELSE End
    BY <1>7 DEF RecordProbe
  <2>2. pc = "probed" /\ UNCHANGED <<envVars, calls>>
    BY <1>7 DEF RecordProbe
  <2>3. CASE proven /\ s.mode # "probe"
    <3>1. proven = TRUE
      BY <2>3
    <3> QED BY <2>1, <2>2, <2>3, <3>1 DEF ProbeProves, Goto
  <2>4. CASE ~ (proven /\ s.mode # "probe")
    <3>1. [type |-> "probe", proven |-> proven, call |-> calls].type = "probe"
      OBVIOUS
    <3> QED BY <2>1, <2>2, <2>4, <3>1 DEF Ends
  <2> QED BY <2>3, <2>4
<1>8. CASE RecordRun
  <2>1. PICK free \in BOOLEAN :
          /\ Record(RunEvent(free))
          /\ IF free THEN s' = [s EXCEPT !.run = Len(events) + 1] /\ Goto("recorded") ELSE End
    BY <1>8 DEF RecordRun
  <2>2. pc = "prepared" /\ UNCHANGED <<envVars, calls>>
    BY <1>8 DEF RecordRun
  <2>3. CASE free
    <3>1. free = TRUE
      BY <2>3
    <3> QED BY <2>1, <2>2, <3>1 DEF RunStarts, Goto
  <2>4. CASE ~free
    <3>1. free = FALSE
      BY <2>4
    <3> QED BY <2>1, <2>2, <3>1 DEF Ends
  <2> QED BY <2>3, <2>4
<1> QED BY <1>1, <1>2, <1>3, <1>4, <1>5, <1>6, <1>7, <1>8 DEF Next, Step

-----------------------------------------------------------------------------
(* Types *)

EventTypes == {"run", "verdict", "verified", "probe", "refused", "estimate"}

Steps == {"idle", "resume", "projection", "sweep", "verify", "certify", "control", "probe",
          "probed", "next", "prepared", "recorded", "ran"}

\* The log.
Logged ==
  /\ events \in Seq(ToSet(events))
  /\ \A i \in 1..Len(events) : events[i].type \in EventTypes
  /\ lost = {}

\* What is beside the invocation.
World ==
  /\ sha \in Nat \ {0} /\ dirty \in BOOLEAN
  /\ edits \in 0..MaxEdits /\ repoints \in 0..MaxRepoints /\ calls \in 0..MaxInvocations
  /\ sha <= edits + 1 /\ (dirty => sha <= edits)
  /\ content \in [Task -> 0..edits]
  /\ model \in [Arm -> Model]

\* The session: what it holds, and what it has by each step.
Session ==
  /\ DOMAIN s = Fields
  /\ pc \in Steps /\ (pc = "idle" => s = NoSession)
  /\ s.runs \in Seq(Cell) /\ s.tasks \in Seq(Task) /\ s.need \in Seq(Task) /\ s.plan \subseteq Cell
  /\ s.mode = "probe" => pc \in {"probe", "probed"}
  /\ pc \notin {"idle", "resume", "projection", "next"} => s.runs # << >>
  /\ pc \in {"verify", "certify"} => s.need # << >>
  /\ s.spent \in Nat /\ s.paid \in Nat /\ s.bill \in Nat /\ s.unread \in Nat /\ s.budget \in Nat

Types == Logged /\ World /\ Session

\* The folds of what a step did to the log: nothing, or one event more.
LEMMA Recorded ==
  ASSUME Logged, NEW e, Record(e)
  PROVE  /\ Len(events) \in Nat /\ Len(events') = Len(events) + 1
         /\ events'[Len(events) + 1] = e /\ \A k \in 1..Len(events) : events'[k] = events[k]
         /\ \A k : k \in 1..Len(events') <=> k \in 1..Len(events) \/ k = Len(events) + 1
         /\ events' \in Seq(ToSet(events'))
         /\ lost' = lost /\ e.type \in EventTypes => Logged'
<1> DEFINE S == ToSet(events)
<1>1. events \in Seq(S)
  BY DEF Logged
<1>2. events' = Append(events, e)
  BY DEF Record
<1> HIDE DEF S
<1>3. /\ \A T : e \in T /\ events \in Seq(T) => Append(events, e) \in Seq(T)
      /\ Len(events) \in Nat /\ Len(Append(events, e)) = Len(events) + 1
      /\ Append(events, e)[Len(events) + 1] = e
      /\ \A k \in 1..Len(events) : Append(events, e)[k] = events[k]
      /\ ToSet(Append(events, e)) = ToSet(events) \cup {e}
  BY <1>1, Appended
<1>4. events \in Seq(S \cup {e})
  BY <1>1
<1>5. S = ToSet(events)
  BY DEF S
<1>6. events' \in Seq(ToSet(events'))
  BY <1>2, <1>3, <1>4, <1>5
<1>7. \A k : k \in 1..Len(events') <=> k \in 1..Len(events) \/ k = Len(events) + 1
  BY <1>2, <1>3
<1>8. lost' = lost /\ e.type \in EventTypes => Logged'
  BY <1>2, <1>3, <1>6, <1>7 DEF Logged
<1> QED BY <1>2, <1>3, <1>6, <1>7, <1>8

\* The types of what is recorded.
LEMMA Recording ==
  ASSUME NEW e, NEW free
  PROVE  /\ e.type \in {"probe", "refused", "estimate"} => e.type \in EventTypes
         /\ RunEvent(free).type = "run" /\ RunEvent(free).cell = Cur
         /\ RunEvent(free).model = s.models[Cur.arm] /\ RunEvent(free).sha = s.sha
         /\ RunEvent(free).exits = s.exits[Cur.task] /\ RunEvent(free).probe = s.probe
         /\ RunEvent(free).call = calls
         /\ "run" \in EventTypes /\ "verdict" \in EventTypes /\ "verified" \in EventTypes
         /\ "probe" \in EventTypes
BY DEF RunEvent, EventTypes

LEMMA TypesInit == Init => Types
<1> SUFFICES ASSUME Init PROVE Types
  OBVIOUS
<1>1. events = << >> /\ lost = {} /\ s = NoSession /\ pc = "idle" /\ sha = 1 /\ dirty = FALSE
      /\ content = [t \in Task |-> 0] /\ model = FirstModel /\ calls = 0 /\ edits = 0 /\ repoints = 0
  BY DEF Init
<1>2. Logged
  <2>1. events \in Seq(ToSet(events)) /\ Len(events) = 0
    BY <1>1
  <2> QED BY <2>1, <1>1 DEF Logged
<1>3. World
  <2>0. dirty \in BOOLEAN /\ ~dirty
    BY <1>1
  <2>1. sha \in Nat \ {0} /\ sha <= edits + 1
    <3>1. sha = 1 /\ edits = 0
      BY <1>1
    <3> QED BY <3>1
  <2>2. edits \in 0..MaxEdits /\ repoints \in 0..MaxRepoints /\ calls \in 0..MaxInvocations
    BY <1>1, BoundsAssumption
  <2>3. content \in [Task -> 0..edits] /\ model \in [Arm -> Model]
    BY <1>1, ArmsAssumption
  <2> QED BY <2>0, <2>1, <2>2, <2>3 DEF World
<1>4. Session
  BY <1>1, NoneYet DEF Session, Fields, Steps
<1> QED BY <1>2, <1>3, <1>4 DEF Types

LEMMA WorldNext == World /\ [Next]_vars => World'
<1> SUFFICES ASSUME World, [Next]_vars PROVE World'
  OBVIOUS
<1> USE BoundsAssumption
<1>1. ASSUME NEW t \in Task, Edit(t) PROVE World'
  <2>1. /\ edits < MaxEdits /\ edits' = edits + 1 /\ dirty' = TRUE
        /\ content' = [content EXCEPT ![t] = edits + 1]
        /\ UNCHANGED <<sha, model, calls, repoints>>
    BY <1>1 DEF Edit
  <2>2. content' \in [Task -> 0..edits + 1]
    <3>1. \A u \in Task : content[u] \in 0..edits /\ edits \in Nat
      BY DEF World
    <3>2. \A u \in Task : content'[u] \in 0..edits + 1
      BY <3>1, <2>1 DEF World
    <3> QED BY <3>2, <2>1 DEF World
  <2>3. sha' <= edits' /\ edits' \in 0..MaxEdits
    BY <2>1 DEF World
  <2> QED BY <2>1, <2>2, <2>3 DEF World
<1>2. ASSUME Commit PROVE World'
  <2>1. /\ dirty /\ dirty' = FALSE /\ sha' = sha + 1
        /\ UNCHANGED <<content, model, calls, edits, repoints>>
    BY <1>2 DEF Commit
  <2>2. sha \in Nat /\ sha <= edits /\ edits \in Nat
    BY <2>1, BoundsAssumption DEF World
  <2>3. sha' \in Nat \ {0} /\ sha' <= edits' + 1
    BY <2>1, <2>2
  <2>4. dirty' \in BOOLEAN /\ ~dirty'
    BY <2>1
  <2>5. /\ edits' \in 0..MaxEdits /\ repoints' \in 0..MaxRepoints /\ calls' \in 0..MaxInvocations
        /\ content' \in [Task -> 0..edits'] /\ model' \in [Arm -> Model]
    BY <2>1 DEF World
  <2> QED BY <2>3, <2>4, <2>5 DEF World
<1>3. ASSUME NEW a \in Arm, NEW m \in Model, Repoint(a, m) PROVE World'
  BY <1>3 DEF Repoint, World
<1>4. CASE UNCHANGED <<sha, dirty, content, model, edits, repoints>> /\ calls' \in 0..MaxInvocations
  BY <1>4 DEF World
<1>5. CASE Environment
  BY <1>1, <1>2, <1>3, <1>5 DEF Environment
<1>6. CASE UNCHANGED <<sha, dirty, content, model, edits, repoints>> /\ calls' = calls + 1
           /\ calls < MaxInvocations
  <2>1. calls' \in 0..MaxInvocations
    BY <1>6 DEF World
  <2> QED BY <2>1, <1>4, <1>6
<1>7. CASE UNCHANGED <<sha, dirty, content, model, edits, repoints, calls>>
  BY <1>7 DEF World
<1> QED BY <1>5, <1>6, <1>7 DEF Next, vars, envVars, Invoke, InvokeProbe, Step, Stop, Resume,
          Projection, NothingStarts, RefuseAdapters, ReuseVerified, VerifyTasks, RefuseCorpus,
          Certify, Control, LaunchProbe, RecordProbe, StopEarly, Prepare, RecordRun, Launch,
          RefuseLaunch, Score, FinishRun, FinishEstimate

LEMMA LoggedNext == Types /\ [Next]_vars => Logged'
<1> SUFFICES ASSUME Types, [Next]_vars PROVE Logged'
  OBVIOUS
<1>1. Logged /\ DOMAIN s = Fields
  BY DEF Types, Session
<1>2. CASE events' = events /\ lost' = lost
  BY <1>1, <1>2 DEF Logged
<1>3. ASSUME NEW e, Record(e), e.type \in EventTypes, lost' = lost PROVE Logged'
  BY <1>1, <1>3, Recorded
<1>4. CASE Ends
  <2>1. lost' = lost
    BY <1>4 DEF Ends, envVars
  <2>2. CASE \E e : e.type \in {"probe", "refused", "estimate"} /\ Record(e)
    BY <2>1, <2>2, <1>3, Recording
  <2>3. CASE Record(RunEvent(FALSE))
    BY <2>1, <2>3, <1>3, Recording
  <2> QED BY <1>2, <1>4, <2>1, <2>2, <2>3 DEF Ends
<1>5. CASE Certify
  <2> DEFINE e == [type |-> "verified", task |-> Head(s.need), content |-> s.exits[Head(s.need)]]
  <2>1. e.type = "verified"
    OBVIOUS
  <2>2. Record(e) /\ lost' = lost
    BY <1>5 DEF Certify, envVars
  <2> HIDE DEF e
  <2> QED BY <2>1, <2>2, <1>3, Recording
<1>6. CASE ProbeProves
  <2> DEFINE e == [type |-> "probe", proven |-> TRUE, call |-> calls]
  <2>1. e.type = "probe"
    OBVIOUS
  <2>2. Record(e) /\ lost' = lost
    BY <1>6 DEF ProbeProves, envVars
  <2> HIDE DEF e
  <2> QED BY <2>1, <2>2, <1>3, Recording
<1>7. CASE RunStarts
  <2>1. Record(RunEvent(TRUE)) /\ lost' = lost
    BY <1>7 DEF RunStarts, envVars
  <2> QED BY <2>1, <1>3, Recording
<1>8. CASE Score
  <2> DEFINE e == [type |-> "verdict", cell |-> Cur, cause |-> s.run]
  <2>1. e.type = "verdict"
    OBVIOUS
  <2>2. Record(e) /\ lost' = lost
    BY <1>8 DEF Score, envVars
  <2> HIDE DEF e
  <2> QED BY <2>1, <2>2, <1>3, Recording
<1>9. CASE Beside \/ Moves \/ Invoke \/ InvokeProbe \/ Resume \/ ReuseVerified \/ VerifyTasks
           \/ LaunchProbe \/ Launch
  BY <1>2, <1>9 DEF Beside, Moves, Invoke, InvokeProbe, Resume, ReuseVerified, VerifyTasks,
                    LaunchProbe, Launch, envVars
<1> QED BY <1>4, <1>5, <1>6, <1>7, <1>8, <1>9, Kinds

LEMMA SessionNext == Types /\ [Next]_vars => Session'
<1> SUFFICES ASSUME Types, [Next]_vars PROVE Session'
  OBVIOUS
<1> USE DEF Types
<1>1. DOMAIN s = Fields /\ s.paid \in Nat /\ s.tasks \in Seq(Task) /\ lost = {} /\ s.runs \in Seq(Cell)
      /\ s.need \in Seq(Task)
  BY DEF Session, Logged
<1>2. CASE Beside
  BY <1>2 DEF Beside, Session
<1>3. CASE Ends
  BY <1>3, NoneYet DEF Ends, End, Session, Fields, Steps
<1>4. CASE Moves
  BY <1>4 DEF Moves, Session, Steps
<1>5. CASE Invoke
  <2>1. s'.plan \subseteq Cell
    BY <1>5, InvokeSets DEF ToSet
  <2>2. s'.mode # "probe"
    BY <1>5, InvokeSets
  <2>6. s'.need \in Seq(Task)
    <3>1. s'.need = << >> /\ << >> \in Seq(Task)
      BY <1>5, InvokeSets
    <3> QED BY <3>1
  <2>3. /\ s'.spent \in Nat /\ s'.paid \in Nat /\ s'.bill \in Nat /\ s'.unread \in Nat
        /\ s'.budget \in Nat
    <3>1. s'.spent = 0 /\ s'.paid = 0 /\ s'.bill = 0 /\ s'.unread = 0 /\ s'.budget \in Nat
      BY <1>5, InvokeSets
    <3> QED BY <3>1
  <2>4. pc' \in {"sweep", "resume", "projection"}
    BY <1>5, InvokeSets
  <2>5. DOMAIN s' = Fields /\ s'.runs \in Seq(Cell) /\ s'.runs # << >> /\ s'.tasks \in Seq(Task)
    BY <1>5, InvokeSets
  <2> QED BY <2>1, <2>2, <2>3, <2>4, <2>5, <2>6 DEF Session, Steps
<1>6. CASE InvokeProbe
  <2>1. s'.plan \subseteq Cell /\ s'.need \in Seq(Task) /\ s'.tasks \in Seq(Task)
    <3>1. s'.plan = {} /\ s'.need = << >> /\ s'.tasks = << >> /\ << >> \in Seq(Task)
      BY <1>6, InvokeProbeSets
    <3> QED BY <3>1
  <2>2. /\ s'.spent \in Nat /\ s'.paid \in Nat /\ s'.bill \in Nat /\ s'.unread \in Nat
        /\ s'.budget \in Nat
    BY <1>6, InvokeProbeSets
  <2>3. pc' = "probe" /\ DOMAIN s' = Fields /\ s'.runs \in Seq(Cell) /\ s'.runs # << >>
    BY <1>6, InvokeProbeSets
  <2> QED BY <2>1, <2>2, <2>3 DEF Session, Steps
<1>7. CASE Resume
  <2> DEFINE R == ToSet(s.runs) \ DoneCells
             T == {c.task : c \in ToSet(s'.runs)}
  <2>1. Keep(s.runs, R) \in Seq(Cell) /\ Keep(s.tasks, T) \in Seq(Task)
    <3> HIDE DEF R, T
    <3> QED BY <1>1, Kept
  <2>2. s'.runs \in Seq(Cell) /\ s'.tasks \in Seq(Task)
    BY <1>1, <1>7, <2>1, ResumeSets
  <2> QED BY <1>1, <1>7, <2>2, ResumeSets
          DEF Session, Steps, KeepsOptions, KeepsChecks, KeepsMoney
<1>8. CASE ReuseVerified
  BY <1>1, <1>8, ReuseSets DEF Session, Steps, KeepsOptions, KeepsPlan, KeepsMoney
<1>9. CASE VerifyTasks
  BY <1>1, <1>9, VerifySets DEF Session, Steps, KeepsOptions, KeepsPlan, KeepsMoney
<1>10. CASE Certify
  <2>1. Tail(s.need) \in Seq(Task)
    <3>1. s.need # << >>
      BY <1>10 DEF Session, Certify
    <3> QED BY <1>1, <3>1
  <2> QED BY <1>1, <1>10, <2>1, CertifySets DEF Session, Steps, KeepsOptions, KeepsPlan, KeepsMoney
<1>11. ASSUME pc \in {"probe", "recorded"}, Worked(Cur.arm), pc' = IF pc = "probe" THEN "probed" ELSE "ran"
       PROVE  Session'
  <2>1. Cur.arm \in Arm /\ CapOf \in [Arm -> Nat \ {0}] /\ Overshoot \in Nat
    <3>1. s.runs # << >>
      BY <1>11 DEF Session
    <3>2. Cur \in Cell
      BY <1>1, <3>1 DEF Cur
    <3> QED BY <3>2, ArmsAssumption, BudgetsAssumption DEF Cell
  <2>2. /\ DOMAIN s' = Fields /\ s'.bill \in 1..(CapOf[Cur.arm] + Overshoot)
        /\ s'.paid = s.paid + s'.bill /\ s'.spent = s.spent /\ s'.unread = s.unread
        /\ KeepsOptions /\ KeepsPlan /\ KeepsChecks /\ KeepsPlaces
    BY <1>1, <1>11, <2>1, WorkedSets
  <2>3. s'.bill \in Nat /\ s'.paid \in Nat
    BY <1>1, <2>1, <2>2
  <2> QED BY <1>11, <2>2, <2>3 DEF Session, Steps, KeepsOptions, KeepsPlan, KeepsChecks
<1>12. CASE LaunchProbe \/ Launch
  BY <1>11, <1>12 DEF LaunchProbe, Launch, Goto
<1>13. ASSUME s.runs # << >> PROVE Charge(CapOf[Cur.arm]) \in Nat
  <2>1. Cur.arm \in Arm
    <3>1. Cur \in Cell
      BY <1>1, <1>13 DEF Cur
    <3> QED BY <3>1 DEF Cell
  <2> QED BY <2>1, ArmsAssumption DEF Charge, Session
<1>17. Unread \in Nat
  BY DEF Unread, Session
<1>14. CASE ProbeProves
  <2>1. s.runs # << >> /\ s.mode # "probe" /\ pc' = "next"
    BY <1>14 DEF ProbeProves, Session
  <2>2. s'.spent \in Nat /\ s'.paid \in Nat /\ s'.bill \in Nat /\ s'.unread \in Nat
    BY <1>1, <1>13, <1>14, <1>17, <2>1, ProbeSets
  <2> QED BY <1>1, <1>14, <2>1, <2>2, ProbeSets DEF Session, Steps, KeepsOptions, KeepsPlan, KeepsChecks
<1>15. CASE RunStarts
  <2>1. pc = "prepared" /\ pc' = "recorded"
    BY <1>15 DEF RunStarts
  <2> QED BY <1>1, <1>15, <2>1, RunSets
          DEF Session, Steps, KeepsOptions, KeepsPlan, KeepsChecks, KeepsMoney
<1>16. CASE Score
  <2>1. s.runs # << >>
    BY <1>16 DEF Score, Session
  <2>2. Tail(s.runs) \in Seq(Cell)
    BY <1>1, <2>1
  <2>3. s'.spent \in Nat
    BY <1>1, <1>13, <1>16, <2>1, ScoreSets DEF Session
  <2>4. /\ DOMAIN s' = Fields /\ pc = "ran" /\ pc' = "next" /\ s'.runs = Tail(s.runs)
        /\ s'.tasks = s.tasks /\ KeepsOptions /\ KeepsChecks
    BY <1>1, <1>16, ScoreSets
  <2>5. s'.bill \in Nat /\ s'.paid \in Nat /\ s'.unread \in Nat
    BY <1>1, <1>16, <1>17, ScoreSets
  <2> QED BY <2>2, <2>3, <2>4, <2>5 DEF Session, Steps, KeepsOptions, KeepsChecks
<1> QED BY <1>2, <1>3, <1>4, <1>5, <1>6, <1>7, <1>8, <1>9, <1>10, <1>12, <1>14, <1>15, <1>16, Kinds

LEMMA TypesHold == Spec => []Types
<1>1. Types /\ [Next]_vars => Types'
  BY WorldNext, LoggedNext, SessionNext DEF Types
<1> QED BY <1>1, TypesInit, PTL DEF Spec

\* What a step does to the log.
LEMMA Grows ==
  ASSUME Types, [Next]_vars
  PROVE  /\ lost' = lost
         /\ \/ UNCHANGED events
            \/ \E e : e.type \in {"probe", "refused", "estimate", "verified"} /\ Record(e)
            \/ \E free \in BOOLEAN : pc = "prepared" /\ Record(RunEvent(free))
            \/ pc = "ran" /\ Record([type |-> "verdict", cell |-> Cur, cause |-> s.run])
<1> DEFINE Other == \E e : e.type \in {"probe", "refused", "estimate", "verified"} /\ Record(e)
           ARun == \E free \in BOOLEAN : pc = "prepared" /\ Record(RunEvent(free))
<1>0. pc = "prepared" /\ Record(RunEvent(FALSE)) => ARun
  OBVIOUS
<1>1. Ends => lost' = lost /\ (UNCHANGED events \/ Other \/ ARun)
  <2> SUFFICES ASSUME Ends PROVE lost' = lost /\ (UNCHANGED events \/ Other \/ ARun)
    OBVIOUS
  <2>1. UNCHANGED envVars
    BY DEF Ends
  <2>2. lost' = lost
    BY <2>1 DEF envVars
  <2>3. CASE UNCHANGED events
    BY <2>2, <2>3
  <2>4. CASE \E e : e.type \in {"probe", "refused", "estimate"} /\ Record(e)
    BY <2>2, <2>4
  <2>5. CASE pc = "prepared" /\ Record(RunEvent(FALSE))
    BY <2>2, <2>5, <1>0
  <2> QED BY <2>3, <2>4, <2>5 DEF Ends
<1>2. CASE Certify
  <2> DEFINE e == [type |-> "verified", task |-> Head(s.need), content |-> s.exits[Head(s.need)]]
  <2>1. e.type = "verified"
    OBVIOUS
  <2>2. Record(e) /\ lost' = lost
    BY <1>2 DEF Certify, envVars
  <2> HIDE DEF e
  <2> QED BY <2>1, <2>2
<1>3. CASE ProbeProves
  <2> DEFINE e == [type |-> "probe", proven |-> TRUE, call |-> calls]
  <2>1. e.type = "probe"
    OBVIOUS
  <2>2. Record(e) /\ lost' = lost
    BY <1>3 DEF ProbeProves, envVars
  <2> HIDE DEF e
  <2> QED BY <2>1, <2>2
<1>4. RunStarts => lost' = lost /\ ARun
  BY DEF RunStarts, envVars
<1>5. Score => lost' = lost /\ pc = "ran" /\ Record([type |-> "verdict", cell |-> Cur, cause |-> s.run])
  BY DEF Score, envVars
<1>6. CASE Beside \/ Moves \/ Invoke \/ InvokeProbe \/ Resume \/ ReuseVerified \/ VerifyTasks
           \/ LaunchProbe \/ Launch
  BY <1>6 DEF Beside, Moves, Invoke, InvokeProbe, Resume, ReuseVerified, VerifyTasks,
              LaunchProbe, Launch, envVars
<1> QED BY <1>1, <1>2, <1>3, <1>4, <1>5, <1>6, Kinds

-----------------------------------------------------------------------------
(* A verdict ends its run *)

\* Each verdict names a run of its cell, the last before it.
Pairs ==
  \A v \in 1..Len(events) : events[v].type = "verdict" =>
    /\ events[v].cause \in 1..Len(events) /\ events[v].cause < v
    /\ events[events[v].cause].type = "run" /\ events[events[v].cause].cell = events[v].cell
    /\ \A r \in 1..Len(events) :
         r < v /\ events[r].type = "run" /\ events[r].cell = events[v].cell => r <= events[v].cause

\* The run whose worker may be started, or was, is what the log ends with.
RunOf ==
  pc \in {"recorded", "ran"} =>
    /\ s.run \in 1..Len(events) /\ s.run = Len(events)
    /\ events[s.run].type = "run" /\ events[s.run].cell = Cur /\ events[s.run].call = calls
    /\ events[s.run].model = s.models[Cur.arm] /\ events[s.run].sha = s.sha

LEMMA PairsAfter ==
  ASSUME Logged, Pairs, NEW e, Record(e),
         e.type = "verdict" =>
           /\ e.cause \in 1..Len(events)
           /\ events[e.cause].type = "run" /\ events[e.cause].cell = e.cell
           /\ \A r \in 1..Len(events) :
                events[r].type = "run" /\ events[r].cell = e.cell => r <= e.cause
  PROVE  Pairs'
<1> DEFINE N == Len(events)
<1>1. /\ N \in Nat /\ events'[N + 1] = e /\ \A k \in 1..N : events'[k] = events[k]
      /\ \A k : k \in 1..Len(events') <=> k \in 1..N \/ k = N + 1
  BY Recorded
<1> HIDE DEF N
<1>2. N = Len(events)
  BY DEF N
<1> SUFFICES ASSUME NEW v \in 1..Len(events'), events'[v].type = "verdict"
             PROVE  /\ events'[v].cause \in 1..Len(events') /\ events'[v].cause < v
                    /\ events'[events'[v].cause].type = "run"
                    /\ events'[events'[v].cause].cell = events'[v].cell
                    /\ \A r \in 1..Len(events') :
                         r < v /\ events'[r].type = "run" /\ events'[r].cell = events'[v].cell =>
                           r <= events'[v].cause
  BY DEF Pairs
<1>3. CASE v \in 1..N
  <2>1. /\ events[v].cause \in 1..N /\ events[v].cause < v
        /\ events[events[v].cause].type = "run" /\ events[events[v].cause].cell = events[v].cell
        /\ \A r \in 1..N : r < v /\ events[r].type = "run" /\ events[r].cell = events[v].cell =>
             r <= events[v].cause
    BY <1>1, <1>2, <1>3 DEF Pairs
  <2>2. events'[v] = events[v] /\ events'[events[v].cause] = events[events[v].cause]
    BY <1>1, <1>3, <2>1
  <2>3. ~ (N + 1 < v)
    BY <1>1, <1>3
  <2> QED BY <1>1, <2>1, <2>2, <2>3
<1>4. CASE v = N + 1
  <2>1. events'[v] = e /\ e.type = "verdict"
    BY <1>1, <1>4
  <2>2. e.cause \in 1..N /\ e.cause < v /\ events'[e.cause] = events[e.cause]
    BY <1>1, <1>2, <1>4, <2>1
  <2>3. \A r \in 1..Len(events') : r < v => r \in 1..N /\ events'[r] = events[r]
    BY <1>1, <1>4
  <2> QED BY <1>1, <1>2, <2>1, <2>2, <2>3
<1> QED BY <1>1, <1>3, <1>4

LEMMA PairsNext == Types /\ Pairs /\ RunOf /\ [Next]_vars => Pairs'
<1> SUFFICES ASSUME Types, Pairs, RunOf, [Next]_vars PROVE Pairs'
  OBVIOUS
<1>1. Logged
  BY DEF Types
<1>2. CASE UNCHANGED events
  BY <1>2 DEF Pairs
<1>3. CASE \E e : e.type \in {"probe", "refused", "estimate", "verified"} /\ Record(e)
  BY <1>1, <1>3, PairsAfter
<1>4. CASE \E free \in BOOLEAN : pc = "prepared" /\ Record(RunEvent(free))
  <2>1. PICK free \in BOOLEAN : Record(RunEvent(free))
    BY <1>4
  <2>2. RunEvent(free).type # "verdict"
    BY Recording
  <2> QED BY <1>1, <2>1, <2>2, PairsAfter
<1>5. CASE pc = "ran" /\ Record([type |-> "verdict", cell |-> Cur, cause |-> s.run])
  <2> DEFINE e == [type |-> "verdict", cell |-> Cur, cause |-> s.run]
  <2>1. e.cell = Cur /\ e.cause = s.run /\ Record(e)
    BY <1>5
  <2> HIDE DEF e
  <2>2. /\ s.run \in 1..Len(events) /\ s.run = Len(events)
        /\ events[s.run].type = "run" /\ events[s.run].cell = Cur
    BY <1>5 DEF RunOf
  <2>3. \A r \in 1..Len(events) : r <= s.run
    BY <2>2
  <2> QED BY <1>1, <2>1, <2>2, <2>3, PairsAfter
<1> QED BY <1>2, <1>3, <1>4, <1>5, Grows

LEMMA RunOfNext == Types /\ RunOf /\ [Next]_vars => RunOf'
<1> SUFFICES ASSUME Types, RunOf, [Next]_vars, pc' \in {"recorded", "ran"}
             PROVE  /\ s'.run \in 1..Len(events') /\ s'.run = Len(events')
                    /\ events'[s'.run].type = "run" /\ events'[s'.run].cell = Head(s'.runs)
                    /\ events'[s'.run].call = calls'
                    /\ events'[s'.run].model = s'.models[Head(s'.runs).arm]
                    /\ events'[s'.run].sha = s'.sha
  BY DEF RunOf, Cur
<1>1. Logged /\ Session /\ DOMAIN s = Fields /\ s.paid \in Nat /\ s.tasks \in Seq(Task) /\ lost = {}
  BY DEF Types, Session, Logged
<1>2. CASE Beside
  BY <1>2 DEF Beside, RunOf, Cur
<1>3. CASE RunStarts
  <2> DEFINE e == RunEvent(TRUE)
  <2>1. /\ e.type = "run" /\ e.cell = Cur /\ e.model = s.models[Cur.arm] /\ e.sha = s.sha
        /\ e.call = calls
    BY Recording
  <2>2. Record(e) /\ calls' = calls
    BY <1>3 DEF RunStarts
  <2> HIDE DEF e
  <2>3. /\ Len(events) \in Nat /\ Len(events') = Len(events) + 1 /\ events'[Len(events) + 1] = e
    BY <1>1, <2>2, Recorded
  <2>4. s'.run = Len(events) + 1 /\ s'.runs = s.runs /\ s'.models = s.models /\ s'.sha = s.sha
    BY <1>1, <1>3, RunSets DEF KeepsPlan, KeepsOptions, KeepsChecks
  <2>5. s'.run \in 1..Len(events') /\ s'.run = Len(events')
    BY <2>3, <2>4
  <2> QED BY <2>1, <2>2, <2>3, <2>4, <2>5 DEF Cur
<1>4. CASE Launch
  <2>1. pc = "recorded" /\ Worked(Cur.arm) /\ UNCHANGED <<events, calls>>
    BY <1>4 DEF Launch
  <2>2. Cur.arm \in Arm
    <3>1. Cur \in Cell
      BY <1>1, <2>1 DEF Session, Cur
    <3> QED BY <3>1 DEF Cell
  <2>3. KeepsOptions /\ KeepsPlan /\ KeepsChecks /\ KeepsPlaces
    BY <1>1, <2>1, <2>2, WorkedSets
  <2> QED BY <2>1, <2>3 DEF RunOf, Cur, KeepsOptions, KeepsPlan, KeepsChecks, KeepsPlaces
<1>5. CASE Ends \/ Moves \/ Resume \/ VerifyTasks \/ Certify \/ LaunchProbe \/ ProbeProves \/ Score
  BY <1>5 DEF Ends, End, Moves, Resume, VerifyTasks, Certify, LaunchProbe, ProbeProves, Score, Goto
<1>6. ~Invoke /\ ~InvokeProbe
  BY InvokeSets, InvokeProbeSets
<1>7. ~ReuseVerified
  BY <1>1, ReuseSets
<1> QED BY <1>2, <1>3, <1>4, <1>5, <1>6, <1>7, Kinds

LEMMA PairsHold == Spec => [](Types /\ Pairs /\ RunOf)
<1>1. Init => Pairs /\ RunOf
  <2>1. Init => Len(events) = 0 /\ pc = "idle"
    BY DEF Init
  <2> QED BY <2>1 DEF Pairs, RunOf
<1>2. Types /\ (Pairs /\ RunOf) /\ [Next]_vars => (Pairs /\ RunOf)'
  BY PairsNext, RunOfNext
<1> QED BY <1>1, <1>2, TypesHold, PTL DEF Spec

\* Whatever fails or is killed, and whatever is edited meanwhile, the verdict the fold gives a run
\* is the one recorded for it: of two runs of a cell, the verdict of the first never becomes the
\* second's, on a log whose every line can be read.
THEOREM SweepPairsVerdicts == Spec => []VerdictEndsItsRun
<1>1. Types /\ Pairs => VerdictEndsItsRun
  <2> SUFFICES ASSUME Types, Pairs, NEW r \in Runs(events, lost), r.verdict # 0
               PROVE  events[r.verdict].cause = r.run
    BY DEF VerdictEndsItsRun
  <2>1. lost = {}
    BY DEF Types, Logged
  <2> DEFINE Cu == Current(events, {})
             V(i) == VerdictsOf(events, {}, i)
  <2>2. \/ \E j \in Cu : r = [run |-> j, verdict |-> 0]
        \/ \E j \in Cu : \E v \in V(j) : r = [run |-> j, verdict |-> v]
    <3> HIDE DEF Cu, V
    <3> QED BY <2>1 DEF Runs, Cu, V
  <2>3. PICK j \in Cu : \E v \in V(j) : r = [run |-> j, verdict |-> v]
    BY <2>2
  <2>4. PICK v \in V(j) : r = [run |-> j, verdict |-> v]
    BY <2>3
  <2>5. r.run = j /\ r.verdict = v
    BY <2>4
  <2>6. /\ j \in 1..Len(events) /\ events[j].type = "run"
        /\ \A k \in 1..Len(events) : events[k].type = "run" /\ events[k].cell = events[j].cell => k <= j
    BY <2>3 DEF Current, Usable
  <2>7. /\ v \in 1..Len(events) /\ events[v].type = "verdict"
        /\ j < v /\ events[v].cell = events[j].cell
    BY <2>4 DEF VerdictsOf, Usable
  <2> HIDE DEF Cu, V
  <2> DEFINE c == events[v].cause
  <2>8. /\ c \in 1..Len(events) /\ events[c].type = "run" /\ events[c].cell = events[v].cell
        /\ \A k \in 1..Len(events) :
             k < v /\ events[k].type = "run" /\ events[k].cell = events[v].cell => k <= c
    BY <2>7 DEF Pairs
  <2>9. c <= j /\ j <= c
    BY <2>6, <2>7, <2>8
  <2>10. c = j
    BY <2>6, <2>8, <2>9
  <2> QED BY <2>5, <2>10
<1> QED BY <1>1, PairsHold, PTL

-----------------------------------------------------------------------------
(* Money *)

Unpaid == {"idle", "resume", "projection", "sweep", "verify", "certify", "control", "probe"}
Running == {"next", "prepared", "recorded", "ran"}

\* What the workers whose cost no reading told may have cost beyond their caps.
Untold == Overshoot * s.unread

\* What the sweep has charged to its budget, and the turns it could not know of, cover what it
\* has paid; a run that starts fits in the budget with its cap.
Money ==
  /\ pc \in Unpaid => s.paid = 0 /\ s.spent = 0 /\ s.unread = 0
  /\ pc = "probed" => s.paid = s.bill /\ s.unread = 0
  /\ pc \in {"probed", "ran"} => s.bill <= CapOf[Cur.arm] + Overshoot
  /\ pc \in {"next", "prepared", "recorded"} => s.paid <= s.spent + Untold
  /\ pc = "ran" => s.paid <= s.spent + s.bill + Untold
  /\ pc \in {"prepared", "recorded", "ran"} /\ s.budget > 0 => s.spent + CapOf[Cur.arm] <= s.budget
  /\ pc = "next" /\ s.run # 0 /\ s.budget > 0 => s.spent <= s.budget + Overshoot
  /\ pc \notin Running => s.run = 0

\* The cap of the arm that runs.
LEMMA CurIs ==
  ASSUME Session, s.runs # << >>
  PROVE  Cur \in Cell /\ Cur.arm \in Arm /\ Cur.task \in Task /\ CapOf[Cur.arm] \in Nat \ {0}
<1>1. s.runs \in Seq(Cell)
  BY DEF Session
<1>2. Cur \in Cell
  BY <1>1 DEF Cur
<1> QED BY <1>2, ArmsAssumption DEF Cell

LEMMA OneMore ==
  ASSUME NEW n \in Nat
  PROVE  /\ Overshoot \in Nat /\ Overshoot * n \in Nat
         /\ Overshoot * (n + 1) = Overshoot * n + Overshoot
BY BudgetsAssumption

\* A charge is what the worker cost when that is known; when it is not, the charge and one more
\* turn cover it.
LEMMA Charged ==
  ASSUME NEW cap \in Nat, s.bill \in Nat, s.unread \in Nat, s.bill <= cap + Overshoot
  PROVE  /\ Charge(cap) \in Nat /\ Charge(cap) <= cap + Overshoot
         /\ Unread \in Nat /\ s.bill + Untold <= Charge(cap) + Overshoot * Unread
<1>1. /\ Overshoot \in Nat /\ Overshoot * s.unread \in Nat
      /\ Overshoot * (s.unread + 1) = Overshoot * s.unread + Overshoot
  BY OneMore
<1>2. CASE s.known
  <2>1. Charge(cap) = s.bill /\ Unread = s.unread
    BY <1>2 DEF Charge, Unread
  <2> QED BY <1>1, <2>1 DEF Untold
<1>3. CASE ~s.known
  <2>1. Charge(cap) = cap /\ Unread = s.unread + 1
    BY <1>3 DEF Charge, Unread
  <2> QED BY <1>1, <2>1 DEF Untold
<1> QED BY <1>2, <1>3

\* The arithmetic of a charge: of what was paid, of a budget it fitted in, and of both at the end.
LEMMA ChargeCovers ==
  ASSUME NEW paid \in Nat, NEW spent \in Nat, NEW bill \in Nat, NEW old \in Nat,
         NEW charge \in Nat, NEW new \in Nat,
         paid <= spent + bill + old, bill + old <= charge + new
  PROVE  paid <= (spent + charge) + new
OBVIOUS

LEMMA ChargeFits ==
  ASSUME NEW spent \in Nat, NEW cap \in Nat, NEW charge \in Nat, NEW budget \in Nat,
         spent + cap <= budget, charge <= cap + Overshoot, Overshoot \in Nat
  PROVE  spent + charge <= budget + Overshoot
OBVIOUS

LEMMA BillFits ==
  ASSUME NEW paid \in Nat, NEW spent \in Nat, NEW cap \in Nat, NEW bill \in Nat, NEW old \in Nat,
         NEW budget \in Nat, Overshoot \in Nat,
         paid <= spent + bill + old, bill <= cap + Overshoot, spent + cap <= budget
  PROVE  paid <= budget + old + Overshoot
OBVIOUS

LEMMA MoneyNext == Types /\ Money /\ [Next]_vars => Money'
<1> SUFFICES ASSUME Types, Money, [Next]_vars PROVE Money'
  OBVIOUS
<1>1. /\ Session /\ DOMAIN s = Fields /\ s.paid \in Nat /\ s.spent \in Nat /\ s.bill \in Nat
      /\ s.budget \in Nat /\ s.tasks \in Seq(Task) /\ lost = {} /\ Len(events) \in Nat
      /\ s.unread \in Nat /\ Overshoot \in Nat /\ Untold \in Nat
  <2>1. /\ Session /\ DOMAIN s = Fields /\ s.paid \in Nat /\ s.spent \in Nat /\ s.bill \in Nat
        /\ s.budget \in Nat /\ s.tasks \in Seq(Task) /\ lost = {} /\ Len(events) \in Nat
        /\ s.unread \in Nat
    BY DEF Types, Session, Logged
  <2>2. Overshoot \in Nat /\ Untold \in Nat
    BY <2>1, OneMore DEF Untold
  <2> QED BY <2>1, <2>2
<1>2. CASE Beside
  BY <1>2 DEF Beside, Money, Cur, Untold
<1>3. CASE Ends
  <2>1. pc' = "idle" /\ s'.paid = 0 /\ s'.spent = 0 /\ s'.run = 0 /\ s'.unread = 0
    BY <1>3, NoneYet DEF Ends, End
  <2> QED BY <2>1 DEF Money, Unpaid, Running
<1>4. CASE Moves
  <2>1. s' = s
    BY <1>4 DEF Moves
  <2>2. CASE (pc = "projection" /\ pc' = "sweep") \/ (pc = "control" /\ pc' = "probe")
    BY <2>1, <2>2 DEF Money, Unpaid, Running
  <2>3. CASE pc = "next" /\ pc' = "prepared" /\ s.runs # << >> /\ Fits
    BY <2>1, <2>3 DEF Money, Unpaid, Running, Fits, Cur, Untold
  <2> QED BY <1>4, <2>2, <2>3 DEF Moves
<1>5. ASSUME pc' \in Unpaid, s'.paid = 0, s'.spent = 0, s'.run = 0, s'.unread = 0 PROVE Money'
  BY <1>5 DEF Money, Unpaid, Running
<1>6. CASE Invoke
  BY <1>5, <1>6, InvokeSets DEF Unpaid
<1>7. CASE InvokeProbe
  BY <1>5, <1>7, InvokeProbeSets DEF Unpaid
<1>8. ASSUME pc \in Unpaid, pc' \in Unpaid, KeepsMoney, KeepsPlaces PROVE Money'
  <2>1. s.paid = 0 /\ s.spent = 0 /\ s.run = 0 /\ s.unread = 0
    BY <1>8 DEF Money, Unpaid, Running
  <2> QED BY <1>5, <1>8, <2>1 DEF KeepsMoney, KeepsPlaces
<1>9. CASE Resume
  BY <1>1, <1>8, <1>9, ResumeSets DEF Unpaid
<1>10. CASE ReuseVerified
  BY <1>1, <1>8, <1>10, ReuseSets DEF Unpaid
<1>11. CASE VerifyTasks
  BY <1>1, <1>8, <1>11, VerifySets DEF Unpaid
<1>12. CASE Certify
  BY <1>1, <1>8, <1>12, CertifySets DEF Unpaid
<1>13. CASE LaunchProbe
  <2>1. pc = "probe" /\ pc' = "probed" /\ Worked(Cur.arm)
    BY <1>13 DEF LaunchProbe, Goto
  <2>2. Cur.arm \in Arm /\ CapOf[Cur.arm] \in Nat
    BY <1>1, <2>1, CurIs DEF Session
  <2>3. /\ s'.bill \in 1..(CapOf[Cur.arm] + Overshoot) /\ s'.paid = s.paid + s'.bill
        /\ s'.unread = s.unread /\ KeepsPlan /\ KeepsPlaces
    BY <1>1, <2>1, <2>2, WorkedSets
  <2>4. s.paid = 0 /\ s.run = 0 /\ s.unread = 0
    BY <2>1 DEF Money, Unpaid, Running
  <2>5. Cur' = Cur /\ s'.run = 0 /\ s'.unread = 0
    BY <2>3, <2>4 DEF Cur, KeepsPlan, KeepsPlaces
  <2>6. s'.paid = s'.bill /\ s'.bill <= CapOf[Cur.arm] + Overshoot
    BY <1>1, <2>2, <2>3, <2>4
  <2> QED BY <2>1, <2>5, <2>6 DEF Money, Unpaid, Running
<1>14. CASE ProbeProves
  <2>1. pc = "probed" /\ pc' = "next"
    BY <1>14 DEF ProbeProves
  <2>2. CapOf[Cur.arm] \in Nat
    BY <1>1, <2>1, CurIs DEF Session
  <2>3. s.paid = s.bill /\ s.bill <= CapOf[Cur.arm] + Overshoot /\ s.run = 0
    BY <2>1 DEF Money, Running
  <2>4. /\ s'.spent = Charge(CapOf[Cur.arm]) /\ s'.paid = s.paid /\ s'.run = s.run
        /\ s'.unread = Unread
    BY <1>1, <1>14, ProbeSets
  <2>5. s.bill + Untold <= Charge(CapOf[Cur.arm]) + Overshoot * Unread
    BY <1>1, <2>2, <2>3, Charged
  <2>6. Untold' = Overshoot * Unread /\ Charge(CapOf[Cur.arm]) \in Nat /\ Overshoot * Unread \in Nat
    BY <1>1, <2>2, <2>3, <2>4, Charged, OneMore DEF Untold
  <2>7. s'.paid <= s'.spent + Untold' /\ s'.run = 0
    <3>1. s.bill <= 0 + Charge(CapOf[Cur.arm]) + Overshoot * Unread
      BY <1>1, <2>5, <2>6, ChargeCovers
    <3>2. s.paid <= Charge(CapOf[Cur.arm]) + Overshoot * Unread
      BY <2>3, <2>6, <3>1
    <3> QED BY <2>3, <2>4, <2>6, <3>2
  <2> QED BY <2>1, <2>7 DEF Money, Unpaid, Running
<1>15. CASE RunStarts
  <2>1. pc = "prepared" /\ pc' = "recorded"
    BY <1>15 DEF RunStarts
  <2>2. KeepsOptions /\ KeepsPlan /\ KeepsMoney
    BY <1>1, <1>15, RunSets
  <2>3. Cur' = Cur
    BY <2>2 DEF KeepsPlan, Cur
  <2> QED BY <2>1, <2>2, <2>3 DEF Money, Unpaid, Running, KeepsOptions, KeepsMoney, Untold
<1>16. CASE Launch
  <2>1. pc = "recorded" /\ pc' = "ran" /\ Worked(Cur.arm)
    BY <1>16 DEF Launch, Goto
  <2>2. Cur.arm \in Arm /\ CapOf[Cur.arm] \in Nat
    BY <1>1, <2>1, CurIs DEF Session
  <2>3. /\ s'.bill \in 1..(CapOf[Cur.arm] + Overshoot) /\ s'.paid = s.paid + s'.bill
        /\ s'.spent = s.spent /\ s'.unread = s.unread /\ KeepsPlan /\ KeepsOptions
    BY <1>1, <2>1, <2>2, WorkedSets
  <2>4. s.paid <= s.spent + Untold /\ Untold' = Untold
    BY <2>1, <2>3 DEF Money, Untold
  <2>5. s'.paid <= s'.spent + s'.bill + Untold' /\ s'.bill <= CapOf[Cur.arm] + Overshoot
    BY <1>1, <2>2, <2>3, <2>4
  <2>6. Cur' = Cur /\ s'.budget = s.budget
    BY <2>3 DEF KeepsPlan, KeepsOptions, Cur
  <2>7. s.budget > 0 => s'.spent + CapOf[Cur.arm] <= s.budget
    BY <2>1, <2>3 DEF Money
  <2> QED BY <2>1, <2>5, <2>6, <2>7 DEF Money, Unpaid, Running
<1>17. CASE Score
  <2>1. /\ pc = "ran" /\ pc' = "next" /\ s'.spent = s.spent + Charge(CapOf[Cur.arm])
        /\ s'.paid = s.paid /\ s'.unread = Unread /\ KeepsOptions
    BY <1>1, <1>17, ScoreSets
  <2>2. CapOf[Cur.arm] \in Nat
    BY <1>1, <2>1, CurIs DEF Session
  <2>3. /\ s.paid <= s.spent + s.bill + Untold /\ s.bill <= CapOf[Cur.arm] + Overshoot
        /\ s.budget > 0 => s.spent + CapOf[Cur.arm] <= s.budget
    BY <2>1 DEF Money
  <2>4. /\ Charge(CapOf[Cur.arm]) \in Nat /\ Charge(CapOf[Cur.arm]) <= CapOf[Cur.arm] + Overshoot
        /\ s.bill + Untold <= Charge(CapOf[Cur.arm]) + Overshoot * Unread /\ Unread \in Nat
    BY <1>1, <2>2, <2>3, Charged
  <2>5. Untold' = Overshoot * Unread /\ Overshoot * Unread \in Nat
    BY <2>1, <2>4, OneMore DEF Untold
  <2>6. s'.paid <= s'.spent + Untold'
    <3>1. s.paid <= (s.spent + Charge(CapOf[Cur.arm])) + Overshoot * Unread
      BY <1>1, <2>3, <2>4, <2>5, ChargeCovers
    <3> QED BY <2>1, <2>5, <3>1
  <2>7. s'.budget > 0 => s'.spent <= s'.budget + Overshoot
    <3>1. s'.budget = s.budget
      BY <2>1 DEF KeepsOptions
    <3>2. ASSUME s.budget > 0 PROVE s.spent + Charge(CapOf[Cur.arm]) <= s.budget + Overshoot
      BY <1>1, <2>2, <2>3, <2>4, <3>2, ChargeFits
    <3> QED BY <2>1, <3>1, <3>2
  <2> QED BY <2>1, <2>6, <2>7 DEF Money, Unpaid, Running
<1> QED BY <1>2, <1>3, <1>4, <1>6, <1>7, <1>9, <1>10, <1>11, <1>12, <1>13, <1>14, <1>15, <1>16,
           <1>17, Kinds

\* Whatever the workers' readings leave unknown, and however far each harness runs past its cap,
\* once a run has started the sweep has paid no more than its budget, one last turn, and a turn for
\* each cost it could not read; only the probe before the first run may cost more than there is.
THEOREM SweepKeepsBudget == Spec => []BudgetHoldsButForTurns
<1>1. Init => Money
  <2>1. Init => pc = "idle" /\ s = NoSession
    BY DEF Init
  <2> QED BY <2>1, NoneYet DEF Money, Unpaid, Running
<1>2. Types /\ Money => BudgetHoldsButForTurns
  <2> SUFFICES ASSUME Types, Money, s.budget > 0, s.run # 0
               PROVE  s.paid <= s.budget + Overshoot * (s.unread + 1)
    BY DEF BudgetHoldsButForTurns
  <2>1. /\ Session /\ s.paid \in Nat /\ s.spent \in Nat /\ s.bill \in Nat /\ s.budget \in Nat
        /\ s.unread \in Nat
    BY DEF Types, Session
  <2>2. /\ Overshoot \in Nat /\ Untold \in Nat
        /\ Overshoot * (s.unread + 1) = Untold + Overshoot
    BY <2>1, OneMore DEF Untold
  <2>3. SUFFICES s.paid <= s.budget + Untold + Overshoot
    BY <2>1, <2>2
  <2>4. pc \in Running
    BY DEF Money
  <2>5. CASE pc = "next"
    <3>1. s.paid <= s.spent + Untold /\ s.spent <= s.budget + Overshoot
      BY <2>5 DEF Money
    <3> QED BY <2>1, <2>2, <3>1
  <2>6. CASE pc \in {"prepared", "recorded", "ran"}
    <3>1. CapOf[Cur.arm] \in Nat
      BY <2>1, <2>6, CurIs DEF Session
    <3>2. s.spent + CapOf[Cur.arm] <= s.budget
      BY <2>6 DEF Money
    <3>3. CASE pc \in {"prepared", "recorded"}
      <4>1. s.paid <= s.spent + Untold
        BY <3>3 DEF Money
      <4> QED BY <2>1, <2>2, <3>1, <3>2, <4>1
    <3>4. CASE pc = "ran"
      <4>1. s.paid <= s.spent + s.bill + Untold /\ s.bill <= CapOf[Cur.arm] + Overshoot
        BY <3>4 DEF Money
      <4> QED BY <2>1, <2>2, <3>1, <3>2, <4>1, BillFits
    <3> QED BY <2>6, <3>3, <3>4
  <2> QED BY <2>4, <2>5, <2>6 DEF Running
<1> QED BY <1>1, <1>2, MoneyNext, TypesHold, PTL DEF Spec

-----------------------------------------------------------------------------
(* What a run was earned by *)

\* The probe that proved the isolation of this invocation is on the log.
ProbeOf ==
  /\ pc \in Running =>
       /\ s.probe \in 1..Len(events) /\ events[s.probe].type = "probe"
       /\ events[s.probe].proven = TRUE /\ events[s.probe].call = calls
  /\ pc \notin Running => s.probe = 0
  /\ s.run \in 0..Len(events)

\* A log on which this content of the task is certified.
CertifiedOn(q, t, c) ==
  \E v \in 1..Len(q) : q[v].type = "verified" /\ q[v].task = t /\ q[v].content = c

\* The tasks of the runs left are the session's, and its corpus was loaded before any later edit.
Loads ==
  s.mode # "probe" =>
    /\ \A c \in ToSet(s.runs) : c.task \in ToSet(s.tasks)
    /\ pc # "idle" => /\ s.loaded \in [Task -> Nat]
                      /\ \A t \in Task : s.loaded[t] <= content[t]

Sweeping ==
  /\ s.mode # "probe"
  /\ pc \in {"verify", "certify", "control", "probe", "probed"} \cup Running

\* Every task of a sweep is certified on the log as the sweep read it, but those it has yet to
\* verify or to record; what it read is no older than what it loaded, and no newer than the disk.
Certs ==
  Sweeping =>
    /\ \A t \in DOMAIN s.exits :
         /\ t \in Task /\ s.exits[t] \in Nat
         /\ (pc = "certify" /\ t \in ToSet(s.need)) \/ CertifiedOn(events, t, s.exits[t])
         /\ s.loaded[t] <= s.exits[t] /\ s.exits[t] <= content[t]
    /\ \A t \in ToSet(s.tasks) : t \in DOMAIN s.exits \/ (pc = "verify" /\ t \in ToSet(s.need))

\* Each run on the log comes after the probe of its own invocation and the certification of its
\* task.
Earned ==
  \A i \in 1..Len(events) : events[i].type = "run" =>
    /\ events[i].probe \in 1..Len(events) /\ events[i].probe < i
    /\ events[events[i].probe].type = "probe"
    /\ events[events[i].probe].proven = TRUE /\ events[events[i].probe].call = events[i].call
    /\ \E v \in 1..Len(events) : /\ v < i /\ events[v].type = "verified"
                                 /\ events[v].task = events[i].cell.task
                                 /\ events[v].content = events[i].exits

LEMMA ProbeOfNext == Types /\ ProbeOf /\ [Next]_vars => ProbeOf'
<1> SUFFICES ASSUME Types, ProbeOf, [Next]_vars PROVE ProbeOf'
  OBVIOUS
<1>1. /\ Session /\ DOMAIN s = Fields /\ s.paid \in Nat /\ s.tasks \in Seq(Task) /\ lost = {} /\ Logged
      /\ Len(events) \in Nat /\ s.run \in 0..Len(events)
  BY DEF Types, Session, Logged, ProbeOf
<1>2. CASE Beside
  BY <1>2 DEF Beside, ProbeOf
<1>3. ASSUME NEW e, Record(e)
      PROVE  /\ Len(events') = Len(events) + 1 /\ events'[Len(events) + 1] = e
             /\ \A k \in 1..Len(events) : events'[k] = events[k]
  BY <1>1, <1>3, Recorded
<1>4. Len(events') \in Nat
  <2>1. CASE UNCHANGED events
    BY <2>1, <1>1
  <2>2. CASE \E e : Record(e)
    <3>1. PICK e : Record(e)
      BY <2>2
    <3> QED BY <3>1, <1>1, <1>3
  <2> QED BY <2>1, <2>2, Grows
<1>5. CASE Ends
  <2>1. pc' = "idle" /\ s'.probe = 0 /\ s'.run = 0
    BY <1>5, NoneYet DEF Ends, End
  <2> QED BY <2>1, <1>4 DEF ProbeOf, Running
<1>6. ASSUME pc \notin Running, pc' \notin Running, KeepsPlaces, UNCHANGED events PROVE ProbeOf'
  BY <1>6 DEF ProbeOf, KeepsPlaces
<1>7. CASE Moves
  BY <1>7 DEF Moves, ProbeOf, Running
<1>8. CASE Invoke
  BY <1>8, <1>1, InvokeSets DEF ProbeOf, Running
<1>9. CASE InvokeProbe
  BY <1>9, <1>1, InvokeProbeSets DEF ProbeOf, Running
<1>10. CASE Resume
  BY <1>1, <1>6, <1>10, ResumeSets DEF Running
<1>11. CASE ReuseVerified
  BY <1>1, <1>6, <1>11, ReuseSets DEF Running
<1>12. CASE VerifyTasks
  BY <1>1, <1>6, <1>12, VerifySets DEF Running
<1>13. CASE Certify
  <2> DEFINE e == [type |-> "verified", task |-> Head(s.need), content |-> s.exits[Head(s.need)]]
  <2>1. Record(e) /\ KeepsPlaces /\ pc = "certify" /\ pc' \in {"control", "certify"}
    BY <1>1, <1>13, CertifySets
  <2> HIDE DEF e
  <2>2. Len(events') = Len(events) + 1
    BY <2>1, <1>3
  <2> QED BY <1>1, <2>1, <2>2 DEF ProbeOf, KeepsPlaces, Running
<1>14. CASE LaunchProbe \/ Launch
  <2>1. /\ Worked(Cur.arm) /\ UNCHANGED <<events, calls>>
        /\ (pc = "probe" /\ pc' = "probed") \/ (pc = "recorded" /\ pc' = "ran")
    BY <1>14 DEF LaunchProbe, Launch, Goto
  <2>2. Cur.arm \in Arm
    BY <1>1, <2>1, CurIs DEF Session
  <2>3. KeepsPlaces
    BY <1>1, <2>1, <2>2, WorkedSets
  <2> QED BY <2>1, <2>3 DEF ProbeOf, KeepsPlaces, Running
<1>15. CASE ProbeProves
  <2> DEFINE e == [type |-> "probe", proven |-> TRUE, call |-> calls]
  <2>1. e.type = "probe" /\ e.proven = TRUE /\ e.call = calls
    OBVIOUS
  <2>2. Record(e) /\ pc' = "next" /\ calls' = calls
    BY <1>15 DEF ProbeProves
  <2> HIDE DEF e
  <2>3. s'.probe = Len(events) + 1 /\ s'.run = s.run
    BY <1>1, <1>15, ProbeSets
  <2>4. Len(events') = Len(events) + 1 /\ events'[Len(events) + 1] = e
    BY <1>3, <2>2
  <2>5. s'.probe \in 1..Len(events') /\ s'.run \in 0..Len(events')
    BY <1>1, <2>3, <2>4
  <2> QED BY <2>1, <2>2, <2>3, <2>4, <2>5 DEF ProbeOf, Running
<1>16. ASSUME NEW e, Record(e), pc \in Running, pc' \in Running, s'.probe = s.probe, calls' = calls,
              s'.run \in 0..Len(events')
       PROVE  ProbeOf'
  <2>1. /\ s.probe \in 1..Len(events) /\ events[s.probe].type = "probe"
        /\ events[s.probe].proven = TRUE /\ events[s.probe].call = calls
    BY <1>16 DEF ProbeOf
  <2>2. s.probe \in 1..Len(events') /\ events'[s.probe] = events[s.probe]
    BY <1>1, <1>3, <1>16, <2>1
  <2> QED BY <1>16, <2>1, <2>2 DEF ProbeOf
<1>17. CASE RunStarts
  <2> DEFINE e == RunEvent(TRUE)
  <2>1. Record(e) /\ pc \in Running /\ pc' \in Running /\ calls' = calls
    BY <1>17 DEF RunStarts, Running
  <2> HIDE DEF e
  <2>2. s'.probe = s.probe /\ s'.run = Len(events) + 1
    BY <1>1, <1>17, RunSets
  <2>3. s'.run \in 0..Len(events')
    BY <1>1, <1>3, <2>1, <2>2
  <2> QED BY <1>16, <2>1, <2>2, <2>3
<1>18. CASE Score
  <2> DEFINE e == [type |-> "verdict", cell |-> Cur, cause |-> s.run]
  <2>1. Record(e) /\ pc \in Running /\ pc' \in Running /\ calls' = calls /\ KeepsPlaces
    BY <1>1, <1>18, ScoreSets DEF Running
  <2> HIDE DEF e
  <2>2. s'.run \in 0..Len(events')
    BY <1>1, <1>3, <2>1 DEF KeepsPlaces
  <2> QED BY <1>16, <2>1, <2>2 DEF KeepsPlaces
<1> QED BY <1>2, <1>5, <1>7, <1>8, <1>9, <1>10, <1>11, <1>12, <1>13, <1>14, <1>15, <1>17, <1>18, Kinds

\* A task's content only ever gets newer.
LEMMA Newer ==
  ASSUME World, World', [Next]_vars
  PROVE  \A t \in Task : content[t] \in Nat /\ content'[t] \in Nat /\ content[t] <= content'[t]
<1>1. \A t \in Task : content[t] \in 0..edits /\ content'[t] \in 0..edits'
  BY DEF World
<1>2. edits \in Nat /\ edits' \in Nat
  BY BoundsAssumption DEF World
<1>3. ASSUME NEW u \in Task, Edit(u) PROVE \A t \in Task : content[t] <= content'[t]
  <2>1. content' = [content EXCEPT ![u] = edits + 1] /\ DOMAIN content = Task
    BY <1>3 DEF Edit, World
  <2>2. \A t \in Task : content'[t] = IF t = u THEN edits + 1 ELSE content[t]
    BY <2>1
  <2> QED BY <2>2, <1>1, <1>2
<1>4. content' = content \/ \E u \in Task : Edit(u)
  BY DEF Next, vars, envVars, Invoke, InvokeProbe, Step, Stop, Resume, Environment, Commit, Repoint,
         Projection, NothingStarts, RefuseAdapters, ReuseVerified, VerifyTasks, RefuseCorpus,
         Certify, Control, LaunchProbe, RecordProbe, StopEarly, Prepare, RecordRun, Launch,
         RefuseLaunch, Score, FinishRun, FinishEstimate
<1> QED BY <1>1, <1>2, <1>3, <1>4

LEMMA LoadsNext == Types /\ Types' /\ Loads /\ [Next]_vars => Loads'
<1> SUFFICES ASSUME Types, Types', Loads, [Next]_vars, s'.mode # "probe" PROVE Loads'
  BY DEF Loads
<1>1. /\ Session /\ DOMAIN s = Fields /\ s.paid \in Nat /\ s.tasks \in Seq(Task) /\ lost = {}
      /\ s.runs \in Seq(Cell)
  BY DEF Types, Session, Logged
<1>2. \A t \in Task : content[t] \in Nat /\ content'[t] \in Nat /\ content[t] <= content'[t]
  BY Newer DEF Types
<1>3. ASSUME KeepsOptions, pc # "idle", \A c \in ToSet(s'.runs) : c.task \in ToSet(s'.tasks)
      PROVE  Loads'
  <2>1. s.mode # "probe" /\ s'.loaded = s.loaded
    BY <1>3 DEF KeepsOptions
  <2>2. s.loaded \in [Task -> Nat] /\ \A t \in Task : s.loaded[t] <= content[t]
    BY <1>3, <2>1 DEF Loads
  <2>3. \A t \in Task : s.loaded[t] <= content'[t]
    <3> TAKE t \in Task
    <3>1. s.loaded[t] \in Nat /\ s.loaded[t] <= content[t]
      BY <2>2
    <3> QED BY <3>1, <1>2
  <2> QED BY <1>3, <2>1, <2>2, <2>3 DEF Loads
<1>4. ASSUME KeepsOptions, KeepsPlan, pc # "idle" PROVE Loads'
  <2>1. \A c \in ToSet(s'.runs) : c.task \in ToSet(s'.tasks)
    BY <1>4 DEF Loads, KeepsOptions, KeepsPlan
  <2> QED BY <1>3, <1>4, <2>1
<1>5. CASE Beside
  <2>1. CASE pc = "idle"
    <3>1. pc' = "idle" /\ s' = s
      BY <1>5, <2>1 DEF Beside
    <3> QED BY <3>1 DEF Loads
  <2>2. CASE pc # "idle"
    BY <1>4, <1>5, <2>2 DEF Beside, KeepsOptions, KeepsPlan
  <2> QED BY <2>1, <2>2
<1>6. CASE Ends
  <2>1. pc' = "idle" /\ s'.runs = << >>
    BY <1>6, NoneYet DEF Ends, End
  <2>2. ToSet(<< >>) = {}
    BY DEF ToSet
  <2> QED BY <2>1, <2>2 DEF Loads
<1>7. CASE Moves
  BY <1>4, <1>7 DEF Moves, KeepsOptions, KeepsPlan
<1>8. CASE Invoke
  <2>1. s'.loaded = content /\ UNCHANGED envVars
    BY <1>8, InvokeSets
  <2>2. content' = content /\ content \in [Task -> Nat]
    <3>1. content \in [Task -> 0..edits] /\ edits \in 0..MaxEdits
      BY DEF Types, World
    <3> QED BY <2>1, <3>1 DEF envVars
  <2>3. \A c \in ToSet(s'.runs) : c.task \in ToSet(s'.tasks)
    BY <1>8, InvokeSets
  <2> QED BY <2>1, <2>2, <2>3, <1>2 DEF Loads
<1>9. CASE InvokeProbe
  BY <1>9, InvokeProbeSets
<1>10. CASE Resume
  <2> DEFINE T == {c.task : c \in ToSet(s'.runs)}
             R == ToSet(s.runs) \ DoneCells
  <2>1. /\ s'.runs = Keep(s.runs, R) /\ s'.tasks = Keep(s.tasks, T) /\ KeepsOptions /\ pc = "resume"
    BY <1>1, <1>10, ResumeSets
  <2>2. /\ ToSet(Keep(s.runs, R)) = ToSet(s.runs) \cap R
        /\ ToSet(Keep(s.tasks, T)) = ToSet(s.tasks) \cap T
    <3> HIDE DEF R, T
    <3> QED BY <1>1, Kept
  <2>3. ASSUME NEW c \in ToSet(s'.runs) PROVE c.task \in ToSet(s'.tasks)
    <3>1. c \in ToSet(s.runs)
      BY <2>1, <2>2
    <3>2. c.task \in ToSet(s.tasks)
      BY <3>1, <2>1 DEF Loads, KeepsOptions
    <3>3. c.task \in T
      OBVIOUS
    <3> HIDE DEF T, R
    <3> QED BY <3>2, <3>3, <2>1, <2>2
  <2> QED BY <1>3, <2>1, <2>3
<1>11. CASE ReuseVerified
  BY <1>1, <1>4, <1>11, ReuseSets
<1>12. CASE VerifyTasks
  BY <1>1, <1>4, <1>12, VerifySets
<1>13. CASE Certify
  BY <1>1, <1>4, <1>13, CertifySets
<1>14. CASE LaunchProbe \/ Launch
  <2>1. Worked(Cur.arm) /\ pc \in {"probe", "recorded"}
    BY <1>14 DEF LaunchProbe, Launch
  <2>2. Cur.arm \in Arm
    BY <1>1, <2>1, CurIs DEF Session
  <2>3. KeepsOptions /\ KeepsPlan
    BY <1>1, <2>1, <2>2, WorkedSets
  <2> QED BY <1>4, <2>1, <2>3
<1>15. CASE ProbeProves
  BY <1>1, <1>4, <1>15, ProbeSets DEF ProbeProves
<1>16. CASE RunStarts
  BY <1>1, <1>4, <1>16, RunSets DEF RunStarts
<1>17. CASE Score
  <2>1. s'.runs = Tail(s.runs) /\ s'.tasks = s.tasks /\ KeepsOptions /\ pc = "ran"
    BY <1>1, <1>17, ScoreSets
  <2>2. s.runs # << >>
    BY <1>1, <2>1 DEF Session
  <2>3. ToSet(s.runs) = {Head(s.runs)} \cup ToSet(Tail(s.runs))
    BY <1>1, <2>2, HeadAndTail
  <2>4. \A c \in ToSet(s'.runs) : c.task \in ToSet(s'.tasks)
    BY <2>1, <2>3 DEF Loads, KeepsOptions
  <2> QED BY <1>3, <2>1, <2>4
<1> QED BY <1>5, <1>6, <1>7, <1>8, <1>9, <1>10, <1>11, <1>12, <1>13, <1>14, <1>15, <1>16, <1>17, Kinds

\* What is certified stays so.
LEMMA StaysCertified ==
  ASSUME Types, [Next]_vars, NEW t, NEW c, CertifiedOn(events, t, c)
  PROVE  CertifiedOn(events', t, c)
<1>1. PICK v \in 1..Len(events) : events[v].type = "verified" /\ events[v].task = t /\ events[v].content = c
  BY DEF CertifiedOn
<1>2. v \in 1..Len(events') /\ events'[v] = events[v]
  <2>1. CASE UNCHANGED events
    BY <2>1
  <2>2. CASE \E e : Record(e)
    <3>1. PICK e : Record(e)
      BY <2>2
    <3> QED BY <3>1, Recorded DEF Types
  <2> QED BY <2>1, <2>2, Grows
<1> QED BY <1>1, <1>2 DEF CertifiedOn

LEMMA CertsNext == Types /\ Types' /\ Loads' /\ Certs /\ [Next]_vars => Certs'
<1> SUFFICES ASSUME Types, Types', Loads', Certs, [Next]_vars, Sweeping' PROVE Certs'
  BY DEF Certs
<1>1. /\ Session /\ DOMAIN s = Fields /\ s.paid \in Nat /\ s.tasks \in Seq(Task) /\ lost = {}
      /\ s.runs \in Seq(Cell) /\ s.need \in Seq(Task) /\ Logged
  BY DEF Types, Session, Logged
<1>2. \A t \in Task : content[t] \in Nat /\ content'[t] \in Nat /\ content[t] <= content'[t]
  BY Newer DEF Types
<1>3. s'.mode # "probe" /\ pc' \in {"verify", "certify", "control", "probe", "probed"} \cup Running
  BY DEF Sweeping
<1>4. ASSUME Sweeping, NEW t \in DOMAIN s.exits
      PROVE  /\ t \in Task /\ s.exits[t] \in Nat
             /\ (pc = "certify" /\ t \in ToSet(s.need)) \/ CertifiedOn(events', t, s.exits[t])
             /\ s.loaded[t] <= s.exits[t] /\ s.exits[t] <= content'[t]
  <2>1. /\ t \in Task /\ s.exits[t] \in Nat
        /\ (pc = "certify" /\ t \in ToSet(s.need)) \/ CertifiedOn(events, t, s.exits[t])
        /\ s.loaded[t] <= s.exits[t] /\ s.exits[t] <= content[t]
    BY <1>4 DEF Certs
  <2>2. s.exits[t] <= content'[t]
    BY <2>1, <1>2
  <2>3. CertifiedOn(events, t, s.exits[t]) => CertifiedOn(events', t, s.exits[t])
    BY StaysCertified
  <2> QED BY <2>1, <2>2, <2>3
<1>5. ASSUME Sweeping, s'.exits = s.exits, s'.loaded = s.loaded, s'.tasks = s.tasks, s'.need = s.need,
             (pc' = pc) \/ (pc \notin {"verify", "certify"})
      PROVE  Certs'
  <2>1. \A t \in ToSet(s.tasks) : t \in DOMAIN s.exits \/ (pc = "verify" /\ t \in ToSet(s.need))
    BY <1>5 DEF Certs
  <2> QED BY <1>4, <1>5, <2>1 DEF Certs
<1>6. CASE Beside
  BY <1>5, <1>6, <1>3 DEF Beside, Sweeping
<1>7. CASE Ends \/ Invoke \/ InvokeProbe \/ Resume
  <2>1. Ends => pc' = "idle"
    BY DEF Ends, End
  <2> QED BY <1>7, <2>1, <1>1, <1>3, InvokeSets, InvokeProbeSets, ResumeSets DEF Running
<1>8. CASE Moves
  <2>1. s' = s
    BY <1>8 DEF Moves
  <2>2. Sweeping /\ pc \notin {"verify", "certify"}
    BY <1>3, <1>8, <2>1 DEF Moves, Sweeping, Running
  <2> QED BY <1>5, <2>1, <2>2
<1>9. CASE ReuseVerified
  <2>1. /\ \A t \in DOMAIN s'.exits : /\ t \in ToSet(s.tasks) /\ s'.exits[t] = content[t]
                                      /\ IsVerified(events, {}, t, content[t])
        /\ \A t \in ToSet(s.tasks) : t \in DOMAIN s'.exits \/ t \in ToSet(s'.need)
        /\ pc' = IF s'.need = << >> THEN "control" ELSE "verify"
        /\ KeepsPlan /\ UNCHANGED <<events, envVars>>
    BY <1>1, <1>9, ReuseSets
  <2>2. s'.loaded \in [Task -> Nat] /\ \A t \in Task : s'.loaded[t] <= content'[t]
    BY <1>3, <2>1 DEF Loads
  <2>3. ASSUME NEW t \in DOMAIN s'.exits
        PROVE  /\ t \in Task /\ s'.exits[t] \in Nat /\ CertifiedOn(events', t, s'.exits[t])
               /\ s'.loaded[t] <= s'.exits[t] /\ s'.exits[t] <= content'[t]
    <3>1. t \in Task
      BY <1>1, <2>1 DEF ToSet
    <3>2. s'.exits[t] = content[t] /\ IsVerified(events, {}, t, content[t]) /\ content' = content
      BY <2>1 DEF envVars
    <3>3. CertifiedOn(events', t, s'.exits[t])
      BY <2>1, <3>2 DEF IsVerified, Usable, CertifiedOn
    <3> QED BY <3>1, <3>2, <3>3, <1>2, <2>2
  <2>4. ToSet(<< >>) = {}
    BY DEF ToSet
  <2>5. \A t \in ToSet(s'.tasks) : t \in DOMAIN s'.exits \/ (pc' = "verify" /\ t \in ToSet(s'.need))
    BY <2>1, <2>4 DEF KeepsPlan
  <2> QED BY <2>3, <2>5 DEF Certs
<1>10. CASE VerifyTasks
  <2>1. /\ pc = "verify" /\ pc' = "certify" /\ DOMAIN s'.exits = DOMAIN s.exits \cup ToSet(s.need)
        /\ \A t \in DOMAIN s'.exits :
             s'.exits[t] = IF t \in ToSet(s.need) THEN content[t] ELSE s.exits[t]
        /\ s'.need = s.need /\ KeepsOptions /\ KeepsPlan /\ UNCHANGED <<events, envVars>>
    BY <1>1, <1>10, VerifySets
  <2>2. s'.loaded \in [Task -> Nat] /\ \A t \in Task : s'.loaded[t] <= content'[t]
    BY <1>3, <2>1 DEF Loads
  <2>3. Sweeping
    BY <1>3, <2>1 DEF Sweeping, KeepsOptions
  <2>4. ASSUME NEW t \in DOMAIN s'.exits
        PROVE  /\ t \in Task /\ s'.exits[t] \in Nat
               /\ t \in ToSet(s'.need) \/ CertifiedOn(events', t, s'.exits[t])
               /\ s'.loaded[t] <= s'.exits[t] /\ s'.exits[t] <= content'[t]
    <3>1. CASE t \in ToSet(s.need)
      <4>1. t \in Task
        BY <1>1, <3>1 DEF ToSet
      <4>2. s'.exits[t] = content[t] /\ content' = content
        BY <2>1, <3>1 DEF envVars
      <4> QED BY <4>1, <4>2, <3>1, <2>1, <2>2, <1>2
    <3>2. CASE t \notin ToSet(s.need)
      <4>1. t \in DOMAIN s.exits /\ s'.exits[t] = s.exits[t] /\ s'.loaded = s.loaded
        BY <2>1, <3>2 DEF KeepsOptions
      <4> QED BY <4>1, <1>4, <2>1, <2>3
    <3> QED BY <3>1, <3>2
  <2>5. \A t \in ToSet(s'.tasks) : t \in DOMAIN s'.exits
    BY <2>1, <2>3 DEF Certs, KeepsPlan
  <2> QED BY <2>1, <2>4, <2>5 DEF Certs
<1>11. CASE Certify
  <2> DEFINE e == [type |-> "verified", task |-> Head(s.need), content |-> s.exits[Head(s.need)]]
  <2>1. /\ pc = "certify" /\ s'.need = Tail(s.need) /\ Record(e)
        /\ pc' = IF s'.need = << >> THEN "control" ELSE "certify"
        /\ s'.exits = s.exits /\ KeepsOptions /\ KeepsPlan
    BY <1>1, <1>11, CertifySets
  <2>2. Sweeping
    BY <1>3, <2>1 DEF Sweeping, KeepsOptions
  <2>3. ToSet(s.need) = {Head(s.need)} \cup ToSet(Tail(s.need))
    <3>1. s.need # << >>
      BY <1>1, <2>1 DEF Session
    <3> QED BY <1>1, <3>1, HeadAndTail
  <2>4. CertifiedOn(events', Head(s.need), s.exits[Head(s.need)])
    <3>1. e.type = "verified" /\ e.task = Head(s.need) /\ e.content = s.exits[Head(s.need)]
      OBVIOUS
    <3> HIDE DEF e
    <3>2. Len(events) + 1 \in 1..Len(events') /\ events'[Len(events) + 1] = e
      BY <1>1, <2>1, Recorded
    <3> QED BY <3>1, <3>2 DEF CertifiedOn
  <2>5. ToSet(<< >>) = {}
    BY DEF ToSet
  <2>6. ASSUME NEW t \in DOMAIN s'.exits
        PROVE  /\ t \in Task /\ s'.exits[t] \in Nat
               /\ (pc' = "certify" /\ t \in ToSet(s'.need)) \/ CertifiedOn(events', t, s'.exits[t])
               /\ s'.loaded[t] <= s'.exits[t] /\ s'.exits[t] <= content'[t]
    <3>1. t \in DOMAIN s.exits /\ s'.exits[t] = s.exits[t] /\ s'.loaded = s.loaded
      BY <2>1 DEF KeepsOptions
    <3>2. /\ t \in Task /\ s.exits[t] \in Nat
          /\ t \in ToSet(s.need) \/ CertifiedOn(events', t, s.exits[t])
          /\ s.loaded[t] <= s.exits[t] /\ s.exits[t] <= content'[t]
      BY <1>4, <2>2, <3>1
    <3>3. t = Head(s.need) => CertifiedOn(events', t, s.exits[t])
      BY <2>4
    <3>4. t \in ToSet(s.need) => t = Head(s.need) \/ (pc' = "certify" /\ t \in ToSet(s'.need))
      BY <2>1, <2>3, <2>5
    <3> QED BY <3>1, <3>2, <3>3, <3>4
  <2>7. \A t \in ToSet(s'.tasks) : t \in DOMAIN s'.exits
    BY <2>1, <2>2 DEF Certs, KeepsPlan
  <2> QED BY <2>6, <2>7 DEF Certs
<1>12. ASSUME pc \in {"probe", "probed", "prepared", "recorded", "ran"}, KeepsOptions, KeepsChecks,
              s'.tasks = s.tasks
       PROVE  Certs'
  <2>1. Sweeping
    BY <1>3, <1>12 DEF Sweeping, Running, KeepsOptions
  <2> QED BY <1>5, <1>12, <2>1 DEF KeepsOptions, KeepsChecks
<1>13. CASE LaunchProbe \/ Launch
  <2>1. Worked(Cur.arm) /\ pc \in {"probe", "recorded"}
    BY <1>13 DEF LaunchProbe, Launch
  <2>2. Cur.arm \in Arm
    BY <1>1, <2>1, CurIs DEF Session
  <2>3. KeepsOptions /\ KeepsPlan /\ KeepsChecks
    BY <1>1, <2>1, <2>2, WorkedSets
  <2> QED BY <1>12, <2>1, <2>3 DEF KeepsPlan
<1>14. CASE ProbeProves
  BY <1>1, <1>12, <1>14, ProbeSets DEF ProbeProves, KeepsPlan
<1>15. CASE RunStarts
  BY <1>1, <1>12, <1>15, RunSets DEF RunStarts, KeepsPlan
<1>16. CASE Score
  BY <1>1, <1>12, <1>16, ScoreSets
<1> QED BY <1>6, <1>7, <1>8, <1>9, <1>10, <1>11, <1>13, <1>14, <1>15, <1>16, Kinds

LEMMA EarnedNext == Types /\ ProbeOf /\ Loads /\ Certs /\ Earned /\ [Next]_vars => Earned'
<1> SUFFICES ASSUME Types, ProbeOf, Loads, Certs, Earned, [Next]_vars PROVE Earned'
  OBVIOUS
<1>1. Logged /\ Session /\ Len(events) \in Nat
  BY DEF Types, Logged
<1>2. CASE UNCHANGED events
  BY <1>2 DEF Earned
<1>3. ASSUME NEW e, Record(e),
             e.type = "run" =>
               /\ e.probe \in 1..Len(events) /\ events[e.probe].type = "probe"
               /\ events[e.probe].proven = TRUE /\ events[e.probe].call = e.call
               /\ CertifiedOn(events, e.cell.task, e.exits)
      PROVE  Earned'
  <2> DEFINE N == Len(events)
  <2>1. /\ N \in Nat /\ events'[N + 1] = e /\ \A k \in 1..N : events'[k] = events[k]
        /\ \A k : k \in 1..Len(events') <=> k \in 1..N \/ k = N + 1
    BY <1>1, <1>3, Recorded
  <2>2. N = Len(events)
    OBVIOUS
  <2> HIDE DEF N
  <2> SUFFICES ASSUME NEW i \in 1..Len(events'), events'[i].type = "run"
               PROVE  /\ events'[i].probe \in 1..Len(events') /\ events'[i].probe < i
                      /\ events'[events'[i].probe].type = "probe"
                      /\ events'[events'[i].probe].proven = TRUE
                      /\ events'[events'[i].probe].call = events'[i].call
                      /\ \E v \in 1..Len(events') :
                           /\ v < i /\ events'[v].type = "verified"
                           /\ events'[v].task = events'[i].cell.task
                           /\ events'[v].content = events'[i].exits
    BY DEF Earned
  <2>3. CASE i \in 1..N
    <3>1. /\ events[i].probe \in 1..N /\ events[i].probe < i
          /\ events[events[i].probe].type = "probe"
          /\ events[events[i].probe].proven = TRUE
          /\ events[events[i].probe].call = events[i].call
          /\ \E v \in 1..N : /\ v < i /\ events[v].type = "verified"
                             /\ events[v].task = events[i].cell.task
                             /\ events[v].content = events[i].exits
      BY <2>1, <2>2, <2>3 DEF Earned
    <3>2. PICK v \in 1..N : /\ v < i /\ events[v].type = "verified"
                            /\ events[v].task = events[i].cell.task
                            /\ events[v].content = events[i].exits
      BY <3>1
    <3>3. events'[i] = events[i] /\ events'[v] = events[v] /\ events'[events[i].probe] = events[events[i].probe]
          /\ v \in 1..Len(events') /\ events[i].probe \in 1..Len(events')
      BY <2>1, <2>3, <3>1, <3>2
    <3> QED BY <3>1, <3>2, <3>3
  <2>4. CASE i = N + 1
    <3>1. events'[i] = e /\ e.type = "run"
      BY <2>1, <2>4
    <3>2. /\ e.probe \in 1..N /\ events[e.probe].type = "probe"
          /\ events[e.probe].proven = TRUE /\ events[e.probe].call = e.call
          /\ CertifiedOn(events, e.cell.task, e.exits)
      BY <1>3, <2>2, <3>1
    <3>3. PICK v \in 1..N : events[v].type = "verified" /\ events[v].task = e.cell.task /\ events[v].content = e.exits
      BY <2>2, <3>2 DEF CertifiedOn
    <3>4. events'[v] = events[v] /\ events'[e.probe] = events[e.probe]
          /\ v \in 1..Len(events') /\ e.probe \in 1..Len(events') /\ v < i /\ e.probe < i
      BY <2>1, <2>4, <3>2, <3>3
    <3> QED BY <3>1, <3>2, <3>3, <3>4
  <2> QED BY <2>1, <2>3, <2>4
<1>4. CASE \E e : e.type \in {"probe", "refused", "estimate", "verified"} /\ Record(e)
  BY <1>3, <1>4
<1>5. CASE \E free \in BOOLEAN : pc = "prepared" /\ Record(RunEvent(free))
  <2>1. PICK free \in BOOLEAN : pc = "prepared" /\ Record(RunEvent(free))
    BY <1>5
  <2> DEFINE e == RunEvent(free)
  <2>2. /\ e.cell = Cur /\ e.exits = s.exits[Cur.task] /\ e.probe = s.probe /\ e.call = calls
        /\ Record(e)
    BY <2>1, Recording
  <2> HIDE DEF e
  <2>3. /\ s.probe \in 1..Len(events) /\ events[s.probe].type = "probe"
        /\ events[s.probe].proven = TRUE /\ events[s.probe].call = calls
    BY <2>1 DEF ProbeOf, Running
  <2>4. Sweeping /\ s.runs # << >> /\ s.runs \in Seq(Cell)
    BY <1>1, <2>1 DEF Session, Sweeping, Running
  <2>5. Cur \in ToSet(s.runs)
    BY <2>4, HeadAndTail DEF Cur
  <2>6. Cur.task \in ToSet(s.tasks)
    BY <2>4, <2>5 DEF Loads, Sweeping
  <2>7. Cur.task \in DOMAIN s.exits
    BY <2>1, <2>4, <2>6 DEF Certs
  <2>8. CertifiedOn(events, Cur.task, s.exits[Cur.task])
    BY <2>1, <2>4, <2>7 DEF Certs
  <2> QED BY <1>3, <2>2, <2>3, <2>8
<1>6. CASE pc = "ran" /\ Record([type |-> "verdict", cell |-> Cur, cause |-> s.run])
  <2> DEFINE e == [type |-> "verdict", cell |-> Cur, cause |-> s.run]
  <2>1. e.type = "verdict" /\ Record(e)
    BY <1>6
  <2> HIDE DEF e
  <2> QED BY <1>3, <2>1
<1> QED BY <1>2, <1>4, <1>5, <1>6, Grows

\* The exit codes are tasks'.
ExitsOfTasks == DOMAIN s.exits \subseteq Task

LEMMA ExitsNext == Types /\ ExitsOfTasks /\ [Next]_vars => ExitsOfTasks'
<1> SUFFICES ASSUME Types, DOMAIN s.exits \subseteq Task, [Next]_vars PROVE DOMAIN s'.exits \subseteq Task
  BY DEF ExitsOfTasks
<1>1. /\ Session /\ DOMAIN s = Fields /\ s.paid \in Nat /\ s.tasks \in Seq(Task) /\ lost = {}
      /\ s.need \in Seq(Task)
  BY DEF Types, Session, Logged
<1>2. \A q \in Seq(Task) : ToSet(q) \subseteq Task
  BY DEF ToSet
<1>3. DOMAIN << >> = {}
  OBVIOUS
<1>4. CASE Beside \/ Moves
  BY <1>4 DEF Beside, Moves
<1>5. CASE Ends
  BY <1>3, <1>5, NoneYet DEF Ends, End
<1>6. CASE Invoke
  BY <1>3, <1>6, InvokeSets
<1>7. CASE InvokeProbe
  BY <1>3, <1>7, InvokeProbeSets
<1>8. CASE Resume
  BY <1>1, <1>8, ResumeSets DEF KeepsChecks
<1>9. CASE ReuseVerified
  BY <1>1, <1>2, <1>9, ReuseSets
<1>10. CASE VerifyTasks
  BY <1>1, <1>2, <1>10, VerifySets
<1>11. CASE Certify
  BY <1>1, <1>11, CertifySets
<1>12. CASE LaunchProbe \/ Launch
  <2>1. Worked(Cur.arm) /\ pc \in {"probe", "recorded"}
    BY <1>12 DEF LaunchProbe, Launch
  <2>2. Cur.arm \in Arm
    BY <1>1, <2>1, CurIs DEF Session
  <2> QED BY <1>1, <2>1, <2>2, WorkedSets DEF KeepsChecks
<1>13. CASE ProbeProves
  BY <1>1, <1>13, ProbeSets DEF KeepsChecks
<1>14. CASE RunStarts
  BY <1>1, <1>14, RunSets DEF KeepsChecks
<1>15. CASE Score
  BY <1>1, <1>15, ScoreSets DEF KeepsChecks
<1> QED BY <1>4, <1>5, <1>6, <1>7, <1>8, <1>9, <1>10, <1>11, <1>12, <1>13, <1>14, <1>15, Kinds

LEMMA AccountsHold ==
  Spec => [](Types /\ ProbeOf /\ Loads /\ Certs /\ Earned /\ ExitsOfTasks)
<1>1. Init => ProbeOf /\ Loads /\ Certs /\ Earned /\ ExitsOfTasks
  <2> SUFFICES ASSUME Init PROVE ProbeOf /\ Loads /\ Certs /\ Earned /\ ExitsOfTasks
    OBVIOUS
  <2>1. pc = "idle" /\ s = NoSession /\ Len(events) = 0
    BY DEF Init
  <2>2. s.probe = 0 /\ s.run = 0 /\ s.runs = << >> /\ s.exits = << >>
    BY <2>1, NoneYet
  <2>3. ToSet(<< >>) = {} /\ DOMAIN << >> = {}
    BY DEF ToSet
  <2>4. ProbeOf
    BY <2>1, <2>2 DEF ProbeOf, Running
  <2>5. Loads /\ Certs
    BY <2>1, <2>2, <2>3 DEF Loads, Certs, Sweeping, Running
  <2>6. Earned
    BY <2>1 DEF Earned
  <2>7. ExitsOfTasks
    BY <2>2, <2>3 DEF ExitsOfTasks
  <2> QED BY <2>4, <2>5, <2>6, <2>7
<1>2. Types /\ Types' /\ (ProbeOf /\ Loads /\ Certs /\ Earned /\ ExitsOfTasks) /\ [Next]_vars =>
        (ProbeOf /\ Loads /\ Certs /\ Earned /\ ExitsOfTasks)'
  BY ProbeOfNext, LoadsNext, CertsNext, EarnedNext, ExitsNext
<1> QED BY <1>1, <1>2, TypesHold, PTL DEF Spec

\* At any moment, whatever an earlier invocation left behind and whatever is edited meanwhile: the
\* state has its types; every run on the log follows the proof of isolation of its own invocation
\* and the certification of its task; and a worker that has run has its bench.run at the end of
\* the log, current and still without a verdict.
THEOREM SweepAccounts == Spec => []RunsAccounted
<1>1. Types /\ ProbeOf /\ ExitsOfTasks => TypeOK
  <2> SUFFICES ASSUME Types, ProbeOf, ExitsOfTasks PROVE TypeOK
    OBVIOUS
  <2>1. Len(events) \in Nat /\ lost \subseteq 1..Len(events)
        /\ \A i \in 1..Len(events) :
             events[i].type \in {"run", "verdict", "verified", "probe", "refused", "estimate"}
    BY DEF Types, Logged, EventTypes
  <2>2. s.probe \in 0..Len(events) /\ s.run \in 0..Len(events)
    <3>1. s.run \in 0..Len(events)
      BY DEF ProbeOf
    <3>2. pc \in Running => s.probe \in 0..Len(events)
      BY <2>1 DEF ProbeOf
    <3>3. pc \notin Running => s.probe \in 0..Len(events)
      BY <2>1 DEF ProbeOf
    <3> QED BY <3>1, <3>2, <3>3
  <2>3. sha \in 1..(MaxEdits + 1) /\ dirty \in BOOLEAN
    BY BoundsAssumption DEF Types, World
  <2>4. content \in [Task -> 0..MaxEdits] /\ model \in [Arm -> Model]
    <3>1. content \in [Task -> 0..edits] /\ edits \in 0..MaxEdits /\ MaxEdits \in Nat
          /\ model \in [Arm -> Model]
      BY BoundsAssumption DEF Types, World
    <3>2. 0..edits \subseteq 0..MaxEdits
      BY <3>1
    <3> QED BY <3>1, <3>2
  <2>5. calls \in 0..MaxInvocations /\ edits \in 0..MaxEdits /\ repoints \in 0..MaxRepoints
    BY DEF Types, World
  <2>6. pc \in Steps /\ s.runs \in Seq(Cell) /\ s.plan \subseteq Cell /\ s.tasks \in Seq(Task)
        /\ {s.spent, s.paid, s.bill, s.unread} \subseteq Nat
    BY DEF Types, Session
  <2> QED BY <2>1, <2>2, <2>3, <2>4, <2>5, <2>6 DEF TypeOK, Steps, ExitsOfTasks
<1>2. Types /\ Earned => RunsEarned
  <2> SUFFICES ASSUME Types, Earned, NEW i \in Usable(events, lost, "run")
               PROVE  /\ events[i].probe \in 1..(i - 1)
                      /\ events[events[i].probe].type = "probe"
                      /\ events[events[i].probe].proven
                      /\ events[events[i].probe].call = events[i].call
                      /\ \E v \in 1..(i - 1) : /\ events[v].type = "verified"
                                               /\ events[v].task = events[i].cell.task
                                               /\ events[v].content = events[i].exits
    BY DEF RunsEarned
  <2>1. i \in 1..Len(events) /\ events[i].type = "run"
    BY DEF Usable
  <2>2. /\ events[i].probe \in 1..Len(events) /\ events[i].probe < i
        /\ events[events[i].probe].type = "probe"
        /\ events[events[i].probe].proven = TRUE /\ events[events[i].probe].call = events[i].call
        /\ \E v \in 1..Len(events) : /\ v < i /\ events[v].type = "verified"
                                     /\ events[v].task = events[i].cell.task
                                     /\ events[v].content = events[i].exits
    BY <2>1 DEF Earned
  <2>3. events[i].probe \in 1..(i - 1)
    BY <2>1, <2>2
  <2>4. \A v \in 1..Len(events) : v < i => v \in 1..(i - 1)
    BY <2>1
  <2> QED BY <2>2, <2>3, <2>4
<1>3. Types /\ RunOf => PaidRunsOnLog
  <2> SUFFICES ASSUME Types, RunOf, pc = "ran"
               PROVE  /\ s.run \in Current(events, lost) /\ VerdictsOf(events, lost, s.run) = {}
                      /\ events[s.run].cell = Cur /\ events[s.run].call = calls
    BY DEF PaidRunsOnLog
  <2>1. /\ s.run \in 1..Len(events) /\ s.run = Len(events)
        /\ events[s.run].type = "run" /\ events[s.run].cell = Cur /\ events[s.run].call = calls
    BY DEF RunOf
  <2>2. \A k \in 1..Len(events) : k <= s.run /\ ~ (s.run < k)
    BY <2>1
  <2>3. lost = {}
    BY DEF Types, Logged
  <2>4. s.run \in Current(events, lost)
    BY <2>1, <2>2, <2>3 DEF Current, Usable
  <2>5. VerdictsOf(events, lost, s.run) = {}
    BY <2>2 DEF VerdictsOf, Usable
  <2> QED BY <2>1, <2>4, <2>5
<1>4. Types /\ ProbeOf /\ Earned /\ RunOf /\ ExitsOfTasks => RunsAccounted
  BY <1>1, <1>2, <1>3 DEF RunsAccounted
<1> QED BY <1>4, AccountsHold, PairsHold, PTL

\* The hidden check that scores a run, as it is on disk when the run ends, is one the log certifies,
\* unless it was edited after this invocation loaded the corpus: an edit before that is seen, and a
\* certification of an older content is never reused for it.
THEOREM SweepScoresCertified == Spec => []ScoredByACertifiedCheck
<1>1. Types /\ Loads /\ Certs /\ ProbeOf => ScoredByACertifiedCheck
  <2> SUFFICES ASSUME Types, Loads, Certs, pc = "ran", content[Cur.task] = s.loaded[Cur.task]
               PROVE  \E v \in 1..Len(events) : /\ events[v].type = "verified"
                                                /\ events[v].task = Cur.task
                                                /\ events[v].content = content[Cur.task]
    BY DEF ScoredByACertifiedCheck
  <2>1. Sweeping /\ s.runs # << >> /\ s.runs \in Seq(Cell)
    BY DEF Types, Session, Sweeping, Running
  <2>2. Cur \in ToSet(s.runs)
    BY <2>1, HeadAndTail DEF Cur
  <2>3. Cur.task \in DOMAIN s.exits
    BY <2>1, <2>2 DEF Loads, Certs, Sweeping
  <2> DEFINE t == Cur.task
  <2>4. /\ t \in Task /\ s.exits[t] \in Nat /\ CertifiedOn(events, t, s.exits[t])
        /\ s.loaded[t] <= s.exits[t] /\ s.exits[t] <= content[t]
    BY <2>1, <2>3 DEF Certs
  <2>5. content[t] \in Nat
    <3>1. content \in [Task -> 0..edits] /\ edits \in 0..MaxEdits
      BY DEF Types, World
    <3> QED BY <2>4, <3>1
  <2>6. s.exits[t] = content[t]
    BY <2>4, <2>5
  <2> QED BY <2>4, <2>6 DEF CertifiedOn
<1> QED BY <1>1, AccountsHold, PTL

-----------------------------------------------------------------------------
(* What resume drops, and what the sweep leaves done *)

\* The tasks of an invocation are each named once.  The corpus's own are; a list given as --tasks
\* is not refused when it names one twice, and its second copy is then paid for as well.
NoTaskTwice == IsInjective(TaskSeq)

\* The runs left are the arms' and each is left once.
Once == IsInjective(s.runs)
ArmsOf == s.mode # "probe" => \A c \in ToSet(s.runs) : c.arm \in ToSet(s.arms)

\* When resume read the log on a clean corpus, no run left carries a verdict for the sha it read and
\* the model its arm had.
Spared ==
  s.planClean =>
    \A c \in ToSet(s.runs) : \A i \in Ended(events, {}) :
      ~ (/\ events[i].cell = c /\ events[i].sha = s.planSha /\ events[i].model = s.models[c.arm])

\* The shas a cell of the plan may be done at, by now.
Shas ==
  IF pc = "resume" THEN {}
  ELSE IF pc \in {"projection", "sweep"} THEN {s.planSha} ELSE {s.planSha, s.sha}

Covered ==
  \A c \in s.plan :
    \/ c \in ToSet(s.runs)
    \/ \E i \in Ended(events, {}) :
         events[i].cell = c /\ events[i].model = s.models[c.arm] /\ events[i].sha \in Shas

\* What a step does to the runs that ended.
LEMMA EndedNext ==
  ASSUME Types, RunOf, [Next]_vars
  PROVE  /\ \A i \in Ended(events, {}) : events'[i] = events[i]
         /\ \/ /\ ~RunStarts /\ ~Score
               /\ \/ Ended(events', {}) = Ended(events, {})
                  \/ Ends
            \/ RunStarts /\ Ended(events', {}) = {i \in Ended(events, {}) : events[i].cell # Cur}
            \/ Score /\ Ended(events', {}) = Ended(events, {}) \cup {s.run}
                     /\ events'[s.run] = events[s.run]
<1>1. Logged /\ Len(events) \in Nat /\ events \in Seq(ToSet(events)) /\ lost = {} /\ DOMAIN s = Fields
  BY DEF Types, Logged, Session
<1>2. ASSUME NEW e, Record(e)
      PROVE  /\ e.type \notin {"run", "verdict"} => Ended(events', {}) = Ended(events, {})
             /\ e.type = "run" => Ended(events', {}) = {i \in Ended(events, {}) : events[i].cell # e.cell}
             /\ e.type = "verdict" =>
                  Ended(events', {}) =
                    Ended(events, {}) \cup {i \in Current(events, {}) : events[i].cell = e.cell}
             /\ \A i \in Ended(events, {}) : events'[i] = events[i]
  <2>1. events' = Append(events, e)
    BY <1>2 DEF Record
  <2> QED BY <1>1, <2>1, EndedAfter
<1>3. \A i \in Ended(events, {}) : events'[i] = events[i]
  <2>1. CASE UNCHANGED events
    BY <2>1
  <2>2. CASE \E e : Record(e)
    BY <1>2, <2>2
  <2> QED BY <2>1, <2>2, Grows
<1>4. CASE RunStarts
  <2> DEFINE e == RunEvent(TRUE)
  <2>1. Record(e) /\ e.type = "run" /\ e.cell = Cur
    BY <1>4, Recording DEF RunStarts
  <2> HIDE DEF e
  <2> QED BY <1>2, <1>3, <1>4, <2>1
<1>5. CASE Score
  <2> DEFINE e == [type |-> "verdict", cell |-> Cur, cause |-> s.run]
  <2>1. e.type = "verdict" /\ e.cell = Cur
    OBVIOUS
  <2>2. Record(e) /\ pc = "ran"
    BY <1>1, <1>5, ScoreSets
  <2> HIDE DEF e
  <2>3. /\ s.run \in 1..Len(events) /\ s.run = Len(events)
        /\ events[s.run].type = "run" /\ events[s.run].cell = Cur
    BY <2>2 DEF RunOf
  <2>4. {i \in Current(events, {}) : events[i].cell = Cur} = {s.run}
    <3>1. \A i \in 1..Len(events) : i <= s.run
      BY <2>3
    <3>2. s.run \in Current(events, {})
      BY <2>3, <3>1 DEF Current, Usable
    <3>3. ASSUME NEW i \in Current(events, {}), events[i].cell = Cur PROVE i = s.run
      <4>1. i \in 1..Len(events) /\ s.run <= i
        BY <2>3, <3>3 DEF Current, Usable
      <4> QED BY <4>1, <3>1, <2>3
    <3> QED BY <2>3, <3>2, <3>3
  <2>5. events'[s.run] = events[s.run]
    BY <1>1, <2>2, <2>3, Recorded
  <2> QED BY <1>2, <1>3, <1>5, <2>1, <2>2, <2>4, <2>5
<1>6. CASE ~RunStarts /\ ~Score /\ ~Ends
  <2>1. CASE Certify
    <3> DEFINE e == [type |-> "verified", task |-> Head(s.need), content |-> s.exits[Head(s.need)]]
    <3>1. e.type = "verified"
      OBVIOUS
    <3>2. Record(e)
      BY <1>1, <2>1, CertifySets
    <3> HIDE DEF e
    <3> QED BY <1>2, <1>3, <1>6, <3>1, <3>2
  <2>2. CASE ProbeProves
    <3> DEFINE e == [type |-> "probe", proven |-> TRUE, call |-> calls]
    <3>1. e.type = "probe"
      OBVIOUS
    <3>2. Record(e)
      BY <2>2 DEF ProbeProves
    <3> HIDE DEF e
    <3> QED BY <1>2, <1>3, <1>6, <3>1, <3>2
  <2>3. CASE Beside \/ Moves \/ Invoke \/ InvokeProbe \/ Resume \/ ReuseVerified \/ VerifyTasks
             \/ LaunchProbe \/ Launch
    <3>1. events' = events
      BY <2>3 DEF Beside, Moves, Invoke, InvokeProbe, Resume, ReuseVerified, VerifyTasks,
                  LaunchProbe, Launch
    <3> QED BY <1>3, <1>6, <3>1
  <2> QED BY <1>6, <2>1, <2>2, <2>3, Kinds
<1>7. CASE Ends /\ ~RunStarts /\ ~Score
  BY <1>3, <1>7
<1> QED BY <1>4, <1>5, <1>6, <1>7

\* Most steps leave the plan and the runs that ended alone.
LEMMA PlanKept ==
  ASSUME Types, RunOf, [Next]_vars
  PROVE  \/ Ends \/ Invoke \/ InvokeProbe \/ Resume \/ RunStarts \/ Score
         \/ /\ KeepsPlan /\ KeepsOptions
            /\ Ended(events', {}) = Ended(events, {}) /\ Shas \subseteq Shas'
<1> SUFFICES ASSUME ~ (Ends \/ Invoke \/ InvokeProbe \/ Resume \/ RunStarts \/ Score)
             PROVE  /\ KeepsPlan /\ KeepsOptions
                    /\ Ended(events', {}) = Ended(events, {}) /\ Shas \subseteq Shas'
  OBVIOUS
<1>1. /\ Session /\ DOMAIN s = Fields /\ s.paid \in Nat /\ s.tasks \in Seq(Task) /\ lost = {}
  BY DEF Types, Session, Logged
<1>2. Ended(events', {}) = Ended(events, {})
  BY EndedNext
<1>3. CASE Beside
  BY <1>2, <1>3 DEF Beside, KeepsPlan, KeepsOptions, Shas
<1>4. CASE Moves
  BY <1>2, <1>4 DEF Moves, KeepsPlan, KeepsOptions, Shas
<1>5. CASE ReuseVerified
  BY <1>1, <1>2, <1>5, ReuseSets DEF KeepsPlan, Shas
<1>6. CASE VerifyTasks
  BY <1>1, <1>2, <1>6, VerifySets DEF KeepsPlan, Shas
<1>7. CASE Certify
  BY <1>1, <1>2, <1>7, CertifySets DEF KeepsPlan, Shas
<1>8. CASE LaunchProbe \/ Launch
  <2>1. /\ Worked(Cur.arm)
        /\ (pc = "probe" /\ pc' = "probed") \/ (pc = "recorded" /\ pc' = "ran")
    BY <1>8 DEF LaunchProbe, Launch, Goto
  <2>2. Cur.arm \in Arm
    BY <1>1, <2>1, CurIs DEF Session
  <2> QED BY <1>1, <1>2, <2>1, <2>2, WorkedSets DEF KeepsPlan, KeepsChecks, Shas
<1>9. CASE ProbeProves
  BY <1>1, <1>2, <1>9, ProbeSets DEF ProbeProves, KeepsPlan, KeepsChecks, Shas
<1> QED BY <1>3, <1>4, <1>5, <1>6, <1>7, <1>8, <1>9, Kinds

LEMMA OnceNext == NoTaskTwice /\ Types /\ Once /\ [Next]_vars => Once'
<1> SUFFICES ASSUME NoTaskTwice, Types, Once, [Next]_vars PROVE IsInjective(s'.runs)
  BY DEF Once
<1>1. /\ Session /\ DOMAIN s = Fields /\ s.paid \in Nat /\ s.tasks \in Seq(Task) /\ lost = {}
      /\ s.runs \in Seq(Cell)
  BY DEF Types, Session, Logged
<1>2. CASE s'.runs = s.runs
  BY <1>2 DEF Once
<1>3. CASE Ends
  <2>1. s'.runs = << >>
    BY <1>3, NoneYet DEF Ends, End
  <2>2. IsInjective(<< >>)
    BY DEF IsInjective
  <2> QED BY <2>1, <2>2
<1>4. CASE Invoke
  BY <1>4, InvokeSets DEF NoTaskTwice
<1>5. CASE InvokeProbe
  BY <1>5, InvokeProbeSets
<1>6. CASE Resume
  <2> DEFINE R == ToSet(s.runs) \ DoneCells
  <2>1. s'.runs = Keep(s.runs, R)
    BY <1>1, <1>6, ResumeSets
  <2> HIDE DEF R
  <2> QED BY <1>1, <2>1, Kept DEF Once
<1>7. CASE Score
  <2>1. s'.runs = Tail(s.runs) /\ pc = "ran"
    BY <1>1, <1>7, ScoreSets
  <2>2. s.runs # << >>
    BY <1>1, <2>1 DEF Session
  <2> QED BY <1>1, <2>1, <2>2, HeadAndTail DEF Once
<1>8. CASE Beside \/ Moves
  BY <1>2, <1>8 DEF Beside, Moves
<1>9. CASE ReuseVerified
  BY <1>1, <1>2, <1>9, ReuseSets DEF KeepsPlan
<1>10. CASE VerifyTasks
  BY <1>1, <1>2, <1>10, VerifySets DEF KeepsPlan
<1>11. CASE Certify
  BY <1>1, <1>2, <1>11, CertifySets DEF KeepsPlan
<1>12. CASE LaunchProbe \/ Launch
  <2>1. Worked(Cur.arm) /\ pc \in {"probe", "recorded"}
    BY <1>12 DEF LaunchProbe, Launch
  <2>2. Cur.arm \in Arm
    BY <1>1, <2>1, CurIs DEF Session
  <2> QED BY <1>1, <1>2, <2>1, <2>2, WorkedSets DEF KeepsPlan
<1>13. CASE ProbeProves
  BY <1>1, <1>2, <1>13, ProbeSets DEF KeepsPlan
<1>14. CASE RunStarts
  BY <1>1, <1>2, <1>14, RunSets DEF KeepsPlan
<1> QED BY <1>3, <1>4, <1>5, <1>6, <1>7, <1>8, <1>9, <1>10, <1>11, <1>12, <1>13, <1>14, Kinds

LEMMA ArmsOfNext == Types /\ RunOf /\ ArmsOf /\ [Next]_vars => ArmsOf'
<1> SUFFICES ASSUME Types, RunOf, ArmsOf, [Next]_vars, s'.mode # "probe"
             PROVE  \A c \in ToSet(s'.runs) : c.arm \in ToSet(s'.arms)
  BY DEF ArmsOf
<1>1. /\ Session /\ DOMAIN s = Fields /\ s.runs \in Seq(Cell)
  BY DEF Types, Session
<1>2. ASSUME KeepsOptions, ToSet(s'.runs) \subseteq ToSet(s.runs)
      PROVE  \A c \in ToSet(s'.runs) : c.arm \in ToSet(s'.arms)
  BY <1>2 DEF ArmsOf, KeepsOptions
<1>3. CASE Ends
  <2>1. s'.runs = << >>
    BY <1>3, NoneYet DEF Ends, End
  <2>2. ToSet(<< >>) = {}
    BY DEF ToSet
  <2> QED BY <2>1, <2>2
<1>4. CASE Invoke \/ InvokeProbe
  BY <1>4, InvokeSets, InvokeProbeSets
<1>5. CASE Resume
  <2> DEFINE R == ToSet(s.runs) \ DoneCells
  <2>1. s'.runs = Keep(s.runs, R) /\ KeepsOptions
    BY <1>1, <1>5, ResumeSets
  <2> HIDE DEF R
  <2>2. ToSet(Keep(s.runs, R)) = ToSet(s.runs) \cap R
    BY <1>1, Kept
  <2> QED BY <1>2, <2>1, <2>2
<1>6. CASE Score
  <2>1. s'.runs = Tail(s.runs) /\ pc = "ran" /\ KeepsOptions
    BY <1>1, <1>6, ScoreSets
  <2>2. s.runs # << >>
    BY <1>1, <2>1 DEF Session
  <2> QED BY <1>1, <1>2, <2>1, <2>2, HeadAndTail
<1>7. CASE RunStarts
  BY <1>1, <1>2, <1>7, RunSets DEF KeepsPlan
<1>8. CASE KeepsPlan /\ KeepsOptions
  BY <1>2, <1>8 DEF KeepsPlan
<1> QED BY <1>3, <1>4, <1>5, <1>6, <1>7, <1>8, PlanKept

LEMMA SparedNext == Types /\ RunOf /\ Once /\ ArmsOf /\ Spared /\ [Next]_vars => Spared'
<1> SUFFICES ASSUME Types, RunOf, Once, ArmsOf, Spared, [Next]_vars, s'.planClean = TRUE,
                    NEW c \in ToSet(s'.runs), NEW i \in Ended(events', {}),
                    events'[i].cell = c, events'[i].sha = s'.planSha,
                    events'[i].model = s'.models[c.arm]
             PROVE  FALSE
  <2>1. s'.planClean => s'.planClean = TRUE
    OBVIOUS
  <2> QED BY <2>1 DEF Spared
<1>1. /\ Session /\ DOMAIN s = Fields /\ s.runs \in Seq(Cell) /\ lost = {}
  BY DEF Types, Session, Logged
<1>2. \A j \in Ended(events, {}) : events'[j] = events[j]
  BY EndedNext
<1>3. ~ (/\ s'.planClean = s.planClean /\ s'.planSha = s.planSha /\ KeepsOptions
         /\ c \in ToSet(s.runs) /\ i \in Ended(events, {}))
  BY <1>2 DEF Spared, KeepsOptions
<1>4. CASE Ends
  BY <1>4, NoneYet DEF Ends, End
<1>5. CASE Invoke \/ InvokeProbe
  BY <1>5, InvokeSets, InvokeProbeSets
<1>6. CASE Resume
  <2> DEFINE R == ToSet(s.runs) \ DoneCells
  <2>1. /\ s'.runs = Keep(s.runs, R) /\ KeepsOptions /\ s'.planSha = sha /\ s'.planClean = ~dirty
        /\ pc = "resume" /\ events' = events
    BY <1>1, <1>6, ResumeSets
  <2>2. ToSet(Keep(s.runs, R)) = ToSet(s.runs) \cap R
    <3> HIDE DEF R
    <3> QED BY <1>1, Kept
  <2>3. c \in ToSet(s.runs) /\ c \notin DoneCells
    BY <2>1, <2>2
  <2>4. s.mode # "probe"
    BY <1>1, <2>1 DEF Session
  <2>5. c.arm \in ToSet(s.arms)
    BY <2>3, <2>4 DEF ArmsOf
  <2>6. ~dirty
    BY <2>1
  <2>7. /\ i \in Ended(events, lost) /\ events[i].sha = sha /\ events[i].cell.arm = c.arm
        /\ events[i].model = s.models[c.arm] /\ events[i].cell = c
    BY <1>1, <2>1 DEF KeepsOptions
  <2>8. c \in DoneCells
    BY <2>5, <2>6, <2>7 DEF DoneCells
  <2> QED BY <2>3, <2>8
<1>7. CASE RunStarts
  <2>1. KeepsPlan /\ KeepsOptions /\ i \in Ended(events, {})
    <3>1. RunStarts /\ ~Score
      BY <1>1, <1>7, ScoreSets DEF RunStarts
    <3> QED BY <1>1, <1>7, <3>1, RunSets, EndedNext
  <2> QED BY <1>3, <2>1 DEF KeepsPlan
<1>8. CASE Score
  <2>1. /\ s'.runs = Tail(s.runs) /\ pc = "ran" /\ KeepsOptions
        /\ s'.planSha = s.planSha /\ s'.planClean = s.planClean
    BY <1>1, <1>8, ScoreSets
  <2>2. s.runs # << >>
    BY <1>1, <2>1 DEF Session
  <2>3. /\ ToSet(s.runs) = {Head(s.runs)} \cup ToSet(Tail(s.runs))
        /\ Head(s.runs) \notin ToSet(Tail(s.runs))
    BY <1>1, <2>2, HeadAndTail DEF Once
  <2>4. i \in Ended(events, {}) \/ (i = s.run /\ events'[i] = events[s.run])
    <3>1. ~RunStarts
      BY <2>1 DEF RunStarts
    <3> QED BY <1>8, <3>1, EndedNext
  <2>5. events[s.run].cell = Head(s.runs)
    BY <2>1 DEF RunOf, Cur
  <2> QED BY <1>3, <2>1, <2>3, <2>4, <2>5
<1>9. CASE KeepsPlan /\ KeepsOptions /\ Ended(events', {}) = Ended(events, {})
  BY <1>3, <1>9 DEF KeepsPlan
<1> QED BY <1>4, <1>5, <1>6, <1>7, <1>8, <1>9, PlanKept

LEMMA CoveredNext == Types /\ RunOf /\ Covered /\ [Next]_vars => Covered'
<1> SUFFICES ASSUME Types, RunOf, Covered, [Next]_vars, NEW c \in s'.plan
             PROVE  \/ c \in ToSet(s'.runs)
                    \/ \E i \in Ended(events', {}) :
                         /\ events'[i].cell = c /\ events'[i].model = s'.models[c.arm]
                         /\ events'[i].sha \in Shas'
  BY DEF Covered
<1>1. /\ Session /\ DOMAIN s = Fields /\ s.runs \in Seq(Cell) /\ lost = {}
  BY DEF Types, Session, Logged
<1>2. \A j \in Ended(events, {}) : events'[j] = events[j]
  BY EndedNext
<1>3. ASSUME KeepsOptions
      PROVE  \/ c \in ToSet(s.runs)
             \/ \E i \in Ended(events, {}) :
                  events[i].cell = c /\ events[i].model = s.models[c.arm] /\ events[i].sha \in Shas
  BY <1>3 DEF Covered, KeepsOptions
<1>4. CASE Ends
  BY <1>4, NoneYet DEF Ends, End
<1>5. CASE Invoke \/ InvokeProbe
  BY <1>5, InvokeSets, InvokeProbeSets
<1>6. CASE Resume
  <2> DEFINE R == ToSet(s.runs) \ DoneCells
  <2>1. /\ s'.runs = Keep(s.runs, R) /\ KeepsOptions /\ s'.planSha = sha
        /\ pc = "resume" /\ pc' = "projection" /\ events' = events
    BY <1>1, <1>6, ResumeSets
  <2>2. ToSet(Keep(s.runs, R)) = ToSet(s.runs) \cap R
    <3> HIDE DEF R
    <3> QED BY <1>1, Kept
  <2>3. c \in ToSet(s.runs)
    BY <1>3, <2>1 DEF Shas
  <2>4. CASE c \notin DoneCells
    BY <2>1, <2>2, <2>3, <2>4
  <2>5. CASE c \in DoneCells
    <3>1. PICK i \in Ended(events, lost) :
            /\ events[i].sha = sha /\ events[i].cell = c
            /\ \E a \in ToSet(s.arms) : events[i].cell.arm = a /\ events[i].model = s.models[a]
      BY <2>5 DEF DoneCells
    <3>2. events[i].model = s'.models[c.arm] /\ i \in Ended(events', {}) /\ sha \in Shas'
      BY <1>1, <2>1, <3>1 DEF KeepsOptions, Shas
    <3> QED BY <2>1, <3>1, <3>2
  <2> QED BY <2>4, <2>5
<1>7. CASE RunStarts
  <2>1. /\ KeepsPlan /\ KeepsOptions /\ KeepsChecks /\ pc = "prepared" /\ pc' = "recorded"
    BY <1>1, <1>7, RunSets DEF RunStarts
  <2>2. Ended(events', {}) = {i \in Ended(events, {}) : events[i].cell # Cur}
    <3>1. ~Score
      BY <1>1, <2>1, ScoreSets
    <3> QED BY <1>7, <3>1, EndedNext
  <2>3. Cur \in ToSet(s.runs)
    <3>1. s.runs # << >>
      BY <1>1, <2>1 DEF Session
    <3> QED BY <1>1, <3>1, HeadAndTail DEF Cur
  <2>4. Shas' = Shas
    BY <2>1 DEF Shas, KeepsPlan, KeepsChecks
  <2>5. CASE c \in ToSet(s.runs)
    BY <2>1, <2>5 DEF KeepsPlan
  <2>6. CASE c \notin ToSet(s.runs)
    <3>1. PICK i \in Ended(events, {}) :
            events[i].cell = c /\ events[i].model = s.models[c.arm] /\ events[i].sha \in Shas
      BY <1>3, <2>1, <2>6
    <3>2. i \in Ended(events', {}) /\ events'[i] = events[i]
      BY <1>2, <2>2, <2>3, <2>6, <3>1
    <3> QED BY <2>1, <2>4, <3>1, <3>2 DEF KeepsOptions
  <2> QED BY <2>5, <2>6
<1>8. CASE Score
  <2>1. /\ s'.runs = Tail(s.runs) /\ pc = "ran" /\ pc' = "next" /\ KeepsOptions /\ KeepsChecks
        /\ s'.planSha = s.planSha
    BY <1>1, <1>8, ScoreSets
  <2>2. Ended(events', {}) = Ended(events, {}) \cup {s.run} /\ events'[s.run] = events[s.run]
    <3>1. ~RunStarts
      BY <2>1 DEF RunStarts
    <3> QED BY <1>8, <3>1, EndedNext
  <2>3. ToSet(s.runs) = {Head(s.runs)} \cup ToSet(Tail(s.runs))
    <3>1. s.runs # << >>
      BY <1>1, <2>1 DEF Session
    <3> QED BY <1>1, <3>1, HeadAndTail
  <2>4. Shas' = Shas /\ s.sha \in Shas'
    BY <2>1 DEF Shas, KeepsChecks
  <2>5. CASE c = Cur
    <3>1. /\ events[s.run].cell = c /\ events[s.run].model = s'.models[c.arm]
          /\ events[s.run].sha \in Shas'
      BY <2>1, <2>4, <2>5 DEF RunOf, KeepsOptions
    <3> QED BY <2>2, <3>1
  <2>6. CASE c # Cur /\ c \in ToSet(s.runs)
    BY <2>1, <2>3, <2>6 DEF Cur
  <2>7. CASE c \notin ToSet(s.runs)
    <3>1. PICK i \in Ended(events, {}) :
            events[i].cell = c /\ events[i].model = s.models[c.arm] /\ events[i].sha \in Shas
      BY <1>3, <2>1, <2>7
    <3>2. i \in Ended(events', {}) /\ events'[i] = events[i]
      BY <1>2, <2>2, <3>1
    <3> QED BY <2>1, <2>4, <3>1, <3>2 DEF KeepsOptions
  <2> QED BY <2>5, <2>6, <2>7
<1>9. CASE KeepsPlan /\ KeepsOptions /\ Ended(events', {}) = Ended(events, {}) /\ Shas \subseteq Shas'
  <2>1. CASE c \in ToSet(s.runs)
    BY <1>9, <2>1 DEF KeepsPlan
  <2>2. CASE c \notin ToSet(s.runs)
    <3>1. PICK i \in Ended(events, {}) :
            events[i].cell = c /\ events[i].model = s.models[c.arm] /\ events[i].sha \in Shas
      BY <1>3, <1>9, <2>2
    <3>2. i \in Ended(events', {}) /\ events'[i] = events[i] /\ events[i].sha \in Shas'
      BY <1>2, <1>9, <3>1
    <3> QED BY <1>9, <3>1, <3>2 DEF KeepsOptions
  <2> QED BY <2>1, <2>2
<1> QED BY <1>4, <1>5, <1>6, <1>7, <1>8, <1>9, PlanKept

LEMMA NoRunsYet ==
  ASSUME Init
  PROVE  Once /\ ArmsOf /\ Spared /\ Covered
<1>1. s.runs = << >> /\ s.plan = {}
  BY NoneYet DEF Init
<1>2. ToSet(<< >>) = {} /\ IsInjective(<< >>)
  BY DEF ToSet, IsInjective
<1> QED BY <1>1, <1>2 DEF Once, ArmsOf, Spared, Covered

\* However the earlier invocations ended, and whatever was committed or repointed since: an
\* invocation that resumes on a clean corpus, which the sha its runs carry still names, starts no
\* run of a cell that ended in a verdict for that sha and for the model of its arm.
THEOREM SweepPaysOnce ==
  ASSUME NoTaskTwice
  PROVE  Spec => []NotPaidTwice
<1>1. Types /\ Spared => NotPaidTwice
  <2> SUFFICES ASSUME Types, Spared, pc = "prepared", s.planClean, s.planSha = s.sha,
                      NEW i \in Ended(events, lost),
                      events[i].cell = Cur, events[i].sha = s.sha,
                      events[i].model = s.models[Cur.arm]
               PROVE  FALSE
    BY DEF NotPaidTwice
  <2>1. lost = {} /\ s.runs \in Seq(Cell) /\ s.runs # << >>
    BY DEF Types, Logged, Session
  <2>2. Cur \in ToSet(s.runs)
    BY <2>1, HeadAndTail DEF Cur
  <2> QED BY <2>1, <2>2 DEF Spared
<1>2. Types /\ RunOf /\ (Once /\ ArmsOf /\ Spared) /\ [Next]_vars => (Once /\ ArmsOf /\ Spared)'
  BY NoTaskTwice, OnceNext, ArmsOfNext, SparedNext
<1>3. Init => Once /\ ArmsOf /\ Spared
  BY NoRunsYet
<1> QED BY <1>1, <1>2, <1>3, PairsHold, PTL DEF Spec

\* An invocation that comes to the end of its plan, or finds nothing left of it, leaves every cell
\* it planned with a verdict for the arm's model and for a sha it read; whatever resume dropped,
\* the log holds.
THEOREM SweepLeavesNothing == Spec => []NothingLeftUndone
<1>1. Types /\ Covered => NothingLeftUndone
  <2> SUFFICES ASSUME Types, Covered, pc \in {"projection", "next"}, s.runs = << >>, NEW c \in s.plan
               PROVE  \E i \in Ended(events, lost) :
                        /\ events[i].cell = c /\ events[i].model = s.models[c.arm]
                        /\ events[i].sha \in {s.planSha, s.sha}
    BY DEF NothingLeftUndone
  <2>1. lost = {}
    BY DEF Types, Logged
  <2>2. c \notin ToSet(s.runs)
    BY DEF ToSet
  <2>3. Shas \subseteq {s.planSha, s.sha}
    BY DEF Shas
  <2> QED BY <2>1, <2>2, <2>3 DEF Covered
<1>2. Types /\ RunOf /\ Covered /\ [Next]_vars => Covered'
  BY CoveredNext
<1>3. Init => Covered
  BY NoRunsYet
<1> QED BY <1>1, <1>2, <1>3, PairsHold, PTL DEF Spec

=============================================================================
