---------------------------- MODULE StreamProofs ----------------------------
(***************************************************************************)
(* For any calls, models, durations and lost lines: what Stream promises   *)
(* of a run's verdict and of a probe's proof.                              *)
(***************************************************************************)
EXTENDS Stream, TLAPS, FiniteSetTheorems, WellFoundedInduction

-----------------------------------------------------------------------------
(* Sums *)

\* A set of natural numbers that is not empty has a least one.
LEMMA Least ==
  ASSUME NEW B, B \subseteq Nat, B # {}
  PROVE  \E n \in B : \A m \in B : n <= m
<1> DEFINE R == OpToRel(<, Nat)
<1>1. IsWellFoundedOn(R, Nat)
  BY NatLessThanWellFounded
<1>2. \A x, y \in Nat : <<x, y>> \in R <=> x < y
  BY DEF OpToRel
<1> HIDE DEF R
<1>3. PICK x \in B : \A y \in B : ~ (<<y, x>> \in R)
  BY <1>1, WFMin
<1>4. \A y \in B : ~ (y < x)
  BY <1>2, <1>3
<1>5. \A y \in B : x <= y
  BY <1>4
<1> QED BY <1>5

\* The subsets of X with no more than n members, and what SumOf's function gives each.
Small(X, n) == {D \in SUBSET X : Cardinality(D) <= n}
First(D) == CHOOSE m \in D : TRUE
Turns(S, f, X) ==
  \A D \in SUBSET X : S[D] = IF D = {} THEN 0 ELSE f[First(D)] + S[D \ {First(D)}]
Sums(S, f, Y) == S = [D \in Y |-> IF D = {} THEN 0 ELSE f[First(D)] + S[D \ {First(D)}]]

LEMMA FirstIn ==
  ASSUME NEW X, IsFiniteSet(X), NEW D \in SUBSET X, D # {}
  PROVE  /\ First(D) \in D /\ First(D) \in X /\ D \ {First(D)} \in SUBSET X
         /\ IsFiniteSet(D) /\ Cardinality(D) \in Nat \ {0}
         /\ Cardinality(D \ {First(D)}) = Cardinality(D) - 1
<1>1. First(D) \in D
  BY DEF First
<1>2. IsFiniteSet(D)
  BY FS_Subset
<1>3. Cardinality(D) \in Nat /\ Cardinality(D) # 0
  BY <1>2, FS_CardinalityType, FS_EmptySet
<1>4. Cardinality(D \ {First(D)}) = Cardinality(D) - 1
  BY <1>1, <1>2, FS_RemoveElement
<1> QED BY <1>1, <1>2, <1>3, <1>4

LEMMA SumsExist ==
  ASSUME NEW X, IsFiniteSet(X), NEW f, NEW N \in Nat
  PROVE  \E S : Sums(S, f, Small(X, N))
<1> DEFINE B == {n \in Nat : ~ \E S : Sums(S, f, Small(X, n))}
<1>1. SUFFICES ASSUME B # {} PROVE FALSE
  OBVIOUS
<1>2. PICK n \in B : \A m \in B : n <= m
  BY <1>1, Least
<1>3. \A D \in SUBSET X : Cardinality(D) \in Nat /\ (Cardinality(D) = 0 <=> D = {})
  BY FS_Subset, FS_CardinalityType, FS_EmptySet
<1>4. n # 0
  <2>1. Sums([D \in Small(X, 0) |-> 0], f, Small(X, 0))
    <3>1. \A D \in Small(X, 0) : D = {}
      BY <1>3 DEF Small
    <3> QED BY <3>1 DEF Sums
  <2> QED BY <2>1, <1>2
<1>5. PICK S : Sums(S, f, Small(X, n - 1))
  <2>1. n - 1 \in Nat /\ n - 1 \notin B
    BY <1>2, <1>4
  <2> QED BY <2>1
<1> DEFINE T == [D \in Small(X, n) |-> IF D = {} THEN 0 ELSE f[First(D)] + S[D \ {First(D)}]]
<1>6. \A D \in Small(X, n - 1) : D \in Small(X, n) /\ S[D] = T[D]
  <2>1. \A D \in Small(X, n - 1) : D \in Small(X, n)
    BY <1>2, <1>3 DEF Small
  <2> QED BY <2>1, <1>5 DEF Sums
<1>7. \A D \in Small(X, n) : D # {} => D \ {First(D)} \in Small(X, n - 1)
  <2> SUFFICES ASSUME NEW D \in Small(X, n), D # {} PROVE D \ {First(D)} \in Small(X, n - 1)
    OBVIOUS
  <2>1. D \in SUBSET X /\ Cardinality(D) <= n
    BY DEF Small
  <2>2. D \ {First(D)} \in SUBSET X /\ Cardinality(D \ {First(D)}) = Cardinality(D) - 1
        /\ Cardinality(D) \in Nat
    BY <2>1, FirstIn
  <2> QED BY <2>1, <2>2, <1>2 DEF Small
<1>8. Sums(T, f, Small(X, n))
  <2>1. \A D \in Small(X, n) : T[D] = IF D = {} THEN 0 ELSE f[First(D)] + T[D \ {First(D)}]
    BY <1>6, <1>7
  <2>2. T = [D \in Small(X, n) |-> T[D]]
    OBVIOUS
  <2> HIDE DEF T
  <2> QED BY <2>1, <2>2 DEF Sums
<1> QED BY <1>2, <1>8

\* SumOf by one turn of its function, on every set that it may be given.
LEMMA SumsAre ==
  ASSUME NEW f, IsFiniteSet(DOMAIN f)
  PROVE  \E S : SumOf(f) = S[DOMAIN f] /\ Turns(S, f, DOMAIN f)
<1> DEFINE X == DOMAIN f
           S[D \in SUBSET X] == IF D = {} THEN 0 ELSE LET m == CHOOSE m \in D : TRUE IN f[m] + S[D \ {m}]
<1>1. SumOf(f) = S[X]
  BY DEF SumOf
<1>2. Cardinality(X) \in Nat /\ Small(X, Cardinality(X)) = SUBSET X
  BY FS_Subset, FS_CardinalityType DEF Small
<1>3. PICK T : Sums(T, f, SUBSET X)
  <2> HIDE DEF S, X
  <2>1. IsFiniteSet(X)
    BY DEF X
  <2>2. \E T : Sums(T, f, Small(X, Cardinality(X)))
    BY <2>1, <1>2, SumsExist
  <2> QED BY <2>2, <1>2
<1>4. T = [D \in SUBSET X |-> IF D = {} THEN 0 ELSE LET m == CHOOSE m \in D : TRUE IN f[m] + T[D \ {m}]]
  BY <1>3 DEF Sums, First
<1>5. S = [D \in SUBSET X |-> IF D = {} THEN 0 ELSE LET m == CHOOSE m \in D : TRUE IN f[m] + S[D \ {m}]]
  BY <1>4
<1> HIDE DEF S, X
<1>6. Turns(S, f, X)
  BY <1>5 DEF First, Turns
<1> QED BY <1>1, <1>6 DEF X

\* A sum does not depend on the order in which its terms are taken.
LEMMA AnyTurn ==
  ASSUME NEW X, IsFiniteSet(X), NEW f, \A x \in X : f[x] \in Nat, NEW S, Turns(S, f, X)
  PROVE  \A D \in SUBSET X : S[D] \in Nat /\ \A m \in D : S[D] = f[m] + S[D \ {m}]
<1> DEFINE Good(D) == S[D] \in Nat /\ \A m \in D : S[D] = f[m] + S[D \ {m}]
           B == {n \in Nat : \E D \in SUBSET X : Cardinality(D) = n /\ ~Good(D)}
<1>1. \A D \in SUBSET X : IsFiniteSet(D) /\ Cardinality(D) \in Nat
  BY FS_Subset, FS_CardinalityType
<1>2. SUFFICES ASSUME B # {} PROVE FALSE
  <2>1. \A D \in SUBSET X : Good(D)
    BY <1>1, <1>2
  <2> QED BY <2>1
<1>3. PICK n \in B : \A m \in B : n <= m
  BY <1>2, Least
<1>4. PICK D \in SUBSET X : Cardinality(D) = n /\ ~Good(D)
  BY <1>3
<1>5. ASSUME NEW E \in SUBSET X, Cardinality(E) < n PROVE Good(E)
  <2>1. Cardinality(E) \notin B
    BY <1>1, <1>3, <1>5
  <2> QED BY <2>1, <1>1
<1>6. D # {}
  <2> SUFFICES ASSUME D = {} PROVE Good(D)
    BY <1>4
  <2>1. S[D] = 0
    BY DEF Turns
  <2> QED BY <2>1
<1> DEFINE c == First(D)
<1>7. /\ c \in D /\ D \ {c} \in SUBSET X /\ Cardinality(D \ {c}) < n
      /\ S[D] = f[c] + S[D \ {c}]
  BY <1>4, <1>6, FirstIn DEF Turns
<1>8. S[D \ {c}] \in Nat /\ f[c] \in Nat
  BY <1>5, <1>7
<1>9. S[D] \in Nat
  BY <1>7, <1>8
<1> HIDE DEF c
<1>10. ASSUME NEW m \in D PROVE S[D] = f[m] + S[D \ {m}]
  <2>1. CASE m = c
    BY <2>1, <1>7
  <2>2. CASE m # c
    <3>1. m \in D \ {c} /\ c \in D \ {m} /\ (D \ {c}) \ {m} = (D \ {m}) \ {c} /\ D \ {m} \in SUBSET X
      BY <2>2, <1>7
    <3>2. Cardinality(D \ {m}) < n
      <4>1. Cardinality(D \ {m}) = Cardinality(D) - 1
        BY <1>1, FS_RemoveElement
      <4> QED BY <4>1, <1>1, <1>4
    <3>3. S[D \ {c}] = f[m] + S[(D \ {c}) \ {m}]
      BY <3>1, <1>5, <1>7
    <3>4. S[D \ {m}] \in Nat /\ S[D \ {m}] = f[c] + S[(D \ {m}) \ {c}]
      BY <3>1, <3>2, <1>5
    <3>5. (D \ {c}) \ {m} \in SUBSET X /\ Cardinality((D \ {c}) \ {m}) < n
      <4>1. IsFiniteSet(D \ {c}) /\ Cardinality(D \ {c}) \in Nat
        BY <1>1, <1>7
      <4>2. Cardinality((D \ {c}) \ {m}) = Cardinality(D \ {c}) - 1
        BY <3>1, <4>1, FS_RemoveElement
      <4> QED BY <4>1, <4>2, <1>3, <1>7
    <3>6. S[(D \ {c}) \ {m}] \in Nat /\ f[m] \in Nat
      BY <3>5, <1>5
    <3> DEFINE u == S[(D \ {c}) \ {m}]
    <3>7. S[D] = f[c] + (f[m] + u) /\ S[D \ {m}] = f[c] + u /\ u \in Nat
      BY <3>1, <3>3, <3>4, <3>6, <1>7
    <3> HIDE DEF u
    <3> QED BY <3>6, <3>7, <1>8
  <2> QED BY <2>1, <2>2
<1> QED BY <1>4, <1>9, <1>10

\* Two sums of the same terms are the same.
LEMMA SameTurns ==
  ASSUME NEW X, IsFiniteSet(X), NEW f, NEW S, Turns(S, f, X),
         NEW Y, NEW g, NEW T, Turns(T, g, Y),
         Y \subseteq X, \A x \in Y : f[x] = g[x]
  PROVE  S[Y] = T[Y]
<1> DEFINE B == {n \in Nat : \E D \in SUBSET Y : Cardinality(D) = n /\ S[D] # T[D]}
<1>1. \A D \in SUBSET Y : D \in SUBSET X /\ IsFiniteSet(D) /\ Cardinality(D) \in Nat
  BY FS_Subset, FS_CardinalityType
<1>2. SUFFICES ASSUME B # {} PROVE FALSE
  BY <1>1
<1>3. PICK n \in B : \A m \in B : n <= m
  BY <1>2, Least
<1>4. PICK D \in SUBSET Y : Cardinality(D) = n /\ S[D] # T[D]
  BY <1>3
<1>5. D # {}
  BY <1>1, <1>4 DEF Turns
<1>6. /\ First(D) \in D /\ D \ {First(D)} \in SUBSET Y
      /\ Cardinality(D \ {First(D)}) = Cardinality(D) - 1
  BY <1>1, <1>5, FirstIn
<1>7. S[D \ {First(D)}] = T[D \ {First(D)}]
  <2>1. Cardinality(D \ {First(D)}) \notin B
    BY <1>1, <1>3, <1>4, <1>6
  <2> QED BY <2>1, <1>1, <1>6
<1>8. S[D] = f[First(D)] + S[D \ {First(D)}] /\ T[D] = g[First(D)] + T[D \ {First(D)}]
  BY <1>1, <1>5 DEF Turns
<1> QED BY <1>4, <1>6, <1>7, <1>8

\* What SumOf gives: nothing for no terms, and otherwise any term and the sum of the rest.
LEMMA SumOfNone ==
  ASSUME NEW f, DOMAIN f = {}
  PROVE  SumOf(f) = 0
<1>1. IsFiniteSet(DOMAIN f)
  BY FS_EmptySet
<1>2. PICK S : SumOf(f) = S[DOMAIN f] /\ Turns(S, f, DOMAIN f)
  BY <1>1, SumsAre
<1> QED BY <1>2 DEF Turns

LEMMA SumOfRest ==
  ASSUME NEW f, IsFiniteSet(DOMAIN f), \A x \in DOMAIN f : f[x] \in Nat
  PROVE  /\ SumOf(f) \in Nat
         /\ \A m \in DOMAIN f : SumOf(f) = f[m] + SumOf([x \in DOMAIN f \ {m} |-> f[x]])
<1>1. PICK S : SumOf(f) = S[DOMAIN f] /\ Turns(S, f, DOMAIN f)
  BY SumsAre
<1>2. SumOf(f) \in Nat /\ \A m \in DOMAIN f : SumOf(f) = f[m] + S[DOMAIN f \ {m}]
  BY <1>1, AnyTurn
<1>3. ASSUME NEW m \in DOMAIN f
      PROVE  SumOf([x \in DOMAIN f \ {m} |-> f[x]]) = S[DOMAIN f \ {m}]
  <2> DEFINE g == [x \in DOMAIN f \ {m} |-> f[x]]
             Y == DOMAIN f \ {m}
  <2>1. DOMAIN g = Y /\ IsFiniteSet(Y) /\ Y \subseteq DOMAIN f /\ \A x \in Y : f[x] = g[x]
    BY FS_Subset
  <2> HIDE DEF g
  <2>2. PICK T : SumOf(g) = T[Y] /\ Turns(T, g, Y)
    BY <2>1, SumsAre
  <2> HIDE DEF Y
  <2>3. S[Y] = T[Y]
    BY <2>1, <2>2, <1>1, SameTurns
  <2> QED BY <2>2, <2>3 DEF g, Y
<1> QED BY <1>2, <1>3

\* A term more, or one that was one less.
LEMMA SumOfOneMore ==
  ASSUME NEW D, IsFiniteSet(D), NEW f, NEW g, NEW m,
         \A x \in D : f[x] \in Nat /\ g[x] \in Nat,
         g[m] \in Nat, \A x \in D \ {m} : g[x] = f[x],
         IF m \in D THEN g[m] = f[m] + 1 ELSE g[m] = 1
  PROVE  /\ SumOf([x \in D |-> f[x]]) \in Nat
         /\ SumOf([x \in D \cup {m} |-> g[x]]) = SumOf([x \in D |-> f[x]]) + 1
<1> DEFINE a == [x \in D |-> f[x]]
           b == [x \in D \cup {m} |-> g[x]]
           R == [x \in D \ {m} |-> f[x]]
<1>1. DOMAIN a = D /\ DOMAIN b = D \cup {m} /\ IsFiniteSet(D \cup {m})
      /\ (\A x \in D : a[x] = f[x]) /\ \A x \in D \cup {m} : b[x] = g[x]
  BY FS_AddElement
<1>2. R = [x \in DOMAIN b \ {m} |-> b[x]] /\ (m \in D => R = [x \in DOMAIN a \ {m} |-> a[x]])
      /\ (m \notin D => R = a)
  BY <1>1
<1> HIDE DEF a, b, R
<1>3. SumOf(b) = g[m] + SumOf(R)
  BY <1>1, <1>2, SumOfRest
<1>4. SumOf(a) \in Nat /\ (m \in D => SumOf(a) = f[m] + SumOf(R))
  BY <1>1, <1>2, SumOfRest
<1>5. IsFiniteSet(DOMAIN R) /\ \A x \in DOMAIN R : R[x] \in Nat
  <2>1. IsFiniteSet(D \ {m})
    BY FS_RemoveElement
  <2> QED BY <2>1 DEF R
<1>6. SumOf(R) \in Nat
  BY <1>5, SumOfRest
<1>7. ASSUME m \in D PROVE SumOf(b) = SumOf(a) + 1
  <2>1. g[m] = f[m] + 1 /\ f[m] \in Nat
    BY <1>7
  <2> QED BY <2>1, <1>3, <1>4, <1>6, <1>7
<1>8. ASSUME m \notin D PROVE SumOf(b) = SumOf(a) + 1
  <2>1. g[m] = 1 /\ SumOf(R) = SumOf(a)
    BY <1>2, <1>8
  <2> QED BY <2>1, <1>3, <1>4
<1> QED BY <1>4, <1>7, <1>8 DEF a, b

-----------------------------------------------------------------------------
(* Fields *)

\* The names of the fields, kept apart from the records that have them.
Happens == DOMAIN Nothing
Reads == DOMAIN Blank

LEMMA Names ==
  /\ Happens = {"model", "source", "calls", "bill", "printed", "answered", "listed",
                "worded", "ending"}
  /\ Reads = {"model", "billing", "uses", "texts", "inputs", "denied", "res"}
BY DEF Happens, Reads, Nothing, Blank

KeepsStart == truth'.model = truth.model /\ truth'.source = truth.source
KeepsWork == truth'.calls = truth.calls /\ truth'.bill = truth.bill
KeepsAnswers == truth'.answered = truth.answered /\ truth'.printed = truth.printed
KeepsRefusals == truth'.listed = truth.listed /\ truth'.worded = truth.worded
KeepsEnding == truth'.ending = truth.ending

KeepsInit == r'.model = r.model /\ r'.billing = r.billing
KeepsUses == r'.uses = r.uses
KeepsInputs == r'.inputs = r.inputs
KeepsTexts == r'.texts = r.texts
KeepsDenied == r'.denied = r.denied
KeepsRes == r'.res = r.res

\* What was lost.
LostUses == {id \in Id : <<"use", id>> \in garbled}
LostAnswers == {id \in Id : <<"answer", id>> \in garbled}
LostResult == <<"result">> \in garbled

KeepsLost == LostUses' = LostUses /\ LostAnswers' = LostAnswers /\ LostResult' = LostResult

\* The line that is written is read or lost.
Lost(line) == r' = r /\ garbled' = garbled \cup {line} /\ Cardinality(garbled) < MaxGarbled

LEMMA LostIs ==
  /\ garbled' = garbled \cup {<<"init">>} => KeepsLost
  /\ garbled' = garbled \cup {<<"result">>} =>
       LostResult' /\ LostUses' = LostUses /\ LostAnswers' = LostAnswers
  /\ \A id \in Id : garbled' = garbled \cup {<<"use", id>>} =>
       LostUses' = LostUses \cup {id} /\ LostAnswers' = LostAnswers /\ LostResult' = LostResult
  /\ \A id \in Id : garbled' = garbled \cup {<<"answer", id>>} =>
       LostAnswers' = LostAnswers \cup {id} /\ LostUses' = LostUses /\ LostResult' = LostResult
  /\ garbled' = garbled => KeepsLost
<1>1. ASSUME garbled' = garbled \cup {<<"init">>} PROVE KeepsLost
  BY <1>1 DEF KeepsLost, LostUses, LostAnswers, LostResult
<1>2. ASSUME garbled' = garbled \cup {<<"result">>}
      PROVE  LostResult' /\ LostUses' = LostUses /\ LostAnswers' = LostAnswers
  BY <1>2 DEF LostUses, LostAnswers, LostResult
<1>3. ASSUME NEW id \in Id, garbled' = garbled \cup {<<"use", id>>}
      PROVE  LostUses' = LostUses \cup {id} /\ LostAnswers' = LostAnswers /\ LostResult' = LostResult
  BY <1>3 DEF LostUses, LostAnswers, LostResult
<1>4. ASSUME NEW id \in Id, garbled' = garbled \cup {<<"answer", id>>}
      PROVE  LostAnswers' = LostAnswers \cup {id} /\ LostUses' = LostUses /\ LostResult' = LostResult
  BY <1>4 DEF LostUses, LostAnswers, LostResult
<1>5. ASSUME garbled' = garbled PROVE KeepsLost
  BY <1>5 DEF KeepsLost, LostUses, LostAnswers, LostResult
<1> QED BY <1>1, <1>2, <1>3, <1>4, <1>5

-----------------------------------------------------------------------------
(* The steps, field by field *)

Starts(m, s) ==
  /\ pc = "start" /\ pc' = "working" /\ UNCHANGED <<kind, check, launched, verdict>>
  /\ truth'.model = m /\ truth'.source = s
  /\ KeepsWork /\ KeepsAnswers /\ KeepsRefusals /\ KeepsEnding
  /\ KeepsUses /\ KeepsInputs /\ KeepsTexts /\ KeepsDenied /\ KeepsRes /\ KeepsLost
  /\ \/ /\ garbled' = garbled /\ r'.model = m
        /\ r'.billing = IF s = "" THEN r.billing ELSE IF s = "none" THEN Injected ELSE "api"
     \/ Lost(<<"init">>)

Calls(id, m, input) ==
  /\ Working /\ id \notin DOMAIN truth.calls
  /\ UNCHANGED <<kind, pc, check, launched, verdict>>
  /\ truth'.calls = Set(truth.calls, id, input) /\ truth'.bill = [truth.bill EXCEPT ![m] = @ + 1]
  /\ KeepsStart /\ KeepsAnswers /\ KeepsRefusals /\ KeepsEnding
  /\ KeepsInit /\ KeepsTexts /\ KeepsDenied /\ KeepsRes
  /\ \/ /\ garbled' = garbled
        /\ r'.uses = r.uses + 1 /\ r'.inputs = Set(r.inputs, id, input)
     \/ Lost(<<"use", id>>)

Answers(id, says, worded) ==
  /\ Working /\ id \in Unanswered /\ says \in Printed
  /\ UNCHANGED <<kind, pc, check, launched, verdict>>
  /\ truth'.answered = truth.answered \cup {id}
  /\ truth'.printed = truth.printed \cup {<<id, says[i]>> : i \in DOMAIN says}
  /\ truth'.listed = truth.listed
  /\ truth'.worded = IF worded THEN truth.worded \cup {id} ELSE truth.worded
  /\ KeepsStart /\ KeepsWork /\ KeepsEnding
  /\ KeepsInit /\ KeepsUses /\ KeepsInputs /\ KeepsRes
  /\ \/ /\ garbled' = garbled /\ r'.texts = r.texts \o says
        /\ r'.denied = IF worded THEN r.denied \cup {id} ELSE r.denied
     \/ Lost(<<"answer", id>>)

Refuses(id, listed, worded) ==
  /\ Working /\ id \in Unanswered /\ (listed \/ worded)
  /\ UNCHANGED <<kind, pc, check, launched, verdict>>
  /\ truth'.answered = truth.answered \cup {id} /\ truth'.printed = truth.printed
  /\ truth'.listed = IF listed THEN truth.listed \cup {id} ELSE truth.listed
  /\ truth'.worded = IF worded THEN truth.worded \cup {id} ELSE truth.worded
  /\ KeepsStart /\ KeepsWork /\ KeepsEnding
  /\ KeepsInit /\ KeepsUses /\ KeepsInputs /\ KeepsRes
  /\ \/ /\ garbled' = garbled /\ r'.texts = r.texts \o << >>
        /\ r'.denied = IF worded THEN r.denied \cup {id} ELSE r.denied
     \/ Lost(<<"answer", id>>)

Finishes(res) ==
  /\ Working /\ res \in Results
  /\ UNCHANGED <<kind, pc, check, launched, verdict>>
  /\ truth'.ending = res
  /\ KeepsStart /\ KeepsWork /\ KeepsAnswers /\ KeepsRefusals
  /\ KeepsInit /\ KeepsUses /\ KeepsTexts
  /\ \/ /\ garbled' = garbled
        /\ r'.res = res /\ r'.denied = r.denied \cup res.denials
        /\ r'.inputs = [i \in DOMAIN r.inputs \cup res.denials |->
                          IF i \in DOMAIN r.inputs THEN r.inputs[i] ELSE truth.calls[i]]
     \/ Lost(<<"result">>)

Beside == UNCHANGED <<kind, truth, garbled, r, launched>> /\ (Edit \/ Judge \/ UNCHANGED vars)

\* Every step is one of these, and the records keep their fields.
LEMMA Kinds ==
  ASSUME DOMAIN truth = Happens, DOMAIN r = Reads, [Next]_vars
  PROVE  /\ DOMAIN truth' = Happens /\ DOMAIN r' = Reads
         /\ \/ \E m \in Model, s \in Source : Starts(m, s)
            \/ \E id \in Id, m \in Model, input \in {"inside", "outside"} : Calls(id, m, input)
            \/ \E id \in Id, worded \in BOOLEAN : \E says \in Printed : Answers(id, says, worded)
            \/ \E id \in Id, listed, worded \in BOOLEAN : Refuses(id, listed, worded)
            \/ \E res \in Results : Finishes(res)
            \/ Beside
<1>1. CASE Start
  <2>1. PICK m \in Model, s \in Source :
          /\ truth' = [truth EXCEPT !.model = m, !.source = s]
          /\ Writes(<<"init">>, ReadInit(m, s))
    BY <1>1 DEF Start
  <2>2. /\ DOMAIN truth' = Happens /\ truth'.model = m /\ truth'.source = s
        /\ KeepsWork /\ KeepsAnswers /\ KeepsRefusals /\ KeepsEnding
    BY <2>1, Names DEF KeepsWork, KeepsAnswers, KeepsRefusals, KeepsEnding
  <2>3. /\ DOMAIN r' = Reads
        /\ KeepsUses /\ KeepsInputs /\ KeepsTexts /\ KeepsDenied /\ KeepsRes
        /\ \/ /\ garbled' = garbled /\ r'.model = m
              /\ r'.billing = IF s = "" THEN r.billing ELSE IF s = "none" THEN Injected ELSE "api"
           \/ Lost(<<"init">>)
    BY <2>1, Names DEF Writes, ReadInit, Lost, KeepsUses, KeepsInputs, KeepsTexts, KeepsDenied, KeepsRes
  <2>4. KeepsLost
    BY <2>3, LostIs DEF Lost
  <2>5. Starts(m, s)
    BY <1>1, <2>2, <2>3, <2>4 DEF Starts, Start
  <2> QED BY <2>2, <2>3, <2>5
<1>2. ASSUME NEW id \in Id, NEW m \in Model, NEW input \in {"inside", "outside"}, Call(id, m, input)
      PROVE  DOMAIN truth' = Happens /\ DOMAIN r' = Reads /\ Calls(id, m, input)
  <2>1. /\ truth' = [truth EXCEPT !.calls = Set(@, id, input), !.bill[m] = @ + 1]
        /\ Writes(<<"use", id>>, ReadUse(id, input))
    BY <1>2 DEF Call
  <2>2. /\ DOMAIN truth' = Happens
        /\ truth'.calls = Set(truth.calls, id, input) /\ truth'.bill = [truth.bill EXCEPT ![m] = @ + 1]
        /\ KeepsStart /\ KeepsAnswers /\ KeepsRefusals /\ KeepsEnding
    BY <2>1, Names DEF KeepsStart, KeepsAnswers, KeepsRefusals, KeepsEnding
  <2>3. /\ DOMAIN r' = Reads
        /\ KeepsInit /\ KeepsTexts /\ KeepsDenied /\ KeepsRes
        /\ \/ /\ garbled' = garbled
              /\ r'.uses = r.uses + 1 /\ r'.inputs = Set(r.inputs, id, input)
           \/ Lost(<<"use", id>>)
    BY <2>1, Names DEF Writes, ReadUse, Lost, KeepsInit, KeepsTexts, KeepsDenied, KeepsRes
  <2> QED BY <1>2, <2>2, <2>3 DEF Calls, Call
<1>3. ASSUME NEW id \in Id, NEW worded \in BOOLEAN, Answer(id, worded)
      PROVE  DOMAIN truth' = Happens /\ DOMAIN r' = Reads /\ \E says \in Printed : Answers(id, says, worded)
  <2>1. PICK says \in Printed :
          /\ truth' = [truth EXCEPT !.answered = @ \cup {id},
                                    !.printed = @ \cup {<<id, says[i]>> : i \in DOMAIN says},
                                    !.worded = IF worded THEN @ \cup {id} ELSE @]
          /\ Writes(<<"answer", id>>, ReadAnswer(id, says, worded))
    BY <1>3 DEF Answer
  <2>2. /\ DOMAIN truth' = Happens
        /\ truth'.answered = truth.answered \cup {id}
        /\ truth'.printed = truth.printed \cup {<<id, says[i]>> : i \in DOMAIN says}
        /\ truth'.listed = truth.listed
        /\ truth'.worded = IF worded THEN truth.worded \cup {id} ELSE truth.worded
        /\ KeepsStart /\ KeepsWork /\ KeepsEnding
    BY <2>1, Names DEF KeepsStart, KeepsWork, KeepsEnding
  <2>3. /\ DOMAIN r' = Reads
        /\ KeepsInit /\ KeepsUses /\ KeepsInputs /\ KeepsRes
        /\ \/ /\ garbled' = garbled /\ r'.texts = r.texts \o says
              /\ r'.denied = IF worded THEN r.denied \cup {id} ELSE r.denied
           \/ Lost(<<"answer", id>>)
    BY <2>1, Names DEF Writes, ReadAnswer, Lost, KeepsInit, KeepsUses, KeepsInputs, KeepsRes
  <2>4. Answers(id, says, worded)
    BY <1>3, <2>2, <2>3 DEF Answers, Answer
  <2> QED BY <2>2, <2>3, <2>4
<1>4. ASSUME NEW id \in Id, NEW listed \in BOOLEAN, NEW worded \in BOOLEAN, Refuse(id, listed, worded)
      PROVE  DOMAIN truth' = Happens /\ DOMAIN r' = Reads /\ Refuses(id, listed, worded)
  <2>1. /\ truth' = [truth EXCEPT !.answered = @ \cup {id},
                                  !.listed = IF listed THEN @ \cup {id} ELSE @,
                                  !.worded = IF worded THEN @ \cup {id} ELSE @]
        /\ Writes(<<"answer", id>>, ReadAnswer(id, << >>, worded))
    BY <1>4 DEF Refuse
  <2>2. /\ DOMAIN truth' = Happens
        /\ truth'.answered = truth.answered \cup {id} /\ truth'.printed = truth.printed
        /\ truth'.listed = IF listed THEN truth.listed \cup {id} ELSE truth.listed
        /\ truth'.worded = IF worded THEN truth.worded \cup {id} ELSE truth.worded
        /\ KeepsStart /\ KeepsWork /\ KeepsEnding
    BY <2>1, Names DEF KeepsStart, KeepsWork, KeepsEnding
  <2>3. /\ DOMAIN r' = Reads
        /\ KeepsInit /\ KeepsUses /\ KeepsInputs /\ KeepsRes
        /\ \/ /\ garbled' = garbled /\ r'.texts = r.texts \o << >>
              /\ r'.denied = IF worded THEN r.denied \cup {id} ELSE r.denied
           \/ Lost(<<"answer", id>>)
    BY <2>1, Names DEF Writes, ReadAnswer, Lost, KeepsInit, KeepsUses, KeepsInputs, KeepsRes
  <2> QED BY <1>4, <2>2, <2>3 DEF Refuses, Refuse
<1>5. ASSUME End
      PROVE  DOMAIN truth' = Happens /\ DOMAIN r' = Reads /\ \E res \in Results : Finishes(res)
  <2>1. PICK res \in Results : /\ truth' = [truth EXCEPT !.ending = res]
                               /\ Writes(<<"result">>, ReadResult(res))
    BY <1>5 DEF End
  <2>2. /\ DOMAIN truth' = Happens /\ truth'.ending = res
        /\ KeepsStart /\ KeepsWork /\ KeepsAnswers /\ KeepsRefusals
    BY <2>1, Names DEF KeepsStart, KeepsWork, KeepsAnswers, KeepsRefusals
  <2>3. /\ DOMAIN r' = Reads
        /\ KeepsInit /\ KeepsUses /\ KeepsTexts
        /\ \/ /\ garbled' = garbled
              /\ r'.res = res /\ r'.denied = r.denied \cup res.denials
              /\ r'.inputs = [i \in DOMAIN r.inputs \cup res.denials |->
                                IF i \in DOMAIN r.inputs THEN r.inputs[i] ELSE truth.calls[i]]
           \/ Lost(<<"result">>)
    BY <2>1, Names DEF Writes, ReadResult, Lost, KeepsInit, KeepsUses, KeepsTexts
  <2>4. Finishes(res)
    BY <1>5, <2>2, <2>3 DEF Finishes, End
  <2> QED BY <2>2, <2>3, <2>4
<1>6. ASSUME Edit \/ Judge \/ UNCHANGED vars
      PROVE  DOMAIN truth' = Happens /\ DOMAIN r' = Reads /\ Beside
  BY <1>6 DEF Edit, Judge, vars, Beside
<1> QED BY <1>1, <1>2, <1>3, <1>4, <1>5, <1>6 DEF Next

-----------------------------------------------------------------------------
(* What happens *)

\* The fields of what happened: what is told was answered, and what is answered was called.
Happening ==
  /\ DOMAIN truth = Happens /\ DOMAIN r = Reads
  /\ kind \in {"run", "probe"} /\ pc \in {"start", "working", "judged"}
  /\ truth.model \in Model \cup {""}
  /\ DOMAIN truth.calls \subseteq Id
  /\ \A id \in DOMAIN truth.calls : truth.calls[id] \in {"inside", "outside"}
  /\ truth.answered \subseteq DOMAIN truth.calls
  /\ truth.listed \subseteq truth.answered /\ truth.worded \subseteq truth.answered
  /\ truth.ending = None \/ truth.ending \in Results

LEMMA SameResults ==
  ASSUME KeepsWork, truth'.listed = truth.listed, kind' = kind
  PROVE  Results' = Results
BY DEF KeepsWork, Results, Rightly, Paid, Billed

LEMMA HappeningInit == Init => Happening
<1> SUFFICES ASSUME Init PROVE Happening
  OBVIOUS
<1>1. DOMAIN truth = Happens /\ DOMAIN r = Reads /\ truth.ending = None
  BY Names DEF Init, Nothing, Blank
<1>2. DOMAIN truth.calls = {} /\ truth.answered = {} /\ truth.listed = {}
      /\ truth.worded = {} /\ truth.model = "" /\ kind \in {"run", "probe"} /\ pc = "start"
  BY DEF Init, Nothing
<1> QED BY <1>1, <1>2 DEF Happening

LEMMA HappeningNext == Happening /\ [Next]_vars => Happening'
<1> SUFFICES ASSUME Happening, [Next]_vars PROVE Happening'
  OBVIOUS
<1>1. DOMAIN truth' = Happens /\ DOMAIN r' = Reads
  BY Kinds DEF Happening
<1>2. ASSUME NEW m \in Model, NEW t \in Source, Starts(m, t) PROVE Happening'
  <2>1. truth'.ending = None \/ truth'.ending \in Results'
    <3>1. KeepsWork /\ truth'.listed = truth.listed /\ kind' = kind /\ truth'.ending = truth.ending
      BY <1>2 DEF Starts, KeepsEnding, KeepsRefusals
    <3>2. Results' = Results
      BY <3>1, SameResults
    <3>3. truth.ending = None \/ truth.ending \in Results
      BY DEF Happening
    <3> QED BY <3>1, <3>2, <3>3
  <2> QED BY <1>1, <1>2, <2>1
      DEF Starts, Happening, KeepsWork, KeepsAnswers, KeepsRefusals
<1>3. ASSUME NEW id \in Id, NEW m \in Model, NEW input \in {"inside", "outside"}, Calls(id, m, input)
      PROVE  Happening'
  <2>1. truth'.ending = None
    BY <1>3 DEF Calls, KeepsEnding, Working
  <2>2. /\ DOMAIN truth'.calls = DOMAIN truth.calls \cup {id} /\ truth'.calls[id] = input
        /\ \A j \in DOMAIN truth.calls : j # id => truth'.calls[j] = truth.calls[j]
    <3>1. truth'.calls = Set(truth.calls, id, input)
      BY <1>3 DEF Calls
    <3> QED BY <3>1 DEF Set
  <2>3. kind' = kind /\ pc' = pc /\ KeepsStart /\ KeepsAnswers /\ KeepsRefusals
    BY <1>3 DEF Calls
  <2>4. \A j \in DOMAIN truth'.calls : truth'.calls[j] \in {"inside", "outside"}
    BY <2>2 DEF Happening
  <2> QED BY <1>1, <2>1, <2>2, <2>3, <2>4 DEF Happening, KeepsStart, KeepsAnswers, KeepsRefusals
<1>4. ASSUME NEW id \in Id, NEW says \in Printed, NEW worded \in BOOLEAN, Answers(id, says, worded)
      PROVE  Happening'
  <2>1. truth'.ending = None
    BY <1>4 DEF Answers, KeepsEnding, Working
  <2> QED BY <1>1, <1>4, <2>1
      DEF Answers, Happening, KeepsStart, KeepsWork, Unanswered
<1>5. ASSUME NEW id \in Id, NEW listed \in BOOLEAN, NEW worded \in BOOLEAN, Refuses(id, listed, worded)
      PROVE  Happening'
  <2>1. truth'.ending = None
    BY <1>5 DEF Refuses, KeepsEnding, Working
  <2> QED BY <1>1, <1>5, <2>1
      DEF Refuses, Happening, KeepsStart, KeepsWork, Unanswered
<1>6. ASSUME NEW res \in Results, Finishes(res) PROVE Happening'
  <2>1. truth'.ending \in Results'
    BY <1>6, SameResults DEF Finishes, KeepsRefusals
  <2> QED BY <1>1, <1>6, <2>1
      DEF Finishes, Happening, KeepsStart, KeepsWork, KeepsAnswers, KeepsRefusals
<1>7. CASE Beside
  <2>1. Results' = Results
    BY <1>7, SameResults DEF Beside, KeepsWork
  <2>2. pc' \in {"start", "working", "judged"} /\ truth' = truth /\ kind' = kind
    BY <1>7 DEF Beside, Edit, Judge, vars, Happening
  <2> QED BY <1>1, <2>1, <2>2 DEF Happening
<1> QED BY <1>2, <1>3, <1>4, <1>5, <1>6, <1>7, Kinds DEF Happening

-----------------------------------------------------------------------------
(* The bill *)

\* What the models that were used are billed for is what was paid.
Bill ==
  /\ truth.bill \in [Model -> Nat] /\ IsFiniteSet(Billed)
  /\ Paid \in Nat /\ IsFiniteSet(DOMAIN truth.calls)
  /\ SumOf([m \in Billed |-> truth.bill[m]]) = Paid

LEMMA BillInit == Init => Bill
<1> SUFFICES ASSUME Init PROVE Bill
  OBVIOUS
<1>1. truth.bill = [m \in Model |-> 0] /\ DOMAIN truth.calls = {}
  BY DEF Init, Nothing
<1>2. Billed = {}
  BY <1>1 DEF Billed
<1>3. SumOf([m \in Billed |-> truth.bill[m]]) = 0
  BY <1>2, SumOfNone
<1> QED BY <1>1, <1>2, <1>3, FS_EmptySet DEF Bill, Paid

LEMMA BillNext == Happening /\ Bill /\ [Next]_vars => Bill'
<1> SUFFICES ASSUME Happening, Bill, [Next]_vars PROVE Bill'
  OBVIOUS
<1>1. ASSUME KeepsWork PROVE Bill'
  BY <1>1 DEF KeepsWork, Bill, Billed, Paid
<1>2. ASSUME NEW id \in Id, NEW m \in Model, NEW input \in {"inside", "outside"}, Calls(id, m, input)
      PROVE  Bill'
  <2>1. /\ truth'.bill = [truth.bill EXCEPT ![m] = @ + 1] /\ id \notin DOMAIN truth.calls
        /\ DOMAIN truth'.calls = DOMAIN truth.calls \cup {id}
    <3>1. /\ truth'.bill = [truth.bill EXCEPT ![m] = @ + 1] /\ id \notin DOMAIN truth.calls
          /\ truth'.calls = Set(truth.calls, id, input)
      BY <1>2 DEF Calls
    <3> QED BY <3>1 DEF Set
  <2> DEFINE f == truth.bill
             g == truth'.bill
  <2>2. /\ f \in [Model -> Nat] /\ g \in [Model -> Nat] /\ g[m] = f[m] + 1
        /\ \A x \in Model : x # m => g[x] = f[x]
    BY <2>1 DEF Bill
  <2>3. Paid' = Paid + 1 /\ IsFiniteSet(DOMAIN truth'.calls)
    <3>1. IsFiniteSet(DOMAIN truth.calls \cup {id})
          /\ Cardinality(DOMAIN truth.calls \cup {id}) = Cardinality(DOMAIN truth.calls) + 1
      BY <2>1, FS_AddElement DEF Bill
    <3> QED BY <2>1, <3>1 DEF Paid
  <2>4. Billed = {x \in Model : f[x] > 0} /\ Billed' = {x \in Model : g[x] > 0}
    BY DEF Billed
  <2> HIDE DEF f, g
  <2>5. Billed' = Billed \cup {m} /\ IsFiniteSet(Billed')
    <3>1. Billed' = Billed \cup {m}
      BY <2>2, <2>4
    <3> QED BY <3>1, FS_AddElement DEF Bill
  <2>6. IF m \in Billed THEN g[m] = f[m] + 1 ELSE g[m] = 1
    BY <2>2, <2>4
  <2>7. /\ IsFiniteSet(Billed) /\ g[m] \in Nat
        /\ \A x \in Billed : f[x] \in Nat /\ g[x] \in Nat
        /\ \A x \in Billed \ {m} : g[x] = f[x]
    BY <2>2, <2>4 DEF Bill
  <2>8. SumOf([x \in Billed \cup {m} |-> g[x]]) = SumOf([x \in Billed |-> f[x]]) + 1
    BY <2>6, <2>7, SumOfOneMore
  <2>9. SumOf([x \in Billed |-> f[x]]) = Paid /\ Paid \in Nat
    BY DEF f, Bill
  <2>10. SumOf([x \in Billed' |-> g[x]]) = Paid'
    BY <2>3, <2>5, <2>8, <2>9
  <2>11. Paid' \in Nat
    BY <2>3, <2>9
  <2> QED BY <2>2, <2>3, <2>5, <2>10, <2>11 DEF Bill, g
<1>3. KeepsWork \/ \E id \in Id, m \in Model, input \in {"inside", "outside"} : Calls(id, m, input)
  BY Kinds DEF Happening, Starts, Answers, Refuses, Finishes, Beside, KeepsWork
<1> QED BY <1>1, <1>2, <1>3

\* A result gives the work rightly but for one thing.
LEMMA ResultForms ==
  ASSUME NEW res \in Results
  PROVE  \/ res = Rightly
         \/ \E x : res = [Rightly EXCEPT !.subtype = x, !.isError = TRUE]
         \/ \E d \in Durations : res = [Rightly EXCEPT !.duration = d]
         \/ \E x \in {Paid + 1, Unknown} : res = [Rightly EXCEPT !.total = x]
         \/ \E n \in Billed : res = [Rightly EXCEPT !.usage = [m \in Billed \ {n} |-> Rightly.usage[m]]]
         \/ \E n \in Billed : res = [Rightly EXCEPT !.usage[n].cost = Unknown]
         \/ \E n \in Billed : res = [Rightly EXCEPT !.usage[n].tokens = Unknown]
<1> DEFINE R == Rightly
           subtypes == {"success", "error_max_budget_usd", "error_max_turns", "error_during_execution"}
           A1 == {[R EXCEPT !.subtype = x, !.isError = TRUE] : x \in subtypes}
           A2 == {[R EXCEPT !.duration = d] : d \in Durations}
           A3 == {[R EXCEPT !.total = x] : x \in {Paid + 1, Unknown}}
           A4 == {[R EXCEPT !.usage = [m \in Billed \ {n} |-> R.usage[m]]] : n \in Billed}
           A5 == {[R EXCEPT !.usage[n].cost = Unknown] : n \in Billed}
           A6 == {[R EXCEPT !.usage[n].tokens = Unknown] : n \in Billed}
<1> HIDE DEF R
<1>1. Results = {R} \cup IF kind = "probe" THEN {} ELSE A1 \cup A2 \cup A3 \cup A4 \cup A5 \cup A6
  BY Zenon DEF Results, R
<1>2. res \in A1 => \E x : res = [R EXCEPT !.subtype = x, !.isError = TRUE]
  OBVIOUS
<1>3. res \in A2 => \E d \in Durations : res = [R EXCEPT !.duration = d]
  OBVIOUS
<1>4. res \in A3 => \E x \in {Paid + 1, Unknown} : res = [R EXCEPT !.total = x]
  OBVIOUS
<1>5. res \in A4 => \E n \in Billed : res = [R EXCEPT !.usage = [m \in Billed \ {n} |-> R.usage[m]]]
  OBVIOUS
<1>6. res \in A5 => \E n \in Billed : res = [R EXCEPT !.usage[n].cost = Unknown]
  OBVIOUS
<1>7. res \in A6 => \E n \in Billed : res = [R EXCEPT !.usage[n].tokens = Unknown]
  OBVIOUS
<1> HIDE DEF A1, A2, A3, A4, A5, A6
<1>8. \/ res = R
      \/ \E x : res = [R EXCEPT !.subtype = x, !.isError = TRUE]
      \/ \E d \in Durations : res = [R EXCEPT !.duration = d]
      \/ \E x \in {Paid + 1, Unknown} : res = [R EXCEPT !.total = x]
      \/ \E n \in Billed : res = [R EXCEPT !.usage = [m \in Billed \ {n} |-> R.usage[m]]]
      \/ \E n \in Billed : res = [R EXCEPT !.usage[n].cost = Unknown]
      \/ \E n \in Billed : res = [R EXCEPT !.usage[n].tokens = Unknown]
  BY <1>1, <1>2, <1>3, <1>4, <1>5, <1>6, <1>7
<1> QED BY <1>8, Zenon DEF R

\* Of the results a harness may give, only one that gives the bill rightly has a total that is
\* the sum of its parts, and tokens for every part.
LEMMA ResultIs ==
  ASSUME Happening, Bill, NEW res \in Results
  PROVE  /\ res # None /\ res.denials = truth.listed
         /\ /\ res.total # Unknown
            /\ \A m \in DOMAIN res.usage : res.usage[m].cost # Unknown
            /\ SumOf([m \in DOMAIN res.usage |-> res.usage[m].cost]) = res.total
            => /\ res.total = Paid
               /\ (\A m \in DOMAIN res.usage : res.usage[m].tokens # Unknown) =>
                     SumOf([m \in DOMAIN res.usage |-> res.usage[m].tokens]) = Paid
<1> DEFINE b == truth.bill
           U == [m \in Billed |-> [cost |-> b[m], tokens |-> b[m]]]
           R == Rightly
<1>1. /\ R = [subtype |-> "success", isError |-> FALSE, duration |-> WallMS, total |-> Paid,
              usage |-> U, denials |-> truth.listed]
      /\ R.usage = U /\ R.total = Paid /\ R.denials = truth.listed
      /\ DOMAIN R = {"subtype", "isError", "duration", "total", "usage", "denials"}
  BY DEF Rightly
<1> HIDE DEF R
<1>2. /\ Billed \subseteq Model /\ \A m \in Billed : b[m] \in Nat /\ b[m] > 0
      /\ IsFiniteSet(Billed) /\ Paid \in Nat /\ SumOf([m \in Billed |-> b[m]]) = Paid
  BY DEF Bill, Billed
<1>3. /\ DOMAIN U = Billed /\ \A m \in Billed : U[m].cost = b[m] /\ U[m].tokens = b[m]
      /\ \A m \in Billed : U[m] = [cost |-> b[m], tokens |-> b[m]]
  OBVIOUS
<1> HIDE DEF b, U
<1>4. [m \in DOMAIN U |-> U[m].cost] = [m \in Billed |-> b[m]]
      /\ [m \in DOMAIN U |-> U[m].tokens] = [m \in Billed |-> b[m]]
  BY <1>3
<1>5. DOMAIN res = DOMAIN R /\ res.denials = R.denials /\ DOMAIN None = {"none"}
  BY <1>1 DEF Results, None, R
<1>6. res # None
  BY <1>1, <1>5
<1>7. \/ res.usage = U /\ res.total = Paid
      \/ res.usage = U /\ res.total \in {Paid + 1, Unknown}
      \/ \E n \in Billed : res.usage = [m \in Billed \ {n} |-> U[m]] /\ res.total = Paid
      \/ \E n \in Billed : res.usage = [U EXCEPT ![n].cost = Unknown]
      \/ \E n \in Billed : res.usage = [U EXCEPT ![n].tokens = Unknown] /\ res.total = Paid
  <2>1. CASE res = R
    BY <2>1, <1>1
  <2>2. CASE \E x : res = [R EXCEPT !.subtype = x, !.isError = TRUE]
    BY <2>2, <1>1
  <2>3. CASE \E d \in Durations : res = [R EXCEPT !.duration = d]
    BY <2>3, <1>1
  <2>4. CASE \E x \in {Paid + 1, Unknown} : res = [R EXCEPT !.total = x]
    BY <2>4, <1>1
  <2>5. CASE \E n \in Billed : res = [R EXCEPT !.usage = [m \in Billed \ {n} |-> R.usage[m]]]
    BY <2>5, <1>1
  <2>6. CASE \E n \in Billed : res = [R EXCEPT !.usage[n].cost = Unknown]
    BY <2>6, <1>1
  <2>7. CASE \E n \in Billed : res = [R EXCEPT !.usage[n].tokens = Unknown]
    BY <2>7, <1>1
  <2>8. \/ res = R
        \/ \E x : res = [R EXCEPT !.subtype = x, !.isError = TRUE]
        \/ \E d \in Durations : res = [R EXCEPT !.duration = d]
        \/ \E x \in {Paid + 1, Unknown} : res = [R EXCEPT !.total = x]
        \/ \E n \in Billed : res = [R EXCEPT !.usage = [m \in Billed \ {n} |-> R.usage[m]]]
        \/ \E n \in Billed : res = [R EXCEPT !.usage[n].cost = Unknown]
        \/ \E n \in Billed : res = [R EXCEPT !.usage[n].tokens = Unknown]
    BY ResultForms, Zenon DEF R
  <2> QED BY <2>1, <2>2, <2>3, <2>4, <2>5, <2>6, <2>7, <2>8
<1>8. SUFFICES ASSUME res.total # Unknown,
                      \A m \in DOMAIN res.usage : res.usage[m].cost # Unknown,
                      SumOf([m \in DOMAIN res.usage |-> res.usage[m].cost]) = res.total
      PROVE  /\ res.total = Paid
             /\ (\A m \in DOMAIN res.usage : res.usage[m].tokens # Unknown) =>
                   SumOf([m \in DOMAIN res.usage |-> res.usage[m].tokens]) = Paid
  BY <1>1, <1>5, <1>6
<1>9. CASE res.usage = U /\ res.total = Paid
  BY <1>2, <1>4, <1>9
<1>10. CASE res.usage = U /\ res.total \in {Paid + 1, Unknown}
  <2>1. res.total = Paid
    BY <1>2, <1>4, <1>8, <1>10
  <2> QED BY <2>1, <1>2, <1>4, <1>10
<1>11. ASSUME NEW n \in Billed, res.usage = [m \in Billed \ {n} |-> U[m]], res.total = Paid PROVE FALSE
  <2> DEFINE f == [m \in Billed |-> b[m]]
  <2>1. DOMAIN f = Billed /\ \A x \in Billed : f[x] = b[x]
    OBVIOUS
  <2>2. [x \in DOMAIN f \ {n} |-> f[x]] = [m \in DOMAIN res.usage |-> res.usage[m].cost]
    BY <1>3, <1>11, <2>1
  <2> HIDE DEF f
  <2>3. SumOf(f) = f[n] + SumOf([x \in DOMAIN f \ {n} |-> f[x]])
    BY <1>2, <2>1, SumOfRest
  <2>4. Paid = b[n] + res.total
    BY <1>2, <1>8, <2>1, <2>2, <2>3 DEF f
  <2> QED BY <1>2, <1>11, <2>4
<1>12. ASSUME NEW n \in Billed, res.usage = [U EXCEPT ![n].cost = Unknown] PROVE FALSE
  <2>1. n \in DOMAIN res.usage /\ res.usage[n].cost = Unknown
    BY <1>3, <1>12
  <2> QED BY <2>1, <1>8
<1>13. ASSUME NEW n \in Billed, res.usage = [U EXCEPT ![n].tokens = Unknown], res.total = Paid
       PROVE  n \in DOMAIN res.usage /\ res.usage[n].tokens = Unknown
  BY <1>3, <1>13
<1> QED BY <1>7, <1>9, <1>10, <1>11, <1>12, <1>13

-----------------------------------------------------------------------------
(* What is read *)

\* What was lost had been written.
Losses ==
  /\ LostUses \subseteq DOMAIN truth.calls /\ LostAnswers \subseteq truth.answered
  /\ LostResult => truth.ending # None

\* The first line, as it was if it was read.
InitOf ==
  /\ r.model \in {"", truth.model}
  /\ r.billing \in {"", Injected, "api"} /\ (r.billing = Injected => truth.source = "none")
  /\ garbled = {} /\ truth.source = "none" => r.billing = Injected
  /\ pc = "start" => r.model = "" /\ r.billing = ""

\* The result, the refusals that were told and the inputs of the calls, when their lines were read.
ResultRead == truth.ending # None /\ ~LostResult
ResultOf == r.res = IF ResultRead THEN truth.ending ELSE None
Refused == (truth.worded \ LostAnswers) \cup (IF ResultRead THEN truth.listed ELSE {})
DeniedOf == r.denied = Refused
InputsOf ==
  /\ DOMAIN r.inputs = (DOMAIN truth.calls \ LostUses) \cup (IF ResultRead THEN truth.listed ELSE {})
  /\ \A id \in DOMAIN r.inputs : r.inputs[id] = truth.calls[id]
UsesOf == r.uses \in Nat /\ r.uses <= Paid

Reading == Losses /\ InitOf /\ ResultOf /\ DeniedOf /\ InputsOf /\ UsesOf

LEMMA ReadingInit == Init => Reading
<1> SUFFICES ASSUME Init PROVE Reading
  OBVIOUS
<1>1. LostUses = {} /\ LostAnswers = {} /\ ~LostResult
  BY DEF Init, LostUses, LostAnswers, LostResult
<1>2. DOMAIN truth.calls = {} /\ truth.answered = {} /\ truth.worded = {} /\ truth.listed = {}
      /\ truth.ending = None /\ truth.model = "" /\ truth.source = ""
  BY DEF Init, Nothing
<1>3. r.model = "" /\ r.billing = "" /\ r.uses = 0 /\ DOMAIN r.inputs = {} /\ r.denied = {} /\ r.res = None
  BY DEF Init, Blank
<1>4. Losses /\ ResultOf /\ DeniedOf /\ InputsOf
  BY <1>1, <1>2, <1>3 DEF Losses, ResultOf, DeniedOf, Refused, InputsOf, ResultRead
<1>5. InitOf
  BY <1>2, <1>3, BillingAssumption DEF InitOf
<1>6. UsesOf
  <2>1. Paid = 0
    BY <1>2, FS_EmptySet DEF Paid
  <2>2. r.uses = 0
    BY <1>3
  <2> QED BY <2>1, <2>2 DEF UsesOf
<1> QED BY <1>4, <1>5, <1>6 DEF Reading

LEMMA Started ==
  ASSUME Happening, Bill, Reading, NEW m \in Model, NEW t \in Source, Starts(m, t)
  PROVE  Reading'
<1>1. /\ pc = "start" /\ pc' = "working" /\ truth'.model = m /\ truth'.source = t
      /\ truth'.calls = truth.calls /\ truth'.answered = truth.answered
      /\ truth'.listed = truth.listed /\ truth'.worded = truth.worded /\ truth'.ending = truth.ending
      /\ r'.uses = r.uses /\ r'.inputs = r.inputs /\ r'.denied = r.denied /\ r'.res = r.res
      /\ KeepsLost
  BY DEF Starts, KeepsWork, KeepsAnswers, KeepsRefusals, KeepsEnding, KeepsUses, KeepsInputs,
         KeepsDenied, KeepsRes
<1>2. Losses' /\ ResultOf' /\ DeniedOf' /\ InputsOf'
  BY <1>1 DEF Reading, Losses, ResultOf, DeniedOf, Refused, InputsOf, ResultRead, KeepsLost
<1>3. UsesOf'
  BY <1>1 DEF Reading, UsesOf, Paid
<1>4. InitOf'
  <2>1. r.model = "" /\ r.billing = ""
    BY <1>1 DEF Reading, InitOf
  <2>2. CASE /\ garbled' = garbled /\ r'.model = m
             /\ r'.billing = IF t = "" THEN r.billing ELSE IF t = "none" THEN Injected ELSE "api"
    BY <1>1, <2>1, <2>2, BillingAssumption DEF InitOf
  <2>3. CASE Lost(<<"init">>)
    <3>1. garbled' # {} /\ r' = r
      BY <2>3 DEF Lost
    <3> QED BY <1>1, <2>1, <3>1, BillingAssumption DEF InitOf
  <2> QED BY <2>2, <2>3 DEF Starts
<1> QED BY <1>2, <1>3, <1>4 DEF Reading

LEMMA InitStays ==
  ASSUME Reading, KeepsStart, KeepsInit, pc' = pc \/ pc' = "judged",
         garbled' = garbled \/ \E line : Lost(line)
  PROVE  InitOf'
<1>1. r'.model = r.model /\ r'.billing = r.billing /\ truth'.model = truth.model /\ truth'.source = truth.source
  BY DEF KeepsStart, KeepsInit
<1>2. garbled' = {} => garbled = {}
  BY DEF Lost
<1>3. pc' = "start" => pc = "start"
  OBVIOUS
<1> QED BY <1>1, <1>2, <1>3 DEF Reading, InitOf

LEMMA Called ==
  ASSUME Happening, Bill, Reading, NEW id \in Id, NEW m \in Model, NEW input \in {"inside", "outside"},
         Calls(id, m, input)
  PROVE  Reading'
<1>1. /\ truth'.calls = Set(truth.calls, id, input) /\ id \notin DOMAIN truth.calls
      /\ truth'.answered = truth.answered /\ truth'.listed = truth.listed
      /\ truth'.worded = truth.worded /\ truth'.ending = None /\ truth.ending = None
      /\ r'.denied = r.denied /\ r'.res = r.res
      /\ \/ /\ garbled' = garbled
            /\ r'.uses = r.uses + 1 /\ r'.inputs = Set(r.inputs, id, input)
         \/ Lost(<<"use", id>>)
  BY DEF Calls, KeepsAnswers, KeepsRefusals, KeepsEnding, KeepsDenied, KeepsRes, Working
<1>2. LostAnswers' = LostAnswers /\ LostResult' = LostResult
      /\ LostUses' = IF garbled' = garbled THEN LostUses ELSE LostUses \cup {id}
  BY <1>1, LostIs DEF Lost, KeepsLost
<1>3. InitOf'
  BY InitStays DEF Calls
<1>4. ~ResultRead /\ ~ResultRead'
  BY <1>1 DEF ResultRead
<1>5. ResultOf' /\ DeniedOf'
  BY <1>1, <1>2, <1>4 DEF Reading, ResultOf, DeniedOf, Refused
<1>6. /\ DOMAIN truth'.calls = DOMAIN truth.calls \cup {id} /\ truth'.calls[id] = input
      /\ \A j \in DOMAIN truth.calls : j # id => truth'.calls[j] = truth.calls[j]
  BY <1>1 DEF Set
<1>7. Losses'
  BY <1>1, <1>2, <1>6 DEF Reading, Losses
<1>8. InputsOf'
  <2>1. /\ DOMAIN r.inputs = DOMAIN truth.calls \ LostUses
        /\ \A j \in DOMAIN r.inputs : r.inputs[j] = truth.calls[j]
    BY <1>4 DEF Reading, InputsOf
  <2>2. CASE garbled' = garbled /\ r'.inputs = Set(r.inputs, id, input)
    <3>1. /\ DOMAIN r'.inputs = DOMAIN r.inputs \cup {id} /\ r'.inputs[id] = input
          /\ \A j \in DOMAIN r.inputs : j # id => r'.inputs[j] = r.inputs[j]
      BY <2>2 DEF Set
    <3>2. id \notin LostUses
      BY <1>1 DEF Reading, Losses
    <3> QED BY <1>1, <1>2, <1>4, <1>6, <2>1, <2>2, <3>1, <3>2 DEF InputsOf
  <2>3. CASE Lost(<<"use", id>>)
    <3>1. r' = r /\ LostUses' = LostUses \cup {id}
      BY <2>3, LostIs DEF Lost
    <3> QED BY <1>1, <1>4, <1>6, <2>1, <3>1 DEF InputsOf
  <2> QED BY <1>1, <2>2, <2>3
<1>9. UsesOf'
  <2>1. Paid' = Paid + 1
    <3>1. IsFiniteSet(DOMAIN truth.calls)
      BY DEF Bill
    <3>2. Cardinality(DOMAIN truth.calls \cup {id}) = Cardinality(DOMAIN truth.calls) + 1
      BY <1>1, <3>1, FS_AddElement
    <3> QED BY <1>6, <3>2 DEF Paid
  <2>2. r'.uses = r.uses \/ r'.uses = r.uses + 1
    BY <1>1 DEF Lost
  <2>3. r.uses \in Nat /\ r.uses <= Paid /\ Paid \in Nat
    BY DEF Reading, UsesOf, Bill
  <2> QED BY <2>1, <2>2, <2>3 DEF UsesOf
<1> QED BY <1>3, <1>5, <1>7, <1>8, <1>9 DEF Reading

\* An answer, of whatever kind.
LEMMA Answered ==
  ASSUME Happening, Bill, Reading, NEW id \in Id, Working, id \in Unanswered,
         KeepsStart, KeepsInit, KeepsWork, KeepsEnding, KeepsUses, KeepsInputs, KeepsRes, pc' = pc,
         truth'.answered = truth.answered \cup {id},
         \/ garbled' = garbled /\ r'.denied = r.denied \cup (truth'.worded \ truth.worded)
         \/ Lost(<<"answer", id>>),
         truth'.worded \in {truth.worded, truth.worded \cup {id}},
         truth'.listed \in {truth.listed, truth.listed \cup {id}}
  PROVE  Reading'
<1>1. LostUses' = LostUses /\ LostResult' = LostResult
      /\ LostAnswers' = IF garbled' = garbled THEN LostAnswers ELSE LostAnswers \cup {id}
  BY LostIs DEF Lost, KeepsLost
<1>2. /\ truth'.calls = truth.calls /\ truth.ending = None /\ truth'.ending = None
      /\ r'.uses = r.uses /\ r'.inputs = r.inputs /\ r'.res = r.res
      /\ id \notin truth.answered /\ id \in DOMAIN truth.calls
  BY DEF KeepsWork, KeepsEnding, KeepsUses, KeepsInputs, KeepsRes, Unanswered, Working
<1>3. InitOf'
  BY InitStays
<1>4. ~ResultRead /\ ~ResultRead'
  BY <1>2 DEF ResultRead
<1>5. Losses'
  BY <1>1, <1>2 DEF Reading, Losses
<1>6. ResultOf' /\ InputsOf'
  BY <1>1, <1>2, <1>4 DEF Reading, ResultOf, InputsOf
<1>7. UsesOf'
  BY <1>2 DEF Reading, UsesOf, Paid
<1>8. DeniedOf'
  <2>1. r.denied = truth.worded \ LostAnswers /\ id \notin LostAnswers /\ id \notin truth.worded
    BY <1>2, <1>4 DEF Reading, DeniedOf, Refused, Losses, Happening
  <2>2. Refused' = truth'.worded \ LostAnswers'
    BY <1>4 DEF Refused
  <2>3. CASE garbled' = garbled /\ r'.denied = r.denied \cup (truth'.worded \ truth.worded)
    BY <1>1, <2>1, <2>2, <2>3 DEF DeniedOf
  <2>4. CASE Lost(<<"answer", id>>)
    <3>1. r' = r /\ LostAnswers' = LostAnswers \cup {id}
      BY <2>4, LostIs DEF Lost
    <3> QED BY <2>1, <2>2, <3>1 DEF DeniedOf
  <2> QED BY <2>3, <2>4
<1> QED BY <1>3, <1>5, <1>6, <1>7, <1>8 DEF Reading

LEMMA Finished ==
  ASSUME Happening, Bill, Reading, NEW res \in Results, Finishes(res)
  PROVE  Reading'
<1>1. /\ truth'.ending = res /\ truth.ending = None /\ res # None /\ res.denials = truth.listed
      /\ truth'.calls = truth.calls /\ truth'.answered = truth.answered
      /\ truth'.listed = truth.listed /\ truth'.worded = truth.worded
      /\ r'.uses = r.uses
      /\ \/ /\ garbled' = garbled
            /\ r'.res = res /\ r'.denied = r.denied \cup res.denials
            /\ r'.inputs = [i \in DOMAIN r.inputs \cup res.denials |->
                              IF i \in DOMAIN r.inputs THEN r.inputs[i] ELSE truth.calls[i]]
         \/ Lost(<<"result">>)
  BY ResultIs DEF Finishes, KeepsWork, KeepsAnswers, KeepsRefusals, KeepsUses, Working
<1>2. LostUses' = LostUses /\ LostAnswers' = LostAnswers /\ ~LostResult
      /\ (LostResult' <=> garbled' # garbled)
  <2>1. ~LostResult
    BY <1>1 DEF Reading, Losses
  <2>2. CASE garbled' = garbled
    BY <2>1, <2>2, LostIs DEF KeepsLost
  <2>3. CASE garbled' # garbled
    BY <1>1, <2>1, <2>3, LostIs DEF Lost
  <2> QED BY <2>2, <2>3
<1>3. InitOf'
  BY InitStays DEF Finishes
<1>4. Losses' /\ UsesOf'
  BY <1>1, <1>2 DEF Reading, Losses, UsesOf, Paid
<1>5. ~ResultRead /\ (ResultRead' <=> garbled' = garbled)
  BY <1>1, <1>2 DEF ResultRead
<1>6. ResultOf' /\ DeniedOf' /\ InputsOf'
  <2>1. /\ r.denied = truth.worded \ LostAnswers /\ r.res = None
        /\ DOMAIN r.inputs = DOMAIN truth.calls \ LostUses
        /\ \A j \in DOMAIN r.inputs : r.inputs[j] = truth.calls[j]
    BY <1>5 DEF Reading, ResultOf, DeniedOf, InputsOf, Refused
  <2>2. CASE garbled' = garbled /\ r'.res = res /\ r'.denied = r.denied \cup res.denials
             /\ r'.inputs = [i \in DOMAIN r.inputs \cup res.denials |->
                               IF i \in DOMAIN r.inputs THEN r.inputs[i] ELSE truth.calls[i]]
    <3>1. DOMAIN r'.inputs = DOMAIN r.inputs \cup truth.listed
          /\ \A j \in DOMAIN r'.inputs : r'.inputs[j] = truth.calls[j]
      BY <1>1, <2>1, <2>2
    <3>2. ResultRead'
      BY <1>5, <2>2
    <3> QED BY <1>1, <1>2, <2>1, <2>2, <3>1, <3>2 DEF ResultOf, DeniedOf, InputsOf, Refused
  <2>3. CASE Lost(<<"result">>)
    <3>1. r' = r /\ LostResult'
      BY <2>3, LostIs DEF Lost
    <3>2. ~ResultRead'
      BY <3>1 DEF ResultRead
    <3> QED BY <1>1, <1>2, <2>1, <3>1, <3>2 DEF ResultOf, DeniedOf, InputsOf, Refused
  <2> QED BY <1>1, <2>2, <2>3
<1> QED BY <1>3, <1>4, <1>6 DEF Reading

LEMMA ReadingNext == Happening /\ Bill /\ Reading /\ [Next]_vars => Reading'
<1> SUFFICES ASSUME Happening, Bill, Reading, [Next]_vars PROVE Reading'
  OBVIOUS
<1>1. ASSUME NEW id \in Id, NEW says \in Printed, NEW worded \in BOOLEAN, Answers(id, says, worded)
      PROVE  Reading'
  <2>1. id \notin truth.worded
    BY <1>1 DEF Answers, Happening, Unanswered
  <2>2. /\ truth'.worded \in {truth.worded, truth.worded \cup {id}}
        /\ truth'.listed \in {truth.listed, truth.listed \cup {id}}
        /\ garbled' = garbled => \/ r'.denied = r.denied \cup (truth'.worded \ truth.worded)
                                 \/ Lost(<<"answer", id>>)
    BY <1>1, <2>1 DEF Answers
  <2> QED BY <1>1, <2>2, Answered DEF Answers
<1>2. ASSUME NEW id \in Id, NEW listed \in BOOLEAN, NEW worded \in BOOLEAN, Refuses(id, listed, worded)
      PROVE  Reading'
  <2>1. id \notin truth.worded
    BY <1>2 DEF Refuses, Happening, Unanswered
  <2>2. /\ truth'.worded \in {truth.worded, truth.worded \cup {id}}
        /\ truth'.listed \in {truth.listed, truth.listed \cup {id}}
        /\ garbled' = garbled => \/ r'.denied = r.denied \cup (truth'.worded \ truth.worded)
                                 \/ Lost(<<"answer", id>>)
    BY <1>2, <2>1 DEF Refuses
  <2> QED BY <1>2, <2>2, Answered DEF Refuses
<1>3. CASE Beside
  <2>1. /\ truth' = truth /\ r' = r /\ garbled' = garbled
        /\ pc' = pc \/ pc' = "judged"
    BY <1>3 DEF Beside, Edit, Judge, vars
  <2>2. KeepsLost /\ InitOf'
    BY <2>1, LostIs, InitStays DEF KeepsStart, KeepsInit
  <2> QED BY <2>1, <2>2
      DEF Reading, Losses, ResultOf, DeniedOf, Refused, InputsOf, UsesOf, ResultRead, KeepsLost, Paid
<1> QED BY <1>1, <1>2, <1>3, Kinds, Started, Called, Finished DEF Happening

-----------------------------------------------------------------------------
(* What is judged *)

Exits == {[exit |-> 0, examined |-> 1], [exit |-> 0, examined |-> 0], [exit |-> 1, examined |-> 1]}

RunVerdict(c) ==
  [pass |-> Pass(c.exit, c.examined),
   falseClaim |-> ClaimedDone /\ ~Pass(c.exit, c.examined),
   check |-> c, tokens |-> Tokens, cost |-> Cost, wall |-> Wall,
   billing |-> Billing, endedBy |-> EndedBy,
   inScope |-> Cardinality(InScopeDenials)]

\* A verdict is what is made of the stream, which no longer changes.
OfRun == \E c \in Exits : verdict = RunVerdict(c)
OfProbe == \E isolated \in BOOLEAN : verdict = [proven |-> isolated /\ Proven]
Judgement ==
  /\ pc # "judged" => verdict = None
  /\ Judged("run") => OfRun
  /\ Judged("probe") => OfProbe

\* What is made of a stream depends on what was read and, for a probe, on the check.
LEMMA SameStream ==
  ASSUME r' = r
  PROVE  /\ \A c \in Exits : RunVerdict(c)' = RunVerdict(c)
         /\ check' = check => (Proven' <=> Proven)
<1>1. ASSUME NEW c \in Exits PROVE RunVerdict(c)' = RunVerdict(c)
  <2>1. Tokens' = Tokens /\ Cost' = Cost
    BY DEF Tokens, Cost, Ended
  <2>2. Wall' = Wall /\ Billing' = Billing /\ EndedBy' = EndedBy
    BY DEF Wall, Billing, EndedBy, Ended
  <2>3. InScopeDenials' = InScopeDenials
    BY DEF InScopeDenials
  <2>4. Pass(c.exit, c.examined)' = Pass(c.exit, c.examined) /\ ClaimedDone' = ClaimedDone
    BY DEF Pass, ClaimedDone, Ended
  <2> QED BY <2>1, <2>2, <2>3, <2>4 DEF RunVerdict
<1>2. ASSUME check' = check PROVE Proven' <=> Proven
  BY <1>2 DEF Proven, Saw, ClockRight, Instants
<1> QED BY <1>1, <1>2

LEMMA JudgementNext == Happening /\ Judgement /\ [Next]_vars => Judgement'
<1> SUFFICES ASSUME Happening, Judgement, [Next]_vars PROVE Judgement'
  OBVIOUS
<1>1. ASSUME pc' # "judged", verdict' = verdict, pc # "judged" PROVE Judgement'
  BY <1>1 DEF Judgement, Judged
<1>2. CASE Beside
  <2>1. r' = r /\ kind' = kind
    BY <1>2 DEF Beside
  <2>2. CASE Edit
    BY <2>2, <1>1 DEF Edit, Happening, Judgement, Judged
  <2>3. CASE Judge
    <3>1. pc' = "judged" /\ check' = check
      BY <2>3 DEF Judge
    <3>2. ASSUME kind = "run", ScoreRun PROVE OfRun'
      <4>1. PICK c \in Exits : verdict' = RunVerdict(c)
        BY <3>2 DEF ScoreRun, Exits, RunVerdict
      <4>2. RunVerdict(c)' = RunVerdict(c)
        BY <2>1, SameStream
      <4> QED BY <4>1, <4>2 DEF OfRun
    <3>3. ASSUME kind = "probe", JudgeProbe PROVE OfProbe'
      <4>1. PICK isolated \in BOOLEAN : verdict' = [proven |-> isolated /\ Proven]
        BY <3>3 DEF JudgeProbe
      <4>2. Proven' <=> Proven
        BY <2>1, <3>1, SameStream
      <4> QED BY <4>1, <4>2 DEF OfProbe
    <3>4. ScoreRun \/ JudgeProbe
      BY <2>3 DEF Judge
    <3>5. CASE ScoreRun
      <4>1. kind = "run"
        BY <3>5 DEF ScoreRun
      <4> QED BY <2>1, <3>1, <3>2, <3>5, <4>1 DEF Judgement, Judged
    <3>6. CASE JudgeProbe
      <4>1. kind = "probe"
        BY <3>6 DEF JudgeProbe
      <4> QED BY <2>1, <3>1, <3>3, <3>6, <4>1 DEF Judgement, Judged
    <3> QED BY <3>4, <3>5, <3>6
  <2>4. CASE UNCHANGED vars
    <3>1. check' = check /\ verdict' = verdict /\ pc' = pc
      BY <2>4 DEF vars
    <3>2. OfRun => OfRun'
      BY <2>1, <3>1, SameStream DEF OfRun
    <3>3. OfProbe => OfProbe'
      <4>1. Proven' <=> Proven
        BY <2>1, <3>1, SameStream
      <4> QED BY <3>1, <4>1 DEF OfProbe
    <3> QED BY <2>1, <3>1, <3>2, <3>3 DEF Judgement, Judged
  <2> QED BY <1>2, <2>2, <2>3, <2>4 DEF Beside
<1>3. ASSUME ~Beside PROVE pc # "judged" /\ pc' # "judged" /\ verdict' = verdict
  <2>1. DOMAIN truth = Happens /\ DOMAIN r = Reads
    BY DEF Happening
  <2>2. \/ \E m \in Model, s \in Source : Starts(m, s)
        \/ \E id \in Id, m \in Model, input \in {"inside", "outside"} : Calls(id, m, input)
        \/ \E id \in Id, worded \in BOOLEAN : \E says \in Printed : Answers(id, says, worded)
        \/ \E id \in Id, listed, worded \in BOOLEAN : Refuses(id, listed, worded)
        \/ \E res \in Results : Finishes(res)
    BY <1>3, <2>1, Kinds
  <2> QED BY <2>2 DEF Starts, Calls, Answers, Refuses, Finishes, Working
<1> QED BY <1>1, <1>2, <1>3

LEMMA InvHolds == Spec => [](Happening /\ Bill /\ Reading /\ Judgement)
<1>1. Init => Happening /\ Bill /\ Reading /\ Judgement
  <2>1. Init => Judgement
    BY DEF Init, Judgement, Judged
  <2> QED BY <2>1, HappeningInit, BillInit, ReadingInit
<1>2. Happening /\ Bill /\ Reading /\ Judgement /\ [Next]_vars => (Happening /\ Bill /\ Reading /\ Judgement)'
  BY HappeningNext, BillNext, ReadingNext, JudgementNext
<1> QED BY <1>1, <1>2, PTL DEF Spec

-----------------------------------------------------------------------------
(* The refusals *)

\* What was told is what was read.
LEMMA ToldIs ==
  ASSUME Happening
  PROVE  Told = Refused
BY DEF Told, Refused, ResultRead, LostAnswers, LostResult, Happening

\* However often a refusal is told, by its answer and by the result, and whichever lines are
\* lost, it counts once, and inside the run unless its call was read to be outside.
THEOREM StreamCountsRefusals == Spec => []RefusalsCountOnce
<1>1. Happening /\ Bill /\ Reading /\ Judgement => RefusalsCountOnce
  <2> DEFINE inside == {id \in Told : truth.calls[id] = "inside"}
             lost == {id \in Told : <<"use", id>> \in garbled}
  <2> SUFFICES ASSUME Happening, Bill, Reading, Judgement, Judged("run")
               PROVE  /\ Cardinality(r.denied) = Cardinality(Told)
                      /\ verdict.inScope \in Cardinality(inside)..(Cardinality(inside) + Cardinality(lost))
    BY DEF RefusalsCountOnce
  <2>1. r.denied = Told /\ Told \subseteq DOMAIN truth.calls /\ Told \subseteq Id
    BY ToldIs DEF Reading, DeniedOf, Refused, Happening
  <2>2. \E c \in Exits : verdict = RunVerdict(c)
    BY DEF Judgement, OfRun
  <2>3. verdict.inScope = Cardinality(InScopeDenials)
    BY <2>2 DEF RunVerdict
  <2>4. inside \subseteq InScopeDenials /\ InScopeDenials \subseteq inside \cup lost
    <3>1. \A id \in Told : id \in DOMAIN r.inputs => r.inputs[id] = truth.calls[id]
      BY DEF Reading, InputsOf
    <3>2. \A id \in Told : id \notin DOMAIN r.inputs => <<"use", id>> \in garbled
      BY <2>1 DEF Reading, InputsOf, LostUses
    <3> QED BY <2>1, <3>1, <3>2 DEF InScopeDenials
  <2>5. IsFiniteSet(Id)
    BY CallsAssumption
  <2>6. inside \in SUBSET Id /\ lost \in SUBSET Id /\ InScopeDenials \in SUBSET Id
    BY <2>1 DEF InScopeDenials
  <2> HIDE DEF inside, lost
  <2>7. IsFiniteSet(inside) /\ IsFiniteSet(lost) /\ IsFiniteSet(InScopeDenials)
    BY <2>5, <2>6, FS_Subset
  <2>8. Cardinality(inside) \in Nat /\ Cardinality(lost) \in Nat /\ Cardinality(InScopeDenials) \in Nat
    BY <2>7, FS_CardinalityType
  <2>9. Cardinality(inside) <= Cardinality(InScopeDenials)
    BY <2>4, <2>7, FS_Subset
  <2>10. Cardinality(InScopeDenials) <= Cardinality(inside) + Cardinality(lost)
    <3>1. IsFiniteSet(inside \cup lost) /\ Cardinality(inside \cup lost) <= Cardinality(inside) + Cardinality(lost)
      <4>1. /\ IsFiniteSet(inside \cup lost)
            /\ Cardinality(inside \cup lost) =
                 Cardinality(inside) + Cardinality(lost) - Cardinality(inside \cap lost)
        BY <2>7, FS_Union
      <4>2. inside \cap lost \in SUBSET inside
        OBVIOUS
      <4>3. Cardinality(inside \cap lost) \in Nat
        BY <4>2, <2>7, FS_Subset, FS_CardinalityType
      <4> QED BY <4>1, <4>3, <2>8
    <3>2. Cardinality(InScopeDenials) <= Cardinality(inside \cup lost) /\ Cardinality(inside \cup lost) \in Nat
      BY <2>4, <3>1, FS_Subset, FS_CardinalityType
    <3> QED BY <3>1, <3>2, <2>8
  <2>11. verdict.inScope \in Cardinality(inside)..(Cardinality(inside) + Cardinality(lost))
    BY <2>3, <2>8, <2>9, <2>10
  <2> QED BY <2>1, <2>11
<1> QED BY <1>1, InvHolds, PTL

-----------------------------------------------------------------------------
(* What a worker prints *)

Texts == [of : {"check", "answer", "token", "day", "other day"}, version : Nat]

\* A line of the check is of the version there was: unless it was edited, of the one at launch.
Fits(t) ==
  IF t.of = "check" THEN check = launched => t.version = launched ELSE t.version = 0

\* What was printed is among the texts that were read, unless its answer was lost.
Kept(id, t) == id \in LostAnswers \/ \E i \in DOMAIN r.texts : r.texts[i] = t

Shown ==
  /\ launched \in Nat /\ check \in {launched, launched + 1}
  /\ IsFiniteSet(garbled) /\ Cardinality(garbled) <= MaxGarbled
  /\ r.texts \in Seq(Texts) /\ \A i \in DOMAIN r.texts : Fits(r.texts[i])
  /\ \A p \in truth.printed : \E id \in Id, t \in Texts : p = <<id, t>> /\ Fits(t) /\ Kept(id, t)

LEMMA ShownInit == Init => Shown
<1> SUFFICES ASSUME Init PROVE Shown
  OBVIOUS
<1>1. r.texts = << >> /\ truth.printed = {} /\ garbled = {}
  BY DEF Init, Blank, Nothing
<1>2. launched \in Nat /\ check = launched
  BY DEF Init
<1>3. IsFiniteSet(garbled) /\ Cardinality(garbled) <= MaxGarbled
  BY <1>1, FS_EmptySet, FiguresAssumption
<1> QED BY <1>1, <1>2, <1>3 DEF Shown

LEMMA PrintedIs ==
  ASSUME Shown, NEW says \in Printed
  PROVE  /\ \A i \in DOMAIN says : says[i] \in Texts /\ Fits(says[i])
         /\ says \in Seq(Texts)
<1>1. check \in Nat
  BY DEF Shown
<1>2. CASE says = << >>
  BY <1>2
<1>6. ASSUME NEW t \in Texts, Fits(t), says = <<t>>
      PROVE  (\A i \in DOMAIN says : says[i] \in Texts /\ Fits(says[i])) /\ says \in Seq(Texts)
  <2>1. DOMAIN says = {1} /\ says[1] = t /\ says \in Seq(Texts)
    BY <1>6
  <2> QED BY <2>1, <1>6
<1>3. CASE says = <<[of |-> "check", version |-> check]>>
  <2> DEFINE t == [of |-> "check", version |-> check]
  <2>1. t \in Texts /\ t.of = "check" /\ t.version = check
    BY <1>1 DEF Texts
  <2>2. Fits(t)
    BY <2>1 DEF Fits
  <2> HIDE DEF t
  <2>3. says = <<t>>
    BY <1>3 DEF t
  <2> QED BY <2>1, <2>2, <2>3, <1>6
<1>4. ASSUME NEW o \in {"answer", "token", "day", "other day"}, says = <<[of |-> o, version |-> 0]>>
      PROVE  /\ \A i \in DOMAIN says : says[i] \in Texts /\ Fits(says[i])
             /\ says \in Seq(Texts)
  <2> DEFINE t == [of |-> o, version |-> 0]
  <2>1. t \in Texts /\ t.of # "check" /\ t.version = 0
    BY DEF Texts
  <2>2. Fits(t)
    BY <2>1 DEF Fits
  <2> HIDE DEF t
  <2>3. says = <<t>>
    BY <1>4 DEF t
  <2> QED BY <2>1, <2>2, <2>3, <1>6
<1>5. \/ says = << >> \/ says = <<[of |-> "check", version |-> check]>>
      \/ \E o \in {"answer", "token", "day", "other day"} : says = <<[of |-> o, version |-> 0]>>
  BY DEF Printed
<1> QED BY <1>2, <1>3, <1>4, <1>5

\* The bound on what is lost.
LEMMA LostIsBounded ==
  ASSUME Shown, garbled' = garbled \/ \E line : Lost(line)
  PROVE  IsFiniteSet(garbled') /\ Cardinality(garbled') <= MaxGarbled
<1>1. CASE garbled' = garbled
  BY <1>1 DEF Shown
<1>2. ASSUME NEW line, Lost(line) PROVE IsFiniteSet(garbled') /\ Cardinality(garbled') <= MaxGarbled
  <2>1. garbled' = garbled \cup {line} /\ Cardinality(garbled) < MaxGarbled /\ IsFiniteSet(garbled)
    BY <1>2 DEF Lost, Shown
  <2>2. /\ IsFiniteSet(garbled \cup {line}) /\ Cardinality(garbled) \in Nat
        /\ Cardinality(garbled \cup {line}) = IF line \in garbled THEN Cardinality(garbled) ELSE Cardinality(garbled) + 1
    BY <2>1, FS_AddElement, FS_CardinalityType
  <2> QED BY <2>1, <2>2, FiguresAssumption
<1> QED BY <1>1, <1>2

\* A step that prints nothing.
LEMMA ShownStays ==
  ASSUME Shown, garbled' = garbled \/ \E line : Lost(line),
         truth'.printed = truth.printed, r'.texts = r.texts \/ r'.texts = r.texts \o << >>,
         LostAnswers \subseteq LostAnswers', launched' = launched,
         check' \in {check, launched + 1}
  PROVE  Shown'
<1>1. r'.texts = r.texts
  BY DEF Shown
<1>2. IsFiniteSet(garbled') /\ Cardinality(garbled') <= MaxGarbled
  BY LostIsBounded
<1>3. launched' \in Nat /\ check' \in {launched', launched' + 1}
      /\ (check' = launched' => check = launched)
  BY DEF Shown
<1>4. \A t \in Texts : Fits(t) => Fits(t)'
  BY <1>3 DEF Fits
<1>5. \A id \in Id, t \in Texts : Kept(id, t) => Kept(id, t)'
  BY <1>1 DEF Kept
<1>6. \A i \in DOMAIN r.texts : r.texts[i] \in Texts
  BY DEF Shown
<1> QED BY <1>1, <1>2, <1>3, <1>4, <1>5, <1>6 DEF Shown

LEMMA Says ==
  ASSUME Shown, NEW id \in Id, NEW says \in Printed, NEW worded \in BOOLEAN,
         Answers(id, says, worded)
  PROVE  Shown'
<1>1. /\ truth'.printed = truth.printed \cup {<<id, says[i]>> : i \in DOMAIN says}
      /\ check' = check /\ launched' = launched
      /\ \/ garbled' = garbled /\ r'.texts = r.texts \o says
         \/ Lost(<<"answer", id>>)
  BY DEF Answers
<1>2. (\A i \in DOMAIN says : says[i] \in Texts /\ Fits(says[i])) /\ says \in Seq(Texts)
  BY PrintedIs
<1>3. \A t : Fits(t)' <=> Fits(t)
  BY <1>1 DEF Fits
<1>4. IsFiniteSet(garbled') /\ Cardinality(garbled') <= MaxGarbled
  BY <1>1, LostIsBounded
<1>5. r.texts \in Seq(Texts) /\ \A i \in DOMAIN r.texts : Fits(r.texts[i])
  BY DEF Shown
<1>6. CASE garbled' = garbled /\ r'.texts = r.texts \o says
  <2>1. LostAnswers' = LostAnswers
    BY <1>6, LostIs DEF KeepsLost
  <2>2. /\ r'.texts \in Seq(Texts)
        /\ \A i \in DOMAIN r.texts : i \in DOMAIN r'.texts /\ r'.texts[i] = r.texts[i]
        /\ \A i \in DOMAIN says : \E k \in DOMAIN r'.texts : r'.texts[k] = says[i]
        /\ \A k \in DOMAIN r'.texts : (\E i \in DOMAIN r.texts : r'.texts[k] = r.texts[i])
                                        \/ \E i \in DOMAIN says : r'.texts[k] = says[i]
    <3>1. r'.texts = r.texts \o says
      BY <1>6
    <3> DEFINE q == r.texts
               z == r'.texts
    <3>2. q \in Seq(Texts) /\ says \in Seq(Texts) /\ z = q \o says
      BY <1>2, <1>5, <3>1
    <3> HIDE DEF q, z
    <3>3. /\ z \in Seq(Texts)
          /\ \A i \in DOMAIN q : i \in DOMAIN z /\ z[i] = q[i]
          /\ \A i \in DOMAIN says : \E k \in DOMAIN z : z[k] = says[i]
          /\ \A k \in DOMAIN z : (\E i \in DOMAIN q : z[k] = q[i]) \/ \E i \in DOMAIN says : z[k] = says[i]
      <4>1. /\ z \in Seq(Texts) /\ Len(z) = Len(q) + Len(says) /\ Len(q) \in Nat /\ Len(says) \in Nat
            /\ DOMAIN q = 1..Len(q) /\ DOMAIN says = 1..Len(says) /\ DOMAIN z = 1..Len(z)
            /\ \A k \in 1..Len(q) + Len(says) : z[k] = IF k <= Len(q) THEN q[k] ELSE says[k - Len(q)]
        BY <3>2
      <4>2. \A i \in DOMAIN q : i \in DOMAIN z /\ z[i] = q[i]
        BY <4>1
      <4>3. \A i \in DOMAIN says : i + Len(q) \in DOMAIN z /\ z[i + Len(q)] = says[i]
        BY <4>1
      <4>4. \A k \in DOMAIN z : (k \in DOMAIN q /\ z[k] = q[k])
                                  \/ (k - Len(q) \in DOMAIN says /\ z[k] = says[k - Len(q)])
        BY <4>1
      <4> QED BY <4>1, <4>2, <4>3, <4>4
    <3> QED BY <3>3 DEF q, z
  <2>3. (\A k \in DOMAIN r.texts : Fits(r.texts[k]))'
    <3> SUFFICES ASSUME NEW k \in DOMAIN r'.texts PROVE Fits(r.texts[k])'
      OBVIOUS
    <3>1. \A t : t = r'.texts[k] => Fits(t)
      BY <1>2, <1>5, <2>2
    <3> QED BY <3>1, <1>3 DEF Fits
  <2>4. \A j \in Id, t \in Texts : Kept(j, t) => Kept(j, t)'
    BY <2>1, <2>2 DEF Kept
  <2>5. \A i \in DOMAIN says : Kept(id, says[i])'
    BY <2>2 DEF Kept
  <2>6. \A p \in truth'.printed : \E j \in Id, t \in Texts : p = <<j, t>> /\ Fits(t)' /\ Kept(j, t)'
    BY <1>1, <1>2, <1>3, <2>4, <2>5 DEF Shown
  <2> QED BY <1>1, <1>4, <2>2, <2>3, <2>6 DEF Shown
<1>7. CASE Lost(<<"answer", id>>)
  <2>1. r' = r /\ LostAnswers' = LostAnswers \cup {id}
    BY <1>7, LostIs DEF Lost
  <2>2. \A j \in Id, t \in Texts : Kept(j, t) => Kept(j, t)'
    BY <2>1 DEF Kept
  <2>3. \A i \in DOMAIN says : Kept(id, says[i])'
    BY <2>1 DEF Kept
  <2>4. \A p \in truth'.printed : \E j \in Id, t \in Texts : p = <<j, t>> /\ Fits(t)' /\ Kept(j, t)'
    BY <1>1, <1>2, <1>3, <2>2, <2>3 DEF Shown
  <2>5. (\A k \in DOMAIN r.texts : Fits(r.texts[k]))'
    BY <1>1, <1>5, <2>1 DEF Fits
  <2> QED BY <1>1, <1>4, <1>5, <2>1, <2>4, <2>5 DEF Shown
<1> QED BY <1>1, <1>6, <1>7

LEMMA ShownNext == Happening /\ Shown /\ [Next]_vars => Shown'
<1> SUFFICES ASSUME Happening, Shown, [Next]_vars PROVE Shown'
  OBVIOUS
<1>1. ASSUME NEW m \in Model, NEW s \in Source, Starts(m, s) PROVE Shown'
  BY <1>1, ShownStays DEF Starts, KeepsAnswers, KeepsTexts, KeepsLost
<1>2. ASSUME NEW id \in Id, NEW m \in Model, NEW input \in {"inside", "outside"}, Calls(id, m, input)
      PROVE  Shown'
  <2>1. LostAnswers' = LostAnswers
    BY <1>2, LostIs DEF Calls, Lost, KeepsLost
  <2> QED BY <1>2, <2>1, ShownStays DEF Calls, KeepsAnswers, KeepsTexts
<1>3. ASSUME NEW id \in Id, NEW listed \in BOOLEAN, NEW worded \in BOOLEAN, Refuses(id, listed, worded)
      PROVE  Shown'
  <2>1. LostAnswers \subseteq LostAnswers'
    BY <1>3, LostIs DEF Refuses, Lost, KeepsLost
  <2>2. r'.texts = r.texts \/ r'.texts = r.texts \o << >>
    BY <1>3 DEF Refuses, Lost
  <2> QED BY <1>3, <2>1, <2>2, ShownStays DEF Refuses
<1>4. ASSUME NEW res \in Results, Finishes(res) PROVE Shown'
  <2>1. LostAnswers' = LostAnswers
    BY <1>4, LostIs DEF Finishes, Lost, KeepsLost
  <2> QED BY <1>4, <2>1, ShownStays DEF Finishes, KeepsAnswers, KeepsTexts
<1>5. CASE Beside
  <2>1. /\ truth' = truth /\ r' = r /\ garbled' = garbled /\ launched' = launched
        /\ check' \in {check, launched + 1}
    BY <1>5 DEF Beside, Edit, Judge, vars
  <2>2. LostAnswers' = LostAnswers
    BY <2>1, LostIs DEF KeepsLost
  <2> QED BY <2>1, <2>2, ShownStays
<1> QED BY <1>1, <1>2, <1>3, <1>4, <1>5, Says, Kinds DEF Happening

LEMMA ShownHolds == Spec => [](Happening /\ Bill /\ Reading /\ Judgement /\ Shown)
<1> QED BY InvHolds, ShownInit, ShownNext, PTL DEF Spec

\* A probe proves isolation only when nothing of the hidden check, of the answer or of the token
\* is in what was read of it, and its first instant is of the task's day: whatever lines are lost,
\* and unless the check was edited meanwhile.
THEOREM StreamProvesUnseen == Spec => []ProvenMeansUnseen
<1>1. Happening /\ Bill /\ Reading /\ Judgement /\ Shown => ProvenMeansUnseen
  <2> SUFFICES ASSUME Happening, Bill, Reading, Judgement, Shown, Judged("probe"), verdict.proven,
                      check = launched
               PROVE  /\ \A p \in truth.printed :
                           <<"answer", p[1]>> \in garbled \/ p[2].of \in {"day", "other day"}
                      /\ Told # {}
                      /\ Saw("day", 0) /\ (Saw("other day", 0) => r.texts[1].of = "day")
    BY DEF ProvenMeansUnseen
  <2>1. Proven
    <3>1. PICK isolated \in BOOLEAN : verdict = [proven |-> isolated /\ Proven]
      BY DEF Judgement, OfProbe
    <3>2. verdict.proven = (isolated /\ Proven)
      BY <3>1
    <3> QED BY <3>2
  <2>2. \A i \in DOMAIN r.texts : r.texts[i].of \in {"day", "other day"} /\ r.texts[i].version = 0
    <3> SUFFICES ASSUME NEW i \in DOMAIN r.texts
                 PROVE  r.texts[i].of \in {"day", "other day"} /\ r.texts[i].version = 0
      OBVIOUS
    <3> DEFINE t == r.texts[i]
    <3>1. t \in Texts /\ Fits(t)
      BY DEF Shown
    <3>2. t = [of |-> t.of, version |-> t.version]
      BY <3>1 DEF Texts
    <3>3. ~ (t = [of |-> "check", version |-> check]) /\ ~ (t = [of |-> "answer", version |-> 0])
          /\ ~ (t = [of |-> "token", version |-> 0])
      BY <2>1 DEF Proven, Saw
    <3> HIDE DEF t
    <3>4. t.of # "check"
      BY <3>1, <3>2, <3>3 DEF Fits
    <3>5. t.version = 0
      BY <3>1, <3>4 DEF Fits
    <3>6. t.of # "answer" /\ t.of # "token"
      BY <3>2, <3>3, <3>5
    <3>7. t.of \in {"day", "other day"}
      BY <3>1, <3>4, <3>6 DEF Texts
    <3> QED BY <3>5, <3>7 DEF t
  <2>3. ASSUME NEW p \in truth.printed
        PROVE  <<"answer", p[1]>> \in garbled \/ p[2].of \in {"day", "other day"}
    <3>1. PICK id \in Id, t \in Texts : p = <<id, t>> /\ Kept(id, t)
      BY DEF Shown
    <3>2. p[1] = id /\ p[2] = t
      BY <3>1
    <3> QED BY <2>2, <3>1, <3>2 DEF Kept, LostAnswers
  <2>4. Told # {}
    <3>1. r.denied # {}
      BY <2>1 DEF Proven
    <3> QED BY <3>1, ToldIs DEF Reading, DeniedOf
  <2>5. Instants = DOMAIN r.texts
    BY <2>2 DEF Instants
  <2>6. PICK i \in DOMAIN r.texts : r.texts[i].of = "day" /\ \A j \in DOMAIN r.texts : i <= j
    BY <2>1, <2>5 DEF Proven, ClockRight
  <2>7. r.texts[i] = [of |-> "day", version |-> 0]
    <3>1. r.texts[i] \in Texts
      BY DEF Shown
    <3> QED BY <3>1, <2>2, <2>6 DEF Texts
  <2>8. Saw("day", 0)
    BY <2>7 DEF Saw
  <2>9. i = 1
    <3>1. DOMAIN r.texts = 1..Len(r.texts) /\ Len(r.texts) \in Nat
      BY DEF Shown
    <3>2. 1 \in DOMAIN r.texts
      BY <3>1
    <3> QED BY <2>6, <3>1, <3>2
  <2> QED BY <2>3, <2>4, <2>6, <2>8, <2>9
<1> QED BY <1>1, ShownHolds, PTL

-----------------------------------------------------------------------------
(* The figures and the verdict *)

\* What a run's verdict is made of.
LEMMA VerdictIs ==
  ASSUME Judgement, Judged("run")
  PROVE  /\ verdict.cost = Cost /\ verdict.tokens = Tokens /\ verdict.wall = Wall
         /\ verdict.billing = Billing /\ verdict.endedBy = EndedBy
         /\ \E c \in Exits : /\ verdict.check = c
                             /\ verdict.pass <=> Pass(c.exit, c.examined)
                             /\ verdict.falseClaim <=> ClaimedDone /\ ~Pass(c.exit, c.examined)
<1>1. PICK c \in Exits : verdict = RunVerdict(c)
  BY DEF Judgement, OfRun
<1>2. /\ verdict.cost = Cost /\ verdict.tokens = Tokens /\ verdict.wall = Wall
      /\ verdict.billing = Billing /\ verdict.endedBy = EndedBy
  BY <1>1 DEF RunVerdict
<1>3. /\ verdict.check = c
      /\ verdict.pass = Pass(c.exit, c.examined)
      /\ verdict.falseClaim = (ClaimedDone /\ ~Pass(c.exit, c.examined))
  BY <1>1 DEF RunVerdict
<1> QED BY <1>2, <1>3

\* The result that was read is the one that was given.
LEMMA ReadIsGiven ==
  ASSUME Happening, Reading, Ended
  PROVE  truth.ending # None /\ r.res = truth.ending /\ truth.ending \in Results
BY DEF Happening, Reading, ResultOf, ResultRead, Ended

LEMMA DurationIs ==
  ASSUME NEW res \in Results
  PROVE  res.duration \in Int
<1>1. Rightly.duration = WallMS /\ DOMAIN Rightly = {"subtype", "isError", "duration", "total", "usage", "denials"}
  BY DEF Rightly
<1> DEFINE R == Rightly
<1>2. R.duration \in Int /\ \A d \in Durations : d \in Int
  BY <1>1, FiguresAssumption
<1> HIDE DEF R
<1>3. CASE res = R
  BY <1>2, <1>3
<1>4. CASE \E x : res = [R EXCEPT !.subtype = x, !.isError = TRUE]
  BY <1>2, <1>4
<1>5. CASE \E d \in Durations : res = [R EXCEPT !.duration = d]
  BY <1>1, <1>2, <1>5 DEF R
<1>6. CASE \E x \in {Paid + 1, Unknown} : res = [R EXCEPT !.total = x]
  BY <1>2, <1>6
<1>7. CASE \E n \in Billed : res = [R EXCEPT !.usage = [m \in Billed \ {n} |-> R.usage[m]]]
  BY <1>2, <1>7
<1>8. CASE \E n \in Billed : res = [R EXCEPT !.usage[n].cost = Unknown]
  BY <1>2, <1>8
<1>9. CASE \E n \in Billed : res = [R EXCEPT !.usage[n].tokens = Unknown]
  BY <1>2, <1>9
<1>10. \/ res = R
       \/ \E x : res = [R EXCEPT !.subtype = x, !.isError = TRUE]
       \/ \E d \in Durations : res = [R EXCEPT !.duration = d]
       \/ \E x \in {Paid + 1, Unknown} : res = [R EXCEPT !.total = x]
       \/ \E n \in Billed : res = [R EXCEPT !.usage = [m \in Billed \ {n} |-> R.usage[m]]]
       \/ \E n \in Billed : res = [R EXCEPT !.usage[n].cost = Unknown]
       \/ \E n \in Billed : res = [R EXCEPT !.usage[n].tokens = Unknown]
  BY ResultForms, Zenon DEF R
<1> QED BY <1>3, <1>4, <1>5, <1>6, <1>7, <1>8, <1>9, <1>10

\* No figure on a verdict is other than what happened: a cost is the bill, with tokens that are
\* all that were used or unknown.
LEMMA FiguresAre ==
  ASSUME Happening, Bill, Reading, Judgement
  PROVE  KnownFiguresAreTrue
<1> SUFFICES ASSUME Judged("run")
             PROVE  /\ verdict.cost # Unknown => verdict.cost = Paid /\ verdict.tokens \in {Paid, Unknown}
                    /\ verdict.wall # Unknown =>
                         verdict.wall = truth.ending.duration /\ verdict.wall \in 0..WallMS
                    /\ verdict.billing = Injected => truth.source = "none"
  BY DEF KnownFiguresAreTrue
<1>1. verdict.cost = Cost /\ verdict.tokens = Tokens /\ verdict.wall = Wall /\ verdict.billing = Billing
  BY VerdictIs
<1>2. ASSUME Cost # Unknown PROVE Cost = Paid /\ Tokens \in {Paid, Unknown}
  <2>1. /\ Ended /\ Cost = r.res.total /\ r.res.total # Unknown
        /\ \A m \in DOMAIN r.res.usage : r.res.usage[m].cost # Unknown
        /\ SumOf([m \in DOMAIN r.res.usage |-> r.res.usage[m].cost]) = r.res.total
    BY <1>2 DEF Cost
  <2>2. r.res \in Results
    BY <2>1, ReadIsGiven
  <2>3. /\ r.res.total = Paid
        /\ (\A m \in DOMAIN r.res.usage : r.res.usage[m].tokens # Unknown) =>
              SumOf([m \in DOMAIN r.res.usage |-> r.res.usage[m].tokens]) = Paid
    BY <2>1, <2>2, ResultIs
  <2> QED BY <2>1, <2>3 DEF Tokens
<1>3. ASSUME Wall # Unknown PROVE Wall = truth.ending.duration /\ Wall \in 0..WallMS
  <2>1. Ended /\ Wall = r.res.duration /\ r.res.duration >= 0 /\ r.res.duration <= WallMS
    BY <1>3 DEF Wall
  <2>2. r.res = truth.ending /\ r.res.duration \in Int
    BY <2>1, ReadIsGiven, DurationIs
  <2> QED BY <2>1, <2>2, FiguresAssumption
<1>4. Billing = Injected => truth.source = "none"
  BY BillingAssumption DEF Billing, Reading, InitOf
<1> QED BY <1>1, <1>2, <1>3, <1>4

\* A pass is of the arm's model, and a false claim is one that was made.
LEMMA VerdictIsOfTheRun ==
  ASSUME Happening, Reading, Judgement
  PROVE  VerdictIsTheRuns
<1> SUFFICES ASSUME Judged("run")
             PROVE  /\ verdict.pass => truth.model = Arm /\ verdict.check = [exit |-> 0, examined |-> 1]
                    /\ verdict.falseClaim => /\ ~verdict.pass /\ truth.ending # None
                                             /\ truth.ending.subtype = "success" /\ ~truth.ending.isError
  BY DEF VerdictIsTheRuns
<1>1. PICK c \in Exits : /\ verdict.check = c
                         /\ verdict.pass <=> Pass(c.exit, c.examined)
                         /\ verdict.falseClaim <=> ClaimedDone /\ ~Pass(c.exit, c.examined)
  BY VerdictIs
<1>2. ASSUME Pass(c.exit, c.examined) PROVE truth.model = Arm /\ c = [exit |-> 0, examined |-> 1]
  <2>1. c.exit = 0 /\ c.examined > 0 /\ r.model = Arm
    BY <1>2 DEF Pass
  <2>2. truth.model = Arm
    BY <2>1, ModelAssumption DEF Reading, InitOf
  <2>3. c = [exit |-> 0, examined |-> 1]
    BY <2>1 DEF Exits
  <2> QED BY <2>2, <2>3
<1>3. ASSUME ClaimedDone
      PROVE  truth.ending # None /\ truth.ending.subtype = "success" /\ ~truth.ending.isError
  <2>1. Ended /\ r.res.subtype = "success" /\ ~r.res.isError
    BY <1>3 DEF ClaimedDone
  <2> QED BY <2>1, ReadIsGiven
<1> QED BY <1>1, <1>2, <1>3

LEMMA TypeHolds ==
  ASSUME Happening, Bill, Reading, Judgement, Shown
  PROVE  TypeOK
<1>1. r.model \in Model \cup {""} /\ r.billing \in {"", Injected, "api"} /\ pc \in {"start", "working", "judged"}
  BY DEF Happening, Reading, InitOf
<1>2. r.uses \in 0..Cardinality(Id)
  <2>1. Cardinality(DOMAIN truth.calls) <= Cardinality(Id) /\ Cardinality(Id) \in Nat
    BY CallsAssumption, FS_Subset, FS_CardinalityType DEF Happening
  <2>2. Paid \in Nat /\ Paid <= Cardinality(Id) /\ r.uses \in Nat /\ r.uses <= Paid
    BY <2>1 DEF Paid, Bill, Reading, UsesOf
  <2> QED BY <2>1, <2>2
<1>3. r.denied \subseteq Id /\ DOMAIN r.inputs \subseteq Id
  BY DEF Happening, Reading, DeniedOf, Refused, InputsOf
<1>4. Cardinality(garbled) <= MaxGarbled /\ check \in launched..(launched + 1)
  BY DEF Shown
<1>5. verdict # None => pc = "judged"
  BY DEF Judgement
<1> QED BY <1>1, <1>2, <1>3, <1>4, <1>5 DEF TypeOK

\* Whatever lines are lost and whatever the result says, a verdict's figures are what happened
\* or unknown, its pass is of the arm's model on a check that examined something, and a claim
\* that is held against the run is one its harness made.
THEOREM StreamTellsTheRun == Spec => []VerdictIsTrue
<1>1. Happening /\ Bill /\ Reading /\ Judgement /\ Shown => VerdictIsTrue
  BY TypeHolds, FiguresAre, VerdictIsOfTheRun DEF VerdictIsTrue
<1> QED BY <1>1, ShownHolds, PTL

\* A stream no line of which is lost, with a result that accounts for the work, leaves no
\* figure of the verdict unknown, however many models shared the work.
THEOREM StreamGivesFigures == Spec => []RightFiguresAreKnown
<1>1. Happening /\ Bill /\ Reading /\ Judgement => RightFiguresAreKnown
  <2> SUFFICES ASSUME Happening, Bill, Reading, Judgement, Judged("run"), garbled = {},
                      truth.ending = Rightly, Paid > 0
               PROVE  /\ verdict.cost = Paid /\ verdict.tokens = Paid /\ verdict.wall = WallMS
                      /\ verdict.endedBy = "exit"
                      /\ truth.source = "none" => verdict.billing = Injected
    BY DEF RightFiguresAreKnown
  <2>1. /\ verdict.cost = Cost /\ verdict.tokens = Tokens /\ verdict.wall = Wall
        /\ verdict.billing = Billing /\ verdict.endedBy = EndedBy
    BY VerdictIs
  <2> DEFINE b == truth.bill
             U == [m \in Billed |-> [cost |-> b[m], tokens |-> b[m]]]
  <2>2. /\ Rightly.subtype = "success" /\ Rightly.duration = WallMS /\ Rightly.total = Paid
        /\ Rightly.usage = U /\ DOMAIN Rightly # DOMAIN None
    BY DEF Rightly, None
  <2>3. r.res = Rightly /\ Ended
    <3>1. truth.ending # None /\ ~LostResult
      BY <2>2 DEF LostResult
    <3> QED BY <3>1 DEF Reading, ResultOf, ResultRead, Ended
  <2>4. /\ DOMAIN U = Billed /\ \A m \in Billed : U[m].cost = b[m] /\ U[m].tokens = b[m]
        /\ [m \in DOMAIN U |-> U[m].cost] = [m \in Billed |-> b[m]]
        /\ [m \in DOMAIN U |-> U[m].tokens] = [m \in Billed |-> b[m]]
    OBVIOUS
  <2>5. /\ \A m \in Billed : b[m] # Unknown
        /\ SumOf([m \in Billed |-> b[m]]) = Paid /\ Paid \in Nat /\ Paid # Unknown
    BY DEF Bill, Billed, Unknown
  <2>6. Billed # {}
    BY <2>5, SumOfNone
  <2> HIDE DEF b, U
  <2>7. Cost = Paid /\ Tokens = Paid
    BY <2>2, <2>3, <2>4, <2>5, <2>6 DEF Cost, Tokens
  <2>8. Wall = WallMS
    BY <2>2, <2>3, FiguresAssumption DEF Wall
  <2>9. EndedBy = "exit"
    BY <2>2, <2>3 DEF EndedBy
  <2>10. truth.source = "none" => Billing = Injected
    BY DEF Billing, Reading, InitOf
  <2> QED BY <2>1, <2>7, <2>8, <2>9, <2>10
<1> QED BY <1>1, ShownHolds, PTL

=============================================================================
