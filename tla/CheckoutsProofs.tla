--------------------------- MODULE CheckoutsProofs ---------------------------
(***************************************************************************)
(* For any trees, homes, links and walk order: what Checkouts promises of  *)
(* a run's boundary, of each change that is applied and of the tree that   *)
(* is scored.                                                              *)
(***************************************************************************)
EXTENDS Checkouts, TLAPS, WellFoundedInduction

-----------------------------------------------------------------------------
(* Paths *)

Names == Seq(STRING)

LEMMA UnderIs ==
  ASSUME NEW p \in Names, NEW d \in Names
  PROVE  Under(p, d) <=> Len(d) < Len(p) /\ \A i \in 1..Len(d) : p[i] = d[i]
<1>1. Len(p) \in Nat /\ Len(d) \in Nat
  BY DEF Names
<1>2. ASSUME Len(d) < Len(p)
      PROVE  SubSeq(p, 1, Len(d)) = d <=> \A i \in 1..Len(d) : p[i] = d[i]
  <2> DEFINE e == SubSeq(p, 1, Len(d))
  <2>1. e \in Names /\ Len(e) = Len(d) /\ \A i \in 1..Len(d) : e[i] = p[i]
    BY <1>1, <1>2 DEF Names
  <2> HIDE DEF e
  <2>2. (\A i \in 1..Len(d) : p[i] = d[i]) => e = d
    BY <2>1 DEF Names
  <2> QED BY <2>1, <2>2 DEF e
<1> QED BY <1>2 DEF Under

LEMMA UnderUnder ==
  ASSUME NEW p \in Names, NEW d \in Names, NEW e \in Names
  PROVE  /\ Under(p, d) /\ Under(d, e) => Under(p, e)
         /\ Under(p, d) /\ Under(p, e) => d = e \/ Under(d, e) \/ Under(e, d)
         /\ ~Under(p, p)
<1>1. Len(p) \in Nat /\ Len(d) \in Nat /\ Len(e) \in Nat
  BY DEF Names
<1>2. ASSUME Under(p, d), Under(d, e) PROVE Under(p, e)
  BY <1>1, <1>2, UnderIs
<1>3. ASSUME Under(p, d), Under(p, e) PROVE d = e \/ Under(d, e) \/ Under(e, d)
  <2>1. /\ Len(d) < Len(p) /\ \A i \in 1..Len(d) : p[i] = d[i]
        /\ Len(e) < Len(p) /\ \A i \in 1..Len(e) : p[i] = e[i]
    BY <1>3, UnderIs
  <2>2. CASE Len(d) = Len(e)
    BY <2>1, <2>2 DEF Names
  <2>3. CASE Len(d) < Len(e)
    BY <1>1, <2>1, <2>3, UnderIs
  <2>4. CASE Len(e) < Len(d)
    BY <1>1, <2>1, <2>4, UnderIs
  <2> QED BY <1>1, <2>2, <2>3, <2>4
<1>4. ~Under(p, p)
  BY <1>1, UnderIs
<1> QED BY <1>2, <1>3, <1>4

\* The directories above a path are its proper prefixes.
LEMMA Prefix ==
  ASSUME NEW p \in Names, NEW n \in 0..Len(p) - 1
  PROVE  SubSeq(p, 1, n) \in Names /\ Len(SubSeq(p, 1, n)) = n /\ Under(p, SubSeq(p, 1, n))
<1>1. Len(p) \in Nat /\ n \in Nat /\ n < Len(p)
  BY DEF Names
<1>2. SubSeq(p, 1, n) \in Names /\ Len(SubSeq(p, 1, n)) = n
  BY <1>1 DEF Names
<1> QED BY <1>1, <1>2 DEF Under

LEMMA PathsAre ==
  /\ Path \subseteq Names /\ \A p \in Path : Len(p) \in Nat \ {0}
  /\ \A p \in DOMAIN LinkTo : p \in Path /\ LinkTo[p] \in Names
<1>1. WalkOrder \in Seq(Names \ {<< >>})
  BY PathsAssumption DEF Names
<1>2. \A i \in 1..Len(WalkOrder) : WalkOrder[i] \in Names \ {<< >>}
  BY <1>1
<1>3. \A p \in Names \ {<< >>} : Len(p) \in Nat \ {0}
  BY DEF Names
<1>4. Path \subseteq Names \ {<< >>}
  BY <1>2 DEF Path
<1> QED BY <1>3, <1>4, LinksAssumption DEF Names

-----------------------------------------------------------------------------
(* Trees *)

\* A tree holds paths, nothing both as a file and as a directory, and each link at its own place.
IsTree(t) ==
  /\ DOMAIN t \subseteq Path /\ WellFormed(t)
  /\ \A p \in DOMAIN t : /\ t[p] \in Entry
                         /\ t[p].kind = "link" => p \in DOMAIN LinkTo /\ t[p] = Link(p)

\* What a path means depends on the one link that may stand above it.
LEMMA RealIs ==
  ASSUME NEW t, IsTree(t), NEW p \in Names
  PROVE  /\ (\A q \in DOMAIN t : Under(p, q) => t[q].kind # "link") => Real(t, p) = p
         /\ \A q \in DOMAIN t : Under(p, q) /\ t[q].kind = "link" =>
              /\ Real(t, p) = LinkTo[q] \o SubSeq(p, Len(q) + 1, Len(p))
              /\ p \in Path => Real(t, p) \in Path
<1>1. ASSUME \A q \in DOMAIN t : Under(p, q) => t[q].kind # "link" PROVE Real(t, p) = p
  BY <1>1 DEF Real
<1>2. ASSUME NEW q \in DOMAIN t, Under(p, q), t[q].kind = "link"
      PROVE  /\ Real(t, p) = LinkTo[q] \o SubSeq(p, Len(q) + 1, Len(p))
             /\ p \in Path => Real(t, p) \in Path
  <2> DEFINE c == CHOOSE x \in DOMAIN t : Under(p, x) /\ t[x].kind = "link"
  <2>1. c \in DOMAIN t /\ Under(p, c)
    BY <1>2
  <2>2. Real(t, p) = t[c].to \o SubSeq(p, Len(c) + 1, Len(p))
    BY <1>2 DEF Real
  <2> HIDE DEF c
  <2>3. c = q
    <3>1. c \in Names /\ q \in Names
      BY <1>2, <2>1, PathsAre DEF IsTree
    <3>2. ~Under(c, q) /\ ~Under(q, c)
      BY <1>2, <2>1 DEF IsTree, WellFormed
    <3> QED BY <1>2, <2>1, <3>1, <3>2, UnderUnder
  <2>4. q \in DOMAIN LinkTo /\ t[q].to = LinkTo[q]
    BY <1>2 DEF IsTree, Link
  <2> QED BY <1>2, <2>2, <2>3, <2>4, LinksAssumption
<1> QED BY <1>1, <1>2

LEMMA Joined ==
  ASSUME NEW a \in Names, NEW b \in Names
  PROVE  /\ a \o b \in Names /\ Len(a \o b) = Len(a) + Len(b)
         /\ (\A i \in 1..Len(a) : (a \o b)[i] = a[i])
         /\ \A i \in 1..Len(b) : (a \o b)[Len(a) + i] = b[i]
<1>1. /\ a \o b \in Names /\ Len(a \o b) = Len(a) + Len(b) /\ Len(a) \in Nat /\ Len(b) \in Nat
      /\ \A i \in 1..Len(a) + Len(b) : (a \o b)[i] = IF i <= Len(a) THEN a[i] ELSE b[i - Len(a)]
  BY DEF Names
<1>2. \A i \in 1..Len(a) : i \in 1..Len(a) + Len(b) /\ i <= Len(a)
  BY <1>1
<1>3. ASSUME NEW i \in 1..Len(b) PROVE (a \o b)[Len(a) + i] = b[i]
  <2>1. Len(a) + i \in 1..Len(a) + Len(b) /\ ~(Len(a) + i <= Len(a)) /\ (Len(a) + i) - Len(a) = i
    BY <1>1
  <2> QED BY <2>1, <1>1
<1> QED BY <1>1, <1>2, <1>3

\* What is above a path that a link was followed to: what is above the link's end, that end, or
\* what a directory above the path itself means.
Above(p, q, to, x) ==
  \/ x = to \/ Under(to, x)
  \/ \E n \in Len(q) + 1 .. Len(p) - 1 : \E d \in Names :
       d = SubSeq(p, 1, n) /\ Under(d, q) /\ Under(x, to) /\ x = to \o SubSeq(d, Len(q) + 1, Len(d))

LEMMA AboveReal ==
  ASSUME NEW p \in Names, NEW q \in Names, Under(p, q), NEW to \in Names, NEW x \in Names,
         Under(to \o SubSeq(p, Len(q) + 1, Len(p)), x)
  PROVE  Above(p, q, to, x)
<1> DEFINE r == to \o SubSeq(p, Len(q) + 1, Len(p))
<1>1. Len(p) \in Nat /\ Len(q) \in Nat /\ Len(to) \in Nat /\ Len(x) \in Nat /\ Len(q) < Len(p)
  BY UnderIs DEF Names
<1>2. /\ r \in Names /\ Len(r) = Len(to) + Len(p) - Len(q)
      /\ \A i \in 1..Len(to) : r[i] = to[i]
      /\ \A i \in 1..Len(p) - Len(q) : r[Len(to) + i] = p[Len(q) + i]
  <2> DEFINE s == SubSeq(p, Len(q) + 1, Len(p))
  <2>1. s \in Names /\ Len(s) = Len(p) - Len(q) /\ \A i \in 1..Len(s) : s[i] = p[Len(q) + i]
    BY <1>1 DEF Names
  <2> HIDE DEF s
  <2>2. to \o s \in Names /\ Len(to \o s) = Len(to) + Len(s)
        /\ (\A i \in 1..Len(to) : (to \o s)[i] = to[i])
        /\ \A i \in 1..Len(s) : (to \o s)[Len(to) + i] = s[i]
    BY <2>1, Joined
  <2>3. r = to \o s
    BY DEF s
  <2> HIDE DEF r
  <2> QED BY <1>1, <2>1, <2>2, <2>3
<1>3. Len(x) < Len(r) /\ \A i \in 1..Len(x) : r[i] = x[i]
  BY <1>2, UnderIs
<1> HIDE DEF r
<1>4. CASE Len(x) = Len(to)
  <2>1. \A i \in 1..Len(x) : x[i] = to[i]
    BY <1>2, <1>3, <1>4
  <2>2. x = to
    BY <2>1, <1>4 DEF Names
  <2> QED BY <2>2 DEF Above
<1>5. CASE Len(x) < Len(to)
  BY <1>1, <1>2, <1>3, <1>5, UnderIs DEF Above
<1>6. CASE Len(x) > Len(to)
  <2> DEFINE n == Len(q) + (Len(x) - Len(to))
             d == SubSeq(p, 1, n)
             s == SubSeq(d, Len(q) + 1, Len(d))
  <2>1. n \in Len(q) + 1 .. Len(p) - 1 /\ n \in Nat
    BY <1>1, <1>2, <1>3, <1>6
  <2>2. d \in Names /\ Len(d) = n /\ \A i \in 1..n : d[i] = p[i]
    BY <1>1, <2>1 DEF Names
  <2> HIDE DEF d
  <2>3. Under(d, q)
    BY <1>1, <2>1, <2>2, UnderIs
  <2>4. Under(x, to)
    BY <1>1, <1>2, <1>3, <1>6, UnderIs
  <2>5. s \in Names /\ Len(s) = Len(x) - Len(to) /\ \A i \in 1..Len(s) : s[i] = p[Len(q) + i]
    BY <1>1, <2>1, <2>2 DEF Names
  <2> HIDE DEF s, n
  <2>6. /\ to \o s \in Names /\ Len(to \o s) = Len(x)
        /\ (\A i \in 1..Len(to) : (to \o s)[i] = to[i])
        /\ \A i \in 1..Len(s) : (to \o s)[Len(to) + i] = s[i]
    <3>1. Len(to) + (Len(x) - Len(to)) = Len(x)
      BY <1>1
    <3> QED BY <2>5, <3>1, Joined
  <2>7. \A i \in 1..Len(x) : (to \o s)[i] = x[i]
    <3> SUFFICES ASSUME NEW i \in 1..Len(x) PROVE (to \o s)[i] = x[i]
      OBVIOUS
    <3>1. CASE i \in 1..Len(to)
      BY <3>1, <2>6, <1>2, <1>3
    <3>2. CASE i \notin 1..Len(to)
      <4>1. i - Len(to) \in 1..Len(s) /\ Len(to) + (i - Len(to)) = i
            /\ i - Len(to) \in 1..Len(p) - Len(q)
        BY <1>1, <1>2, <1>3, <2>5, <3>2
      <4>2. (to \o s)[i] = p[Len(q) + (i - Len(to))] /\ r[i] = p[Len(q) + (i - Len(to))]
        BY <1>2, <2>5, <2>6, <4>1
      <4> QED BY <4>2, <1>3
    <3> QED BY <3>1, <3>2
  <2>8. x = to \o s
    <3> DEFINE z == to \o s
    <3>1. z \in Names /\ Len(z) = Len(x) /\ \A i \in 1..Len(x) : z[i] = x[i]
      BY <2>6, <2>7
    <3> HIDE DEF z
    <3>2. z = x
      BY <3>1 DEF Names
    <3> QED BY <3>2 DEF z
  <2>9. n \in Len(q) + 1 .. Len(p) - 1 /\ d = SubSeq(p, 1, n) /\ x = to \o SubSeq(d, Len(q) + 1, Len(d))
    BY <2>1, <2>8 DEF d, s
  <2> QED BY <2>2, <2>3, <2>4, <2>9, Zenon DEF Above
<1>7. Len(x) = Len(to) \/ Len(x) < Len(to) \/ Len(x) > Len(to)
  BY <1>1
<1> QED BY <1>4, <1>5, <1>6, <1>7

LEMMA FirstDirs ==
  ASSUME NEW p \in Names, NEW x \in Names, Under(p, x)
  PROVE  Len(x) \in 0..Len(p) - 1 /\ x = SubSeq(p, 1, Len(x))
<1>1. Len(p) \in Nat /\ Len(x) \in Nat
  BY DEF Names
<1> QED BY <1>1 DEF Under

\* A file that can be written has nothing above it or below it.
LEMMA WriteClears ==
  ASSUME IsTree(scored), NEW p \in Path, CanWrite(p)
  PROVE  /\ Real(scored, p) \in Path
         /\ \A x \in DOMAIN scored : ~Under(Real(scored, p), x) /\ ~Under(x, Real(scored, p))
<1> DEFINE r == Real(scored, p)
<1>1. p \in Names /\ Len(p) \in Nat \ {0} /\ \A x \in DOMAIN scored : x \in Names /\ Len(x) \in Nat \ {0}
  BY PathsAre DEF IsTree
<1>2. \A n \in 1..(Len(p) - 1) :
        Real(scored, SubSeq(p, 1, n)) \in DOMAIN scored => IsDir(scored, Final(scored, SubSeq(p, 1, n)))
  BY DEF CanWrite
<1>3. \A x \in DOMAIN scored : ~Under(x, r)
  BY DEF CanWrite, IsDir
<1>4. \A x, y \in DOMAIN scored : ~Under(x, y)
  BY DEF IsTree, WellFormed
<1>5. \A x \in DOMAIN scored : ~IsDir(scored, x)
  BY <1>4 DEF IsDir
<1>6. CASE \A q \in DOMAIN scored : Under(p, q) => scored[q].kind # "link"
  <2>1. r = p
    BY <1>1, <1>6, RealIs
  <2>2. ASSUME NEW x \in DOMAIN scored, Under(p, x) PROVE FALSE
    <3>1. Len(x) \in 1..Len(p) - 1 /\ x = SubSeq(p, 1, Len(x))
      BY <1>1, <2>2, FirstDirs
    <3>2. \A q \in DOMAIN scored : ~Under(x, q)
      BY <1>4, <2>2
    <3>3. Real(scored, x) = x
      BY <1>1, <2>2, <3>2, RealIs
    <3>4. Final(scored, x) = x
      BY <1>6, <2>2, <3>3 DEF Final
    <3>5. IsDir(scored, x)
      BY <1>2, <2>2, <3>1, <3>3, <3>4
    <3> QED BY <1>5, <2>2, <3>5
  <2> QED BY <1>3, <2>1, <2>2
<1>7. ASSUME NEW q \in DOMAIN scored, Under(p, q), scored[q].kind = "link"
      PROVE  r \in Path /\ \A x \in DOMAIN scored : ~Under(r, x)
  <2> DEFINE to == LinkTo[q]
  <2>1. /\ r = to \o SubSeq(p, Len(q) + 1, Len(p)) /\ r \in Path /\ q \in Names
        /\ q \in DOMAIN LinkTo /\ scored[q] = Link(q) /\ to \in Names
    BY <1>1, <1>7, RealIs, PathsAre DEF IsTree
  <2>2. IsDir(scored, to)
    <3>1. Len(q) \in 1..Len(p) - 1 /\ q = SubSeq(p, 1, Len(q))
      BY <1>1, <1>7, FirstDirs
    <3>2. \A x \in DOMAIN scored : ~Under(q, x)
      BY <1>4, <1>7
    <3>3. Real(scored, q) = q
      BY <1>7, <2>1, <3>2, RealIs
    <3>4. Final(scored, q) = to
      BY <1>7, <2>1, <3>3 DEF Final, Link
    <3> QED BY <1>2, <1>7, <3>1, <3>3, <3>4
  <2>3. PICK y \in DOMAIN scored : Under(y, to)
    BY <2>2 DEF IsDir
  <2> HIDE DEF to
  <2>4. ASSUME NEW x \in DOMAIN scored, Under(r, x) PROVE FALSE
    <3>1. CASE x = to
      BY <1>4, <2>3, <2>4, <3>1
    <3>2. CASE Under(to, x)
      <4>1. Under(y, x)
        BY <1>1, <2>1, <2>3, <2>4, <3>2, UnderUnder
      <4> QED BY <1>4, <2>3, <2>4, <4>1
    <3>3. ASSUME NEW n \in Len(q) + 1 .. Len(p) - 1, NEW d, d = SubSeq(p, 1, n), d \in Names, Under(d, q),
                 Under(x, to), x = to \o SubSeq(d, Len(q) + 1, Len(d))
          PROVE  FALSE
      <4>1. Real(scored, d) = x
        BY <1>7, <3>3, RealIs DEF to
      <4>2. n \in 1..Len(p) - 1
        BY <1>1, <1>7
      <4>3. IsDir(scored, Final(scored, d))
        BY <1>2, <2>4, <3>3, <4>1, <4>2
      <4>4. scored[x].kind # "link"
        <5>1. x \in DOMAIN LinkTo => ~Under(x, to)
          BY <2>1, LinksAssumption DEF to
        <5> QED BY <2>4, <3>3, <5>1 DEF IsTree
      <4>5. Final(scored, d) = x
        BY <4>1, <4>4 DEF Final
      <4> QED BY <1>5, <2>4, <4>3, <4>5
    <3>4. Above(p, q, to, x)
      <4>1. Under(to \o SubSeq(p, Len(q) + 1, Len(p)), x)
        BY <2>1, <2>4
      <4>2. p \in Names /\ q \in Names /\ Under(p, q) /\ to \in Names /\ x \in Names
        BY <1>1, <1>7, <2>1, <2>4
      <4> QED BY <4>1, <4>2, AboveReal
    <3> QED BY <3>1, <3>2, <3>3, <3>4 DEF Above
  <2> QED BY <2>1, <2>4
<1> QED BY <1>3, <1>6, <1>7, RealIs, <1>1

LEMMA WithIs ==
  ASSUME NEW t, IsTree(t), NEW p \in Path, NEW e \in Entry,
         e.kind = "link" => p \in DOMAIN LinkTo /\ e = Link(p),
         \A x \in DOMAIN t : ~Under(p, x) /\ ~Under(x, p)
  PROVE  IsTree(With(t, p, e)) /\ DOMAIN With(t, p, e) = DOMAIN t \cup {p}
         /\ \A x \in DOMAIN t \cup {p} : With(t, p, e)[x] = IF x = p THEN e ELSE t[x]
<1> DEFINE u == With(t, p, e)
<1>1. DOMAIN u = DOMAIN t \cup {p} /\ \A x \in DOMAIN u : u[x] = IF x = p THEN e ELSE t[x]
  BY DEF With
<1> HIDE DEF u
<1>2. ~Under(p, p)
  BY PathsAre, UnderUnder
<1>3. WellFormed(u)
  BY <1>1, <1>2 DEF IsTree, WellFormed
<1> QED BY <1>1, <1>3 DEF IsTree, u

LEMMA WithoutIs ==
  ASSUME NEW t, IsTree(t), NEW G
  PROVE  IsTree(Without(t, G)) /\ DOMAIN Without(t, G) = DOMAIN t \ G
         /\ \A x \in DOMAIN t \ G : Without(t, G)[x] = t[x]
<1> DEFINE u == Without(t, G)
<1>1. DOMAIN u = DOMAIN t \ G /\ \A x \in DOMAIN u : u[x] = t[x]
  BY DEF Without
<1> HIDE DEF u
<1> QED BY <1>1 DEF IsTree, WellFormed, u

LEMMA BaseIsTree ==
  ASSUME NEW b \in Bases
  PROVE  IsTree(b)
<1>1. DOMAIN b \subseteq Path /\ WellFormed(b)
  BY BasesAssumption
<1>2. ASSUME NEW p \in DOMAIN b
      PROVE  b[p] \in Entry /\ (b[p].kind = "link" => p \in DOMAIN LinkTo /\ b[p] = Link(p))
  <2>1. CASE b[p] \in [kind : {"file"}, content : Content]
    BY <2>1 DEF Entry
  <2>2. CASE p \in DOMAIN LinkTo /\ b[p] = Link(p)
    BY <2>2 DEF Entry
  <2> QED BY <2>1, <2>2, BasesAssumption
<1> QED BY <1>1, <1>2 DEF IsTree

-----------------------------------------------------------------------------
(* A run's trees *)

NotYet == {"prepare", "refused", "working", "compare"}
Changes == {[path |-> p, entry |-> worker[p]] : p \in Written}
           \cup {[path |-> p, deleted |-> TRUE] : p \in Deleted}

\* The trees are trees, no link of the worker's is carried over, and what is to apply is of the
\* comparison of the worker's tree with that of base_sha.
Trees ==
  /\ pc \in NotYet \cup {"apply", "check", "failed"}
  /\ base \in Bases /\ IsTree(worker) /\ IsTree(scored)
  /\ \A q \in DOMAIN scored : scored[q].kind = "link" => q \in DOMAIN base /\ base[q] = scored[q]
  /\ todo \in Seq(Changes) /\ (pc \in NotYet \cup {"check"} => todo = << >>)

LEMMA TreesInit == Init => Trees
<1> SUFFICES ASSUME Init PROVE Trees
  OBVIOUS
<1>1. DOMAIN worker = {} /\ DOMAIN scored = {} /\ todo = << >> /\ pc = "prepare" /\ base \in Bases
  BY DEF Init, NoTree
<1> QED BY <1>1 DEF Trees, NotYet, IsTree, WellFormed

LEMMA ChangesAre ==
  ASSUME Trees, NEW c \in Changes
  PROVE  /\ c.path \in Path
         /\ \/ /\ "entry" \in DOMAIN c /\ "deleted" \notin DOMAIN c /\ c.path \in Written
               /\ c.entry = worker[c.path] /\ c.entry \in Entry /\ c.entry.kind = "file"
            \/ "entry" \notin DOMAIN c /\ "deleted" \in DOMAIN c /\ c.path \in Deleted
<1>1. Written \subseteq DOMAIN worker /\ Deleted \subseteq DOMAIN base
      /\ \A p \in Written : worker[p].kind = "file"
  BY DEF Written, Seen, Deleted
<1>2. DOMAIN worker \subseteq Path /\ DOMAIN base \subseteq Path /\ \A p \in DOMAIN worker : worker[p] \in Entry
  BY BaseIsTree DEF Trees, IsTree
<1>3. CASE \E p \in Written : c = [path |-> p, entry |-> worker[p]]
  BY <1>1, <1>2, <1>3
<1>4. CASE \E p \in Deleted : c = [path |-> p, deleted |-> TRUE]
  BY <1>1, <1>2, <1>4
<1> QED BY <1>3, <1>4 DEF Changes

\* What a change that is applied does to the tree.
LEMMA AppliedIs ==
  ASSUME Trees, Apply
  PROVE  /\ pc = "apply" /\ todo \in Seq(Changes) /\ todo # << >> /\ todo' = Tail(todo) /\ Head(todo) \in Changes
         /\ UNCHANGED <<base, home, denied, worker, ops>>
         /\ \/ /\ "entry" \in DOMAIN Head(todo) /\ CanWrite(Head(todo).path)
               /\ scored' = With(scored, Real(scored, Head(todo).path), Head(todo).entry) /\ pc' = pc
            \/ /\ "deleted" \in DOMAIN Head(todo) /\ CanRemove(Head(todo).path)
               /\ scored' = Without(scored, {Real(scored, Head(todo).path)}) /\ pc' = pc
            \/ /\ IF "entry" \in DOMAIN Head(todo) THEN ~CanWrite(Head(todo).path) ELSE ~CanRemove(Head(todo).path)
               /\ scored' = scored /\ pc' = "failed"
<1>1. todo \in Seq(Changes) /\ todo # << >>
  BY DEF Trees, Apply
<1>2. Head(todo) \in Changes
  BY <1>1
<1> QED BY <1>1, <1>2 DEF Apply, WriteFile, RemoveFile

\* What a walk finds.
Keeps(g, q, S, N) ==
  g = [n \in 0..N |-> IF n = 0 THEN << >>
                      ELSE IF q[n] \in S THEN Append(g[n - 1], q[n]) ELSE g[n - 1]]

LEMMA Least ==
  ASSUME NEW B, B \subseteq Nat, B # {}
  PROVE  \E n \in B : \A m \in B : n <= m
<1> DEFINE R == OpToRel(<, Nat)
<1>1. IsWellFoundedOn(R, Nat)
  BY NatLessThanWellFounded
<1>2. \A x, y \in Nat : <<x, y>> \in R <=> x < y
  BY DEF OpToRel
<1> HIDE DEF R
<1>3. PICK x \in B : \A y \in B : ~ (<<y, x>> \in R)
  BY <1>1, WFMin
<1>4. \A y \in B : ~ (y < x)
  BY <1>2, <1>3
<1>5. \A y \in B : x <= y
  BY <1>4
<1> QED BY <1>5

LEMMA KeepExists ==
  ASSUME NEW q, NEW S, NEW N \in Nat
  PROVE  \E g : Keeps(g, q, S, N)
<1> DEFINE B == {n \in Nat : ~ \E g : Keeps(g, q, S, n)}
<1>1. SUFFICES ASSUME B # {} PROVE FALSE
  OBVIOUS
<1>2. PICK n \in B : \A m \in B : n <= m
  BY <1>1, Least
<1>3. n # 0
  <2> DEFINE g == [k \in 0..0 |-> << >>]
  <2>1. Keeps(g, q, S, 0)
    BY DEF Keeps
  <2> QED BY <2>1, <1>2
<1>4. PICK g : Keeps(g, q, S, n - 1)
  <2>1. n - 1 \in Nat /\ n - 1 \notin B
    BY <1>2, <1>3
  <2> QED BY <2>1
<1> DEFINE h == [k \in 0..n |-> IF k < n THEN g[k]
                                ELSE IF q[n] \in S THEN Append(g[n - 1], q[n]) ELSE g[n - 1]]
<1>5. Keeps(h, q, S, n)
  <2>1. \A k \in 0..n - 1 : h[k] = g[k]
    BY <1>2, <1>3
  <2>2. h[0] = << >>
    BY <2>1, <1>2, <1>3, <1>4 DEF Keeps
  <2>3. ASSUME NEW k \in 1..n PROVE h[k] = IF q[k] \in S THEN Append(h[k - 1], q[k]) ELSE h[k - 1]
    <3>1. k - 1 \in 0..n - 1 /\ k \in 0..n
      BY <1>2
    <3>2. CASE k = n
      <4>1. h[n] = IF q[n] \in S THEN Append(g[n - 1], q[n]) ELSE g[n - 1]
        BY <3>1, <3>2
      <4> QED BY <4>1, <3>1, <3>2, <2>1
    <3>3. CASE k # n
      <4>1. k \in 0..n - 1 /\ k # 0
        BY <3>3, <1>2
      <4> QED BY <4>1, <3>1, <2>1, <1>4 DEF Keeps
    <3> QED BY <3>2, <3>3
  <2>4. h = [k \in 0..n |-> h[k]]
    OBVIOUS
  <2>5. \A k \in 0..n : k # 0 => k \in 1..n
    BY <1>2
  <2> HIDE DEF h
  <2> QED BY <2>2, <2>3, <2>4, <2>5 DEF Keeps
<1> QED BY <1>2, <1>5

LEMMA KeepIs ==
  ASSUME NEW S
  PROVE  Keep(S) \in Seq(Path) /\ \A p : (\E i \in 1..Len(Keep(S)) : Keep(S)[i] = p) <=> p \in Path \cap S
<1> DEFINE N == Len(WalkOrder)
           kept[n \in 0..N] ==
             IF n = 0 THEN << >>
             ELSE IF WalkOrder[n] \in S THEN Append(kept[n - 1], WalkOrder[n]) ELSE kept[n - 1]
<1>1. N \in Nat /\ \A n \in 1..N : WalkOrder[n] \in Path
  BY PathsAssumption DEF Path
<1>2. kept = [n \in 0..N |-> IF n = 0 THEN << >>
                            ELSE IF WalkOrder[n] \in S THEN Append(kept[n - 1], WalkOrder[n]) ELSE kept[n - 1]]
  <2>1. PICK g : Keeps(g, WalkOrder, S, N)
    BY <1>1, KeepExists
  <2>2. g = [n \in 0..N |-> IF n = 0 THEN << >>
                            ELSE IF WalkOrder[n] \in S THEN Append(g[n - 1], WalkOrder[n]) ELSE g[n - 1]]
    BY <2>1 DEF Keeps
  <2> HIDE DEF N
  <2> QED BY <2>2
<1>3. Keep(S) = kept[N]
  BY DEF Keep
<1> HIDE DEF kept, N
<1> DEFINE Right(n) == /\ kept[n] \in Seq(Path)
                       /\ \A p : (\E i \in 1..Len(kept[n]) : kept[n][i] = p)
                                 <=> p \in S /\ \E k \in 1..n : WalkOrder[k] = p
           B == {n \in 0..N : ~ Right(n)}
<1>4. SUFFICES ASSUME B # {} PROVE FALSE
  <2>1. ASSUME B = {} PROVE Right(N)
    <3> HIDE DEF Right
    <3>1. N \in 0..N
      BY <1>1
    <3> QED BY <2>1, <3>1
  <2>2. \A p : p \in Path <=> \E k \in 1..N : WalkOrder[k] = p
    BY DEF Path, N
  <2> QED BY <2>1, <2>2, <1>3
<1>5. PICK n \in B : \A m \in B : n <= m
  <2>1. B \subseteq Nat
    BY <1>1
  <2> QED BY <1>4, <2>1, Least
<1>6. n # 0
  <2>1. kept[0] = << >>
    BY <1>1, <1>2
  <2>2. Right(0)
    BY <2>1
  <2> QED BY <2>2, <1>5
<1>7. n \in 1..N /\ n - 1 \in 0..N /\ n - 1 \notin B
  <2>1. n \in 0..N
    BY <1>5
  <2>2. n \in 1..N /\ n - 1 \in 0..N /\ ~ (n <= n - 1)
    BY <2>1, <1>1, <1>6
  <2> HIDE DEF B
  <2> QED BY <2>2, <1>5
<1>8. Right(n - 1)
  BY <1>7
<1> DEFINE q == kept[n - 1]
<1>9. kept[n] = IF WalkOrder[n] \in S THEN Append(q, WalkOrder[n]) ELSE q
  BY <1>2, <1>6, <1>7
<1>10. q \in Seq(Path) /\ \A p : (\E i \in 1..Len(q) : q[i] = p) <=> p \in S /\ \E k \in 1..n - 1 : WalkOrder[k] = p
  BY <1>8
<1> HIDE DEF q
<1>11. \A p : (\E k \in 1..n : WalkOrder[k] = p) <=> p = WalkOrder[n] \/ \E k \in 1..n - 1 : WalkOrder[k] = p
  <2>1. \A k : k \in 1..n <=> k \in 1..n - 1 \/ k = n
    BY <1>7, <1>1
  <2> QED BY <2>1
<1>12. CASE WalkOrder[n] \in S
  <2> DEFINE a == Append(q, WalkOrder[n])
  <2>1. /\ a \in Seq(Path) /\ Len(q) \in Nat /\ Len(a) = Len(q) + 1
        /\ a[Len(q) + 1] = WalkOrder[n] /\ \A i \in 1..Len(q) : a[i] = q[i]
    BY <1>1, <1>7, <1>10
  <2> HIDE DEF a
  <2>2. \A i : i \in 1..Len(a) <=> i \in 1..Len(q) \/ i = Len(q) + 1
    BY <2>1
  <2>3. \A p : (\E i \in 1..Len(a) : a[i] = p) <=> p = WalkOrder[n] \/ \E i \in 1..Len(q) : q[i] = p
    BY <2>1, <2>2
  <2>4. kept[n] = a
    BY <1>9, <1>12 DEF a
  <2>5. Right(n)
    BY <1>10, <1>11, <1>12, <2>1, <2>3, <2>4
  <2> QED BY <2>5, <1>5
<1>13. CASE WalkOrder[n] \notin S
  <2>1. kept[n] = q
    BY <1>9, <1>13
  <2>2. Right(n)
    BY <1>10, <1>11, <1>13, <2>1
  <2> QED BY <2>2, <1>5
<1> QED BY <1>12, <1>13

\* The comparison finds every change, and nothing else.
LEMMA TreeChangesAre ==
  /\ TreeChanges \in Seq(Changes)
  /\ \A p \in Path : p \in Written \/ p \in Deleted => \E i \in 1..Len(TreeChanges) : TreeChanges[i].path = p
<1> DEFINE w == Keep(Written)
           d == Keep(Deleted)
           W == [i \in 1..Len(w) |-> [path |-> w[i], entry |-> worker[w[i]]]]
           D == [i \in 1..Len(d) |-> [path |-> d[i], deleted |-> TRUE]]
<1>1. TreeChanges = W \o D
  BY DEF TreeChanges
<1>2. Len(w) \in Nat /\ \A p : (\E i \in 1..Len(w) : w[i] = p) <=> p \in Path \cap Written
  BY KeepIs
<1>3. Len(d) \in Nat /\ \A p : (\E i \in 1..Len(d) : d[i] = p) <=> p \in Path \cap Deleted
  BY KeepIs
<1> HIDE DEF w, d
<1>4. W \in Seq(Changes) /\ Len(W) = Len(w) /\ \A i \in 1..Len(w) : W[i].path = w[i]
  <2>1. \A i \in 1..Len(w) : [path |-> w[i], entry |-> worker[w[i]]] \in Changes
    BY <1>2 DEF Changes
  <2> QED BY <2>1, <1>2
<1>5. D \in Seq(Changes) /\ Len(D) = Len(d) /\ \A i \in 1..Len(d) : D[i].path = d[i]
  <2>1. \A i \in 1..Len(d) : [path |-> d[i], deleted |-> TRUE] \in Changes
    BY <1>3 DEF Changes
  <2> QED BY <2>1, <1>3
<1> HIDE DEF W, D
<1> DEFINE t == W \o D
<1>6. /\ t \in Seq(Changes) /\ Len(t) = Len(W) + Len(D)
      /\ \A i \in 1..Len(W) + Len(D) : t[i] = IF i <= Len(W) THEN W[i] ELSE D[i - Len(W)]
  <2>1. W \in Seq(Changes) /\ D \in Seq(Changes)
    BY <1>4, <1>5
  <2> QED BY <2>1
<1> HIDE DEF t
<1>7. \A i \in 1..Len(W) : i \in 1..Len(t) /\ t[i] = W[i]
  BY <1>2, <1>3, <1>4, <1>5, <1>6
<1>8. \A i \in 1..Len(D) : Len(W) + i \in 1..Len(t) /\ t[Len(W) + i] = D[i]
  <2> SUFFICES ASSUME NEW i \in 1..Len(D) PROVE Len(W) + i \in 1..Len(t) /\ t[Len(W) + i] = D[i]
    OBVIOUS
  <2>1. Len(W) \in Nat /\ Len(D) \in Nat
    BY <1>2, <1>3, <1>4, <1>5
  <2>2. Len(W) + i \in 1..Len(W) + Len(D) /\ ~(Len(W) + i <= Len(W)) /\ (Len(W) + i) - Len(W) = i
    BY <2>1
  <2> QED BY <2>2, <1>6
<1>9. ASSUME NEW p \in Path, p \in Written \/ p \in Deleted PROVE \E i \in 1..Len(t) : t[i].path = p
  <2>1. CASE p \in Written
    <3>1. PICK i \in 1..Len(w) : w[i] = p
      BY <1>2, <2>1
    <3> QED BY <3>1, <1>4, <1>7
  <2>2. CASE p \in Deleted
    <3>1. PICK i \in 1..Len(d) : d[i] = p
      BY <1>3, <2>2
    <3>2. i \in 1..Len(D) /\ D[i].path = p
      BY <3>1, <1>5
    <3> QED BY <3>2, <1>8
  <2> QED BY <1>9, <2>1, <2>2
<1> QED BY <1>1, <1>6, <1>9 DEF t

LEMMA SameTrees ==
  ASSUME worker' = worker, base' = base
  PROVE  /\ Changes' = Changes /\ Written' = Written /\ Deleted' = Deleted /\ Seen' = Seen
         /\ (Swapped' <=> Swapped) /\ (LinkReplaced' <=> LinkReplaced) /\ Unreadable' = Unreadable
<1>1. Seen' = Seen
  BY DEF Seen
<1>2. Written' = Written /\ Deleted' = Deleted
  BY <1>1 DEF Written, Deleted
<1> QED BY <1>1, <1>2 DEF Changes, Swapped, LinkReplaced, Unreadable

\* What the worker puts in its tree makes a tree.
LEMMA PutIs ==
  ASSUME Trees, NEW p \in Path, NEW e \in Entry, e.kind = "link" => p \in DOMAIN LinkTo /\ e = Link(p), Put(p, e)
  PROVE  IsTree(worker')
<1> DEFINE G == {q \in DOMAIN worker : Under(p, q) \/ Under(q, p)}
           t == Without(worker, G)
<1>1. worker' = With(t, p, e)
  BY DEF Put
<1>2. IsTree(t) /\ DOMAIN t = DOMAIN worker \ G
  BY WithoutIs DEF Trees
<1>3. \A x \in DOMAIN t : ~Under(p, x) /\ ~Under(x, p)
  BY <1>2
<1> HIDE DEF t
<1> QED BY <1>1, <1>2, <1>3, WithIs

LEMMA WorkIs ==
  ASSUME Trees, Work
  PROVE  IsTree(worker')
<1>1. CASE \E p \in Path, c \in Content : Put(p, File(c))
  <2>1. PICK p \in Path, c \in Content : Put(p, File(c))
    BY <1>1
  <2>2. File(c) \in Entry /\ File(c).kind # "link"
    BY DEF File, Entry
  <2> QED BY <2>1, <2>2, PutIs
<1>2. CASE \E p \in DOMAIN LinkTo : Put(p, Link(p))
  <2>1. PICK p \in DOMAIN LinkTo : Put(p, Link(p))
    BY <1>2
  <2>2. Link(p) \in Entry /\ p \in Path
    BY PathsAre DEF Entry
  <2> QED BY <2>1, <2>2, PutIs
<1>3. CASE \E p \in DOMAIN base, entry \in {Other, Shut} : Put(p, entry)
  <2>1. PICK p \in DOMAIN base, entry \in {Other, Shut} : Put(p, entry)
    BY <1>3
  <2>2. entry \in Entry /\ entry.kind # "link" /\ p \in Path
    BY BaseIsTree DEF Entry, Other, Shut, Trees, IsTree
  <2> QED BY <2>1, <2>2, PutIs
<1>4. CASE \E p \in DOMAIN worker : worker' = Without(worker, {p})
  <2>1. PICK p \in DOMAIN worker : worker' = Without(worker, {p})
    BY <1>4
  <2>2. IsTree(Without(worker, {p}))
    BY WithoutIs DEF Trees
  <2> QED BY <2>1, <2>2
<1> QED BY <1>1, <1>2, <1>3, <1>4 DEF Work

\* A change that is applied leaves a tree, in which no link is new.
LEMMA ApplyIs ==
  ASSUME Trees, Apply
  PROVE  /\ IsTree(scored')
         /\ \A q \in DOMAIN scored' : scored'[q].kind = "link" => q \in DOMAIN base /\ base[q] = scored'[q]
<1> DEFINE c == Head(todo)
           p == c.path
           r == Real(scored, p)
<1>1. IsTree(scored) /\ \A q \in DOMAIN scored : scored[q].kind = "link" => q \in DOMAIN base /\ base[q] = scored[q]
  BY DEF Trees
<1>2. c \in Changes
  BY AppliedIs
<1>3. p \in Path /\ ("entry" \in DOMAIN c => c.entry \in Entry /\ c.entry.kind = "file")
  BY <1>2, ChangesAre
<1>4. CASE "entry" \in DOMAIN c /\ CanWrite(p) /\ scored' = With(scored, r, c.entry)
  <2>1. c.entry \in Entry /\ c.entry.kind = "file" /\ c.entry.kind # "link"
    BY <1>3, <1>4
  <2>2. r \in Path /\ \A x \in DOMAIN scored : ~Under(r, x) /\ ~Under(x, r)
    BY <1>1, <1>3, <1>4, WriteClears
  <2> DEFINE e == c.entry
  <2> HIDE DEF r, e
  <2>3. /\ IsTree(With(scored, r, e)) /\ DOMAIN With(scored, r, e) = DOMAIN scored \cup {r}
        /\ \A x \in DOMAIN scored \cup {r} : With(scored, r, e)[x] = IF x = r THEN e ELSE scored[x]
    <3>1. e \in Entry /\ e.kind # "link"
      BY <2>1 DEF e
    <3> QED BY <3>1, <2>2, <1>1, WithIs
  <2> QED BY <1>1, <1>4, <2>1, <2>3 DEF e
<1>5. CASE scored' = Without(scored, {r})
  <2> HIDE DEF r
  <2>1. IsTree(Without(scored, {r})) /\ DOMAIN Without(scored, {r}) = DOMAIN scored \ {r}
         /\ \A x \in DOMAIN scored \ {r} : Without(scored, {r})[x] = scored[x]
    BY <1>1, WithoutIs
  <2> QED BY <1>1, <1>5, <2>1
<1>6. CASE scored' = scored
  BY <1>1, <1>6
<1> QED BY <1>4, <1>5, <1>6, AppliedIs

LEMMA TreesNext == Trees /\ [Next]_vars => Trees'
<1> SUFFICES ASSUME Trees, [Next]_vars PROVE Trees'
  OBVIOUS
<1> USE DEF NotYet
<1>1. CASE Launch
  <2>1. /\ todo = << >> /\ todo' = todo /\ scored' = scored /\ base' = base /\ pc' \in {"working", "refused"}
        /\ worker' = base \/ worker' = worker
    BY <1>1 DEF Launch, Trees
  <2> QED BY <2>1, BaseIsTree DEF Trees
<1>2. CASE Work
  <2>1. todo = << >> /\ todo' = todo /\ scored' = scored /\ base' = base /\ pc = "working" /\ pc' = pc
    BY <1>2 DEF Work, Trees
  <2> QED BY <1>2, <2>1, WorkIs DEF Trees
<1>3. CASE Exit
  BY <1>3, SameTrees DEF Exit, Trees
<1>4. CASE Compare
  <2>1. /\ base' = base /\ worker' = worker /\ pc' \in {"apply", "failed"}
        /\ \/ scored' = scored /\ todo' = todo
           \/ scored' = base /\ todo' = TreeChanges
    BY <1>4 DEF Compare
  <2> QED BY <2>1, SameTrees, TreeChangesAre, BaseIsTree DEF Trees
<1>5. CASE Apply
  <2>1. /\ base' = base /\ worker' = worker /\ pc' \in {"apply", "failed"} /\ todo \in Seq(Changes)
        /\ todo # << >> /\ todo' = Tail(todo)
    BY <1>5, AppliedIs
  <2>2. todo' \in Seq(Changes)
    BY <2>1
  <2> QED BY <1>5, <2>1, <2>2, ApplyIs, SameTrees DEF Trees
<1>6. CASE Check
  BY <1>6, SameTrees DEF Check, Trees
<1>7. CASE UNCHANGED vars
  BY <1>7, SameTrees DEF vars, Trees
<1> QED BY <1>1, <1>2, <1>3, <1>4, <1>5, <1>6, <1>7 DEF Next

-----------------------------------------------------------------------------
(* What is applied *)

Same(t, u, p) == (p \in DOMAIN t <=> p \in DOMAIN u) /\ (p \in DOMAIN t => t[p] = u[p])
IsWorkers(p) == p \in DOMAIN scored /\ scored[p] = worker[p]
Ahead(p) == \E i \in 1..Len(todo) : todo[i].path = p

\* At each path stands what base_sha has there, or what its change makes of it, and that when
\* the change is behind.
Stands(p) ==
  /\ p \in Written => (Same(scored, base, p) \/ IsWorkers(p)) /\ (Ahead(p) \/ IsWorkers(p))
  /\ p \in Deleted => (Same(scored, base, p) \/ p \notin DOMAIN scored) /\ (Ahead(p) \/ p \notin DOMAIN scored)
  /\ p \notin Written \cup Deleted => Same(scored, base, p)

Applied == pc \in {"apply", "check"} /\ ~Swapped => \A p \in Path : Stands(p)

\* Where nothing changed places, what changes has nothing above it or below it, in any tree.
LEMMA Apart ==
  ASSUME Trees, Applied, pc = "apply", ~Swapped, NEW p \in Written \cup Deleted
  PROVE  /\ p \in Path /\ Real(scored, p) = p /\ CanWrite(p) /\ CanRemove(p)
<1>1. /\ \A q \in Written : q \in DOMAIN worker /\ worker[q].kind = "file" /\ ~InSkipped(q)
      /\ Deleted \subseteq DOMAIN base
  BY DEF Written, Seen, Deleted
<1>2. \A q \in Written, x \in DOMAIN base : ~Under(q, x) /\ ~Under(x, q)
  BY <1>1 DEF Swapped
<1>3. (\A q, x \in Written : ~Under(q, x)) /\ \A q, x \in DOMAIN base : ~Under(q, x)
  BY <1>1, BaseIsTree DEF Trees, IsTree, WellFormed
<1>4. DOMAIN scored \subseteq Path /\ DOMAIN worker \subseteq Path /\ DOMAIN base \subseteq Path
  BY BaseIsTree DEF Trees, IsTree
<1>5. \A x \in DOMAIN scored : x \in DOMAIN base \/ x \in Written
  BY <1>1, <1>4 DEF Applied, Stands, Same
<1>6. \A x \in DOMAIN scored : ~Under(p, x) /\ ~Under(x, p)
  BY <1>1, <1>2, <1>3, <1>5
<1>7. p \in Path /\ p \in Names /\ Len(p) \in Nat \ {0} /\ \A x \in DOMAIN scored : x \in Names
  BY <1>1, <1>4, PathsAre
<1>8. Real(scored, p) = p
  BY <1>6, <1>7, RealIs DEF Trees
<1>9. ~IsDir(scored, p)
  BY <1>6 DEF IsDir
<1>10. ASSUME NEW n \in 1..Len(p) - 1
       PROVE  SubSeq(p, 1, n) \notin DOMAIN scored /\ Real(scored, SubSeq(p, 1, n)) \notin DOMAIN scored
  <2> DEFINE d == SubSeq(p, 1, n)
  <2>1. d \in Names /\ Under(p, d)
    BY <1>7, Prefix
  <2> HIDE DEF d
  <2>2. \A x \in DOMAIN scored : ~Under(d, x)
    BY <1>6, <1>7, <2>1, UnderUnder
  <2>3. Real(scored, d) = d
    BY <2>1, <2>2, RealIs DEF Trees
  <2>4. d \notin DOMAIN scored
    BY <1>6, <2>1
  <2> QED BY <2>3, <2>4 DEF d
<1>11. CanWrite(p)
  BY <1>8, <1>9, <1>10 DEF CanWrite
<1>12. CanRemove(p)
  BY <1>8, <1>9, <1>10 DEF CanRemove
<1> QED BY <1>7, <1>8, <1>11, <1>12

\* Applying a change there does what it says, and nothing else.
LEMMA AppliedNext ==
  ASSUME Trees, Applied, Apply, ~Swapped
  PROVE  pc' # "failed" /\ (\A p \in Path : Stands(p))'
<1> DEFINE c == Head(todo)
           p == c.path
<1>1. /\ pc = "apply" /\ todo \in Seq(Changes) /\ todo # << >> /\ todo' = Tail(todo) /\ c \in Changes
      /\ base' = base /\ worker' = worker
  BY AppliedIs
<1>2. \/ /\ "entry" \in DOMAIN c /\ "deleted" \notin DOMAIN c /\ p \in Written /\ p \notin Deleted
         /\ c.entry = worker[p]
      \/ "entry" \notin DOMAIN c /\ "deleted" \in DOMAIN c /\ p \in Deleted /\ p \notin Written
  <2>1. Written \cap Deleted = {}
    BY DEF Written, Deleted
  <2> QED BY <1>1, <2>1, ChangesAre
<1>3. p \in Path /\ Real(scored, p) = p /\ CanWrite(p) /\ CanRemove(p)
  BY <1>1, <1>2, Apart
<1>4. /\ pc' = pc
      /\ \/ p \in Written /\ p \notin Deleted /\ scored' = With(scored, p, worker[p])
         \/ p \in Deleted /\ p \notin Written /\ scored' = Without(scored, {p})
  BY <1>2, <1>3, AppliedIs
<1>5. \A x : x # p => (Ahead(x) => Ahead(x)')
  <2> HIDE DEF p
  <2>1. /\ Len(todo) \in Nat \ {0} /\ Len(todo') = Len(todo) - 1 /\ todo[1].path = p
        /\ \A i \in 1..Len(todo) - 1 : todo'[i] = todo[i + 1]
    BY <1>1 DEF p
  <2> SUFFICES ASSUME NEW x, x # p, Ahead(x) PROVE Ahead(x)'
    OBVIOUS
  <2>2. PICK i \in 1..Len(todo) : todo[i].path = x
    BY DEF Ahead
  <2>3. i # 1
    BY <2>1, <2>2
  <2>4. i - 1 \in 1..Len(todo) - 1 /\ (i - 1) + 1 = i
    BY <2>1, <2>3
  <2> QED BY <2>1, <2>2, <2>4 DEF Ahead
<1>6. Written' = Written /\ Deleted' = Deleted
  BY <1>1, SameTrees
<1> HIDE DEF p, c
<1>7. \A x : x # p => Same(scored', scored, x)
  BY <1>4 DEF With, Without, Same
<1>8. \A x \in Path : Stands(x)
  BY <1>1 DEF Applied
<1>9. ASSUME NEW x \in Path PROVE Stands(x)'
  <2>1. CASE x = p
    <3>1. CASE p \in Written /\ p \notin Deleted /\ scored' = With(scored, p, worker[p])
      <4>1. p \in DOMAIN scored' /\ scored'[p] = worker'[p]
        BY <1>1, <3>1 DEF With
      <4> QED BY <1>6, <2>1, <3>1, <4>1 DEF Stands, IsWorkers
    <3>2. CASE p \in Deleted /\ p \notin Written /\ scored' = Without(scored, {p})
      <4>1. p \notin DOMAIN scored'
        BY <3>2 DEF Without
      <4> QED BY <1>6, <2>1, <3>2, <4>1 DEF Stands
    <3> QED BY <1>4, <3>1, <3>2
  <2>2. CASE x # p
    <3>1. Same(scored', scored, x) /\ (Ahead(x) => Ahead(x)') /\ Stands(x)
      BY <1>5, <1>7, <1>8, <2>2
    <3> QED BY <1>1, <1>6, <3>1 DEF Stands, Same, IsWorkers
  <2> QED BY <2>1, <2>2
<1> QED BY <1>1, <1>4, <1>9

LEMMA RunNext ==
  Trees /\ Applied /\ FailsOnlyOnSwap /\ [Next]_vars => (Applied /\ FailsOnlyOnSwap)'
<1> SUFFICES ASSUME Trees, Applied, FailsOnlyOnSwap, [Next]_vars PROVE Applied' /\ FailsOnlyOnSwap'
  OBVIOUS
<1>1. CASE pc' \notin {"apply", "check", "failed"}
  BY <1>1 DEF Applied, FailsOnlyOnSwap
<1>2. CASE Compare
  <2>1. /\ base' = base /\ worker' = worker
        /\ \/ pc' = "apply" /\ scored' = base /\ todo' = TreeChanges
           \/ pc' = "failed" /\ Unreadable # {}
    BY <1>2 DEF Compare
  <2>2. CASE pc' = "failed" /\ Unreadable # {}
    BY <2>1, <2>2, SameTrees DEF Applied, FailsOnlyOnSwap
  <2>3. CASE pc' = "apply" /\ scored' = base /\ todo' = TreeChanges
    <3>1. Written' = Written /\ Deleted' = Deleted
      BY <2>1, SameTrees
    <3>2. \A p \in Path : p \in Written \/ p \in Deleted => Ahead(p)'
      BY <2>3, TreeChangesAre DEF Ahead
    <3>3. \A p \in Path : Stands(p)'
      BY <2>1, <2>3, <3>1, <3>2 DEF Stands, Same
    <3> QED BY <2>3, <3>3 DEF Applied, FailsOnlyOnSwap
  <2> QED BY <2>1, <2>2, <2>3
<1>3. CASE Apply
  <2>1. base' = base /\ worker' = worker
    BY <1>3, AppliedIs
  <2>2. (Swapped' <=> Swapped)
    BY <2>1, SameTrees
  <2>3. CASE Swapped
    BY <2>2, <2>3 DEF Applied, FailsOnlyOnSwap
  <2>4. CASE ~Swapped
    BY <1>3, <2>2, <2>4, AppliedNext DEF Applied, FailsOnlyOnSwap
  <2> QED BY <2>3, <2>4
<1>4. CASE Check \/ UNCHANGED vars
  <2>1. /\ base' = base /\ worker' = worker /\ scored' = scored /\ todo' = todo
        /\ pc' = pc \/ (pc = "apply" /\ pc' = "check")
    BY <1>4 DEF Check, vars
  <2>2. \A p : Stands(p) => Stands(p)'
    BY <2>1, SameTrees DEF Stands, IsWorkers, Ahead
  <2> QED BY <2>1, <2>2, SameTrees DEF Applied, FailsOnlyOnSwap
<1>5. Launch \/ Work \/ Exit => pc' \notin {"apply", "check", "failed"}
  BY DEF Launch, Work, Exit
<1> QED BY <1>1, <1>2, <1>3, <1>4, <1>5 DEF Next

-----------------------------------------------------------------------------
(* The boundary *)

\* What is denied was read from the home at launch.
Boundary ==
  /\ home \in Homes \cup {NoHome} /\ ops \in 0..MaxOps
  /\ pc \in {"prepare", "working"} => home \in Homes
  /\ denied = IF pc = "working" THEN ToolDeny ELSE {}

LEMMA BoundaryInit == Init => Boundary
BY OpsAssumption DEF Init, Boundary

LEMMA BoundaryNext == Trees /\ Boundary /\ [Next]_vars => Boundary'
<1> SUFFICES ASSUME Trees, Boundary, [Next]_vars PROVE Boundary'
  OBVIOUS
<1>1. ASSUME home' = home PROVE ToolDeny' = ToolDeny
  BY <1>1 DEF ToolDeny, Complement, Beside, Barred, Read, Way, Entries
<1>2. CASE Launch
  BY <1>1, <1>2 DEF Launch, Boundary
<1>3. CASE Work
  BY <1>1, <1>3, OpsAssumption DEF Work, Boundary
<1>4. CASE Exit
  BY <1>4 DEF Exit, Boundary
<1>5. CASE Compare
  BY <1>5 DEF Compare, Boundary
<1>6. CASE Apply
  <2>1. UNCHANGED <<home, denied, ops>> /\ pc = "apply" /\ pc' \in {"apply", "failed"}
    BY <1>6, AppliedIs
  <2> QED BY <2>1 DEF Boundary
<1>7. CASE Check
  BY <1>7 DEF Check, Boundary
<1>8. CASE UNCHANGED vars
  BY <1>1, <1>8 DEF vars, Boundary
<1> QED BY <1>2, <1>3, <1>4, <1>5, <1>6, <1>7, <1>8 DEF Next

LEMMA HomeIs ==
  ASSUME home \in Homes
  PROVE  /\ home.has \subseteq Names /\ home.unreadable \subseteq home.has
         /\ Root \in home.has /\ Run \in home.has /\ Len(Run) \in Nat \ {0} /\ Len(Root) \in Nat
         /\ \A p \in home.has : \A n \in 1..Len(p) : SubSeq(p, 1, n) \in home.has
         /\ home.user \in Names /\ Root \in Names /\ Under(Run, Root)
<1>1. /\ home.user \in Names /\ home.has \subseteq Names /\ home.unreadable \subseteq home.has
      /\ Root \in home.has /\ Run \in home.has
      /\ \A p \in home.has : \A n \in 1..Len(p) : SubSeq(p, 1, n) \in home.has
  BY HomesAssumption DEF Names
<1>2. Len(Run) \in Nat /\ Len(Root) \in Nat
  BY <1>1 DEF Names
<1> QED BY <1>1, <1>2, OpsAssumption, UnderIs

\* What is neither on the way to the run nor in it parts from that way at some name.
LEMMA Parts ==
  ASSUME NEW p \in Names, NEW k \in Names, p # k, ~Under(p, k), ~Under(k, p)
  PROVE  \E n \in 1..Len(p) : n \in 1..Len(k) /\ p[n] # k[n] /\ \A i \in 1..n - 1 : p[i] = k[i]
<1>1. Len(p) \in Nat /\ Len(k) \in Nat
  BY DEF Names
<1> DEFINE B == {n \in Nat : n \in 1..Len(p) /\ n \in 1..Len(k) /\ p[n] # k[n]}
<1>2. B # {}
  <2> SUFFICES ASSUME B = {} PROVE FALSE
    OBVIOUS
  <2>1. \A n \in 1..Len(p) : n \in 1..Len(k) => p[n] = k[n]
    BY <1>1
  <2>2. CASE Len(p) < Len(k)
    BY <1>1, <2>1, <2>2, UnderIs
  <2>3. CASE Len(k) < Len(p)
    <3>1. \A n \in 1..Len(k) : p[n] = k[n]
      BY <1>1, <2>1, <2>3
    <3> QED BY <3>1, <2>3, UnderIs
  <2>4. CASE Len(k) = Len(p)
    <3>1. \A n \in 1..Len(k) : p[n] = k[n]
      BY <2>1, <2>4
    <3> QED BY <2>4, <3>1 DEF Names
  <2> QED BY <1>1, <2>2, <2>3, <2>4
<1>3. PICK n \in B : \A m \in B : n <= m
  BY <1>2, Least
<1>4. \A i \in 1..n - 1 : p[i] = k[i]
  <2> SUFFICES ASSUME NEW i \in 1..n - 1 PROVE p[i] = k[i]
    OBVIOUS
  <2>1. i \in 1..Len(p) /\ i \in 1..Len(k) /\ ~(n <= i) /\ i \in Nat
    BY <1>1, <1>3
  <2> QED BY <2>1, <1>3
<1> QED BY <1>3, <1>4

LEMMA DeniedIs ==
  ASSUME home \in Homes
  PROVE  ToolDeny \subseteq home.has
BY HomeIs DEF ToolDeny, Complement, Beside, Barred, Entries

\* Whatever is beside the way from a directory to the run is denied, or inside what is.
LEMMA BesideIsDenied ==
  ASSUME home \in Homes, NEW top \in Names, Under(Run, top),
         NEW p \in home.has, Under(p, top), p # Run, ~Under(p, Run), ~Under(Run, p)
  PROVE  \E d \in Complement(top, Run) : p = d \/ Under(p, d)
<1>1. p \in Names /\ Run \in Names /\ Len(p) \in Nat /\ Len(Run) \in Nat
  BY HomeIs DEF Names
<1>2. PICK n \in 1..Len(p) : n \in 1..Len(Run) /\ p[n] # Run[n] /\ \A i \in 1..n - 1 : p[i] = Run[i]
  BY <1>1, Parts
<1>13. Len(top) \in 0..n - 1
  <2>1. /\ Len(top) \in Nat /\ Len(top) < Len(p) /\ Len(top) < Len(Run)
        /\ \A i \in 1..Len(top) : p[i] = top[i] /\ Run[i] = top[i]
    BY <1>1, UnderIs DEF Names
  <2>2. n \notin 1..Len(top)
    BY <1>2, <2>1
  <2> QED BY <1>1, <1>2, <2>1, <2>2
<1> DEFINE W == home.unreadable \cap Way(top, Run)
<1>3. Way(top, Run) = {SubSeq(Run, 1, m) : m \in Len(top)..Len(Run) - 1}
  BY DEF Way
<1>4. ASSUME NEW m \in Len(top)..n - 1
      PROVE  /\ SubSeq(Run, 1, m) \in Way(top, Run) /\ Len(SubSeq(Run, 1, m)) = m
             /\ Under(p, SubSeq(Run, 1, m))
  <2>1. m \in Len(top)..Len(Run) - 1 /\ m \in 0..Len(Run) - 1 /\ m \in 0..Len(p) - 1
    BY <1>1, <1>2, <1>13
  <2>2. /\ SubSeq(Run, 1, m) \in Names /\ Len(SubSeq(Run, 1, m)) = m
        /\ \A i \in 1..m : SubSeq(Run, 1, m)[i] = Run[i]
    BY <1>1, <2>1 DEF Names
  <2>3. Under(p, SubSeq(Run, 1, m))
    <3>1. \A i \in 1..m : p[i] = Run[i]
      BY <1>2
    <3>2. m < Len(p)
      BY <1>1, <2>1
    <3> DEFINE s == SubSeq(Run, 1, m)
    <3>3. s \in Names /\ Len(s) = m /\ \A i \in 1..m : s[i] = p[i]
      BY <2>2, <3>1
    <3> HIDE DEF s
    <3>4. Under(p, s)
      BY <1>1, <3>2, <3>3, UnderIs
    <3> QED BY <3>4 DEF s
  <2> QED BY <1>3, <2>1, <2>2, <2>3
<1> DEFINE dir == SubSeq(Run, 1, n - 1)
           e == SubSeq(p, 1, n)
<1>5. n - 1 \in Len(top)..n - 1 /\ n - 1 \in Nat /\ n \in Nat \ {0}
  BY <1>1, <1>2, <1>13
<1>6. dir \in Way(top, Run) /\ Len(dir) = n - 1
  BY <1>4, <1>5
<1>7. e \in home.has /\ e \in Names /\ Len(e) = n /\ \A i \in 1..n : e[i] = p[i]
  BY <1>1, <1>2, HomeIs DEF Names
<1> HIDE DEF dir, e
<1>8. e \in Entries(dir)
  <2>1. dir \in Names /\ \A i \in 1..n - 1 : dir[i] = Run[i]
    BY <1>1, <1>2, <1>5 DEF Names, dir
  <2>2. Len(dir) < Len(e) /\ \A i \in 1..Len(dir) : e[i] = dir[i]
    BY <1>1, <1>2, <1>5, <1>6, <1>7, <2>1
  <2>3. Under(e, dir)
    BY <1>7, <2>1, <2>2, UnderIs
  <2>4. Len(e) = Len(dir) + 1
    BY <1>5, <1>6, <1>7
  <2> QED BY <1>7, <2>3, <2>4 DEF Entries
<1>9. p = e \/ Under(p, e)
  <2>1. CASE n = Len(p)
    BY <1>1, <1>7, <2>1 DEF Names
  <2>2. CASE n # Len(p)
    BY <1>1, <1>2, <1>7, <2>2, UnderIs
  <2> QED BY <2>1, <2>2
<1>10. \A k \in 1..Len(Run) : SubSeq(Run, 1, k) # e
  <2> SUFFICES ASSUME NEW k \in 1..Len(Run), SubSeq(Run, 1, k) = e PROVE FALSE
    OBVIOUS
  <2>1. Len(SubSeq(Run, 1, k)) = k /\ \A i \in 1..k : SubSeq(Run, 1, k)[i] = Run[i]
    BY <1>1 DEF Names
  <2>2. k = n /\ e[n] = Run[n]
    BY <1>2, <1>7, <2>1
  <2> QED BY <1>2, <1>7, <2>2
<1>11. CASE dir \in Read(top, Run)
  <2>1. e \in UNION {Entries(d) : d \in Read(top, Run)} /\ e \notin {SubSeq(Run, 1, m) : m \in 1..Len(Run)}
    BY <1>8, <1>10, <1>11
  <2>2. e \in Complement(top, Run)
    BY <2>1, Zenon DEF Complement, Beside
  <2> QED BY <1>9, <2>2
<1>12. CASE dir \notin Read(top, Run)
  <2>1. PICK u \in W : ~(Len(dir) < Len(u))
    BY <1>6, <1>12 DEF Read
  <2>2. \A w \in W : /\ Len(w) \in Nat
                      /\ \E m \in Len(top)..Len(Run) - 1 : w = SubSeq(Run, 1, m) /\ Len(w) = m
    <3> SUFFICES ASSUME NEW m \in Len(top)..Len(Run) - 1 PROVE Len(SubSeq(Run, 1, m)) = m /\ m \in Nat
      BY <1>3
    <3>1. m \in 0..Len(Run) - 1 /\ m \in Nat
      BY <1>13
    <3> QED BY <1>1, <3>1, Prefix
  <2> DEFINE B == {Len(w) : w \in W}
  <2>3. B \subseteq Nat /\ B # {}
    BY <2>1, <2>2
  <2>4. PICK m \in B : \A k \in B : m <= k
    <3> HIDE DEF B
    <3> QED BY <2>3, Least
  <2>5. PICK v \in W : Len(v) = m
    BY <2>4
  <2>6. \A w \in W : Len(v) <= Len(w)
    BY <2>4, <2>5
  <2>7. Len(v) \in Len(top)..n - 1 /\ v = SubSeq(Run, 1, Len(v))
    <3>1. /\ Len(v) <= Len(u) /\ Len(u) \in Nat /\ Len(v) \in Nat /\ Len(top) <= Len(v)
          /\ v = SubSeq(Run, 1, Len(v))
      BY <2>1, <2>2, <2>5, <2>6
    <3> QED BY <1>5, <1>6, <2>1, <3>1
  <2>8. Under(p, v)
    BY <1>4, <2>7
  <2>9. v \in Complement(top, Run)
    BY <2>5, <2>6 DEF Complement, Barred
  <2> QED BY <2>8, <2>9
<1> QED BY <1>11, <1>12

\* The run itself is not denied, nor what leads to it, where every directory could be read.
LEMMA RunIsReached ==
  ASSUME home \in Homes, home.unreadable = {}, NEW d \in ToolDeny
  PROVE  Run # d /\ ~Under(Run, d)
<1>1. Run \in Names /\ Root \in Names /\ Len(Run) \in Nat \ {0} /\ Len(Root) \in Nat /\ home.has \subseteq Names
  BY HomeIs
<1>2. ASSUME NEW top \in Names, d \in Complement(top, Run) PROVE Run # d /\ ~Under(Run, d)
  <2>0. Under(Run, top) /\ Barred(top, Run) = {} /\ d \in Beside(top, Run)
    BY <1>2 DEF Complement, Barred
  <2>1. PICK dir \in Way(top, Run) : d \in Entries(dir)
    BY <2>0 DEF Beside, Read
  <2>2. \A n \in 1..Len(Run) : d # SubSeq(Run, 1, n)
    <3>1. d \notin {SubSeq(Run, 1, n) : n \in 1..Len(Run)}
      BY <2>0, Zenon DEF Beside
    <3> QED BY <3>1
  <2>3. Len(dir) \in Nat
    <3>1. PICK n \in Len(top)..Len(Run) - 1 : dir = SubSeq(Run, 1, n)
      BY <2>1 DEF Way
    <3>2. Len(top) \in Nat
      BY <1>2 DEF Names
    <3>3. n \in 0..Len(Run) - 1 /\ n \in Nat
      BY <1>1, <3>1, <3>2
    <3> QED BY <1>1, <3>1, <3>3, Prefix
  <2>4. d \in Names /\ Len(d) = Len(dir) + 1
    BY <1>1, <2>1 DEF Entries
  <2>5. Run # d
    <3>1. SubSeq(Run, 1, Len(Run)) = Run
      BY <1>1 DEF Names
    <3> QED BY <1>1, <2>2, <3>1
  <2>6. ~Under(Run, d)
    <3> SUFFICES ASSUME Under(Run, d) PROVE FALSE
      OBVIOUS
    <3>1. Len(d) \in 1..Len(Run)
      BY <1>1, <2>3, <2>4, FirstDirs
    <3>2. d = SubSeq(Run, 1, Len(d))
      BY <1>1, <2>4, FirstDirs
    <3> QED BY <2>2, <3>1, <3>2
  <2> QED BY <2>5, <2>6
<1> QED BY HomeIs, <1>2 DEF ToolDeny

-----------------------------------------------------------------------------
(* The theorems *)

RunInv == Trees /\ Boundary /\ Applied /\ FailsOnlyOnSwap

LEMMA RunHolds == Spec => []RunInv
<1>1. Init => RunInv
  BY TreesInit, BoundaryInit DEF RunInv, Init, Applied, FailsOnlyOnSwap
<1>2. RunInv /\ [Next]_vars => RunInv'
  BY TreesNext, BoundaryNext, RunNext DEF RunInv
<1> QED BY <1>1, <1>2, PTL DEF Spec

\* On any disk, a worker's file tools reach nothing of <root> but its run, what the run holds and
\* the way to it, whichever directories on that way cannot be read, and the same of the user's
\* home where the run is inside it; of a user's home elsewhere it says nothing, as nothing is
\* denied there.
THEOREM CheckoutsBound == Spec => []BoundaryIsTheRun
<1>1. RunInv => BoundaryIsTheRun
  <2> DEFINE reach == {p \in home.has : ~\E d \in denied : p = d \/ Under(p, d)}
  <2> SUFFICES ASSUME RunInv, pc = "working"
               PROVE  /\ \A top \in {home.user, Root}, p \in reach : Under(Run, top) /\ Under(p, top) =>
                           p = Run \/ Under(p, Run) \/ Under(Run, p)
                      /\ home.unreadable = {} => Run \in reach
    BY DEF BoundaryIsTheRun
  <2>1. home \in Homes /\ denied = ToolDeny
    BY DEF RunInv, Boundary
  <2>2. ASSUME NEW top \in {home.user, Root}, NEW p \in reach, Under(Run, top), Under(p, top)
        PROVE  p = Run \/ Under(p, Run) \/ Under(Run, p)
    <3>1. top \in Names /\ Complement(top, Run) \subseteq ToolDeny
      BY <2>1, HomeIs DEF ToolDeny
    <3> QED BY <2>1, <2>2, <3>1, BesideIsDenied
  <2>3. home.unreadable = {} => Run \in reach
    BY <2>1, HomeIs, RunIsReached
  <2> QED BY <2>2, <2>3
<1> QED BY <1>1, RunHolds, PTL

\* Whatever the worker did, where nothing changed places and no link was replaced, the check
\* runs on what it left.
THEOREM CheckoutsScoreTheWorkers == Spec => []ScoredIsTheWorkers
<1>1. RunInv => ScoredIsTheWorkers
  <2> SUFFICES ASSUME RunInv, pc = "check", ~Swapped, ~LinkReplaced, NEW p \in Path, ~InSkipped(p)
               PROVE  {scored[q] : q \in {p} \cap DOMAIN scored} =
                        IF p \notin DOMAIN worker \/ worker[p].kind = "other" THEN {}
                        ELSE IF worker[p].kind = "file" THEN {worker[p]}
                        ELSE {base[q] : q \in {p} \cap DOMAIN base}
    BY DEF ScoredIsTheWorkers
  <2>1. IsTree(base) /\ IsTree(worker) /\ todo = << >> /\ Stands(p)
    BY BaseIsTree DEF RunInv, Trees, Applied
  <2>2. ~Ahead(p)
    BY <2>1 DEF Ahead
  <2>3. CASE p \notin DOMAIN worker \/ worker[p].kind = "other"
    <3>1. p \notin Seen /\ p \notin Written
      BY <2>3 DEF Seen, Written
    <3>2. p \notin DOMAIN scored
      BY <2>1, <2>2, <3>1 DEF Deleted, Stands, Same
    <3> QED BY <2>3, <3>2
  <2>4. CASE p \in DOMAIN worker /\ worker[p].kind = "file"
    <3>1. p \in Seen /\ p \notin Deleted
      BY <2>4 DEF Seen, Deleted
    <3>2. CASE p \in Written
      <4>1. p \in DOMAIN scored /\ scored[p] = worker[p]
        BY <2>1, <2>2, <3>2 DEF Stands, IsWorkers
      <4> QED BY <2>4, <4>1
    <3>3. CASE p \notin Written
      <4>1. Reads(base, p, worker[p].content)
        BY <2>4, <3>1, <3>3 DEF Written
      <4>2. Real(base, p) = p
        <5>1. \A q \in DOMAIN base : ~Under(p, q)
          BY <2>4 DEF Swapped
        <5> QED BY <2>1, <5>1, PathsAre, RealIs
      <4>3. Final(base, p) = p
        BY <2>4, <4>2 DEF Final, LinkReplaced
      <4>4. p \in DOMAIN base /\ base[p] = File(worker[p].content)
        BY <4>1, <4>3 DEF Reads
      <4>5. worker[p] = File(worker[p].content)
        <5>1. worker[p] \in Entry /\ worker[p].kind = "file"
          BY <2>1, <2>4 DEF IsTree
        <5> QED BY <5>1 DEF Entry, File, Link, Other, Shut
      <4>6. p \in DOMAIN scored /\ scored[p] = base[p]
        BY <2>1, <3>1, <3>3, <4>4 DEF Stands, Same
      <4> QED BY <2>4, <4>4, <4>5, <4>6
    <3> QED BY <3>2, <3>3
  <2>5. CASE p \in DOMAIN worker /\ worker[p].kind \notin {"file", "other"}
    <3>1. p \in Seen /\ p \notin Written /\ p \notin Deleted
      BY <2>5 DEF Seen, Written, Deleted
    <3>2. Same(scored, base, p)
      BY <2>1, <3>1 DEF Stands
    <3> QED BY <2>5, <3>2 DEF Same
  <2> QED BY <2>3, <2>4, <2>5
<1> QED BY <1>1, RunHolds, PTL

\* Every tree stays a tree through the worker's and the program's changes, and a scoring fails
\* only where a file and a directory changed places or the worker's tree could not be read.
THEOREM CheckoutsTreesHold == Spec => []TreesHold
<1>1. RunInv => TreesHold
  <2> SUFFICES ASSUME RunInv PROVE TypeOK
    BY DEF RunInv, TreesHold
  <2>1. /\ pc \in {"prepare", "refused", "working", "compare", "apply", "check", "failed"}
        /\ base \in Bases /\ IsTree(worker) /\ IsTree(scored) /\ todo \in Seq(Changes)
    BY DEF RunInv, Trees, NotYet
  <2>2. home \in Homes \cup {NoHome} /\ ops \in 0..MaxOps /\ denied \subseteq home.has
    BY DeniedIs DEF RunInv, Boundary
  <2>3. \A i \in 1..Len(todo) : todo[i].path \in Path
    <3>1. \A i \in 1..Len(todo) : todo[i] \in Changes
      BY <2>1
    <3> QED BY <3>1, ChangesAre DEF RunInv
  <2> QED BY <2>1, <2>2, <2>3 DEF TypeOK, IsTree
<1> QED BY <1>1, RunHolds, PTL

\* A change that is applied reaches its own path and no other, unless base_sha has a link above it.
THEOREM CheckoutsStayPut == Spec => WritesStayPut
<1> DEFINE Put1 == Apply => \A p \in Path :
              ({scored[q] : q \in {p} \cap DOMAIN scored} # {scored'[q] : q \in {p} \cap DOMAIN scored'})
                => p = Head(todo).path \/ \E q \in DOMAIN base : base[q].kind = "link" /\ Under(Head(todo).path, q)
<1>1. RunInv /\ [Next]_vars => [Put1]_vars
  <2> SUFFICES ASSUME RunInv, Apply, NEW p \in Path, p # Head(todo).path,
                      ~ \E q \in DOMAIN base : base[q].kind = "link" /\ Under(Head(todo).path, q)
               PROVE  {scored[q] : q \in {p} \cap DOMAIN scored} = {scored'[q] : q \in {p} \cap DOMAIN scored'}
    OBVIOUS
  <2> DEFINE c == Head(todo)
  <2>1. c \in Changes /\ c.path \in Path
    BY AppliedIs, ChangesAre DEF RunInv
  <2>2. /\ IsTree(scored)
        /\ \A q \in DOMAIN scored : scored[q].kind = "link" => q \in DOMAIN base /\ base[q] = scored[q]
    BY DEF RunInv, Trees
  <2>3. Real(scored, c.path) = c.path
    <3>1. \A q \in DOMAIN scored : Under(c.path, q) => scored[q].kind # "link"
      BY <2>2
    <3> QED BY <2>1, <2>2, <3>1, PathsAre, RealIs
  <2>4. \/ scored' = With(scored, c.path, c.entry)
        \/ scored' = Without(scored, {c.path})
        \/ scored' = scored
    BY <2>3, AppliedIs DEF RunInv
  <2>5. Same(scored', scored, p)
    BY <2>4 DEF With, Without, Same
  <2> QED BY <2>5 DEF Same
<1> QED BY <1>1, RunHolds, PTL DEF Spec, WritesStayPut

=============================================================================
