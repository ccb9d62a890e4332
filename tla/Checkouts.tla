------------------------------ MODULE Checkouts ------------------------------
(***************************************************************************)
(* One run's two checkouts: the worker's, and the one its hidden check     *)
(* scores.  src/core/bench/workspace.go, newIsolation and complement of    *)
(* isolation.go, and score, runCheck and applyChanges of runner.go.        *)
(*                                                                         *)
(* The worker gets a clone of base_sha and nothing else of the home, and   *)
(* does there what it likes.  Once it has exited, its tree is compared     *)
(* with a fresh export of base_sha, and the changes found are applied, one *)
(* by one and in the order found, to another fresh export.  The check runs *)
(* in the tree that results.                                               *)
(*                                                                         *)
(* A path is a sequence of names.  A tree maps the paths of its files and  *)
(* links to what stands there, and its directories are the prefixes of     *)
(* those paths: git exports no empty one, and nothing here reads one.      *)
(***************************************************************************)
EXTENDS Integers, Sequences

CONSTANTS
  WalkOrder,    \* the paths a tree may hold, in the order a walk meets them
  Content,      \* what a file may hold
  LinkTo,       \* where a link at a path leads, for the paths where one may stand
  Skipped,      \* the names of directories a walk of the worker's tree skips
  Bases,        \* the trees base_sha may be
  Homes,        \* what the disk may hold when the worker is launched, and where the user's home is
  Root, Run,    \* the paths of <root>, which FOLIOT_HOME names, and of the run's directory
  MaxOps        \* bound: what a worker does to its tree

Path == {WalkOrder[i] : i \in 1..Len(WalkOrder)}

\* Path p is inside directory d.
Under(p, d) == Len(d) < Len(p) /\ SubSeq(p, 1, Len(d)) = d

File(c) == [kind |-> "file", content |-> c]
Link(p) == [kind |-> "link", to |-> LinkTo[p]]
Other == [kind |-> "other"]
Shut == [kind |-> "shut"]    \* a file, or all of a directory, that cannot be read

Entry == [kind : {"file"}, content : Content] \cup {Link(p) : p \in DOMAIN LinkTo} \cup {Other, Shut}

\* Nothing stands both as a file and as a directory.
WellFormed(tree) == \A p, q \in DOMAIN tree : ~Under(p, q)

\* A walk passes over the directory it starts from.
ASSUME PathsAssumption == WalkOrder \in Seq(Seq(STRING) \ {<< >>})

\* A link leads to no link, and to nothing that holds one; what it leads to is a path as well.
ASSUME LinksAssumption ==
  /\ DOMAIN LinkTo \subseteq Path
  /\ \A p, q \in DOMAIN LinkTo : LinkTo[p] \in Seq(STRING) /\ LinkTo[p] # q /\ ~Under(q, LinkTo[p])
  /\ \A p \in DOMAIN LinkTo, q \in Path :
       Under(q, p) => LinkTo[p] \o SubSeq(q, Len(p) + 1, Len(q)) \in Path

ASSUME BasesAssumption ==
  \A b \in Bases : /\ DOMAIN b \subseteq Path /\ WellFormed(b)
                   /\ \A p \in DOMAIN b : \/ b[p] \in [kind : {"file"}, content : Content]
                                          \/ p \in DOMAIN LinkTo /\ b[p] = Link(p)

\* What holds something is there itself.  The user's home is anywhere: around <root>, or not.
ASSUME HomesAssumption ==
  \A h \in Homes : /\ Root \in h.has /\ Run \in h.has /\ h.unreadable \subseteq h.has
                   /\ h.user \in Seq(STRING)
                   /\ h.has \subseteq Seq(STRING)
                   /\ \A p \in h.has : \A n \in 1..Len(p) : SubSeq(p, 1, n) \in h.has
ASSUME OpsAssumption == MaxOps \in Nat /\ Under(Run, Root)

VARIABLES
  pc,        \* where the run is
  base,      \* the tree of base_sha
  home,      \* what the disk holds, until the worker has exited
  denied,    \* what the worker's file tools are denied
  worker,    \* the worker's tree
  ops,       \* how often the worker touched it
  todo,      \* the changes still to apply
  scored     \* the tree the check runs in

vars == <<pc, base, home, denied, worker, ops, todo, scored>>

NoTree == [p \in {} |-> Other]
NoHome == [user |-> << >>, has |-> {}, unreadable |-> {}]

Init ==
  /\ pc = "prepare"
  /\ base \in Bases /\ home \in Homes
  /\ denied = {} /\ worker = NoTree /\ ops = 0 /\ todo = << >> /\ scored = NoTree

-----------------------------------------------------------------------------
(* The launch *)

\* What a directory holds; its parent's path is p without its last name.
Entries(dir) == {p \in home.has : Len(p) = Len(dir) + 1 /\ Under(p, dir)}

\* The directories on the way from top down to keep, and those of them above an unreadable one.
Way(top, keep) == {SubSeq(keep, 1, n) : n \in Len(top)..(Len(keep) - 1)}
Read(top, keep) == {d \in Way(top, keep) :
                      \A u \in home.unreadable \cap Way(top, keep) : Len(d) < Len(u)}

\* The entries met that are not on the way, and the first directory that could not be read.
Beside(top, keep) ==
  (UNION {Entries(d) : d \in Read(top, keep)}) \ {SubSeq(keep, 1, n) : n \in 1..Len(keep)}
Barred(top, keep) ==
  {u \in home.unreadable \cap Way(top, keep) :
     \A v \in home.unreadable \cap Way(top, keep) : Len(u) <= Len(v)}

\* A bug of the next: an unreadable directory ends the walk and is not denied.
Complement_Guesses(top, keep) == IF Under(keep, top) THEN Beside(top, keep) ELSE {}

\* complement: every entry on the way from top to keep that is not on that way, down to the
\* first directory that cannot be read, which is denied whole; and nothing when keep is not
\* inside top.
Complement(top, keep) ==
  IF Under(keep, top) THEN Beside(top, keep) \cup Barred(top, keep) ELSE {}

\* newIsolation's ToolDeny, read at launch, from the user's home and from <root>.  (The paths it
\* names beyond these, three under <root> and the profile's own, only add to it.)
ToolDeny == Complement(home.user, Run) \cup Complement(Root, Run)

\* assertHistoryFree: the clone is of base_sha alone.  A clone that holds the landed commit or
\* more than one commit, or whose reading failed, gets no worker.
Free(history) == history.landedObjectExit = 1 /\ history.commits = 1

Launch ==
  /\ pc = "prepare"
  /\ \E history \in [landedObjectExit : {-1, 0, 1}, commits : {-1, 1, 2}] :
       IF Free(history)
       THEN /\ pc' = "working"
            /\ denied' = ToolDeny
            /\ worker' = base
            /\ UNCHANGED home
       ELSE /\ pc' = "refused"
            /\ home' = NoHome
            /\ UNCHANGED <<denied, worker>>
  /\ UNCHANGED <<base, ops, todo, scored>>

-----------------------------------------------------------------------------
(* The worker *)

Without(tree, gone) == [p \in DOMAIN tree \ gone |-> tree[p]]
With(tree, p, entry) == [q \in DOMAIN tree \cup {p} |-> IF q = p THEN entry ELSE tree[q]]

\* The worker puts an entry at a path, after it removed what stood in its way.
Put(p, entry) ==
  worker' = With(Without(worker, {q \in DOMAIN worker : Under(p, q) \/ Under(q, p)}), p, entry)

\* What setup and the worker do to the tree: no step of theirs is the program's own.
Work ==
  /\ pc = "working"
  /\ ops < MaxOps
  /\ ops' = ops + 1
  /\ \/ \E p \in Path, c \in Content : Put(p, File(c))
     \/ \E p \in DOMAIN LinkTo : Put(p, Link(p))
     \/ \E p \in DOMAIN base, entry \in {Other, Shut} : Put(p, entry)
     \/ \E p \in DOMAIN worker : worker' = Without(worker, {p})
  /\ worker' # worker
  /\ UNCHANGED <<pc, base, home, denied, todo, scored>>

\* The worker exits, or its deadline kills it.
Exit ==
  /\ pc = "working"
  /\ pc' = "compare"
  /\ home' = NoHome /\ denied' = {}
  /\ UNCHANGED <<base, worker, ops, todo, scored>>

-----------------------------------------------------------------------------
(* treeChanges *)

\* What the path means once a link above it is followed, and what reading it returns, a link at
\* the path itself followed as well: no link leads to a link.
Real(tree, p) ==
  IF \E q \in DOMAIN tree : Under(p, q) /\ tree[q].kind = "link"
  THEN LET q == CHOOSE q \in DOMAIN tree : Under(p, q) /\ tree[q].kind = "link" IN
       tree[q].to \o SubSeq(p, Len(q) + 1, Len(p))
  ELSE p

Final(tree, p) ==
  LET r == Real(tree, p) IN
  IF r \in DOMAIN tree /\ tree[r].kind = "link" THEN tree[r].to ELSE r

\* A file at path p of the tree reads as this content.
Reads(tree, p, c) == Final(tree, p) \in DOMAIN tree /\ tree[Final(tree, p)] = File(c)

\* The first walk skips a directory of these names at any depth; a file may have the name.
InSkipped(p) == \E n \in 1..(Len(p) - 1) : p[n] \in Skipped

\* A bug of the next: a link is counted and not marked.
Seen_NotLinks == {p \in DOMAIN worker : ~InSkipped(p) /\ worker[p].kind = "file"}

\* What the first walk meets and marks as seen: files and links, and nothing else.
Seen == {p \in DOMAIN worker : ~InSkipped(p) /\ worker[p].kind # "other"}

\* The files that do not read the same in the export.
Written == {p \in Seen : /\ worker[p].kind = "file"
                         /\ ~Reads(base, p, worker[p].content)}

\* What the second walk, of the export and all of it, meets that was not seen.
Deleted == DOMAIN base \ Seen

\* What a walk finds of a set, in walk order.
Keep(S) ==
  LET kept[n \in 0..Len(WalkOrder)] ==
        IF n = 0 THEN << >>
        ELSE IF WalkOrder[n] \in S THEN Append(kept[n - 1], WalkOrder[n]) ELSE kept[n - 1]
  IN kept[Len(WalkOrder)]

\* First what was written and then what was deleted, each in walk order.
TreeChanges ==
  LET written == Keep(Written)
      deleted == Keep(Deleted) IN
  [i \in 1..Len(written) |-> [path |-> written[i], entry |-> worker[written[i]]]]
  \o [i \in 1..Len(deleted) |-> [path |-> deleted[i], deleted |-> TRUE]]

\* What the first walk meets and cannot read.
Unreadable == {p \in DOMAIN worker : ~InSkipped(p) /\ worker[p].kind = "shut"}

\* score: the changes are found and kept, and runCheck starts from a fresh export; or the walk
\* met an error, and nothing is scored.
Compare ==
  /\ pc = "compare"
  /\ \/ /\ Unreadable = {}
        /\ todo' = TreeChanges
        /\ scored' = base
        /\ pc' = "apply"
     \/ /\ Unreadable # {}
        /\ pc' = "failed"
        /\ UNCHANGED <<todo, scored>>
  /\ UNCHANGED <<base, home, denied, worker, ops>>

-----------------------------------------------------------------------------
(* applyChanges *)

IsDir(tree, p) == \E q \in DOMAIN tree : Under(q, p)

\* A bug of the next: the directories above a new file are expected to be there.
CanWrite_NoMkdir(p) ==
  /\ \A n \in 1..(Len(p) - 1) : IsDir(scored, Final(scored, SubSeq(p, 1, n)))
  /\ ~IsDir(scored, Real(scored, p))

\* MkdirAll makes the directories above the path unless a file, or a link that leads to no
\* directory, is in the way, and a file is not written over a directory.
CanWrite(p) ==
  /\ \A n \in 1..(Len(p) - 1) :
       LET d == SubSeq(p, 1, n) IN
       Real(scored, d) \in DOMAIN scored => IsDir(scored, Final(scored, d))
  /\ ~IsDir(scored, Real(scored, p))

\* A bug of the next: what stands at the path is written through.
WriteFile_Through(c) == scored' = With(scored, Final(scored, c.path), c.entry)

\* The write of a change, after the removal of what stands at its path.
WriteFile(c) == scored' = With(scored, Real(scored, c.path), c.entry)

\* What is gone already is no error; a directory at the path, or a file above it, is one.
CanRemove(p) ==
  /\ ~IsDir(scored, Real(scored, p))
  /\ \A n \in 1..(Len(p) - 1) : SubSeq(p, 1, n) \in DOMAIN scored => scored[SubSeq(p, 1, n)].kind = "link"

RemoveFile(c) == scored' = Without(scored, {Real(scored, c.path)})

Apply ==
  /\ pc = "apply"
  /\ todo # << >>
  /\ LET c == Head(todo) IN
       \/ "deleted" \in DOMAIN c /\ CanRemove(c.path) /\ RemoveFile(c) /\ UNCHANGED pc
       \/ "entry" \in DOMAIN c /\ CanWrite(c.path) /\ WriteFile(c) /\ UNCHANGED pc
       \/ /\ IF "entry" \in DOMAIN c THEN ~CanWrite(c.path) ELSE ~CanRemove(c.path)
          /\ pc' = "failed"
          /\ UNCHANGED scored
  /\ todo' = Tail(todo)
  /\ UNCHANGED <<base, home, denied, worker, ops>>

\* The hidden check runs in the tree.
Check ==
  /\ pc = "apply"
  /\ todo = << >>
  /\ pc' = "check"
  /\ UNCHANGED <<base, home, denied, worker, ops, todo, scored>>

-----------------------------------------------------------------------------

Next == Launch \/ Work \/ Exit \/ Compare \/ Apply \/ Check

Spec == Init /\ [][Next]_vars

-----------------------------------------------------------------------------
(* Properties *)

TypeOK ==
  /\ pc \in {"prepare", "refused", "working", "compare", "apply", "check", "failed"}
  /\ base \in Bases /\ home \in Homes \cup {NoHome} /\ denied \subseteq home.has
  /\ \A tree \in {worker, scored} :
       /\ DOMAIN tree \subseteq Path /\ WellFormed(tree)
       /\ \A p \in DOMAIN tree : tree[p] \in Entry
  /\ ops \in 0..MaxOps
  /\ \A i \in 1..Len(todo) : todo[i].path \in Path

\* The boundary is the run: of <root>, and of the user's home where that holds the run, the file
\* tools are left the run, what it holds and what leads to it, and the run is within reach unless
\* a directory on the way could not be read (isolation.go:45-46).  A user's home that does not
\* hold the run has nothing denied in it (isolation.go:49-51).
BoundaryIsTheRun ==
  pc = "working" =>
    LET reach == {p \in home.has : ~\E d \in denied : p = d \/ Under(p, d)} IN
    /\ \A top \in {home.user, Root}, p \in reach :
         Under(Run, top) /\ Under(p, top) => p = Run \/ Under(p, Run) \/ Under(Run, p)
    /\ home.unreadable = {} => Run \in reach

\* Where the worker put a directory over a file or link of base_sha, or the reverse.
Swapped == \E p \in DOMAIN base, q \in DOMAIN worker :
             (Under(q, p) \/ Under(p, q)) /\ worker[q].kind = "file" /\ ~InSkipped(q)

\* Where a link of base_sha became a file.
LinkReplaced == \E p \in DOMAIN base \cap DOMAIN worker :
                  base[p].kind = "link" /\ worker[p].kind = "file"

\* The check runs on what the worker left (runner.go:822): outside the skipped directories, each
\* of its files is there with its content, each link it made leaves what base_sha has at that
\* path, and nothing else is there; a worker that replaced a link or a directory aside.
ScoredIsTheWorkers ==
  pc = "check" /\ ~Swapped /\ ~LinkReplaced =>
    \A p \in {q \in Path : ~InSkipped(q)} :
      LET left == IF p \notin DOMAIN worker \/ worker[p].kind = "other" THEN {}
                  ELSE IF worker[p].kind = "file" THEN {worker[p]}
                  ELSE {base[q] : q \in {p} \cap DOMAIN base} IN
      {scored[q] : q \in {p} \cap DOMAIN scored} = left

\* A tree that cannot be scored is one in which a file and a directory changed places, or one
\* that the worker left so that it cannot be read (runner.go:832-835, 951-957).
FailsOnlyOnSwap == pc = "failed" => Swapped \/ Unreadable # {}

\* A tree stays a tree through every change, or its scoring failed for a reason the worker gave.
TreesHold == TypeOK /\ FailsOnlyOnSwap

\* A change reaches its own path and no other (runner.go:954), unless base_sha has a link to a
\* directory where the worker has a directory of its own.
WritesStayPut ==
  [][Apply => \A p \in Path :
       ({scored[q] : q \in {p} \cap DOMAIN scored} # {scored'[q] : q \in {p} \cap DOMAIN scored'})
         => p = Head(todo).path \/ \E q \in DOMAIN base : base[q].kind = "link" /\ Under(Head(todo).path, q)]_vars

\* A worker that changed nothing is scored on base_sha (runner.go:822).
UntouchedScoresBase == pc = "check" /\ worker = base => scored = base

=============================================================================
