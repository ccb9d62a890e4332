---------------------------- MODULE MCCheckouts ----------------------------
(* Checkouts on trees with a directory, a link to it, a link to a file, and *)
(* a dependency directory; base_sha may track files in the last.            *)
EXTENDS Checkouts

A == <<"a">>
D == <<"d">>
DF == <<"d", "f">>
L == <<"l">>
DEP == <<"node_modules", "dep">>
S == <<"s">>
SF == <<"s", "f">>

MCWalkOrder == <<A, D, DF, L, DEP, S, SF>>
MCLinkTo == [p \in {L, S} |-> IF p = L THEN A ELSE D]

Plain == [p \in {A, DF} |-> File(1)]
Linked == [p \in {A, DF, L, S} |-> IF p \in {L, S} THEN Link(p) ELSE File(1)]
Vendored == [p \in {A, D, DEP} |-> File(1)]

VendoredOnly == {Vendored}
AllBases == {Plain, Linked, Vendored}

\* <root> is in one user's home and outside another's.
U == <<"u">>
Share == <<"u", "share">>
Work_ == <<"u", "share", "work">>
R1 == <<"u", "share", "work", "run">>
V == <<"v">>
Own == {U, Share, Work_, R1}
Full == Own \cup {<<"u", "records">>, <<"u", "share", "log">>, <<"u", "share", "work", "other">>,
                  <<"u", "share", "work", "run", "repo">>, V, <<"v", "keys">>}

MCHomes == {[user |-> U, has |-> Full, unreadable |-> u] : u \in {{}, {Work_}, {Share, Work_}}}
           \cup {[user |-> U, has |-> Own, unreadable |-> {}],
                 [user |-> V, has |-> Full, unreadable |-> {}],
                 [user |-> V, has |-> Full, unreadable |-> {Work_}]}

=============================================================================
