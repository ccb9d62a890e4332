----------------------------- MODULE MCLogScan -----------------------------
(* LogScan over every log of at most MaxLines lines drawn from a set that   *)
(* holds each kind of line the loop tells apart.                            *)
EXTENDS LogScan

CONSTANTS
  MaxLines,   \* lines of the longest log
  MaxSeq      \* the largest seq a line carries

Plain(s, new, chk, nam) ==
  [usable |-> TRUE, seq |-> s, newer |-> new, check |-> chk, names |-> nam]

MCLines ==
  {[usable |-> FALSE, seq |-> 0, newer |-> FALSE, check |-> "bad", names |-> 0]}
    \cup {Plain(s, FALSE, chk, 0) : s \in 1..MaxSeq, chk \in {"ok", "unknown", "bad"}}
    \cup {Plain(s, FALSE, "ok", n) : s \in 1..MaxSeq, n \in 1..2}
    \cup {Plain(s, TRUE, "bad", 0) : s \in 1..2}

MCLogs == UNION {[1..n -> MCLines] : n \in 0..MaxLines}

=============================================================================
