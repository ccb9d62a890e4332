------------------------------ MODULE EventLog -----------------------------
(***************************************************************************)
(* What the log package promises the rest of the program: one sequence of  *)
(* events numbered from 1 without a gap, appended to by one process at a   *)
(* time, of which a growing prefix is durable.  Nothing on it is edited;   *)
(* only a loss of power may take back events that were not yet durable.    *)
(* HomeLog.tla implements it, with files, locks, repairs and crashes.      *)
(***************************************************************************)
EXTENDS Naturals, Sequences

CONSTANTS
  Proc,     \* processes
  NoProc    \* nobody

VARIABLES
  events,   \* the log; an event is a record with a field seq
  durable,  \* how many of its events survive anything
  owner     \* the process that may append

vars == <<events, durable, owner>>

Init == events = << >> /\ durable = 0 /\ owner = NoProc

\* A process becomes the writer only when there is none.
Acquire ==
  /\ owner = NoProc
  /\ owner' \in Proc
  /\ UNCHANGED <<events, durable>>

\* The writer appends the next event; it may be durable by then, and the writer gone.
Emit ==
  /\ owner # NoProc
  /\ Len(events') = Len(events) + 1
  /\ events' = Append(events, events'[Len(events')])
  /\ events'[Len(events')].seq = Len(events')
  /\ durable' \in {durable, Len(events')}
  /\ owner' \in {owner, NoProc}

\* The writer makes all of the log durable.
Settle ==
  /\ owner # NoProc
  /\ durable' = Len(events)
  /\ UNCHANGED <<events, owner>>

Release ==
  /\ owner' = NoProc
  /\ UNCHANGED <<events, durable>>

\* Power is lost: what was not durable may be gone, from the end.
Lose ==
  /\ \E n \in durable..Len(events) : events' = SubSeq(events, 1, n)
  /\ owner' = NoProc
  /\ UNCHANGED durable

Next == Acquire \/ Emit \/ Settle \/ Release \/ Lose

Spec == Init /\ [][Next]_vars

=============================================================================
