----------------------------- MODULE DurableLog -----------------------------
(***************************************************************************)
(* What a Binlog promises its user: a log of operations on numbered events *)
(* of which a crash takes away an end, never the part that was synced, and *)
(* whose replay at the next start gives the events left by the rest.       *)
(***************************************************************************)
EXTENDS Integers, Sequences

CONSTANTS
  Ops,      \* operations [id, value]: give the event id that value
  Empty,    \* the value that erases the event
  Down      \* what the user sees while the log is not open

VARIABLES
  log,      \* the operations
  durable,  \* how many of them survive every crash
  view      \* the events the user sees: a function from ids to values

\* The last operation on the event i decides.
LastOp(s, i) == CHOOSE n \in DOMAIN s :
  s[n].id = i /\ \A m \in n + 1 .. Len(s) : s[m].id # i

\* The events left by a sequence of operations.
Replay(s) ==
  LET live == {i \in {s[n].id : n \in DOMAIN s} : s[LastOp(s, i)].value # Empty}
  IN  [i \in live |-> s[LastOp(s, i)].value]

Init == log = << >> /\ durable = 0 /\ view = Down

\* init(): the log is a beginning of what it was, with all that was synced.
Open ==
  /\ view = Down
  /\ \E k \in durable .. Len(log) :
       log' = SubSeq(log, 1, k) /\ view' = Replay(log')
  /\ UNCHANGED durable

Add(o) ==
  /\ view # Down
  /\ log' = Append(log, o)
  /\ view' = Replay(log')
  /\ UNCHANGED durable

\* sync(), a reindex, close(): what was logged is safe.
Sync ==
  /\ durable' = Len(log)
  /\ view' \in {view, Down}
  /\ UNCHANGED log

\* The end of the process, or of the power.
Crash == view' = Down /\ UNCHANGED <<log, durable>>

\* close_and_destroy()
Destroy == log' = << >> /\ durable' = 0 /\ view' = Down

Next == Open \/ (\E o \in Ops : Add(o)) \/ Sync \/ Crash \/ Destroy

Spec == Init /\ [][Next]_<<log, durable, view>>
=============================================================================
