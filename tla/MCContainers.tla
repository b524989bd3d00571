---------------------------- MODULE MCContainers ----------------------------
(***************************************************************************)
(* The two containers of tdutils for TLC: OrderedEventsProcessor with two  *)
(* events and the numbers 1 .. 7, and compaction of more than one finished *)
(* cell instead of five, so that the vector is compacted under waiting     *)
(* events within the bound; MpscPollableQueue with three writers.  They    *)
(* share nothing, so a behaviour uses one and leaves the other unused.     *)
(***************************************************************************)
EXTENDS OrderedEventsProcessor, MpscPollableQueue

VARIABLE used   \* the container that the behaviour is about

vars == <<used, vector_vars, queue_vars>>

OnlyVector == used = "processor" /\ UNCHANGED <<used, queue_vars>>
OnlyQueue == used = "queue" /\ UNCHANGED <<used, vector_vars>>

Init == used \in {"processor", "queue"} /\ VectorInit /\ QueueInit

Next ==
  \/ OnlyVector /\ VectorNext
  \/ OnlyQueue /\ QueueNext

\* The fairness of QueueSpec.
Spec ==
  /\ Init /\ [][Next]_vars
  /\ \A w \in Writers : WF_vars(OnlyQueue /\ Release(w))
  /\ WF_vars(OnlyQueue /\ \E wait \in BOOLEAN : CallReceive(wait))
  /\ WF_vars(OnlyQueue /\ ReaderStep)
=============================================================================
