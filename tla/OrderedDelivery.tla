--------------------------- MODULE OrderedDelivery ---------------------------
(***************************************************************************)
(* What OrderedEventsProcessor promises, without its vector: numbers come  *)
(* in any order, each once, and are handed on in order, as soon as no      *)
(* earlier number is missing.  OrderedEventsProcessor implements this      *)
(* specification (ConcurrentBinlogProofs), and ConcurrentBinlog uses       *)
(* its processor_ through the action Add of this module.                   *)
(***************************************************************************)
EXTENDS Integers

CONSTANTS
  First,    \* the number the first object starts from
  Limit     \* bound: no number above it is used

VARIABLES
  next,     \* begin_: every number before it was handed on
  waiting   \* the numbers that came and were not handed on

Init == next = First /\ waiting = {}

\* add(n): n joins the waiting numbers, and the numbers up to the first
\* missing one, next', are handed on.
Add(n) ==
  /\ n >= next
  /\ n \notin waiting
  /\ \E b \in next .. Limit + 1 :
       /\ \A m \in next .. b - 1 : m \in waiting \cup {n}
       /\ b \notin waiting \cup {n}
       /\ next' = b
       /\ waiting' = {m \in waiting \cup {n} : m >= b}

\* clear(): a new object, default-constructed.
Clear == next' = 1 /\ waiting' = {}

Next == (\E n \in 0 .. Limit : Add(n)) \/ Clear

Spec == Init /\ [][Next]_<<next, waiting>>
=============================================================================
