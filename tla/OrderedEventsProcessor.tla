----------------------- MODULE OrderedEventsProcessor -----------------------
(***************************************************************************)
(* td::OrderedEventsProcessor (tdutils/td/utils/OrderedEventsProcessor.h): *)
(* accepts events numbered by SeqNo in any order and hands them to a       *)
(* callback in the order of their numbers, without gaps.  Events that came *)
(* too early wait in data_array_, a vector whose cell i belongs to the     *)
(* number offset_ + i.  BinlogActor orders its log events with it, and     *)
(* FileLoader the downloaded parts of a file.                              *)
(*                                                                         *)
(* The module keeps the vector with its index arithmetic, because that is  *)
(* where the class can go wrong: offset_ moves under the waiting events.   *)
(***************************************************************************)
EXTENDS Integers, Sequences

CONSTANTS
  Data,         \* the events (DataT)
  NoData,       \* what DataT() leaves in a cell that was never filled
  FirstSeqNo,   \* the argument of the constructor
  LastSeqNo,    \* bound: the largest number used
  CompactMin    \* try_compactify leaves up to this many finished cells (5)

ASSUME SeqNoAssumption == FirstSeqNo \in Nat /\ LastSeqNo \in Nat
ASSUME DataAssumption == NoData \notin Data
ASSUME CompactMinAssumption == CompactMin \in Nat

VARIABLES
  offset,   \* offset_
  begin,    \* begin_: the number to run next
  end,      \* end_: one more than the largest number seen, or begin_
  size,     \* data_array_.size()
  flag,     \* flag[i] is data_array_[i].second
  data,     \* data[i] is data_array_[i].first
  base,     \* history: the number the object started from
  out,      \* history: the calls of the callback of add(), in order
  given,    \* history: the event add() got for a number
  released  \* history: the events the last clear() handed to its callback

array == <<offset, begin, end, size, flag, data>>
vector_vars == <<array, base, out, given, released>>

SeqNos == 0 .. LastSeqNo
Event == Data \cup {NoData}
Call == [seq_no : Nat, data : Event]
Cells == 0 .. size - 1

\* Mutant of DefaultSeqNo: the members start at 0.
DefaultSeqNo_Zero == 0

\* The number a default-constructed object starts from (offset_ = 1).
DefaultSeqNo == 1

VectorTypeOK ==
  /\ offset \in Nat /\ begin \in Nat /\ end \in Nat /\ size \in Nat
  /\ flag \in [Cells -> BOOLEAN]
  /\ data \in [Cells -> Event]
  /\ base \in {FirstSeqNo, DefaultSeqNo}
  /\ out \in Seq(Call)
  /\ given \in [SeqNos -> Event]

-----------------------------------------------------------------------------

\* A new object, constructed with first.
StartAt(first) ==
  /\ offset' = first /\ begin' = first /\ end' = first
  /\ size' = 0
  /\ flag' = << >>
  /\ data' = << >>
  /\ base' = first
  /\ out' = << >>
  /\ given' = [s \in SeqNos |-> NoData]

VectorInit ==
  /\ offset = FirstSeqNo /\ begin = FirstSeqNo /\ end = FirstSeqNo
  /\ size = 0
  /\ flag = << >>
  /\ data = << >>
  /\ base = FirstSeqNo
  /\ out = << >>
  /\ given = [s \in SeqNos |-> NoData]
  /\ released = << >>

\* Mutant of Stored: the loop stops one number before end_.
Stored_StopsEarly(s) == s + 1 < end /\ flag[s - offset]

\* Is the event with number s waiting in data_array_?
Stored(s) == s < end /\ flag[s - offset]

\* Mutant of Calls: the loop indexes the vector from its own start.
Calls_ForgetsOffset(d, b) ==
  [i \in 1 .. b - begin |->
     [seq_no |-> begin + i - 1, data |-> IF i = 1 THEN d ELSE data[i - 1]]]

\* The calls of the callback while begin_ moves from begin to b.
Calls(d, b) ==
  [i \in 1 .. b - begin |->
     [seq_no |-> begin + i - 1,
      data |-> IF i = 1 THEN d ELSE data[begin + i - 1 - offset]]]

\* The loop took cell i and reset its mark while begin_ moved to b.
WasRun(i, b) == i + offset \in begin + 1 .. b - 1

\* try_compactify: how many cells it erases at the front of the vector.
Drop(b, o) ==
  IF b - o > CompactMin /\ (b - o) * 2 > size THEN b - o ELSE 0

\* The end of add(): begin_, end_ and offset_ after the run, try_compactify.
Advance(b) ==
  LET e == IF b > end THEN b ELSE end
      o == IF b = e THEN b ELSE offset
      drop == Drop(b, o)
  IN /\ begin' = b
     /\ end' = e
     /\ offset' = o + drop
     /\ size' = size - drop
     /\ flag' = [i \in 0 .. size - drop - 1 |->
                   flag[i + drop] /\ ~ WasRun(i + drop, b)]
     /\ data' = [i \in 0 .. size - drop - 1 |-> data[i + drop]]

\* add() of the number it waits for: "run now".  b is begin_ after the loop
\* over the stored events.
RunNow(d) ==
  \E b \in begin + 1 .. (IF end > begin THEN end ELSE begin + 1) :
    /\ ~ Stored(b)
    /\ \A s \in begin + 1 .. b - 1 : Stored(s)
    /\ out' = out \o Calls(d, b)
    /\ Advance(b)

\* add() of a later number: the event waits in the cell of its number.
Keep(seq_no, d) ==
  LET pos == seq_no - offset
      need == IF size < pos + 1 THEN pos + 1 ELSE size
  IN /\ size' = need
     /\ flag' = [i \in 0 .. need - 1 |-> i = pos \/ (i < size /\ flag[i])]
     /\ data' = [i \in 0 .. need - 1 |->
                   IF i = pos THEN d ELSE IF i < size THEN data[i] ELSE NoData]
     /\ end' = IF end < seq_no + 1 THEN seq_no + 1 ELSE end
     /\ UNCHANGED <<offset, begin, out>>

Add(seq_no, d) ==
  /\ seq_no >= begin      \* LOG_CHECK
  /\ given' = [given EXCEPT ![seq_no] = d]
  /\ \/ seq_no = begin /\ RunNow(d)
     \/ seq_no # begin /\ Keep(seq_no, d)
  /\ released' = << >>
  /\ UNCHANGED base

\* The numbers of the marked cells.
Marked == {i + offset : i \in {j \in Cells : flag[j]}}

\* Mutant of Clear: clear() without a callback where clear(function) is meant.
Clear_Forgets == released' = << >> /\ StartAt(DefaultSeqNo)

\* clear(function): every event still in the vector goes to the callback, and
\* the object becomes a default-constructed one.
Clear ==
  /\ released' = [s \in Marked |-> data[s - offset]]
  /\ StartAt(DefaultSeqNo)

\* The users number every event once: BinlogActor takes the numbers from an
\* atomic counter, FileLoader from the parts of a file.
VectorNext ==
  \/ \E s \in SeqNos, d \in Data : given[s] = NoData /\ Add(s, d)
  \/ Clear

VectorSpec == VectorInit /\ [][VectorNext]_vector_vars

-----------------------------------------------------------------------------

\* The callback of add() sees the numbers base, base + 1, ... each once, each
\* with the event that add() got for that number, whatever the order of the
\* add() calls was.
InOrder ==
  \A i \in 1 .. Len(out) :
    /\ base + i - 1 \in SeqNos
    /\ out[i] = [seq_no |-> base + i - 1, data |-> given[base + i - 1]]
    /\ out[i].data # NoData

\* An event is held back only while an earlier number is missing: everything
\* before begin_ was run, and the number begin_ itself was not given yet.
NothingHeldBack ==
  /\ begin = base + Len(out)
  /\ begin \in SeqNos => given[begin] = NoData

\* The cells of the numbers between begin_ and end_ exist (the accesses of
\* the loop in add() are inside the vector), and a cell is marked exactly
\* when its number was given and not run; cells outside carry no mark that a
\* later number could inherit.
MarksAreWaiting ==
  /\ offset <= begin /\ begin <= end
  /\ begin < end => end - offset <= size
  /\ \A i \in Cells : flag[i] =>
       /\ i + offset \in begin + 1 .. end - 1
       /\ i + offset \in SeqNos
       /\ data[i] = given[i + offset]
       /\ data[i] # NoData
  /\ \A s \in SeqNos : s >= begin /\ given[s] # NoData =>
       s < end /\ s - offset < size /\ flag[s - offset]

\* clear() passes to its callback exactly the events that were added and not
\* run: FileLoader relies on it to give up the network queries of those parts.
ClearReleasesWaiting ==
  [][Clear =>
       released' = [s \in {n \in SeqNos : n >= begin /\ given[n] # NoData} |->
                      given[s]]]_vector_vars

\* The class is an implementation of in-order delivery: with the marked cells
\* as the waiting numbers, every add() and clear() is a step of
\* OrderedDelivery.
Delivery == INSTANCE OrderedDelivery
              WITH First <- FirstSeqNo, Limit <- LastSeqNo,
                   next <- begin, waiting <- Marked
ImplementsDelivery == Delivery!Spec

\* The vector, its offset and its marks agree with what was added and delivered:
\* nothing that could be delivered is kept, and no mark is left over.
VectorAgrees == VectorTypeOK /\ NothingHeldBack /\ MarksAreWaiting
=============================================================================
