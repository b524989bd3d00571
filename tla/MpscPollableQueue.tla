-------------------------- MODULE MpscPollableQueue --------------------------
(***************************************************************************)
(* td::MpscPollableQueue (tdutils/td/utils/MpscPollableQueue.h), the queue *)
(* through which schedulers send each other events and instances of Td     *)
(* hand their answers to the application, with the reader of ClientManager *)
(* (TdReceiver::receive in td/telegram/Client.cpp).                        *)
(*                                                                         *)
(* Each critical section of the spin lock is one step.  A writer that saw  *)
(* wait_event_fd_ writes to the event descriptor after it has released the *)
(* lock, so other writers and the reader run in between; the reader clears *)
(* the descriptor, looks a second time, and only then sleeps in poll().    *)
(***************************************************************************)
EXTENDS Integers, Sequences

CONSTANTS
  Writers,   \* the threads that call writer_put
  MaxPuts    \* bound: calls of writer_put of one thread

ASSUME MaxPutsAssumption == MaxPuts \in Nat

VARIABLES
  writer_vector_,
  reader_vector_,
  reader_pos_,
  wait_event_fd_,
  event_fd,    \* event_fd_: its counter is not zero, poll() returns at once
  releasing,   \* the writers between guard.reset() and event_fd_.release()
  at,          \* where the reader is: see Places
  timeout,     \* the reader's call may still wait (timeout != 0)
  ready_cnt,   \* output_queue_ready_cnt_
  puts,        \* how many values each writer has put
  sent,        \* history: the values in the order of writer_put
  got          \* history: the values receive() returned

queue == <<writer_vector_, reader_vector_, reader_pos_, wait_event_fd_, event_fd>>
reader == <<at, timeout, ready_cnt>>
queue_vars == <<queue, releasing, reader, puts, sent, got>>

\* Outside of receive(), in the first or the second pass of the loop in
\* reader_wait_nonblock(), about to take a value, in event_fd_.wait().
Places == {"out", "first", "second", "take", "sleep"}

Value == [from : Writers, no : 1 .. MaxPuts]

\* What the reader has swapped in and not taken.
Unread == SubSeq(reader_vector_, reader_pos_ + 1, Len(reader_vector_))
Ready == Len(reader_vector_) - reader_pos_

QueueTypeOK ==
  /\ writer_vector_ \in Seq(Value)
  /\ reader_vector_ \in Seq(Value)
  /\ reader_pos_ \in 0 .. Len(reader_vector_)
  /\ wait_event_fd_ \in BOOLEAN
  /\ event_fd \in BOOLEAN
  /\ releasing \subseteq Writers
  /\ at \in Places
  /\ timeout \in BOOLEAN
  /\ ready_cnt \in Nat
  /\ puts \in [Writers -> 0 .. MaxPuts]
  /\ sent \in Seq(Value)
  /\ got \in Seq(Value)

QueueInit ==
  /\ writer_vector_ = <<>> /\ reader_vector_ = <<>> /\ reader_pos_ = 0
  /\ wait_event_fd_ = FALSE
  /\ event_fd = FALSE
  /\ releasing = {}
  /\ at = "out" /\ timeout = FALSE /\ ready_cnt = 0
  /\ puts = [w \in Writers |-> 0]
  /\ sent = <<>> /\ got = <<>>

-----------------------------------------------------------------------------
\* Writers

\* writer_put(): the critical section.
WriterPut(w) ==
  /\ w \notin releasing
  /\ puts[w] < MaxPuts
  /\ puts' = [puts EXCEPT ![w] = @ + 1]
  /\ LET v == [from |-> w, no |-> puts[w] + 1]
     IN  /\ writer_vector_' = Append(writer_vector_, v)
         /\ sent' = Append(sent, v)
  /\ releasing' = IF wait_event_fd_ THEN releasing \cup {w} ELSE releasing
  /\ wait_event_fd_' = FALSE
  /\ UNCHANGED <<reader_vector_, reader_pos_, event_fd, reader, got>>

\* event_fd_.release(), without the lock.
Release(w) ==
  /\ w \in releasing
  /\ releasing' = releasing \ {w}
  /\ event_fd' = TRUE
  /\ UNCHANGED <<writer_vector_, reader_vector_, reader_pos_, wait_event_fd_, reader, puts, sent, got>>

-----------------------------------------------------------------------------
\* The reader

\* receive() is called; a value that is ready is taken without the lock.
CallReceive(wait) ==
  /\ at = "out"
  /\ timeout' = wait
  /\ at' = IF ready_cnt = 0 THEN "first" ELSE "take"
  /\ UNCHANGED <<queue, releasing, ready_cnt, puts, sent, got>>

\* Mutant of Swap: reader_vector_ is not cleared before the swap.
Swap_NotCleared ==
  /\ reader_vector_' = writer_vector_
  /\ writer_vector_' = reader_vector_
  /\ reader_pos_' = 0

\* The values written so far become the ones to read.
Swap ==
  /\ reader_vector_' = writer_vector_
  /\ writer_vector_' = <<>>
  /\ reader_pos_' = 0

\* A pass of reader_wait_nonblock() that finds values.
FindValues ==
  /\ writer_vector_ # <<>>
  /\ Swap
  /\ ready_cnt' = Len(writer_vector_)
  /\ at' = "take"
  /\ UNCHANGED <<wait_event_fd_, event_fd, releasing, timeout, puts, sent, got>>

\* The first pass finds nothing: acquire() clears the descriptor, still
\* under the lock.
FirstFindsNothing ==
  /\ at = "first"
  /\ writer_vector_ = <<>>
  /\ event_fd' = FALSE
  /\ at' = "second"
  /\ UNCHANGED <<writer_vector_, reader_vector_, reader_pos_, wait_event_fd_, releasing, timeout,
                 ready_cnt, puts, sent, got>>

\* Mutant of SecondFindsNothing: the writers are not told to wake the reader.
SecondFindsNothing_NoFlag ==
  /\ at = "second"
  /\ writer_vector_ = <<>>
  /\ at' = IF timeout THEN "sleep" ELSE "out"
  /\ UNCHANGED <<queue, releasing, timeout, ready_cnt, puts, sent, got>>

\* Mutant of SecondFindsNothing: the reader sleeps without a second look.
SecondFindsNothing_Unchecked ==
  /\ at = "second"
  /\ wait_event_fd_' = TRUE
  /\ at' = IF timeout THEN "sleep" ELSE "out"
  /\ UNCHANGED <<writer_vector_, reader_vector_, reader_pos_, event_fd, releasing, timeout,
                 ready_cnt, puts, sent, got>>

\* The second pass finds nothing either: from now on writers write to the
\* descriptor.  receive() waits, or returns nothing.
SecondFindsNothing ==
  /\ at = "second"
  /\ writer_vector_ = <<>>
  /\ wait_event_fd_' = TRUE
  /\ at' = IF timeout THEN "sleep" ELSE "out"
  /\ UNCHANGED <<writer_vector_, reader_vector_, reader_pos_, event_fd, releasing, timeout,
                 ready_cnt, puts, sent, got>>

\* event_fd_.wait() returns; receive_unlocked(0) looks once more.
Resume ==
  /\ at = "sleep"
  /\ at' = "first"
  /\ timeout' = FALSE
  /\ UNCHANGED <<queue, releasing, ready_cnt, puts, sent, got>>

WakeUp == event_fd /\ Resume

TimeoutExpired == ~event_fd /\ Resume

\* reader_get_unsafe(): receive() returns a value.
Take ==
  /\ at = "take"
  /\ got' = Append(got, reader_vector_[reader_pos_ + 1])
  /\ reader_pos_' = reader_pos_ + 1
  /\ ready_cnt' = ready_cnt - 1
  /\ at' = "out"
  /\ UNCHANGED <<writer_vector_, reader_vector_, wait_event_fd_, event_fd, releasing, timeout, puts, sent>>

ReaderStep ==
  \/ at \in {"first", "second"} /\ FindValues
  \/ FirstFindsNothing
  \/ SecondFindsNothing
  \/ WakeUp
  \/ Take

QueueNext ==
  \/ \E w \in Writers : WriterPut(w) \/ Release(w)
  \/ \E wait \in BOOLEAN : CallReceive(wait)
  \/ ReaderStep
  \/ TimeoutExpired

\* A thread goes on with what it is doing, and the application calls
\* receive() again.  That a timeout expires is not assumed.
Fairness ==
  /\ \A w \in Writers : WF_queue_vars(Release(w))
  /\ WF_queue_vars(\E wait \in BOOLEAN : CallReceive(wait))
  /\ WF_queue_vars(ReaderStep)

QueueSpec == QueueInit /\ [][QueueNext]_queue_vars /\ Fairness

-----------------------------------------------------------------------------
\* Properties

\* Values come out in the order in which they went in, none twice and none
\* lost: swapping the vectors and moving reader_pos_ keep them.
NothingLost == sent = got \o Unread \o writer_vector_

\* reader_get_unsafe() is only called for a value that is there, and the
\* count the application keeps is the one of the queue; so the early return
\* of reader_wait_nonblock(), which would count values twice, is not taken.
CountMatches ==
  /\ ready_cnt = Ready
  /\ at = "take" => ready_cnt > 0
  /\ at \in {"first", "second", "sleep"} => ready_cnt = 0

\* No lost wakeup: a reader that sleeps with values in the queue is about to
\* be woken, by the descriptor or by a writer that will write to it.
NoLostWakeup == at = "sleep" /\ writer_vector_ # <<>> => event_fd \/ releasing # {}

\* While the flag is up the queue is empty, and a sleeping reader has the flag
\* up or is about to be woken: what makes NoLostWakeup inductive.
WakeupArmed ==
  /\ wait_event_fd_ => writer_vector_ = <<>>
  /\ at = "sleep" => wait_event_fd_ \/ event_fd \/ releasing # {}

\* Every value is received, although no timeout ever needs to expire.
AllReceived ==
  \A w \in Writers, n \in 1 .. MaxPuts :
    puts[w] >= n ~> \E i \in DOMAIN got : got[i] = [from |-> w, no |-> n]
=============================================================================
