----------------------- MODULE ConcurrentBinlogProofs -----------------------
(***************************************************************************)
(* Proofs about ConcurrentBinlog: type correctness and the safety          *)
(* properties, for any number of threads, numbers and calls.  Then         *)
(* OrderedEventsProcessor, the vector behind processor_, which implements  *)
(* the delivery that ConcurrentBinlog uses.                                *)
(***************************************************************************)
EXTENDS ConcurrentBinlog, OrderedEventsProcessor, SequenceTheorems, TLAPS

-----------------------------------------------------------------------------
(* The inductive invariant.                                                *)

\* Messages under way carry the right kind of id.
MessagesOK ==
  \A t \in Threads : \A i \in 1 .. Len(inbox[t]) :
    /\ inbox[t][i].op = "add_raw_event" =>
         inbox[t][i].id \in Ids /\ inbox[t][i].id < last_id_
    /\ inbox[t][i].op = "force_sync" =>
         inbox[t][i].id \in ForceKeys /\ inbox[t][i].id >= -forced

\* A number that a thread holds is nowhere else: nobody else holds it, it is
\* in no message, and the processor has not seen it.
HeldFresh ==
  \A t \in Threads : \A n \in held[t] :
    /\ n < last_id_ /\ n >= next /\ n \notin waiting
    /\ \A u \in Threads :
         /\ u # t => n \notin held[u]
         /\ \A i \in 1 .. Len(inbox[u]) :
              inbox[u][i].op = "add_raw_event" => inbox[u][i].id # n

\* The processor has seen only numbers that were taken.
SeenTaken ==
  /\ next <= last_id_
  /\ \A n \in waiting : n < last_id_

\* Promises that wait for a sync or were answered cover delivered numbers
\* only; a force_sync that waits for a number covers nothing beyond it.
CoverDelivered ==
  /\ \A n \in Ids : \A m \in cover[n] : m <= n
  /\ \A k \in sync_promises_ \cup answered :
       /\ k \in Ids => k < next
       /\ k \in ForceKeys => k >= -forced
       /\ \A m \in cover[k] : m < next
  /\ \A e \in immediate_sync_promises_ :
       /\ e.promise >= -forced
       /\ \A m \in cover[e.promise] : m < next \/ m <= e.seq_no

\* A force_sync under way covers numbers that the processor has, and numbers
\* in messages of its thread before it.
CoverSent ==
  state = "open" =>
    \A t \in Threads : \A i \in 1 .. Len(inbox[t]) :
      inbox[t][i].op = "force_sync" =>
        \A m \in cover[inbox[t][i].id] :
          \/ m < next
          \/ m \in waiting
          \/ \E j \in 1 .. i - 1 :
               inbox[t][j].op = "add_raw_event" /\ inbox[t][j].id = m

\* What the processor handed on is in the log, in its order.
LogOK ==
  state = "open" =>
    /\ \A m \in Ids : m < next /\ event[m].payload =>
         m \in binlog.buffer \cup binlog.cache \cup binlog.disk
    /\ \A m \in binlog.buffer \cup binlog.cache \cup binlog.disk : m < next
    /\ \A m \in binlog.cache, n \in binlog.buffer : m < n

\* A flag is set only with the timer.
FlagsOK ==
  lazy_sync_flag_ \/ force_sync_flag_ \/ flush_flag_ => timer

IInv ==
  /\ TypeOK /\ MessagesOK /\ HeldFresh /\ SeenTaken
  /\ CoverDelivered /\ CoverSent /\ LogOK /\ FlagsOK
  /\ WaitsAreServed
  /\ SyncDurable /\ PrefixDurable /\ CloseKeepsDelivered

-----------------------------------------------------------------------------
(* The mailboxes.                                                          *)

\* The mailboxes after the first message of t was taken out.
LEMMA TailFacts ==
  ASSUME TypeOK, NEW t \in Threads, inbox[t] # << >>,
         inbox' = [inbox EXCEPT ![t] = Tail(@)]
  PROVE  /\ inbox' \in [Threads -> Seq(Message)]
         /\ Len(inbox[t]) \in Nat /\ Len(inbox[t]) >= 1
         /\ Head(inbox[t]) = inbox[t][1] /\ inbox[t][1] \in Message
         /\ \A u \in Threads : u # t => inbox'[u] = inbox[u]
         /\ Len(inbox'[t]) = Len(inbox[t]) - 1
         /\ \A i \in 1 .. Len(inbox[t]) - 1 : inbox'[t][i] = inbox[t][i + 1]
<1>1. inbox \in [Threads -> Seq(Message)]
  BY DEF TypeOK
<1>2. inbox[t] \in Seq(Message)
  BY <1>1
<1>3. /\ Head(inbox[t]) \in Message
      /\ Tail(inbox[t]) \in Seq(Message)
      /\ Len(Tail(inbox[t])) = Len(inbox[t]) - 1
      /\ \A i \in 1 .. Len(Tail(inbox[t])) : Tail(inbox[t])[i] = inbox[t][i + 1]
  BY <1>2, HeadTailProperties
<1>4. Len(inbox[t]) \in Nat /\ Len(inbox[t]) >= 1 /\ Head(inbox[t]) = inbox[t][1]
  BY <1>2
<1>5. /\ inbox'[t] = Tail(inbox[t])
      /\ \A u \in Threads : u # t => inbox'[u] = inbox[u]
      /\ inbox' \in [Threads -> Seq(Message)]
  BY <1>1, <1>3
<1> QED
  BY <1>3, <1>4, <1>5

\* Every message that is left was there before.
LEMMA TailKeepsOldMessages ==
  ASSUME TypeOK, NEW t \in Threads, inbox[t] # << >>,
         inbox' = [inbox EXCEPT ![t] = Tail(@)]
  PROVE  \A u \in Threads : \A i \in 1 .. Len(inbox'[u]) :
           \E j \in 1 .. Len(inbox[u]) : inbox'[u][i] = inbox[u][j]
<1>0. /\ Len(inbox[t]) \in Nat /\ Len(inbox[t]) >= 1
      /\ \A u \in Threads : u # t => inbox'[u] = inbox[u]
      /\ Len(inbox'[t]) = Len(inbox[t]) - 1
      /\ \A i \in 1 .. Len(inbox[t]) - 1 : inbox'[t][i] = inbox[t][i + 1]
  BY TailFacts
<1> TAKE u \in Threads
<1>1. CASE u # t
  BY <1>0, <1>1
<1>2. CASE u = t
  <2>1. \A i \in 1 .. Len(inbox[t]) - 1 : i + 1 \in 1 .. Len(inbox[t])
    BY <1>0
  <2> QED
    BY <1>0, <1>2, <2>1
<1> QED
  BY <1>1, <1>2

\* The mailboxes after t sent a message.
LEMMA SendFacts ==
  ASSUME TypeOK, NEW t \in Threads, NEW op \in Ops, NEW id \in Keys \cup {0},
         Send(t, op, id)
  PROVE  /\ inbox' \in [Threads -> Seq(Message)]
         /\ Len(inbox[t]) \in Nat
         /\ \A u \in Threads : u # t => inbox'[u] = inbox[u]
         /\ Len(inbox'[t]) = Len(inbox[t]) + 1
         /\ \A i \in 1 .. Len(inbox[t]) : inbox'[t][i] = inbox[t][i]
         /\ inbox'[t][Len(inbox[t]) + 1] = [op |-> op, id |-> id]
<1> DEFINE msg == [op |-> op, id |-> id]
<1>1. inbox \in [Threads -> Seq(Message)]
  BY DEF TypeOK
<1>2. inbox[t] \in Seq(Message) /\ msg \in Message
  BY <1>1 DEF Message
<1>3. inbox' = [inbox EXCEPT ![t] = Append(@, msg)]
  BY DEF Send
<1> HIDE DEF msg
<1>4. /\ Append(inbox[t], msg) \in Seq(Message)
      /\ Len(Append(inbox[t], msg)) = Len(inbox[t]) + 1
      /\ \A i \in 1 .. Len(inbox[t]) : Append(inbox[t], msg)[i] = inbox[t][i]
      /\ Append(inbox[t], msg)[Len(inbox[t]) + 1] = msg
  BY <1>2, AppendProperties
<1>5. Len(inbox[t]) \in Nat
  BY <1>2
<1>6. /\ inbox'[t] = Append(inbox[t], msg)
      /\ \A u \in Threads : u # t => inbox'[u] = inbox[u]
      /\ inbox' \in [Threads -> Seq(Message)]
  BY <1>1, <1>3, <1>4
<1> QED
  BY <1>4, <1>5, <1>6 DEF msg

-----------------------------------------------------------------------------
(* The log.                                                                *)

\* After Binlog::flush the buffer is empty and need_sync_ tells of its content.
LEMMA FlushFacts ==
  ASSUME NEW b \in Binlogs
  PROVE  /\ Flush(b) \in Binlogs
         /\ Flush(b).buffer = {}
         /\ Flush(b).cache = b.cache \cup b.buffer
         /\ Flush(b).disk = b.disk
         /\ Flush(b).need_sync = (b.need_sync \/ b.buffer # {})
BY DEF Flush, Binlogs

\* After Binlog::sync everything is on disk, if need_sync_ was right before.
LEMMA SyncFacts ==
  ASSUME NEW b \in Binlogs, b.cache # {} => b.need_sync
  PROVE  /\ Sync(b) \in Binlogs
         /\ Sync(b).buffer = {} /\ Sync(b).cache = {}
         /\ Sync(b).disk = b.disk \cup b.cache \cup b.buffer
<1> DEFINE f == Flush(b)
<1>1. /\ f \in Binlogs /\ f.buffer = {}
      /\ f.cache = b.cache \cup b.buffer /\ f.disk = b.disk
      /\ f.need_sync = (b.need_sync \/ b.buffer # {})
  BY FlushFacts
<1>2. Sync(b) = IF f.need_sync
                  THEN [f EXCEPT !.disk = @ \cup f.cache, !.cache = {}, !.need_sync = FALSE]
                  ELSE f
  BY DEF Sync
<1> HIDE DEF f
<1>3. CASE f.need_sync
  BY <1>1, <1>2, <1>3 DEF Binlogs
<1>4. CASE ~ f.need_sync
  BY <1>1, <1>2, <1>4
<1> QED
  BY <1>3, <1>4

\* After Binlog::do_reindex everything is on disk.
LEMMA ReindexFacts ==
  ASSUME NEW b \in Binlogs
  PROVE  /\ Reindex(b) \in Binlogs
         /\ Reindex(b).buffer = {} /\ Reindex(b).cache = {}
         /\ Reindex(b).disk = b.disk \cup b.cache \cup b.buffer
BY DEF Reindex, Binlogs

\* Appending loses nothing, and what is on disk and in the page cache stays
\* before what is in the buffer.
LEMMA AppendedFacts ==
  ASSUME NEW b \in Binlogs, NEW n \in Nat, NEW new \in SUBSET Ids,
         NEW r \in new \cup {0}, NEW f \in new \cup {0},
         \A m \in b.buffer \cup b.cache \cup b.disk : m < n,
         \A m \in new : m >= n,
         \A m \in b.cache, k \in b.buffer : m < k,
         b.cache # {} => b.need_sync
  PROVE  LET a == Appended(b, new, r, f)
         IN  /\ a \in Binlogs
             /\ a.buffer \cup a.cache \cup a.disk
                  = b.buffer \cup b.cache \cup b.disk \cup new
             /\ a.disk = b.disk \cup {m \in b.cache \cup b.buffer \cup new : m <= r}
             /\ \A m \in a.cache, k \in a.buffer : m < k
             /\ a.cache # {} => a.need_sync
<1> DEFINE all == b.buffer \cup new
           disk == b.disk \cup {m \in b.cache \cup all : m <= r}
           cache == (b.cache \cup {m \in all : m <= f}) \ disk
           a == Appended(b, new, r, f)
<1>0. /\ b.buffer \in SUBSET Ids /\ b.cache \in SUBSET Ids /\ b.disk \in SUBSET Ids
      /\ b.need_sync \in BOOLEAN /\ b.aged \in BOOLEAN
  BY DEF Binlogs
<1>i. Ids \subseteq Nat \ {0}
  BY IdAssumption DEF Ids
<1>f. r \in Nat /\ f \in Nat
  BY <1>i
<1>1. /\ a.buffer = all \ (cache \cup disk) /\ a.cache = cache /\ a.disk = disk
      /\ a.need_sync = (f > r \/ (r = 0 /\ b.need_sync))
  BY DEF Appended
<1>2. a \in Binlogs
  <2>1. /\ all \ (cache \cup disk) \in SUBSET Ids /\ cache \in SUBSET Ids /\ disk \in SUBSET Ids
    BY <1>0
  <2>2. (f > r \/ (r = 0 /\ b.need_sync)) \in BOOLEAN /\ (b.aged /\ r = 0 /\ f = 0) \in BOOLEAN
    BY <1>0
  <2>3. a = [buffer |-> all \ (cache \cup disk), cache |-> cache, disk |-> disk,
             need_sync |-> f > r \/ (r = 0 /\ b.need_sync),
             aged |-> b.aged /\ r = 0 /\ f = 0]
    BY DEF Appended
  <2> HIDE DEF all, disk, cache, a
  <2> QED
    BY <2>1, <2>2, <2>3 DEF Binlogs
<1>3. a.buffer \cup a.cache \cup a.disk = b.buffer \cup b.cache \cup b.disk \cup new
  BY <1>1
<1>4. a.disk = b.disk \cup {m \in b.cache \cup b.buffer \cup new : m <= r}
  BY <1>1
<1>5. \A m \in a.cache, k \in a.buffer : m < k
  <2> SUFFICES ASSUME NEW m \in cache, NEW k \in all \ (cache \cup disk)
               PROVE  m < k
    BY <1>1
  <2>0. m \in Nat /\ k \in Nat /\ f \in Nat
    <3>1. m \in Ids /\ k \in Ids
      BY <1>0
    <3> HIDE DEF all, disk, cache
    <3> QED
      BY <1>i, <1>f, <3>1
  <2>1. k > f
    BY <2>0
  <2>2. CASE m \in b.cache
    BY <2>0, <2>2
  <2>3. CASE m \in all /\ m <= f
    BY <2>0, <2>1, <2>3
  <2> QED
    BY <2>2, <2>3
<1>6. a.cache # {} => a.need_sync
  <2> SUFFICES ASSUME NEW m \in cache
               PROVE  f > r \/ (r = 0 /\ b.need_sync)
    BY <1>1
  <2>0. m \in Nat /\ r \in Nat /\ f \in Nat
    <3>1. m \in Ids
      BY <1>0
    <3> HIDE DEF all, disk, cache
    <3> QED
      BY <1>i, <1>f, <3>1
  <2>1. m > r
    BY <2>0
  <2>2. CASE m \in all /\ m <= f
    BY <2>0, <2>1, <2>2
  <2>3. CASE m \in b.cache
    <3>1. m < n
      BY <2>3
    <3>2. r = 0
      BY <2>0, <2>1, <3>1
    <3> QED
      BY <2>3, <3>2
  <2> QED
    BY <2>2, <2>3
<1> HIDE DEF a
<1> QED
  BY <1>2, <1>3, <1>4, <1>5, <1>6 DEF a

-----------------------------------------------------------------------------
(* Numbers and keys.                                                       *)

\* Numbers of events are positive, promises of force_sync negative.
LEMMA IdsAndKeys ==
  /\ \A n \in Ids : n \in Nat /\ n > 0
  /\ \A k \in ForceKeys : k \in Int /\ k < 0
  /\ Ids \subseteq Keys /\ ForceKeys \subseteq Keys
BY IdAssumption, BoundAssumption DEF Ids, ForceKeys, Keys

-----------------------------------------------------------------------------
(* The initial state.                                                      *)

\* The actor starts with nothing sent, waiting or logged.
LEMMA InitInv == Init => IInv
<1> SUFFICES ASSUME Init PROVE IInv
  OBVIOUS
<1> USE DEF Init
<1>0. \A t \in Threads : inbox[t] = << >> /\ Len(inbox[t]) = 0
  OBVIOUS
<1>1. TypeOK
  <2>1. inbox \in [Threads -> Seq(Message)]
    BY EmptySeq
  <2>2. binlog \in Binlogs
    BY DEF Binlogs
  <2>3. FirstId \in Nat /\ 0 \in 0 .. MaxForce /\ 0 \in 0 .. MaxControl
    BY IdAssumption, BoundAssumption
  <2>4. event \in [Ids -> Contents \cup {NoContent}] /\ cover \in [Keys -> SUBSET Ids]
    OBVIOUS
  <2>5. held \in [Threads -> SUBSET Ids]
    OBVIOUS
  <2>6. /\ last_id_ = FirstId /\ next = FirstId /\ forced = 0 /\ controls = 0
        /\ state = "open" /\ waiting = {} /\ immediate_sync_promises_ = {}
        /\ sync_promises_ = {} /\ answered = {} /\ lost = {}
        /\ closing = FALSE /\ force_sync_flag_ = FALSE /\ lazy_sync_flag_ = FALSE
        /\ flush_flag_ = FALSE /\ timer = FALSE
    OBVIOUS
  <2>7. FirstId >= FirstId
    BY <2>3
  <2> USE DEF TypeOK
  <2> HIDE DEF Init
  <2> QED
    BY <2>1, <2>2, <2>3, <2>4, <2>5, <2>6, <2>7
<1>2. MessagesOK /\ CoverSent
  BY <1>0 DEF MessagesOK, CoverSent
<1>3. HeldFresh /\ SeenTaken
  BY IdAssumption DEF HeldFresh, SeenTaken
<1>4. CoverDelivered
  BY IdsAndKeys DEF CoverDelivered
<1>5. LogOK /\ PrefixDurable /\ SyncDurable /\ CloseKeepsDelivered
  BY DEF LogOK, PrefixDurable, SyncDurable, CloseKeepsDelivered, NoContent
<1>6. FlagsOK /\ WaitsAreServed
  BY DEF FlagsOK, WaitsAreServed
<1> QED
  BY <1>1, <1>2, <1>3, <1>4, <1>5, <1>6 DEF IInv

-----------------------------------------------------------------------------
(* The users' threads.                                                     *)

\* next_id(): the new number is above all that were taken.
LEMMA TakeIdInv ==
  ASSUME IInv, NEW t \in Threads, TakeId(t)
  PROVE  IInv'
<1> USE DEF IInv
<1>1. /\ held' = [held EXCEPT ![t] = @ \cup {last_id_}]
      /\ last_id_' = last_id_ + 1 /\ last_id_ <= LastId
      /\ UNCHANGED <<event, forced, controls, closing, cover, inbox, state, next, waiting,
                     force_sync_flag_, lazy_sync_flag_, flush_flag_, timer,
                     immediate_sync_promises_, sync_promises_, answered, lost, binlog>>
  BY DEF TakeId, processor, timers, promises
<1>t. /\ last_id_ \in Nat /\ last_id_ >= FirstId /\ last_id_ \in Ids
      /\ held \in [Threads -> SUBSET Ids]
  BY <1>1, IdAssumption DEF TypeOK, Ids
<1>2. TypeOK'
  BY <1>1, <1>t, IdAssumption DEF TypeOK
<1>3. MessagesOK'
  BY <1>1, <1>t, IdsAndKeys DEF MessagesOK
<1>4. SeenTaken'
  <2>1. next \in Nat /\ waiting \subseteq Ids
    BY DEF TypeOK
  <2> QED
    BY <1>1, <1>t, <2>1, IdsAndKeys DEF SeenTaken
<1>5. HeldFresh'
  <2> SUFFICES ASSUME NEW u \in Threads, NEW n \in held'[u]
               PROVE  /\ n < last_id_ + 1 /\ n >= next /\ n \notin waiting
                      /\ \A w \in Threads :
                           /\ w # u => n \notin held'[w]
                           /\ \A i \in 1 .. Len(inbox[w]) :
                                inbox[w][i].op = "add_raw_event" => inbox[w][i].id # n
    BY <1>1 DEF HeldFresh
  <2>0. \A w \in Threads : held'[w] = IF w = t THEN held[t] \cup {last_id_} ELSE held[w]
    BY <1>1, <1>t
  <2>1. CASE n = last_id_
    <3>1. n < last_id_ + 1 /\ n >= next /\ n \notin waiting
      BY <1>t, <2>1 DEF SeenTaken, TypeOK
    <3>2. \A w \in Threads : n \notin held[w]
      BY <1>t, <2>1 DEF HeldFresh
    <3>3. u = t
      BY <2>0, <3>2
    <3>4. \A w \in Threads : \A i \in 1 .. Len(inbox[w]) :
            inbox[w][i].op = "add_raw_event" => inbox[w][i].id # n
      BY <1>t, <2>1, IdsAndKeys DEF MessagesOK
    <3> QED
      BY <2>0, <3>1, <3>2, <3>3, <3>4
  <2>2. CASE n # last_id_
    <3>1. n \in held[u]
      BY <2>0, <2>2
    <3>2. n \in Nat /\ n < last_id_
      BY <3>1, <1>t, IdsAndKeys DEF HeldFresh
    <3> QED
      BY <1>t, <2>0, <2>2, <3>1, <3>2 DEF HeldFresh
  <2> QED
    BY <2>1, <2>2
<1>6. CoverDelivered' /\ CoverSent'
  BY <1>1 DEF CoverDelivered, CoverSent
<1>7. LogOK' /\ SyncDurable' /\ PrefixDurable' /\ CloseKeepsDelivered'
  BY <1>1 DEF LogOK, SyncDurable, PrefixDurable, CloseKeepsDelivered
<1>8. FlagsOK' /\ WaitsAreServed'
  BY <1>1 DEF FlagsOK, WaitsAreServed
<1> QED
  BY <1>2, <1>3, <1>4, <1>5, <1>6, <1>7, <1>8

\* Sending anything but an event or a force_sync disturbs nothing.
LEMMA SendOther ==
  ASSUME IInv, NEW t \in Threads, NEW op \in Ops \ {"add_raw_event", "force_sync"},
         Send(t, op, 0),
         UNCHANGED <<last_id_, held, event, forced, cover, state, next, waiting,
                     force_sync_flag_, lazy_sync_flag_, flush_flag_, timer,
                     immediate_sync_promises_, sync_promises_, answered, lost, binlog>>,
         controls' \in 0 .. MaxControl, closing' \in BOOLEAN
  PROVE  IInv'
<1> USE DEF IInv
<1>1. /\ inbox' \in [Threads -> Seq(Message)]
      /\ Len(inbox[t]) \in Nat
      /\ \A u \in Threads : u # t => inbox'[u] = inbox[u]
      /\ Len(inbox'[t]) = Len(inbox[t]) + 1
      /\ \A i \in 1 .. Len(inbox[t]) : inbox'[t][i] = inbox[t][i]
      /\ inbox'[t][Len(inbox[t]) + 1] = [op |-> op, id |-> 0]
  BY SendFacts
<1>2. \A u \in Threads : \A i \in 1 .. Len(inbox'[u]) :
        \/ i \in 1 .. Len(inbox[u]) /\ inbox'[u][i] = inbox[u][i]
        \/ inbox'[u][i].op \notin {"add_raw_event", "force_sync"}
  <2> TAKE u \in Threads
  <2> TAKE i \in 1 .. Len(inbox'[u])
  <2>1. CASE u # t
    BY <1>1, <2>1
  <2>2. CASE u = t /\ i = Len(inbox[t]) + 1
    BY <1>1, <2>2
  <2>3. CASE u = t /\ i # Len(inbox[t]) + 1
    BY <1>1, <2>3
  <2> QED
    BY <2>1, <2>2, <2>3
<1>3. TypeOK'
  BY <1>1 DEF TypeOK
<1>4. MessagesOK'
  BY <1>2 DEF MessagesOK
<1>5. HeldFresh' /\ SeenTaken'
  BY <1>2 DEF HeldFresh, SeenTaken
<1>6. CoverDelivered'
  BY DEF CoverDelivered
<1>7. CoverSent'
  <2> SUFFICES ASSUME state = "open", NEW u \in Threads, NEW i \in 1 .. Len(inbox'[u]),
                      inbox'[u][i].op = "force_sync", NEW m \in cover[inbox'[u][i].id]
               PROVE  \/ m < next \/ m \in waiting
                      \/ \E j \in 1 .. i - 1 :
                           inbox'[u][j].op = "add_raw_event" /\ inbox'[u][j].id = m
    BY DEF CoverSent
  <2>1. i \in 1 .. Len(inbox[u]) /\ inbox'[u][i] = inbox[u][i]
    BY <1>2
  <2>2. \/ m < next \/ m \in waiting
        \/ \E j \in 1 .. i - 1 : inbox[u][j].op = "add_raw_event" /\ inbox[u][j].id = m
    BY <2>1 DEF CoverSent
  <2>3. \A j \in 1 .. i - 1 : j \in 1 .. Len(inbox[u]) /\ inbox'[u][j] = inbox[u][j]
    <3>1. \A j \in 1 .. i - 1 : j \in 1 .. Len(inbox[u])
      <4>1. Len(inbox[u]) \in Nat
        BY DEF TypeOK
      <4> QED
        BY <2>1, <4>1
    <3> QED
      BY <1>1, <3>1
  <2> QED
    BY <2>2, <2>3
<1>8. LogOK' /\ SyncDurable' /\ PrefixDurable' /\ CloseKeepsDelivered'
  BY DEF LogOK, SyncDurable, PrefixDurable, CloseKeepsDelivered
<1>9. FlagsOK' /\ WaitsAreServed'
  BY DEF FlagsOK, WaitsAreServed
<1> QED
  BY <1>3, <1>4, <1>5, <1>6, <1>7, <1>8, <1>9

\* force_flush and change_key only send a message.
LEMMA ControlInv ==
  ASSUME IInv, NEW t \in Threads, Control(t)
  PROVE  IInv'
<1>1. PICK op \in {"force_flush", "change_key"} : Send(t, op, 0)
  BY DEF Control
<1>2. controls' \in 0 .. MaxControl /\ closing' \in BOOLEAN
  BY BoundAssumption DEF Control, IInv, TypeOK
<1> QED
  BY <1>1, <1>2, SendOther DEF Control, Ops, processor, timers, promises

\* close and close_and_destroy only send a message.
LEMMA CloseInv ==
  ASSUME IInv, NEW t \in Threads, Close(t)
  PROVE  IInv'
<1>1. PICK op \in {"close", "close_and_destroy"} : Send(t, op, 0)
  BY DEF Close
<1>2. controls' \in 0 .. MaxControl /\ closing' \in BOOLEAN
  BY DEF Close, IInv, TypeOK
<1> QED
  BY <1>1, <1>2, SendOther DEF Close, Ops, processor, timers, promises

\* The number leaves held[t] for a message; nobody relied on its content.
LEMMA SendEventInv ==
  ASSUME IInv, NEW t \in Threads, NEW n \in Ids, NEW c \in Contents, SendEvent(t, n, c)
  PROVE  IInv'
<1> USE DEF IInv
<1>0. /\ state = "open" /\ n \in held[t]
      /\ held' = [held EXCEPT ![t] = @ \ {n}]
      /\ event' = [event EXCEPT ![n] = c]
      /\ cover' = [cover EXCEPT ![n] = {m \in Ids : m <= n}]
      /\ Send(t, "add_raw_event", n)
      /\ UNCHANGED <<last_id_, forced, controls, closing, state, next, waiting,
                     force_sync_flag_, lazy_sync_flag_, flush_flag_, timer,
                     immediate_sync_promises_, sync_promises_, answered, lost, binlog>>
  BY DEF SendEvent, Running, processor, timers, promises
<1>1. /\ inbox' \in [Threads -> Seq(Message)]
      /\ Len(inbox[t]) \in Nat
      /\ \A u \in Threads : u # t => inbox'[u] = inbox[u]
      /\ Len(inbox'[t]) = Len(inbox[t]) + 1
      /\ \A i \in 1 .. Len(inbox[t]) : inbox'[t][i] = inbox[t][i]
      /\ inbox'[t][Len(inbox[t]) + 1] = [op |-> "add_raw_event", id |-> n]
  BY <1>0, SendFacts, IdsAndKeys DEF Ops
<1>2. \A u \in Threads : \A i \in 1 .. Len(inbox'[u]) :
        \/ i \in 1 .. Len(inbox[u]) /\ inbox'[u][i] = inbox[u][i]
        \/ inbox'[u][i] = [op |-> "add_raw_event", id |-> n]
  <2> TAKE u \in Threads
  <2> TAKE i \in 1 .. Len(inbox'[u])
  <2>1. CASE u # t
    BY <1>1, <2>1
  <2>2. CASE u = t /\ i = Len(inbox[t]) + 1
    BY <1>1, <2>2
  <2>3. CASE u = t /\ i # Len(inbox[t]) + 1
    BY <1>1, <2>3
  <2> QED
    BY <2>1, <2>2, <2>3
<1>t. /\ held \in [Threads -> SUBSET Ids] /\ event \in [Ids -> Contents \cup {NoContent}]
      /\ cover \in [Keys -> SUBSET Ids] /\ next \in Nat /\ n \in Keys
      /\ binlog.disk \subseteq Ids /\ sync_promises_ \subseteq Keys /\ answered \subseteq Keys
      /\ \A e \in immediate_sync_promises_ : e.promise \in ForceKeys
  BY IdsAndKeys DEF TypeOK, Binlogs
<1>n. /\ n \in Nat /\ n >= next /\ n < last_id_ /\ n \notin waiting
      /\ \A u \in Threads : u # t => n \notin held[u]
  BY <1>0, IdsAndKeys DEF HeldFresh
<1>c. /\ \A k \in Keys : k # n => cover'[k] = cover[k]
      /\ cover'[n] = {m \in Ids : m <= n}
      /\ \A m \in Ids : m # n => event'[m] = event[m]
  BY <1>0, <1>t
<1>3. TypeOK'
  <2>1. held' \in [Threads -> SUBSET Ids] /\ event' \in [Ids -> Contents \cup {NoContent}]
        /\ cover' \in [Keys -> SUBSET Ids]
    BY <1>0, <1>t
  <2> QED
    BY <1>0, <1>1, <2>1 DEF TypeOK
<1>4. MessagesOK'
  BY <1>0, <1>2, <1>n DEF MessagesOK
<1>5. HeldFresh' /\ SeenTaken'
  <2>1. \A u \in Threads : held'[u] = IF u = t THEN held[t] \ {n} ELSE held[u]
    BY <1>0, <1>t
  <2>2. \A u \in Threads : n \notin held'[u]
    BY <2>1, <1>n
  <2> QED
    BY <1>0, <1>2, <2>1, <2>2 DEF HeldFresh, SeenTaken
<1>6. CoverDelivered'
  <2>1. \A k \in Ids : \A m \in cover'[k] : m <= k
    BY <1>c, <1>t, IdsAndKeys DEF CoverDelivered
  <2>2. \A k \in sync_promises_ \cup answered : k \in Keys /\ k # n
    BY <1>n, <1>t DEF CoverDelivered
  <2>3. \A k \in sync_promises_ \cup answered : cover'[k] = cover[k]
    BY <2>2, <1>c
  <2>4. \A e \in immediate_sync_promises_ : cover'[e.promise] = cover[e.promise]
    BY <1>c, <1>t, IdsAndKeys
  <2> QED
    BY <1>0, <2>1, <2>3, <2>4 DEF CoverDelivered
<1>7. CoverSent'
  <2> SUFFICES ASSUME NEW u \in Threads, NEW i \in 1 .. Len(inbox'[u]),
                      inbox'[u][i].op = "force_sync", NEW m \in cover'[inbox'[u][i].id]
               PROVE  \/ m < next \/ m \in waiting
                      \/ \E j \in 1 .. i - 1 :
                           inbox'[u][j].op = "add_raw_event" /\ inbox'[u][j].id = m
    BY <1>0 DEF CoverSent
  <2>1. i \in 1 .. Len(inbox[u]) /\ inbox'[u][i] = inbox[u][i]
    BY <1>2
  <2>c. cover'[inbox'[u][i].id] = cover[inbox[u][i].id]
    BY <2>1, <1>c, IdsAndKeys DEF MessagesOK
  <2>2. \/ m < next \/ m \in waiting
        \/ \E j \in 1 .. i - 1 : inbox[u][j].op = "add_raw_event" /\ inbox[u][j].id = m
    BY <1>0, <2>1, <2>c DEF CoverSent
  <2>3. \A j \in 1 .. i - 1 : j \in 1 .. Len(inbox[u]) /\ inbox'[u][j] = inbox[u][j]
    <3>1. \A j \in 1 .. i - 1 : j \in 1 .. Len(inbox[u])
      <4>1. Len(inbox[u]) \in Nat
        BY DEF TypeOK
      <4> QED
        BY <2>1, <4>1
    <3> QED
      BY <1>1, <3>1
  <2> QED
    BY <2>2, <2>3
<1>8. LogOK'
  <2>1. \A m \in Ids : m < next => m # n
    BY <1>n, <1>t, IdsAndKeys
  <2>2. \A m \in Ids : m < next => event'[m] = event[m]
    BY <2>1, <1>c
  <2> QED
    BY <1>0, <2>2 DEF LogOK
<1>9. PrefixDurable'
  <2>1. \A m \in binlog.disk : m < next
    BY <1>0 DEF LogOK
  <2>2. \A m \in binlog.disk : ~ (n < m)
    <3>1. \A m \in binlog.disk : m \in Nat
      BY <1>t, IdsAndKeys
    <3>2. n \in Nat /\ next \in Nat /\ n >= next
      BY <1>n, <1>t
    <3> QED
      BY <2>1, <3>1, <3>2
  <2> QED
    BY <1>0, <1>c, <2>2 DEF PrefixDurable
<1>10. SyncDurable'
  <2>1. \A k \in answered : k \in Keys /\ k # n
    BY <1>n, <1>t DEF CoverDelivered
  <2>2. \A k \in answered : cover'[k] = cover[k]
    BY <2>1, <1>c
  <2>3. ASSUME NEW k \in answered, NEW m \in cover[k]
        PROVE  m \in Ids /\ m # n
    <3>1. m \in Ids
      BY <1>t, <2>1
    <3>2. m < next
      BY DEF CoverDelivered
    <3> QED
      BY <1>n, <1>t, <3>1, <3>2, IdsAndKeys
  <2> QED
    BY <1>0, <1>c, <2>2, <2>3 DEF SyncDurable
<1>11. CloseKeepsDelivered' /\ FlagsOK' /\ WaitsAreServed'
  BY <1>0 DEF CloseKeepsDelivered, FlagsOK, WaitsAreServed
<1> QED
  BY <1>3, <1>4, <1>5, <1>6, <1>7, <1>8, <1>9, <1>10, <1>11

\* The promise of a force_sync is new, and covers what the processor has and
\* what t sent before.
LEMMA ForceSyncInv ==
  ASSUME IInv, NEW t \in Threads, ForceSync(t)
  PROVE  IInv'
<1> USE DEF IInv
<1> DEFINE p == -(forced + 1)
<1>0. /\ state = "open" /\ forced < MaxForce /\ forced' = forced + 1
      /\ cover' = [cover EXCEPT ![p] = SentBy(t) \cup waiting \cup {n \in Ids : n < next}]
      /\ Send(t, "force_sync", p)
      /\ UNCHANGED <<last_id_, held, event, controls, closing, state, next, waiting,
                     force_sync_flag_, lazy_sync_flag_, flush_flag_, timer,
                     immediate_sync_promises_, sync_promises_, answered, lost, binlog>>
  BY DEF ForceSync, Running, processor, timers, promises
<1>t. /\ forced \in Nat /\ cover \in [Keys -> SUBSET Ids] /\ waiting \subseteq Ids
      /\ sync_promises_ \subseteq Keys /\ answered \subseteq Keys
      /\ \A e \in immediate_sync_promises_ : e.promise \in ForceKeys
  BY BoundAssumption DEF TypeOK
<1>p. /\ p \in ForceKeys /\ p \in Keys /\ p \in Int /\ p < -forced /\ p >= -(forced')
  BY <1>0, <1>t, BoundAssumption DEF ForceKeys, Keys
<1>f. forced' \in 0 .. MaxForce
  BY <1>0, <1>t, BoundAssumption
<1>g. \A k \in Int : k >= -forced => k >= -(forced')
  BY <1>0, <1>t
<1>q. \A k \in ForceKeys : k >= -forced => k \in Keys /\ k # p
  BY <1>p, <1>t, IdsAndKeys
<1> HIDE DEF p
<1>1. /\ inbox' \in [Threads -> Seq(Message)]
      /\ Len(inbox[t]) \in Nat
      /\ \A u \in Threads : u # t => inbox'[u] = inbox[u]
      /\ Len(inbox'[t]) = Len(inbox[t]) + 1
      /\ \A i \in 1 .. Len(inbox[t]) : inbox'[t][i] = inbox[t][i]
      /\ inbox'[t][Len(inbox[t]) + 1] = [op |-> "force_sync", id |-> p]
  BY <1>0, <1>p, SendFacts DEF Ops
<1>2. \A u \in Threads : \A i \in 1 .. Len(inbox'[u]) :
        \/ i \in 1 .. Len(inbox[u]) /\ inbox'[u][i] = inbox[u][i]
        \/ u = t /\ i = Len(inbox[t]) + 1 /\ inbox'[u][i] = [op |-> "force_sync", id |-> p]
  <2> TAKE u \in Threads
  <2> TAKE i \in 1 .. Len(inbox'[u])
  <2>1. CASE u # t
    BY <1>1, <2>1
  <2>2. CASE u = t /\ i = Len(inbox[t]) + 1
    BY <1>1, <2>2
  <2>3. CASE u = t /\ i # Len(inbox[t]) + 1
    BY <1>1, <2>3
  <2> QED
    BY <2>1, <2>2, <2>3
<1>s. /\ SentBy(t) \subseteq Ids
      /\ \A m \in SentBy(t) : \E j \in 1 .. Len(inbox[t]) :
           inbox[t][j].op = "add_raw_event" /\ inbox[t][j].id = m
  <2>1. DOMAIN inbox[t] = 1 .. Len(inbox[t])
    BY DEF TypeOK
  <2> QED
    BY <2>1 DEF SentBy
<1>c. /\ \A k \in Keys : k # p => cover'[k] = cover[k]
      /\ cover'[p] = SentBy(t) \cup waiting \cup {m \in Ids : m < next}
      /\ cover' \in [Keys -> SUBSET Ids]
  BY <1>0, <1>t, <1>p, <1>s
<1>3. TypeOK'
  BY <1>0, <1>1, <1>c, <1>f DEF TypeOK
<1>4. MessagesOK'
  <2> SUFFICES ASSUME NEW u \in Threads, NEW i \in 1 .. Len(inbox'[u])
               PROVE  /\ inbox'[u][i].op = "add_raw_event" =>
                           inbox'[u][i].id \in Ids /\ inbox'[u][i].id < last_id_
                      /\ inbox'[u][i].op = "force_sync" =>
                           inbox'[u][i].id \in ForceKeys /\ inbox'[u][i].id >= -(forced')
    BY <1>0 DEF MessagesOK
  <2>1. CASE i \in 1 .. Len(inbox[u]) /\ inbox'[u][i] = inbox[u][i]
    BY <2>1, <1>g, IdsAndKeys DEF MessagesOK
  <2>2. CASE inbox'[u][i] = [op |-> "force_sync", id |-> p]
    BY <2>2, <1>p
  <2> QED
    BY <1>2, <2>1, <2>2
<1>5. HeldFresh' /\ SeenTaken'
  BY <1>0, <1>2 DEF HeldFresh, SeenTaken
<1>k. /\ \A k \in sync_promises_ \cup answered : k \in Keys /\ k # p
      /\ \A n \in Ids : n # p /\ n \in Keys
      /\ \A e \in immediate_sync_promises_ : e.promise # p /\ e.promise \in Keys
  BY <1>p, <1>t, IdsAndKeys DEF CoverDelivered, Keys
<1>6. CoverDelivered'
  <2>1. \A k \in Ids : cover'[k] = cover[k]
    BY <1>k, <1>c
  <2>2. \A k \in sync_promises_ \cup answered :
          cover'[k] = cover[k] /\ (k \in ForceKeys => k >= -(forced'))
    BY <1>k, <1>c, <1>g, IdsAndKeys DEF CoverDelivered
  <2>3. \A e \in immediate_sync_promises_ :
          cover'[e.promise] = cover[e.promise] /\ e.promise >= -(forced')
    BY <1>k, <1>c, <1>g, <1>t, IdsAndKeys DEF CoverDelivered
  <2> QED
    BY <1>0, <2>1, <2>2, <2>3 DEF CoverDelivered
<1>7. CoverSent'
  <2> SUFFICES ASSUME NEW u \in Threads, NEW i \in 1 .. Len(inbox'[u]),
                      inbox'[u][i].op = "force_sync", NEW m \in cover'[inbox'[u][i].id]
               PROVE  \/ m < next \/ m \in waiting
                      \/ \E j \in 1 .. i - 1 :
                           inbox'[u][j].op = "add_raw_event" /\ inbox'[u][j].id = m
    BY <1>0 DEF CoverSent
  <2>1. CASE i \in 1 .. Len(inbox[u]) /\ inbox'[u][i] = inbox[u][i]
    <3>0. inbox[u][i].id \in ForceKeys /\ inbox[u][i].id >= -forced
      BY <2>1 DEF MessagesOK
    <3>1. inbox[u][i].id \in Keys /\ inbox[u][i].id # p
      BY <3>0, <1>q
    <3>2. cover'[inbox'[u][i].id] = cover[inbox[u][i].id]
      BY <2>1, <1>c, <3>1
    <3>3. \/ m < next \/ m \in waiting
          \/ \E j \in 1 .. i - 1 : inbox[u][j].op = "add_raw_event" /\ inbox[u][j].id = m
      <4>1. inbox[u][i].op = "force_sync" /\ m \in cover[inbox[u][i].id]
        BY <2>1, <3>2
      <4>2. i \in 1 .. Len(inbox[u])
        BY <2>1
      <4>3. CoverSent /\ state = "open"
        BY <1>0
      <4> QED
        BY <4>1, <4>2, <4>3 DEF CoverSent
    <3>4. \A j \in 1 .. i - 1 : j \in 1 .. Len(inbox[u])
      <4>1. Len(inbox[u]) \in Nat
        BY DEF TypeOK
      <4> QED
        BY <2>1, <4>1
    <3>5. \A j \in 1 .. i - 1 : inbox'[u][j] = inbox[u][j]
      BY <1>1, <3>4
    <3> QED
      BY <3>3, <3>5
  <2>2. CASE u = t /\ i = Len(inbox[t]) + 1 /\ inbox'[u][i] = [op |-> "force_sync", id |-> p]
    <3>1. m \in SentBy(t) \cup waiting \cup {n \in Ids : n < next}
      BY <1>c, <2>2
    <3>2. CASE m \in SentBy(t)
      <4>1. PICK j \in 1 .. Len(inbox[t]) :
              inbox[t][j].op = "add_raw_event" /\ inbox[t][j].id = m
        BY <1>s, <3>2
      <4>2. j \in 1 .. i - 1 /\ inbox'[u][j] = inbox[t][j]
        BY <1>1, <2>2
      <4> QED
        BY <4>1, <4>2
    <3> QED
      BY <3>1, <3>2
  <2> QED
    BY <1>2, <2>1, <2>2
<1>8. LogOK' /\ PrefixDurable' /\ CloseKeepsDelivered' /\ FlagsOK' /\ WaitsAreServed'
  BY <1>0 DEF LogOK, PrefixDurable, CloseKeepsDelivered, FlagsOK, WaitsAreServed
<1>9. SyncDurable'
  BY <1>0, <1>k, <1>c DEF SyncDurable
<1> QED
  BY <1>3, <1>4, <1>5, <1>6, <1>7, <1>8, <1>9

-----------------------------------------------------------------------------
(* A message is taken out of a mailbox.                                    *)

\* The first message of t is taken out.
Taken(t) ==
  /\ inbox[t] # << >>
  /\ inbox' = [inbox EXCEPT ![t] = Tail(@)]

\* The messages that are left are as before.
LEMMA TakeMessages ==
  ASSUME IInv, NEW t \in Threads, Taken(t),
         UNCHANGED <<last_id_, forced>>
  PROVE  MessagesOK'
<1>1. \A u \in Threads : \A i \in 1 .. Len(inbox'[u]) :
        \E j \in 1 .. Len(inbox[u]) : inbox'[u][i] = inbox[u][j]
  BY TailKeepsOldMessages DEF IInv, Taken
<1> QED
  BY <1>1 DEF IInv, MessagesOK

\* Taking a message out does not bring a held number back.
LEMMA TakeHeld ==
  ASSUME IInv, NEW t \in Threads, Taken(t),
         UNCHANGED <<last_id_, held, next>>, waiting' \subseteq waiting
  PROVE  HeldFresh' /\ SeenTaken'
<1>1. \A u \in Threads : \A i \in 1 .. Len(inbox'[u]) :
        \E j \in 1 .. Len(inbox[u]) : inbox'[u][i] = inbox[u][j]
  BY TailKeepsOldMessages DEF IInv, Taken
<1>2. HeldFresh /\ SeenTaken
  BY DEF IInv
<1>3. SeenTaken'
  BY <1>2 DEF SeenTaken
<1>4. ASSUME NEW u \in Threads, NEW n \in held[u]
      PROVE  /\ n < last_id_ /\ n >= next /\ n \notin waiting'
             /\ \A w \in Threads :
                  /\ w # u => n \notin held[w]
                  /\ \A i \in 1 .. Len(inbox'[w]) :
                       inbox'[w][i].op = "add_raw_event" => inbox'[w][i].id # n
  BY <1>1, <1>2 DEF HeldFresh
<1> QED
  BY <1>3, <1>4 DEF HeldFresh

\* A force_sync behind the message loses nothing that it covers.
LEMMA TakeCover ==
  ASSUME IInv, NEW t \in Threads, Taken(t), state = "open", UNCHANGED cover,
         \A m \in Ids :
           \/ m < next
           \/ m \in waiting
           \/ inbox[t][1].op = "add_raw_event" /\ inbox[t][1].id = m
           => m < next' \/ m \in waiting'
  PROVE  CoverSent'
<1> USE DEF IInv
<1>0. /\ Len(inbox[t]) \in Nat /\ Len(inbox[t]) >= 1
      /\ \A u \in Threads : u # t => inbox'[u] = inbox[u]
      /\ Len(inbox'[t]) = Len(inbox[t]) - 1
      /\ \A i \in 1 .. Len(inbox[t]) - 1 : inbox'[t][i] = inbox[t][i + 1]
  BY TailFacts DEF Taken
<1> SUFFICES ASSUME NEW u \in Threads, NEW i \in 1 .. Len(inbox'[u]),
                    inbox'[u][i].op = "force_sync", NEW m \in cover'[inbox'[u][i].id]
             PROVE  \/ m < next' \/ m \in waiting'
                    \/ \E j \in 1 .. i - 1 :
                         inbox'[u][j].op = "add_raw_event" /\ inbox'[u][j].id = m
  BY DEF CoverSent
<1>m. m \in Ids
  <2>1. \A w \in Threads : \A j \in 1 .. Len(inbox'[w]) :
          \E k \in 1 .. Len(inbox[w]) : inbox'[w][j] = inbox[w][k]
    BY TailKeepsOldMessages DEF Taken
  <2>2. inbox'[u][i].id \in Keys
    BY <2>1, IdsAndKeys DEF MessagesOK
  <2> QED
    BY <2>2 DEF TypeOK
<1>1. CASE u # t
  <2>1. \/ m < next \/ m \in waiting
        \/ \E j \in 1 .. i - 1 : inbox[u][j].op = "add_raw_event" /\ inbox[u][j].id = m
    BY <1>0, <1>1 DEF CoverSent
  <2> QED
    BY <1>0, <1>1, <1>m, <2>1
<1>2. CASE u = t
  <2>0. i \in 1 .. Len(inbox[t]) - 1 /\ i + 1 \in 1 .. Len(inbox[t])
        /\ inbox'[t][i] = inbox[t][i + 1] /\ (i + 1) - 1 = i
    BY <1>0, <1>2
  <2>1. \/ m < next \/ m \in waiting
        \/ \E j \in 1 .. i : inbox[t][j].op = "add_raw_event" /\ inbox[t][j].id = m
    <3>1. \/ m < next \/ m \in waiting
          \/ \E j \in 1 .. (i + 1) - 1 :
               inbox[t][j].op = "add_raw_event" /\ inbox[t][j].id = m
      BY <2>0, <1>2 DEF CoverSent
    <3> QED
      BY <2>0, <3>1
  <2>2. ASSUME NEW j \in 1 .. i, j # 1,
               inbox[t][j].op = "add_raw_event" /\ inbox[t][j].id = m
        PROVE  \E k \in 1 .. i - 1 :
                 inbox'[u][k].op = "add_raw_event" /\ inbox'[u][k].id = m
    <3>1. j - 1 \in 1 .. i - 1 /\ j - 1 \in 1 .. Len(inbox[t]) - 1 /\ (j - 1) + 1 = j
      BY <2>0, <2>2, <1>0
    <3>2. inbox'[t][j - 1] = inbox[t][j]
      BY <1>0, <3>1
    <3> QED
      BY <1>2, <2>2, <3>1, <3>2
  <2> QED
    BY <1>m, <2>1, <2>2
<1> QED
  BY <1>1, <1>2

-----------------------------------------------------------------------------
(* The log under the actor.                                                *)

All(b) == b.buffer \cup b.cache \cup b.disk

\* Moving events towards the disk, in their order, keeps what is promised: a
\* sync that answers puts everything the processor handed on on the disk.
LEMMA LogKept ==
  ASSUME IInv, state = "open", state' # "destroyed",
         UNCHANGED <<event, next, cover>>,
         binlog' \in Binlogs, All(binlog') = All(binlog),
         \A m \in binlog'.cache, n \in binlog'.buffer : m < n,
         binlog'.disk = binlog.disk \/ binlog'.disk = All(binlog),
         \/ answered' = answered
         \/ binlog'.disk = All(binlog) /\ answered' = answered \cup sync_promises_
  PROVE  LogOK' /\ PrefixDurable' /\ SyncDurable'
<1> USE DEF IInv
<1>0. /\ \A m \in Ids : m < next /\ event[m].payload => m \in All(binlog)
      /\ \A m \in All(binlog) : m < next
      /\ binlog.disk \subseteq All(binlog)
  BY DEF LogOK, All
<1>t. /\ All(binlog) \subseteq Ids /\ binlog.disk \subseteq Ids /\ next \in Nat
      /\ cover \in [Keys -> SUBSET Ids] /\ sync_promises_ \subseteq Keys /\ answered \subseteq Keys
  BY DEF TypeOK, Binlogs, All
<1>1. LogOK'
  <2>1. binlog'.buffer \cup binlog'.cache \cup binlog'.disk = All(binlog)
    BY DEF All
  <2> QED
    BY <1>0, <2>1 DEF LogOK
<1>2. PrefixDurable'
  <2>1. CASE binlog'.disk = binlog.disk
    BY <2>1 DEF PrefixDurable
  <2>2. CASE binlog'.disk = All(binlog)
    <3>1. ASSUME NEW m \in All(binlog), NEW n \in Ids, n < m, event[n].payload
          PROVE  n \in All(binlog)
      <4>1. m < next /\ m \in Nat /\ n \in Nat
        BY <1>0, <1>t, IdsAndKeys
      <4>2. n < next
        BY <3>1, <4>1, <1>t
      <4> QED
        BY <1>0, <3>1, <4>2
    <3> QED
      BY <2>2, <3>1 DEF PrefixDurable
  <2> QED
    BY <2>1, <2>2
<1>3. SyncDurable'
  <2>1. CASE answered' = answered
    BY <2>1, <1>0 DEF SyncDurable
  <2>2. CASE binlog'.disk = All(binlog) /\ answered' = answered \cup sync_promises_
    <3>1. \A k \in answered \cup sync_promises_ : \A m \in cover[k] : m \in Ids /\ m < next
      BY <1>t DEF CoverDelivered
    <3> QED
      BY <2>2, <3>1, <1>0 DEF SyncDurable
  <2> QED
    BY <2>1, <2>2
<1> QED
  BY <1>1, <1>2, <1>3

-----------------------------------------------------------------------------
(* The handlers of the actor.                                              *)

\* The message that a handler takes.
LEMMA TakeFacts ==
  ASSUME IInv, NEW t \in Threads, NEW op \in Ops, Take(t, op)
  PROVE  /\ Taken(t) /\ state = "open"
         /\ inbox' \in [Threads -> Seq(Message)]
         /\ 1 \in 1 .. Len(inbox[t])
         /\ Head(inbox[t]) = inbox[t][1] /\ inbox[t][1].op = op
<1>1. Taken(t) /\ state = "open" /\ Head(inbox[t]).op = op
  BY DEF Take, Taken
<1>2. /\ inbox' \in [Threads -> Seq(Message)]
      /\ Len(inbox[t]) \in Nat /\ Len(inbox[t]) >= 1
      /\ Head(inbox[t]) = inbox[t][1]
  BY <1>1, TailFacts DEF IInv, Taken
<1> QED
  BY <1>1, <1>2

\* force_flush moves the buffer behind the page cache, in order.
LEMMA HandleForceFlushInv ==
  ASSUME IInv, NEW t \in Threads, HandleForceFlush(t)
  PROVE  IInv'
<1> USE DEF IInv
<1>0. /\ Take(t, "force_flush")
      /\ binlog' = Flush(binlog) /\ flush_flag_' = FALSE
      /\ UNCHANGED <<last_id_, held, event, forced, controls, closing, cover, state, next,
                     waiting, force_sync_flag_, lazy_sync_flag_, timer,
                     immediate_sync_promises_, sync_promises_, answered, lost>>
  BY DEF HandleForceFlush, users, processor, promises
<1>1. /\ Taken(t) /\ state = "open" /\ inbox' \in [Threads -> Seq(Message)]
      /\ inbox[t][1].op = "force_flush"
  BY <1>0, TakeFacts DEF Ops
<1>2. /\ binlog' \in Binlogs /\ binlog'.buffer = {}
      /\ binlog'.cache = binlog.cache \cup binlog.buffer
      /\ binlog'.disk = binlog.disk
      /\ binlog'.need_sync = (binlog.need_sync \/ binlog.buffer # {})
  BY <1>0, FlushFacts DEF TypeOK
<1>3. TypeOK'
  BY <1>0, <1>1, <1>2 DEF TypeOK
<1>4. MessagesOK' /\ HeldFresh' /\ SeenTaken'
  BY <1>0, <1>1, TakeMessages, TakeHeld
<1>5. CoverSent'
  BY <1>0, <1>1, TakeCover
<1>6. CoverDelivered'
  BY <1>0 DEF CoverDelivered
<1>7. LogOK' /\ PrefixDurable' /\ SyncDurable'
  <2>1. All(binlog') = All(binlog)
    BY <1>2 DEF All
  <2> QED
    BY <1>0, <1>1, <1>2, <2>1, LogKept
<1>8. CloseKeepsDelivered' /\ FlagsOK'
  BY <1>0, <1>1 DEF CloseKeepsDelivered, FlagsOK
<1>9. WaitsAreServed'
  BY <1>0, <1>1, <1>2 DEF WaitsAreServed
<1> QED
  BY <1>3, <1>4, <1>5, <1>6, <1>7, <1>8, <1>9

\* change_key puts everything on disk, or leaves the log as it is.
LEMMA HandleChangeKeyInv ==
  ASSUME IInv, NEW t \in Threads, HandleChangeKey(t)
  PROVE  IInv'
<1> USE DEF IInv
<1>0. /\ Take(t, "change_key")
      /\ binlog' = Reindex(binlog) \/ binlog' = binlog
      /\ UNCHANGED <<last_id_, held, event, forced, controls, closing, cover, state, next,
                     waiting, force_sync_flag_, lazy_sync_flag_, flush_flag_, timer,
                     immediate_sync_promises_, sync_promises_, answered, lost>>
  BY DEF HandleChangeKey, users, processor, timers, promises
<1>1. /\ Taken(t) /\ state = "open" /\ inbox' \in [Threads -> Seq(Message)]
      /\ inbox[t][1].op = "change_key"
  BY <1>0, TakeFacts DEF Ops
<1>2. /\ binlog' \in Binlogs
      /\ \/ binlog'.buffer = {} /\ binlog'.cache = {} /\ binlog'.disk = All(binlog)
         \/ binlog' = binlog
  <2>1. binlog \in Binlogs
    BY DEF TypeOK
  <2>2. /\ Reindex(binlog) \in Binlogs
        /\ Reindex(binlog).buffer = {} /\ Reindex(binlog).cache = {}
        /\ Reindex(binlog).disk = binlog.disk \cup binlog.cache \cup binlog.buffer
    BY <2>1, ReindexFacts
  <2> QED
    BY <1>0, <2>1, <2>2 DEF All
<1>3. TypeOK'
  BY <1>0, <1>1, <1>2 DEF TypeOK
<1>4. MessagesOK' /\ HeldFresh' /\ SeenTaken'
  BY <1>0, <1>1, TakeMessages, TakeHeld
<1>5. CoverSent'
  BY <1>0, <1>1, TakeCover
<1>6. CoverDelivered'
  BY <1>0 DEF CoverDelivered
<1>7. LogOK' /\ PrefixDurable' /\ SyncDurable'
  <2>1. CASE binlog' = binlog
    BY <1>0, <2>1 DEF LogOK, PrefixDurable, SyncDurable
  <2>2. CASE binlog'.buffer = {} /\ binlog'.cache = {} /\ binlog'.disk = All(binlog)
    <3>1. All(binlog') = All(binlog)
      BY <2>2 DEF All
    <3> QED
      BY <1>0, <1>1, <1>2, <2>2, <3>1, LogKept
  <2> QED
    BY <1>2, <2>1, <2>2
<1>8. CloseKeepsDelivered' /\ FlagsOK'
  BY <1>0, <1>1 DEF CloseKeepsDelivered, FlagsOK
<1>9. WaitsAreServed'
  BY <1>0, <1>1, <1>2 DEF WaitsAreServed
<1> QED
  BY <1>3, <1>4, <1>5, <1>6, <1>7, <1>8, <1>9

\* A force_sync that the actor takes covers only what the processor has.
LEMMA HandleForceSyncInv ==
  ASSUME IInv, NEW t \in Threads, HandleForceSync(t)
  PROVE  IInv'
<1> USE DEF IInv
<1> DEFINE p == Head(inbox[t]).id
<1>0. /\ Take(t, "force_sync")
      /\ \/ waiting = {} /\ DoImmediateSync(p)
         \/ waiting # {} /\ SyncLater(p)
      /\ UNCHANGED <<last_id_, held, event, forced, controls, closing, cover, state, next,
                     waiting, lazy_sync_flag_, flush_flag_, answered, lost, binlog>>
  BY DEF HandleForceSync, users, processor
<1>1. /\ Taken(t) /\ state = "open" /\ inbox' \in [Threads -> Seq(Message)]
      /\ 1 \in 1 .. Len(inbox[t])
      /\ Head(inbox[t]) = inbox[t][1] /\ inbox[t][1].op = "force_sync"
  BY <1>0, TakeFacts DEF Ops
<1>p. p \in ForceKeys /\ p >= -forced /\ p \in Keys /\ p \notin Ids
  <2>1. p \in ForceKeys /\ p >= -forced
    BY <1>1 DEF MessagesOK
  <2> QED
    BY <2>1, IdsAndKeys
<1>c. \A m \in cover[p] : m < next \/ m \in waiting
  BY <1>1 DEF CoverSent
<1> HIDE DEF p
<1>t. /\ waiting \subseteq Ids /\ timer \in BOOLEAN /\ force_sync_flag_ \in BOOLEAN
      /\ immediate_sync_promises_ \subseteq [seq_no : Ids, promise : ForceKeys]
      /\ sync_promises_ \subseteq Keys
  BY DEF TypeOK
<1>2. MessagesOK' /\ HeldFresh' /\ SeenTaken'
  BY <1>0, <1>1, TakeMessages, TakeHeld
<1>3. CoverSent'
  BY <1>0, <1>1, TakeCover
<1>4. LogOK' /\ PrefixDurable' /\ SyncDurable' /\ CloseKeepsDelivered'
  BY <1>0 DEF LogOK, PrefixDurable, SyncDurable, CloseKeepsDelivered
<1>5. CASE waiting = {} /\ DoImmediateSync(p)
  <2>0. /\ sync_promises_' = sync_promises_ \cup {p} /\ force_sync_flag_' = TRUE
        /\ timer' = (timer \/ ~ force_sync_flag_)
        /\ UNCHANGED immediate_sync_promises_
    BY <1>5 DEF DoImmediateSync
  <2>t. timer'
    BY <2>0, <1>t DEF FlagsOK
  <2>1. TypeOK'
    BY <1>0, <1>1, <1>p, <2>0, <2>t DEF TypeOK
  <2>2. CoverDelivered'
    BY <1>0, <1>5, <1>p, <1>c, <2>0 DEF CoverDelivered
  <2>3. FlagsOK' /\ WaitsAreServed'
    BY <1>0, <1>1, <2>0, <2>t DEF FlagsOK, WaitsAreServed
  <2> QED
    BY <1>2, <1>3, <1>4, <2>1, <2>2, <2>3
<1>6. CASE waiting # {} /\ SyncLater(p)
  <2>0. PICK s \in waiting :
          /\ \A m \in waiting : m <= s
          /\ immediate_sync_promises_' =
               immediate_sync_promises_ \cup {[seq_no |-> s, promise |-> p]}
          /\ UNCHANGED <<sync_promises_, force_sync_flag_, timer>>
    BY <1>6 DEF SyncLater
  <2>1. TypeOK'
    <3>1. immediate_sync_promises_' \subseteq [seq_no : Ids, promise : ForceKeys]
      BY <1>t, <1>p, <2>0
    <3> QED
      BY <1>0, <1>1, <2>0, <3>1 DEF TypeOK
  <2>2. CoverDelivered'
    BY <1>0, <1>p, <1>c, <2>0 DEF CoverDelivered
  <2>3. FlagsOK' /\ WaitsAreServed'
    BY <1>0, <1>1, <2>0 DEF FlagsOK, WaitsAreServed
  <2> QED
    BY <1>2, <1>3, <1>4, <2>1, <2>2, <2>3
<1> QED
  BY <1>0, <1>5, <1>6

\* What stop() leaves behind.
LEMMA StopFacts ==
  ASSUME IInv, Stop
  PROVE  /\ lost' \subseteq Keys
         /\ waiting' = {} /\ immediate_sync_promises_' = {} /\ sync_promises_' = {}
         /\ force_sync_flag_' = FALSE /\ lazy_sync_flag_' = FALSE
         /\ flush_flag_' = FALSE /\ timer' = FALSE
         /\ UNCHANGED <<last_id_, held, event, forced, controls, closing, cover, next, answered>>
<1>1. /\ immediate_sync_promises_ \subseteq [seq_no : Ids, promise : ForceKeys]
      /\ sync_promises_ \subseteq Keys /\ lost \subseteq Keys /\ waiting \subseteq Ids
  BY DEF IInv, TypeOK
<1>2. /\ lost' = lost \cup sync_promises_
                    \cup {e.promise : e \in immediate_sync_promises_}
                    \cup {n \in waiting : event[n].promise}
      /\ ActorGone /\ UNCHANGED <<users, answered>>
  BY DEF Stop
<1>3. {e.promise : e \in immediate_sync_promises_} \subseteq Keys
  BY <1>1, IdsAndKeys
<1>4. lost' \subseteq Keys
  BY <1>1, <1>2, <1>3, IdsAndKeys
<1> QED
  BY <1>2, <1>4 DEF ActorGone, users

\* close() syncs, so that everything the processor handed on is on the disk.
LEMMA HandleCloseInv ==
  ASSUME IInv, NEW t \in Threads, HandleClose(t)
  PROVE  IInv'
<1> USE DEF IInv
<1>0. Take(t, "close") /\ binlog' = Sync(binlog) /\ state' = "closed" /\ Stop
  BY DEF HandleClose
<1>s. /\ lost' \subseteq Keys
      /\ waiting' = {} /\ immediate_sync_promises_' = {} /\ sync_promises_' = {}
      /\ force_sync_flag_' = FALSE /\ lazy_sync_flag_' = FALSE
      /\ flush_flag_' = FALSE /\ timer' = FALSE
      /\ UNCHANGED <<last_id_, held, event, forced, controls, closing, cover, next, answered>>
  BY <1>0, StopFacts
<1>1. /\ Taken(t) /\ state = "open" /\ inbox' \in [Threads -> Seq(Message)]
  BY <1>0, TakeFacts DEF Ops
<1>2. /\ binlog' \in Binlogs /\ binlog'.buffer = {} /\ binlog'.cache = {}
      /\ binlog'.disk = All(binlog) /\ All(binlog') = All(binlog)
  <2>1. binlog \in Binlogs /\ (binlog.cache # {} => binlog.need_sync)
    BY <1>1 DEF TypeOK, WaitsAreServed
  <2>2. /\ binlog' \in Binlogs /\ binlog'.buffer = {} /\ binlog'.cache = {}
        /\ binlog'.disk = binlog.disk \cup binlog.cache \cup binlog.buffer
    BY <1>0, <2>1, SyncFacts
  <2> QED
    BY <2>2 DEF All
<1>3. TypeOK'
  BY <1>0, <1>s, <1>1, <1>2 DEF TypeOK
<1>4. MessagesOK' /\ HeldFresh' /\ SeenTaken'
  BY <1>s, <1>1, TakeMessages, TakeHeld
<1>5. CoverSent' /\ WaitsAreServed' /\ FlagsOK'
  BY <1>0, <1>s DEF CoverSent, WaitsAreServed, FlagsOK
<1>6. CoverDelivered'
  BY <1>s DEF CoverDelivered
<1>7. LogOK' /\ PrefixDurable' /\ SyncDurable'
  BY <1>0, <1>s, <1>1, <1>2, LogKept
<1>8. CloseKeepsDelivered'
  BY <1>s, <1>1, <1>2 DEF CloseKeepsDelivered, LogOK, All
<1> QED
  BY <1>3, <1>4, <1>5, <1>6, <1>7, <1>8

\* close_and_destroy: nothing is promised of a destroyed log.
LEMMA HandleCloseAndDestroyInv ==
  ASSUME IInv, NEW t \in Threads, HandleCloseAndDestroy(t)
  PROVE  IInv'
<1> USE DEF IInv
<1>0. /\ Take(t, "close_and_destroy") /\ state' = "destroyed" /\ Stop
      /\ binlog' = [Flush(binlog) EXCEPT !.cache = {}, !.disk = {}, !.need_sync = FALSE]
  BY DEF HandleCloseAndDestroy
<1>s. /\ lost' \subseteq Keys
      /\ waiting' = {} /\ immediate_sync_promises_' = {} /\ sync_promises_' = {}
      /\ force_sync_flag_' = FALSE /\ lazy_sync_flag_' = FALSE
      /\ flush_flag_' = FALSE /\ timer' = FALSE
      /\ UNCHANGED <<last_id_, held, event, forced, controls, closing, cover, next, answered>>
  BY <1>0, StopFacts
<1>1. /\ Taken(t) /\ state = "open" /\ inbox' \in [Threads -> Seq(Message)]
  BY <1>0, TakeFacts DEF Ops
<1>2. binlog' \in Binlogs
  <2>1. Flush(binlog) \in Binlogs
    BY FlushFacts DEF TypeOK
  <2> QED
    BY <1>0, <2>1 DEF Binlogs
<1>3. TypeOK'
  BY <1>0, <1>s, <1>1, <1>2 DEF TypeOK
<1>4. MessagesOK' /\ HeldFresh' /\ SeenTaken'
  BY <1>s, <1>1, TakeMessages, TakeHeld
<1>5. CoverSent' /\ WaitsAreServed' /\ FlagsOK'
  BY <1>0, <1>s DEF CoverSent, WaitsAreServed, FlagsOK
<1>6. CoverDelivered'
  BY <1>s DEF CoverDelivered
<1>7. LogOK' /\ PrefixDurable' /\ SyncDurable' /\ CloseKeepsDelivered'
  BY <1>0 DEF LogOK, PrefixDurable, SyncDurable, CloseKeepsDelivered
<1> QED
  BY <1>3, <1>4, <1>5, <1>6, <1>7

\* A message to a stopped actor changes nothing but lost.
LEMMA DropMessageInv ==
  ASSUME IInv, NEW t \in Threads, DropMessage(t)
  PROVE  IInv'
<1> USE DEF IInv
<1>0. /\ state \in {"closed", "destroyed"} /\ Taken(t)
      /\ lost' = lost \cup PromiseOf(Head(inbox[t]))
      /\ UNCHANGED <<last_id_, held, event, forced, controls, closing, cover, state, next,
                     waiting, force_sync_flag_, lazy_sync_flag_, flush_flag_, timer,
                     immediate_sync_promises_, sync_promises_, answered, binlog>>
  BY DEF DropMessage, Taken, users, processor, timers
<1>1. /\ inbox' \in [Threads -> Seq(Message)]
      /\ 1 \in 1 .. Len(inbox[t]) /\ Head(inbox[t]) = inbox[t][1]
  <2>1. /\ inbox' \in [Threads -> Seq(Message)]
        /\ Len(inbox[t]) \in Nat /\ Len(inbox[t]) >= 1 /\ Head(inbox[t]) = inbox[t][1]
    BY <1>0, TailFacts DEF Taken
  <2> QED
    BY <2>1
<1>2. PromiseOf(Head(inbox[t])) \subseteq Keys
  BY <1>1, IdsAndKeys DEF PromiseOf, MessagesOK
<1>3. TypeOK'
  BY <1>0, <1>1, <1>2 DEF TypeOK
<1>4. MessagesOK' /\ HeldFresh' /\ SeenTaken'
  BY <1>0, TakeMessages, TakeHeld
<1>5. CoverSent' /\ LogOK' /\ WaitsAreServed' /\ FlagsOK'
  BY <1>0 DEF CoverSent, LogOK, WaitsAreServed, FlagsOK
<1>6. CoverDelivered' /\ PrefixDurable' /\ SyncDurable' /\ CloseKeepsDelivered'
  BY <1>0 DEF CoverDelivered, PrefixDurable, SyncDurable, CloseKeepsDelivered
<1> QED
  BY <1>3, <1>4, <1>5, <1>6

\* One sync answers everything that waits; without one nothing does.
LEMMA TimeoutExpiredInv ==
  ASSUME IInv, TimeoutExpired
  PROVE  IInv'
<1> USE DEF IInv
<1>0. /\ state = "open" /\ timer
      /\ lazy_sync_flag_' = FALSE /\ force_sync_flag_' = FALSE
      /\ UNCHANGED <<last_id_, held, event, forced, controls, closing, cover, inbox, state,
                     next, waiting, immediate_sync_promises_, lost>>
  BY DEF TimeoutExpired, users, processor
<1>t. /\ binlog \in Binlogs /\ (binlog.cache # {} => binlog.need_sync)
      /\ sync_promises_ \subseteq Keys /\ answered \subseteq Keys
  BY <1>0 DEF TypeOK, WaitsAreServed
<1>1. MessagesOK' /\ HeldFresh' /\ SeenTaken' /\ CoverSent' /\ CloseKeepsDelivered'
  BY <1>0 DEF MessagesOK, HeldFresh, SeenTaken, CoverSent, CloseKeepsDelivered
<1>2. CASE lazy_sync_flag_ \/ force_sync_flag_
  <2>0. /\ binlog' = Sync(binlog) /\ answered' = answered \cup sync_promises_
        /\ sync_promises_' = {} /\ flush_flag_' = FALSE /\ timer' = FALSE
    BY <1>2 DEF TimeoutExpired, AnswerAll
  <2>1. /\ binlog' \in Binlogs /\ binlog'.buffer = {} /\ binlog'.cache = {}
        /\ binlog'.disk = All(binlog) /\ All(binlog') = All(binlog)
    <3>1. /\ binlog' \in Binlogs /\ binlog'.buffer = {} /\ binlog'.cache = {}
          /\ binlog'.disk = binlog.disk \cup binlog.cache \cup binlog.buffer
      BY <2>0, <1>t, SyncFacts
    <3> QED
      BY <3>1 DEF All
  <2>2. TypeOK'
    BY <1>0, <1>t, <2>0, <2>1 DEF TypeOK
  <2>3. CoverDelivered'
    BY <1>0, <2>0 DEF CoverDelivered
  <2>4. LogOK' /\ PrefixDurable' /\ SyncDurable'
    BY <1>0, <2>0, <2>1, LogKept
  <2>5. FlagsOK' /\ WaitsAreServed'
    BY <1>0, <2>0, <2>1 DEF FlagsOK, WaitsAreServed
  <2> QED
    BY <1>1, <2>2, <2>3, <2>4, <2>5
<1>3. CASE ~ (lazy_sync_flag_ \/ force_sync_flag_)
  <2> DEFINE later == flush_flag_ /\ FlushLater(binlog, FALSE)
  <2>0. /\ binlog' = IF flush_flag_ /\ FlushNow(binlog) THEN Flush(binlog) ELSE binlog
        /\ flush_flag_' = later /\ timer' = later
        /\ UNCHANGED <<answered, sync_promises_>>
    BY <1>3 DEF TimeoutExpired
  <2>f. /\ Flush(binlog) \in Binlogs
        /\ Flush(binlog).buffer = {}
        /\ Flush(binlog).cache = binlog.cache \cup binlog.buffer
        /\ Flush(binlog).disk = binlog.disk
        /\ Flush(binlog).need_sync = (binlog.need_sync \/ binlog.buffer # {})
    BY <1>t, FlushFacts
  <2>l. later = (flush_flag_ /\ ~ FlushNow(binlog)) /\ later \in BOOLEAN
    BY DEF FlushLater
  <2>s. sync_promises_ = {} /\ (binlog.buffer # {} => flush_flag_)
    BY <1>0, <1>3 DEF WaitsAreServed
  <2> HIDE DEF later
  <2>1. /\ binlog' \in Binlogs /\ All(binlog') = All(binlog) /\ binlog'.disk = binlog.disk
        /\ \A m \in binlog'.cache, n \in binlog'.buffer : m < n
        /\ binlog'.cache # {} => binlog'.need_sync
        /\ binlog'.buffer # {} => later
    <3>1. CASE flush_flag_ /\ FlushNow(binlog)
      BY <2>0, <2>f, <1>t, <3>1 DEF All
    <3>2. CASE ~ (flush_flag_ /\ FlushNow(binlog))
      BY <1>0, <2>0, <1>t, <2>l, <2>s, <3>2 DEF All, LogOK
    <3> QED
      BY <3>1, <3>2
  <2>2. TypeOK'
    BY <1>0, <2>0, <2>1, <2>l DEF TypeOK
  <2>3. CoverDelivered'
    BY <1>0, <2>0 DEF CoverDelivered
  <2>4. LogOK' /\ PrefixDurable' /\ SyncDurable'
    BY <1>0, <2>0, <2>1, LogKept
  <2>5. FlagsOK' /\ WaitsAreServed'
    BY <1>0, <2>0, <2>1, <2>s DEF FlagsOK, WaitsAreServed
  <2> QED
    BY <1>1, <2>2, <2>3, <2>4, <2>5
<1> QED
  BY <1>2, <1>3

-----------------------------------------------------------------------------
(* The environment.                                                        *)

\* Time only makes the buffer old.
LEMMA TickInv ==
  ASSUME IInv, Tick
  PROVE  IInv'
<1> USE DEF IInv
<1>0. /\ binlog' = [binlog EXCEPT !.aged = TRUE]
      /\ UNCHANGED <<last_id_, held, event, forced, controls, closing, cover, inbox, state,
                     next, waiting, force_sync_flag_, lazy_sync_flag_, flush_flag_, timer,
                     immediate_sync_promises_, sync_promises_, answered, lost>>
  BY DEF Tick, users, processor, timers, promises
<1>1. /\ binlog' \in Binlogs
      /\ binlog'.buffer = binlog.buffer /\ binlog'.cache = binlog.cache
      /\ binlog'.disk = binlog.disk /\ binlog'.need_sync = binlog.need_sync
  BY <1>0 DEF TypeOK, Binlogs
<1>2. TypeOK'
  BY <1>0, <1>1 DEF TypeOK
<1>3. MessagesOK' /\ HeldFresh' /\ SeenTaken' /\ CoverDelivered' /\ CoverSent' /\ FlagsOK'
  BY <1>0 DEF MessagesOK, HeldFresh, SeenTaken, CoverDelivered, CoverSent, FlagsOK
<1>4. LogOK' /\ WaitsAreServed' /\ SyncDurable' /\ PrefixDurable' /\ CloseKeepsDelivered'
  BY <1>0, <1>1 DEF LogOK, WaitsAreServed, SyncDurable, PrefixDurable, CloseKeepsDelivered
<1> QED
  BY <1>2, <1>3, <1>4

\* Of what was written and not synced a beginning survives.
LEMMA CrashInv ==
  ASSUME IInv, Crash
  PROVE  IInv'
<1> USE DEF IInv
<1>0. /\ state = "open" /\ state' = "crashed"
      /\ held' = [u \in Threads |-> {}] /\ inbox' = [u \in Threads |-> << >>]
      /\ waiting' = {} /\ immediate_sync_promises_' = {} /\ sync_promises_' = {}
      /\ force_sync_flag_' = FALSE /\ lazy_sync_flag_' = FALSE
      /\ flush_flag_' = FALSE /\ timer' = FALSE
      /\ UNCHANGED <<last_id_, event, forced, controls, closing, cover, next, answered, lost>>
  BY DEF Crash, ActorGone
<1>1. PICK k \in binlog.cache \cup {LastId + 1} :
        binlog' = [buffer |-> {}, cache |-> {},
                   disk |-> binlog.disk \cup {m \in binlog.cache : m < k},
                   need_sync |-> FALSE, aged |-> FALSE]
  BY DEF Crash
<1>t. /\ binlog.disk \subseteq Ids /\ binlog.cache \subseteq Ids /\ binlog.buffer \subseteq Ids
      /\ next \in Nat
  BY DEF TypeOK, Binlogs
<1>k. k \in Nat
  BY <1>t, IdsAndKeys, IdAssumption
<1>d. binlog' \in Binlogs /\ binlog'.disk = binlog.disk \cup {m \in binlog.cache : m < k}
  BY <1>1, <1>t DEF Binlogs
<1>2. TypeOK'
  <2>1. inbox' \in [Threads -> Seq(Message)] /\ held' \in [Threads -> SUBSET Ids]
    BY <1>0, EmptySeq
  <2> QED
    BY <1>0, <1>d, <2>1 DEF TypeOK
<1>3. MessagesOK' /\ HeldFresh' /\ SeenTaken'
  <2>1. \A u \in Threads : held'[u] = {} /\ Len(inbox'[u]) = 0
    BY <1>0
  <2> QED
    BY <1>0, <2>1 DEF MessagesOK, HeldFresh, SeenTaken
<1>4. CoverDelivered'
  BY <1>0 DEF CoverDelivered
<1>5. CoverSent' /\ LogOK' /\ FlagsOK' /\ WaitsAreServed' /\ CloseKeepsDelivered'
  BY <1>0 DEF CoverSent, LogOK, FlagsOK, WaitsAreServed, CloseKeepsDelivered
<1>6. SyncDurable'
  BY <1>0, <1>d DEF SyncDurable
<1>7. PrefixDurable'
  <2>1. ASSUME NEW m \in binlog'.disk, NEW n \in Ids, n < m, event[n].payload
        PROVE  n \in binlog'.disk
    <3>1. CASE m \in binlog.disk
      BY <1>0, <1>d, <2>1, <3>1 DEF PrefixDurable
    <3>2. CASE m \in binlog.cache /\ m < k
      <4>1. m \in Nat /\ n \in Nat /\ m < next
        BY <1>0, <1>t, <3>2, IdsAndKeys DEF LogOK
      <4>2. n < next /\ n < k
        BY <4>1, <1>t, <1>k, <2>1, <3>2
      <4>3. n \in binlog.buffer \cup binlog.cache \cup binlog.disk
        BY <1>0, <2>1, <4>2 DEF LogOK
      <4>4. n \notin binlog.buffer
        <5>1. n \in binlog.buffer => m < n
          BY <1>0, <3>2 DEF LogOK
        <5> QED
          BY <5>1, <4>1, <2>1
      <4> QED
        BY <1>d, <4>2, <4>3, <4>4
    <3> QED
      BY <1>d, <3>1, <3>2
  <2> QED
    BY <1>0, <2>1 DEF PrefixDurable
<1> QED
  BY <1>2, <1>3, <1>4, <1>5, <1>6, <1>7

-----------------------------------------------------------------------------
(* The handler of an event.                                                *)

\* The numbers that add_raw_event hands on were all taken, are held by
\* nobody, and continue the log.
LEMMA AddRawEventInv ==
  ASSUME IInv, NEW t \in Threads, AddRawEvent(t)
  PROVE  IInv'
<1> USE DEF IInv
<1> DEFINE n == Head(inbox[t]).id
<1>1. /\ Take(t, "add_raw_event") /\ Processor!Add(n)
      /\ UNCHANGED <<last_id_, held, event, forced, controls, closing, cover, state,
                     answered, lost>>
  BY DEF AddRawEvent, users
<1>2. /\ Taken(t) /\ state = "open" /\ inbox' \in [Threads -> Seq(Message)]
      /\ 1 \in 1 .. Len(inbox[t])
      /\ Head(inbox[t]) = inbox[t][1] /\ inbox[t][1].op = "add_raw_event"
  BY <1>1, TakeFacts DEF Ops
<1>n. /\ n = inbox[t][1].id /\ n \in Ids /\ n < last_id_ /\ n \in Nat
  BY <1>2, IdsAndKeys DEF MessagesOK
<1>3. PICK b \in next .. LastId + 1 :
        /\ n >= next /\ n \notin waiting
        /\ \A m \in next .. b - 1 : m \in waiting \cup {n}
        /\ next' = b /\ waiting' = {m \in waiting \cup {n} : m >= b}
  BY <1>1 DEF Processor!Add
<1> DEFINE batch == next .. b - 1
           new == {m \in batch : event[m].payload}
           promised == {m \in batch : event[m].promise}
           ready == {e \in immediate_sync_promises_ : e.seq_no <= b - 1}
           lazy == promised # {} /\ ~ lazy_sync_flag_ /\ ~ force_sync_flag_
           force == ready # {} /\ ~ force_sync_flag_
<1>4. PICK r \in new \cup {0}, f \in new \cup {0} :
        LET a == Appended(binlog, new, r, f)
            later == FlushLater(a, force_sync_flag_ \/ force)
        IN  /\ binlog' = IF FlushNow(a) THEN Flush(a) ELSE a
            /\ immediate_sync_promises_' = immediate_sync_promises_ \ ready
            /\ sync_promises_' =
                 sync_promises_ \cup promised \cup {e.promise : e \in ready}
            /\ lazy_sync_flag_' = (lazy_sync_flag_ \/ lazy)
            /\ force_sync_flag_' = (force_sync_flag_ \/ force)
            /\ flush_flag_' = (flush_flag_ \/ later)
            /\ timer' = (timer \/ lazy \/ force \/ later)
  BY <1>3 DEF AddRawEvent
<1> DEFINE a == Appended(binlog, new, r, f)
           later == FlushLater(a, force_sync_flag_ \/ force)
<1>5. /\ binlog' = IF FlushNow(a) THEN Flush(a) ELSE a
      /\ immediate_sync_promises_' = immediate_sync_promises_ \ ready
      /\ sync_promises_' = sync_promises_ \cup promised \cup {e.promise : e \in ready}
      /\ lazy_sync_flag_' = (lazy_sync_flag_ \/ lazy)
      /\ force_sync_flag_' = (force_sync_flag_ \/ force)
      /\ flush_flag_' = (flush_flag_ \/ later)
      /\ timer' = (timer \/ lazy \/ force \/ later)
  BY <1>4
<1>l. later = (~ FlushNow(a) /\ ~ (force_sync_flag_ \/ force))
  BY DEF FlushLater
<1>r. /\ \A e \in ready : e \in immediate_sync_promises_ /\ e.seq_no <= b - 1
      /\ \A e \in immediate_sync_promises_ \ ready : ~ (e.seq_no <= b - 1)
  OBVIOUS
<1>h. /\ lazy = (promised # {} /\ ~ lazy_sync_flag_ /\ ~ force_sync_flag_)
      /\ force = (ready # {} /\ ~ force_sync_flag_)
      /\ new \subseteq batch /\ promised \subseteq batch
      /\ \A m \in batch : event[m].payload => m \in new
      /\ r \in new \cup {0} /\ f \in new \cup {0}
  OBVIOUS
<1>d. \A m : m \in batch <=> m \in next .. b - 1
  OBVIOUS
<1> HIDE DEF n, a, later, lazy, force, ready, promised, new, batch
<1>t. /\ next \in Nat /\ b \in Nat /\ next <= b /\ last_id_ \in Nat /\ next <= last_id_
      /\ waiting \subseteq Ids /\ event \in [Ids -> Contents \cup {NoContent}]
      /\ binlog \in Binlogs /\ held \in [Threads -> SUBSET Ids]
      /\ cover \in [Keys -> SUBSET Ids] /\ sync_promises_ \subseteq Keys
      /\ answered \subseteq Keys
      /\ immediate_sync_promises_ \subseteq [seq_no : Ids, promise : ForceKeys]
      /\ next >= FirstId /\ FirstId \in Nat
  BY IdAssumption DEF TypeOK, SeenTaken
<1>b. /\ batch \subseteq waiting \cup {n} /\ batch \subseteq Ids
      /\ \A m \in batch : m \in Nat /\ m >= next /\ m < b /\ m < last_id_
      /\ \A m \in Ids : m < b /\ m >= next => m \in batch
      /\ b <= last_id_
  <2>1. batch \subseteq waiting \cup {n} /\ batch \subseteq Ids
    BY <1>3, <1>d, <1>n, <1>t
  <2>2. \A m \in waiting \cup {n} : m < last_id_
    BY <1>n DEF SeenTaken
  <2>3. \A m \in batch : m \in Nat /\ m >= next /\ m < b
    BY <1>d, <1>t
  <2>4. \A m \in Ids : m < b /\ m >= next => m \in batch
    BY <1>d, <1>t, IdsAndKeys
  <2>5. b <= last_id_
    <3>1. CASE b = next
      BY <3>1, <1>t
    <3>2. CASE b # next
      <4>1. b - 1 \in batch /\ b - 1 \in Nat
        BY <1>d, <1>t, <3>2
      <4>2. b - 1 < last_id_
        BY <4>1, <2>1, <2>2
      <4> QED
        BY <4>1, <4>2, <1>t
    <3> QED
      BY <3>1, <3>2
  <2> QED
    BY <2>1, <2>2, <2>3, <2>4, <2>5
<1>w. /\ waiting' \subseteq Ids
      /\ \A m \in waiting' : m < last_id_ /\ m \in waiting \cup {n}
      /\ \A m \in waiting \cup {n} : m < b \/ m \in waiting'
  <2>1. waiting' = {m \in waiting \cup {n} : m >= b}
    BY <1>3
  <2>2. \A m \in waiting \cup {n} : m \in Ids /\ m \in Nat /\ m < last_id_
    BY <1>n, <1>t, IdsAndKeys DEF SeenTaken
  <2>3. \A m \in waiting \cup {n} : m < b \/ m >= b
    BY <2>2, <1>t
  <2> QED
    BY <2>1, <2>2, <2>3
<1>a. /\ a \in Binlogs
      /\ All(a) = All(binlog) \cup new
      /\ a.disk = binlog.disk \cup {m \in binlog.cache \cup binlog.buffer \cup new : m <= r}
      /\ \A m \in a.cache, k \in a.buffer : m < k
      /\ a.cache # {} => a.need_sync
  <2>1. new \in SUBSET Ids /\ (\A m \in new : m >= next)
    BY <1>b, <1>h
  <2>2. \A m \in binlog.buffer \cup binlog.cache \cup binlog.disk : m < next
    BY <1>2 DEF LogOK
  <2>3. \A m \in binlog.cache, k \in binlog.buffer : m < k
    BY <1>2 DEF LogOK
  <2>4. binlog.cache # {} => binlog.need_sync
    BY <1>2 DEF WaitsAreServed
  <2>5. /\ a \in Binlogs
        /\ a.buffer \cup a.cache \cup a.disk
             = binlog.buffer \cup binlog.cache \cup binlog.disk \cup new
        /\ a.disk = binlog.disk \cup {m \in binlog.cache \cup binlog.buffer \cup new : m <= r}
        /\ \A m \in a.cache, k \in a.buffer : m < k
        /\ a.cache # {} => a.need_sync
    BY <1>h, <1>t, <2>1, <2>2, <2>3, <2>4, AppendedFacts DEF a
  <2> QED
    BY <2>5 DEF All
<1>g. /\ binlog' \in Binlogs
      /\ All(binlog') = All(binlog) \cup new
      /\ binlog'.disk = binlog.disk \cup {m \in binlog.cache \cup binlog.buffer \cup new : m <= r}
      /\ \A m \in binlog'.cache, k \in binlog'.buffer : m < k
      /\ binlog'.cache # {} => binlog'.need_sync
      /\ binlog'.buffer # {} => ~ FlushNow(a)
  <2>1. CASE FlushNow(a)
    <3>1. /\ Flush(a) \in Binlogs /\ Flush(a).buffer = {}
          /\ Flush(a).cache = a.cache \cup a.buffer /\ Flush(a).disk = a.disk
          /\ Flush(a).need_sync = (a.need_sync \/ a.buffer # {})
      BY <1>a, FlushFacts
    <3>2. All(Flush(a)) = All(a)
      BY <3>1 DEF All
    <3> QED
      BY <1>5, <1>a, <2>1, <3>1, <3>2
  <2>2. CASE ~ FlushNow(a)
    BY <1>5, <1>a, <2>2
  <2> QED
    BY <2>1, <2>2
<1>6. TypeOK'
  <2>1. {e.promise : e \in ready} \subseteq Keys
    BY <1>r, <1>t, IdsAndKeys
  <2>2. sync_promises_' \subseteq Keys
    BY <1>5, <1>h, <1>b, <1>t, <2>1, IdsAndKeys
  <2>3. immediate_sync_promises_' \subseteq [seq_no : Ids, promise : ForceKeys]
    BY <1>5, <1>t
  <2>4. /\ force_sync_flag_' \in BOOLEAN /\ lazy_sync_flag_' \in BOOLEAN
        /\ flush_flag_' \in BOOLEAN /\ timer' \in BOOLEAN
    BY <1>5
  <2>5. next' \in Nat /\ next' >= FirstId
    BY <1>3, <1>t
  <2> QED
    BY <1>1, <1>2, <1>w, <1>g, <2>2, <2>3, <2>4, <2>5 DEF TypeOK
<1>7. MessagesOK'
  BY <1>1, <1>2, TakeMessages
<1>8. HeldFresh'
  <2>1. \A u \in Threads : \A i \in 1 .. Len(inbox'[u]) :
          \E j \in 1 .. Len(inbox[u]) : inbox'[u][i] = inbox[u][j]
    BY <1>2, TailKeepsOldMessages DEF Taken
  <2>2. ASSUME NEW u \in Threads, NEW h \in held[u]
        PROVE  /\ h < last_id_ /\ h >= b /\ h \notin waiting'
               /\ \A w \in Threads :
                    /\ w # u => h \notin held[w]
                    /\ \A i \in 1 .. Len(inbox'[w]) :
                         inbox'[w][i].op = "add_raw_event" => inbox'[w][i].id # h
    <3>1. /\ h < last_id_ /\ h >= next /\ h \notin waiting
          /\ \A w \in Threads :
               /\ w # u => h \notin held[w]
               /\ \A i \in 1 .. Len(inbox[w]) :
                    inbox[w][i].op = "add_raw_event" => inbox[w][i].id # h
      BY DEF HeldFresh
    <3>2. h # n
      BY <1>2, <1>n, <3>1
    <3>3. h \in Ids /\ h \in Nat
      BY <1>t, IdsAndKeys
    <3>4. h \notin batch
      BY <1>b, <3>1, <3>2
    <3>5. h >= b
      BY <1>b, <1>t, <3>1, <3>3, <3>4
    <3>6. h \notin waiting'
      BY <1>w, <3>1, <3>2
    <3>7. \A w \in Threads : \A i \in 1 .. Len(inbox'[w]) :
            inbox'[w][i].op = "add_raw_event" => inbox'[w][i].id # h
      <4> TAKE w \in Threads
      <4> TAKE i \in 1 .. Len(inbox'[w])
      <4>1. PICK j \in 1 .. Len(inbox[w]) : inbox'[w][i] = inbox[w][j]
        BY <2>1
      <4>2. inbox[w][j].op = "add_raw_event" => inbox[w][j].id # h
        BY <3>1
      <4> QED
        BY <4>1, <4>2
    <3> QED
      BY <3>1, <3>5, <3>6, <3>7
  <2> QED
    BY <1>1, <1>3, <2>2 DEF HeldFresh
<1>9. SeenTaken'
  BY <1>1, <1>3, <1>b, <1>w DEF SeenTaken
<1>10. CoverDelivered'
  <2>1. \A k \in Ids : \A m \in cover[k] : m <= k /\ m \in Nat
    BY <1>t, IdsAndKeys DEF CoverDelivered
  <2>2. ASSUME NEW k \in sync_promises_ \cup answered
        PROVE  /\ k \in Ids => k < b
               /\ k \in ForceKeys => k >= -forced
               /\ \A m \in cover[k] : m < b
    <3>1. /\ k \in Ids => k < next
          /\ k \in ForceKeys => k >= -forced
          /\ \A m \in cover[k] : m < next /\ m \in Nat
      BY <1>t, IdsAndKeys DEF CoverDelivered
    <3> QED
      BY <3>1, <1>t, IdsAndKeys
  <2>3. ASSUME NEW k \in promised
        PROVE  /\ k \in Ids => k < b
               /\ k \in ForceKeys => k >= -forced
               /\ \A m \in cover[k] : m < b
    <3>1. k \in Ids /\ k \in Nat /\ k < b /\ k \notin ForceKeys
      BY <1>h, <1>b, IdsAndKeys
    <3> QED
      BY <2>1, <3>1, <1>t
  <2>4. ASSUME NEW e \in immediate_sync_promises_
        PROVE  /\ e.promise \in ForceKeys /\ e.promise >= -forced
               /\ \A m \in cover[e.promise] : m < b \/ m <= e.seq_no
               /\ e \in ready => \A m \in cover[e.promise] : m < b
    <3>1. /\ e.promise \in ForceKeys /\ e.promise >= -forced
          /\ e.seq_no \in Nat
      BY <1>t, IdsAndKeys DEF CoverDelivered
    <3>2. \A m \in cover[e.promise] : m \in Nat /\ (m < next \/ m <= e.seq_no)
      BY <1>t, <3>1, IdsAndKeys DEF CoverDelivered
    <3>3. e \in ready => e.seq_no <= b - 1
      BY <1>r
    <3> QED
      BY <1>t, <3>1, <3>2, <3>3
  <2>5. \A k \in sync_promises_' \cup answered' :
          /\ k \in Ids => k < b
          /\ k \in ForceKeys => k >= -forced
          /\ \A m \in cover[k] : m < b
    <3>1. ASSUME NEW e \in ready
          PROVE  /\ e.promise \in Ids => e.promise < b
                 /\ e.promise \in ForceKeys => e.promise >= -forced
                 /\ \A m \in cover[e.promise] : m < b
      <4>1. e \in immediate_sync_promises_
        BY <1>r
      <4>2. e.promise \in ForceKeys /\ e.promise >= -forced
            /\ \A m \in cover[e.promise] : m < b
        BY <2>4, <4>1
      <4>3. e.promise \notin Ids
        BY <4>2, IdsAndKeys
      <4> QED
        BY <4>2, <4>3
    <3> QED
      BY <1>1, <1>5, <2>2, <2>3, <3>1
  <2>6. \A e \in immediate_sync_promises_' :
          /\ e.promise >= -forced
          /\ \A m \in cover[e.promise] : m < b \/ m <= e.seq_no
    BY <1>5, <2>4
  <2> QED
    BY <1>1, <1>3, <2>1, <2>5, <2>6 DEF CoverDelivered
<1>11. CoverSent'
  <2>1. \A m \in Ids : m < next => m < b
    BY <1>t, IdsAndKeys
  <2>2. \A m \in Ids :
          \/ m < next
          \/ m \in waiting
          \/ inbox[t][1].op = "add_raw_event" /\ inbox[t][1].id = m
          => m < next' \/ m \in waiting'
    BY <1>3, <1>n, <1>w, <2>1
  <2> QED
    BY <1>1, <1>2, <2>2, TakeCover
<1>k. \A m \in Ids : m < b /\ event[m].payload => m \in All(binlog) \cup new
  <2>1. \A m \in Ids : m < next /\ event[m].payload => m \in All(binlog)
    BY <1>2 DEF LogOK, All
  <2>2. \A m \in Ids : m < b /\ ~ (m < next) => m \in batch
    BY <1>b, <1>t, IdsAndKeys
  <2> QED
    BY <2>1, <2>2, <1>h
<1>m. \A m \in All(binlog) \cup new : m < b /\ m \in Nat
  <2>1. \A m \in All(binlog) : m < next /\ m \in Nat
    BY <1>2, <1>t, IdsAndKeys DEF LogOK, All, Binlogs
  <2> QED
    BY <2>1, <1>t, <1>h, <1>b
<1>12. LogOK'
  <2>1. binlog'.buffer \cup binlog'.cache \cup binlog'.disk = All(binlog) \cup new
    BY <1>g DEF All
  <2> QED
    BY <1>1, <1>3, <1>g, <1>k, <1>m, <2>1 DEF LogOK
<1>13. SyncDurable'
  BY <1>1, <1>g DEF SyncDurable
<1>14. PrefixDurable'
  <2>r. r \in Nat
    BY <1>h, <1>b
  <2>1. ASSUME NEW m \in binlog'.disk, NEW j \in Ids, j < m, event[j].payload
        PROVE  j \in binlog'.disk
    <3>1. CASE m \in binlog.disk
      BY <1>2, <1>g, <2>1, <3>1 DEF PrefixDurable
    <3>2. CASE m \in binlog.cache \cup binlog.buffer \cup new /\ m <= r
      <4>1. m < b /\ m \in Nat /\ j \in Nat
        BY <1>m, <3>2, IdsAndKeys DEF All
      <4>2. j < b /\ j <= r
        BY <4>1, <2>1, <2>r, <1>t, <3>2
      <4>3. j \in All(binlog) \cup new
        BY <1>k, <2>1, <4>2
      <4> QED
        BY <1>g, <4>2, <4>3 DEF All
    <3> QED
      BY <1>g, <3>1, <3>2
  <2> QED
    BY <1>1, <2>1 DEF PrefixDurable
<1>15. CloseKeepsDelivered'
  BY <1>1, <1>2 DEF CloseKeepsDelivered
<1>16. FlagsOK'
  BY <1>5, <1>l DEF FlagsOK
<1>17. WaitsAreServed'
  <2>1. sync_promises_' # {} => timer' /\ (lazy_sync_flag_' \/ force_sync_flag_')
    <3>1. CASE sync_promises_ # {}
      BY <3>1, <1>2, <1>5 DEF WaitsAreServed
    <3>2. CASE promised # {}
      BY <3>2, <1>5, <1>h DEF FlagsOK
    <3>3. CASE ready # {}
      BY <3>3, <1>5, <1>h DEF FlagsOK
    <3> QED
      BY <1>5, <3>1, <3>2, <3>3
  <2>2. binlog'.buffer # {} => timer' /\ (flush_flag_' \/ force_sync_flag_')
    BY <1>5, <1>l, <1>g, <1>h DEF FlagsOK
  <2>3. \A e \in immediate_sync_promises_' : e.seq_no \in waiting'
    <3>1. \A e \in immediate_sync_promises_' :
            e \in immediate_sync_promises_ /\ ~ (e.seq_no <= b - 1) /\ e.seq_no \in Nat
      BY <1>5, <1>r, <1>t, IdsAndKeys
    <3>2. \A e \in immediate_sync_promises_' : e.seq_no \in waiting /\ ~ (e.seq_no < b)
      BY <3>1, <1>2, <1>t DEF WaitsAreServed
    <3> QED
      BY <3>2, <1>w
  <2> QED
    BY <1>1, <1>g, <2>1, <2>2, <2>3 DEF WaitsAreServed
<1> QED
  BY <1>6, <1>7, <1>8, <1>9, <1>10, <1>11, <1>12, <1>13, <1>14, <1>15, <1>16, <1>17

-----------------------------------------------------------------------------
(* The theorems.                                                           *)

\* Every step preserves the invariant.
LEMMA NextInv == IInv /\ [Next]_vars => IInv'
<1> SUFFICES ASSUME IInv, [Next]_vars PROVE IInv'
  OBVIOUS
<1>1. CASE UNCHANGED vars
  BY <1>1 DEF vars, users, processor, timers, promises, IInv, TypeOK, MessagesOK, HeldFresh,
              SeenTaken, CoverDelivered, CoverSent, LogOK, FlagsOK, WaitsAreServed,
              SyncDurable, PrefixDurable, CloseKeepsDelivered
<1>2. ASSUME NEW t \in Threads, TakeId(t) PROVE IInv'
  BY <1>2, TakeIdInv
<1>3. ASSUME NEW t \in Threads, NEW n \in Ids, NEW c \in Contents, SendEvent(t, n, c)
      PROVE  IInv'
  BY <1>3, SendEventInv
<1>4. ASSUME NEW t \in Threads, ForceSync(t) \/ Control(t) \/ Close(t) PROVE IInv'
  BY <1>4, ForceSyncInv, ControlInv, CloseInv
<1>5. ASSUME NEW t \in Threads, ActorStep(t) PROVE IInv'
  BY <1>5, AddRawEventInv, HandleForceSyncInv, HandleForceFlushInv, HandleChangeKeyInv,
     HandleCloseInv, HandleCloseAndDestroyInv, DropMessageInv DEF ActorStep
<1>6. CASE TimeoutExpired \/ Tick \/ Crash
  BY <1>6, TimeoutExpiredInv, TickInv, CrashInv
<1> QED
  BY <1>1, <1>2, <1>3, <1>4, <1>5, <1>6 DEF Next

\* The inductive invariant holds always.
LEMMA Invariant == Spec => []IInv
BY InitInv, NextInv, PTL DEF Spec

\* Type correctness, for any threads, numbers and calls.
THEOREM TypeCorrect == Spec => []TypeOK
<1>1. IInv => TypeOK
  BY DEF IInv
<1> QED
  BY Invariant, <1>1, PTL

\* A promise with a value is true, also after a crash: timeout_expired answers
\* only after a sync, and do_immediate_sync or flush_immediate_sync moved the
\* promise there only when every event it covers had been delivered.
THEOREM SyncIsDurable == Spec => []SyncDurable
<1>1. IInv => SyncDurable
  BY DEF IInv
<1> QED
  BY Invariant, <1>1, PTL

\* What is on disk is a beginning of the log, whatever order the threads sent
\* their events in and wherever a crash cut the unsynced part.
THEOREM DiskHoldsPrefix == Spec => []PrefixDurable
<1>1. IInv => PrefixDurable
  BY DEF IInv
<1> QED
  BY Invariant, <1>1, PTL

\* BinlogActor::close leaves on disk every event that processor_ handed on.
THEOREM CloseLosesNothing == Spec => []CloseKeepsDelivered
<1>1. IInv => CloseKeepsDelivered
  BY DEF IInv
<1> QED
  BY Invariant, <1>1, PTL

\* Whatever waits in the actor has a timeout set that will serve it, or a
\* missing number before it: the three flags and wakeup_at_ agree.
THEOREM NobodyIsForgotten == Spec => []WaitsAreServed
<1>1. IInv => WaitsAreServed
  BY DEF IInv
<1> QED
  BY Invariant, <1>1, PTL

-----------------------------------------------------------------------------
(* Every promise is answered once.  This needs a second invariant, on top  *)
(* of the first: where a promise can be.                                   *)

\* The messages that carry a number or a promise.
Carrying == {"add_raw_event", "force_sync"}

\* The processor has not seen the number of an event under way, and nobody
\* else has the promise of a force_sync under way.
FreshMessages ==
  \A t \in Threads : \A i \in 1 .. Len(inbox[t]) :
    /\ inbox[t][i].op = "add_raw_event" =>
         inbox[t][i].id >= next /\ inbox[t][i].id \notin waiting
    /\ inbox[t][i].op = "force_sync" =>
         /\ inbox[t][i].id \notin answered \cup sync_promises_
         /\ \A e \in immediate_sync_promises_ : e.promise # inbox[t][i].id

\* Nothing is sent twice.
SentOnce ==
  \A t, u \in Threads : \A i \in 1 .. Len(inbox[t]), j \in 1 .. Len(inbox[u]) :
    inbox[t][i] = inbox[u][j] /\ inbox[t][i].op \in Carrying => t = u /\ i = j

\* In the actor a promise is in one place, and it is lost only with the actor.
PromisesApart ==
  /\ state = "open" => lost = {}
  /\ state # "open" => sync_promises_ = {}
  /\ answered \cap sync_promises_ = {} /\ answered \cap lost = {}
  /\ \A n \in waiting : n >= next
  /\ \A e \in immediate_sync_promises_ : e.promise \notin answered \cup sync_promises_
  /\ \A e, f \in immediate_sync_promises_ : e.promise = f.promise => e = f

OnceInv == FreshMessages /\ SentOnce /\ PromisesApart

\* Where the message i of u was before the first message of t was taken out.
Before(t, u, i) == IF u = t THEN i + 1 ELSE i

\* The messages that are left keep their order.
LEMMA TailPositions ==
  ASSUME TypeOK, NEW t \in Threads, Taken(t),
         NEW u \in Threads, NEW i \in 1 .. Len(inbox'[u])
  PROVE  /\ Before(t, u, i) \in 1 .. Len(inbox[u])
         /\ inbox'[u][i] = inbox[u][Before(t, u, i)]
         /\ u = t => Before(t, u, i) # 1
<1>1. /\ Len(inbox[t]) \in Nat /\ Len(inbox[t]) >= 1
      /\ \A w \in Threads : w # t => inbox'[w] = inbox[w]
      /\ Len(inbox'[t]) = Len(inbox[t]) - 1
      /\ \A j \in 1 .. Len(inbox[t]) - 1 : inbox'[t][j] = inbox[t][j + 1]
  BY TailFacts DEF Taken
<1>2. CASE u = t
  BY <1>1, <1>2 DEF Before
<1>3. CASE u # t
  BY <1>1, <1>3 DEF Before
<1> QED
  BY <1>2, <1>3

\* Taking a message out keeps SentOnce, and the messages left are others.
LEMMA TakeOnce ==
  ASSUME TypeOK, SentOnce, NEW t \in Threads, Taken(t)
  PROVE  /\ SentOnce'
         /\ \A u \in Threads : \A i \in 1 .. Len(inbox'[u]) :
              \E j \in 1 .. Len(inbox[u]) :
                /\ inbox'[u][i] = inbox[u][j]
                /\ inbox[u][j].op \in Carrying => inbox[u][j] # inbox[t][1]
<1>0. 1 \in 1 .. Len(inbox[t])
  <2>1. Len(inbox[t]) \in Nat /\ Len(inbox[t]) >= 1
    BY TailFacts DEF Taken
  <2> QED
    BY <2>1
<1>1. ASSUME NEW u \in Threads, NEW w \in Threads,
             NEW i \in 1 .. Len(inbox'[u]), NEW j \in 1 .. Len(inbox'[w]),
             inbox'[u][i] = inbox'[w][j], inbox'[u][i].op \in Carrying
      PROVE  u = w /\ i = j
  <2>1. /\ Before(t, u, i) \in 1 .. Len(inbox[u])
        /\ inbox'[u][i] = inbox[u][Before(t, u, i)]
        /\ Before(t, w, j) \in 1 .. Len(inbox[w])
        /\ inbox'[w][j] = inbox[w][Before(t, w, j)]
    BY TailPositions
  <2>2. /\ inbox[u][Before(t, u, i)] = inbox[w][Before(t, w, j)]
        /\ inbox[u][Before(t, u, i)].op \in Carrying
    BY <1>1, <2>1
  <2>3. u = w /\ Before(t, u, i) = Before(t, w, j)
    BY <2>1, <2>2 DEF SentOnce
  <2> QED
    BY <2>3 DEF Before
<1>2. ASSUME NEW u \in Threads, NEW i \in 1 .. Len(inbox'[u])
      PROVE  \E j \in 1 .. Len(inbox[u]) :
               /\ inbox'[u][i] = inbox[u][j]
               /\ inbox[u][j].op \in Carrying => inbox[u][j] # inbox[t][1]
  <2>1. /\ Before(t, u, i) \in 1 .. Len(inbox[u])
        /\ inbox'[u][i] = inbox[u][Before(t, u, i)]
        /\ u = t => Before(t, u, i) # 1
    BY TailPositions
  <2>2. inbox[u][Before(t, u, i)].op \in Carrying
          => inbox[u][Before(t, u, i)] # inbox[t][1]
    BY <1>0, <2>1 DEF SentOnce
  <2> QED
    BY <2>1, <2>2
<1>3. SentOnce'
  BY <1>1 DEF SentOnce
<1> QED
  BY <1>2, <1>3

\* A message that is like no other may be sent.
LEMMA SendOnce ==
  ASSUME TypeOK, SentOnce, NEW t \in Threads, NEW op \in Ops, NEW id \in Keys \cup {0},
         Send(t, op, id),
         \A u \in Threads : \A i \in 1 .. Len(inbox[u]) :
           op \in Carrying => inbox[u][i] # [op |-> op, id |-> id]
  PROVE  /\ SentOnce'
         /\ \A u \in Threads : \A i \in 1 .. Len(inbox'[u]) :
              \/ i \in 1 .. Len(inbox[u]) /\ inbox'[u][i] = inbox[u][i]
              \/ u = t /\ inbox'[u][i] = [op |-> op, id |-> id]
<1> SUFFICES ASSUME NEW m, m = [op |-> op, id |-> id], m.op = op
             PROVE  /\ SentOnce'
                    /\ \A u \in Threads : \A i \in 1 .. Len(inbox'[u]) :
                         \/ i \in 1 .. Len(inbox[u]) /\ inbox'[u][i] = inbox[u][i]
                         \/ u = t /\ inbox'[u][i] = m
  OBVIOUS
<1>1. /\ Len(inbox[t]) \in Nat
      /\ \A u \in Threads : u # t => inbox'[u] = inbox[u]
      /\ Len(inbox'[t]) = Len(inbox[t]) + 1
      /\ \A i \in 1 .. Len(inbox[t]) : inbox'[t][i] = inbox[t][i]
      /\ inbox'[t][Len(inbox[t]) + 1] = m
  BY SendFacts
<1>2. ASSUME NEW u \in Threads, NEW i \in 1 .. Len(inbox'[u])
      PROVE  \/ i \in 1 .. Len(inbox[u]) /\ inbox'[u][i] = inbox[u][i]
             \/ u = t /\ i = Len(inbox[t]) + 1 /\ inbox'[u][i] = m
  <2>1. CASE u # t
    BY <1>1, <2>1
  <2>2. CASE u = t
    <3>1. i \in 1 .. Len(inbox[t]) \/ i = Len(inbox[t]) + 1
      BY <1>1, <2>2
    <3> QED
      BY <1>1, <2>2, <3>1
  <2> QED
    BY <2>1, <2>2
<1>3. ASSUME NEW u \in Threads, NEW w \in Threads,
             NEW i \in 1 .. Len(inbox'[u]), NEW j \in 1 .. Len(inbox'[w]),
             inbox'[u][i] = inbox'[w][j], inbox'[u][i].op \in Carrying
      PROVE  u = w /\ i = j
  <2>1. /\ \/ i \in 1 .. Len(inbox[u]) /\ inbox'[u][i] = inbox[u][i]
           \/ u = t /\ i = Len(inbox[t]) + 1 /\ inbox'[u][i] = m
        /\ \/ j \in 1 .. Len(inbox[w]) /\ inbox'[w][j] = inbox[w][j]
           \/ w = t /\ j = Len(inbox[t]) + 1 /\ inbox'[w][j] = m
    BY <1>2
  <2>2. \A v \in Threads : \A k \in 1 .. Len(inbox[v]) :
          m.op \in Carrying => inbox[v][k] # m
    OBVIOUS
  <2> QED
    BY <1>3, <2>1, <2>2 DEF SentOnce
<1>4. SentOnce'
  BY <1>3 DEF SentOnce
<1> QED
  BY <1>2, <1>4

\* A fresh message keeps the invariant.
LEMMA SendKeepsOnce ==
  ASSUME TypeOK, OnceInv, NEW t \in Threads, NEW op \in Ops, NEW id \in Keys \cup {0},
         Send(t, op, id),
         \A u \in Threads : \A i \in 1 .. Len(inbox[u]) :
           op \in Carrying => inbox[u][i] # [op |-> op, id |-> id],
         op = "add_raw_event" => id >= next /\ id \notin waiting,
         op = "force_sync" =>
           /\ id \notin answered \cup sync_promises_
           /\ \A e \in immediate_sync_promises_ : e.promise # id,
         UNCHANGED <<state, next, waiting, answered, lost, sync_promises_,
                     immediate_sync_promises_>>
  PROVE  OnceInv'
<1>1. /\ SentOnce'
      /\ \A u \in Threads : \A i \in 1 .. Len(inbox'[u]) :
           \/ i \in 1 .. Len(inbox[u]) /\ inbox'[u][i] = inbox[u][i]
           \/ u = t /\ inbox'[u][i] = [op |-> op, id |-> id]
  BY SendOnce DEF OnceInv
<1>2. ASSUME NEW u \in Threads, NEW i \in 1 .. Len(inbox'[u])
      PROVE  /\ inbox'[u][i].op = "add_raw_event" =>
                  inbox'[u][i].id >= next /\ inbox'[u][i].id \notin waiting
             /\ inbox'[u][i].op = "force_sync" =>
                  /\ inbox'[u][i].id \notin answered \cup sync_promises_
                  /\ \A e \in immediate_sync_promises_ : e.promise # inbox'[u][i].id
  <2>1. CASE i \in 1 .. Len(inbox[u]) /\ inbox'[u][i] = inbox[u][i]
    BY <2>1 DEF OnceInv, FreshMessages
  <2>2. CASE inbox'[u][i] = [op |-> op, id |-> id]
    BY <2>2
  <2> QED
    BY <1>1, <2>1, <2>2
<1>3. FreshMessages'
  BY <1>2 DEF FreshMessages
<1>4. PromisesApart'
  BY DEF OnceInv, PromisesApart
<1> QED
  BY <1>1, <1>3, <1>4 DEF OnceInv

\* The number was held by one thread, which gave it up.
LEMMA SendEventOnce ==
  ASSUME IInv, OnceInv, NEW t \in Threads, NEW n \in Ids, NEW c \in Contents,
         SendEvent(t, n, c)
  PROVE  OnceInv'
<1>1. /\ n \in held[t] /\ Send(t, "add_raw_event", n)
      /\ UNCHANGED <<state, next, waiting, answered, lost, sync_promises_,
                     immediate_sync_promises_>>
  BY DEF SendEvent, processor, promises
<1>2. /\ n >= next /\ n \notin waiting
      /\ \A u \in Threads : \A i \in 1 .. Len(inbox[u]) :
           inbox[u][i] # [op |-> "add_raw_event", id |-> n]
  BY <1>1 DEF IInv, HeldFresh
<1>3. TypeOK /\ "add_raw_event" \in Ops /\ n \in Keys \cup {0}
  BY IdsAndKeys DEF IInv, Ops
<1> QED
  BY <1>1, <1>2, <1>3, SendKeepsOnce

\* The promise of a new force_sync has a name of its own.
LEMMA ForceSyncOnce ==
  ASSUME IInv, OnceInv, NEW t \in Threads, ForceSync(t)
  PROVE  OnceInv'
<1> SUFFICES ASSUME NEW id, id = -(forced + 1) PROVE OnceInv'
  OBVIOUS
<1>1. /\ Send(t, "force_sync", id) /\ forced < MaxForce /\ forced \in Nat
      /\ UNCHANGED <<state, next, waiting, answered, lost, sync_promises_,
                     immediate_sync_promises_>>
  BY BoundAssumption DEF ForceSync, processor, promises, IInv, TypeOK
<1>2. id \in ForceKeys /\ id \in Int /\ ~ (id >= -forced)
  BY <1>1, BoundAssumption DEF ForceKeys
<1>3. id \notin answered \cup sync_promises_
  BY <1>2 DEF IInv, CoverDelivered
<1>4. \A e \in immediate_sync_promises_ : e.promise # id
  BY <1>2 DEF IInv, CoverDelivered
<1>5. \A u \in Threads : \A i \in 1 .. Len(inbox[u]) :
        inbox[u][i] # [op |-> "force_sync", id |-> id]
  BY <1>2 DEF IInv, MessagesOK
<1>6. TypeOK /\ "force_sync" \in Ops /\ id \in Keys \cup {0}
  BY <1>2, IdsAndKeys DEF IInv, Ops
<1> QED
  BY <1>1, <1>3, <1>4, <1>5, <1>6, SendKeepsOnce

\* The other messages carry nothing.
LEMMA ControlOnce ==
  ASSUME IInv, OnceInv, NEW t \in Threads, Control(t) \/ Close(t)
  PROVE  OnceInv'
<1>1. PICK op \in Ops \ Carrying : Send(t, op, 0)
  BY DEF Control, Close, Ops, Carrying
<1>2. UNCHANGED <<state, next, waiting, answered, lost, sync_promises_,
                  immediate_sync_promises_>>
  BY DEF Control, Close, processor, promises
<1>3. /\ TypeOK /\ op \in Ops /\ 0 \in Keys \cup {0} /\ op \notin Carrying
      /\ op # "add_raw_event" /\ op # "force_sync"
  BY DEF IInv, Carrying
<1> QED
  BY <1>1, <1>2, <1>3, SendKeepsOnce

\* The messages left are fresh if what they carry went nowhere else.
LEMMA TakeFresh ==
  ASSUME TypeOK, OnceInv, NEW t \in Threads, Taken(t),
         UNCHANGED <<next, waiting, answered, sync_promises_, immediate_sync_promises_>>
  PROVE  FreshMessages' /\ SentOnce'
<1>1. /\ SentOnce'
      /\ \A u \in Threads : \A i \in 1 .. Len(inbox'[u]) :
           \E j \in 1 .. Len(inbox[u]) : inbox'[u][i] = inbox[u][j]
  BY TakeOnce DEF OnceInv
<1>2. ASSUME NEW u \in Threads, NEW i \in 1 .. Len(inbox'[u])
      PROVE  /\ inbox'[u][i].op = "add_raw_event" =>
                  inbox'[u][i].id >= next /\ inbox'[u][i].id \notin waiting
             /\ inbox'[u][i].op = "force_sync" =>
                  /\ inbox'[u][i].id \notin answered \cup sync_promises_
                  /\ \A e \in immediate_sync_promises_ : e.promise # inbox'[u][i].id
  <2>1. PICK j \in 1 .. Len(inbox[u]) : inbox'[u][i] = inbox[u][j]
    BY <1>1
  <2> QED
    BY <2>1 DEF OnceInv, FreshMessages
<1> QED
  BY <1>1, <1>2 DEF FreshMessages

\* force_flush and change_key answer nothing.
LEMMA HandleOthersOnce ==
  ASSUME IInv, OnceInv, NEW t \in Threads, HandleForceFlush(t) \/ HandleChangeKey(t)
  PROVE  OnceInv'
<1>1. /\ Taken(t)
      /\ UNCHANGED <<state, next, waiting, answered, lost, sync_promises_,
                     immediate_sync_promises_>>
  BY DEF HandleForceFlush, HandleChangeKey, Take, Taken, processor, promises
<1>2. FreshMessages' /\ SentOnce'
  BY <1>1, TakeFresh DEF IInv
<1> QED
  BY <1>1, <1>2 DEF OnceInv, PromisesApart

\* force_sync moves its promise out of the message into one of two places.
LEMMA HandleForceSyncOnce ==
  ASSUME IInv, OnceInv, NEW t \in Threads, HandleForceSync(t)
  PROVE  OnceInv'
<1> SUFFICES ASSUME NEW p, p = Head(inbox[t]).id PROVE OnceInv'
  OBVIOUS
<1>1. /\ Take(t, "force_sync")
      /\ UNCHANGED <<state, next, waiting, answered, lost>>
      /\ \/ DoImmediateSync(p)
         \/ SyncLater(p)
  BY DEF HandleForceSync, processor
<1>2. /\ Taken(t) /\ state = "open" /\ 1 \in 1 .. Len(inbox[t])
      /\ Head(inbox[t]) = inbox[t][1] /\ inbox[t][1].op = "force_sync"
      /\ inbox[t][1] \in Message
  <2>1. /\ Taken(t) /\ state = "open" /\ 1 \in 1 .. Len(inbox[t])
        /\ Head(inbox[t]) = inbox[t][1] /\ inbox[t][1].op = "force_sync"
    BY <1>1, TakeFacts DEF Ops
  <2> QED
    BY <2>1, TailFacts DEF Taken, IInv
<1>3. /\ p \notin answered \cup sync_promises_
      /\ \A e \in immediate_sync_promises_ : e.promise # p
  BY <1>2 DEF OnceInv, FreshMessages
<1>4. /\ SentOnce'
      /\ \A u \in Threads : \A i \in 1 .. Len(inbox'[u]) :
           \E j \in 1 .. Len(inbox[u]) :
             /\ inbox'[u][i] = inbox[u][j]
             /\ inbox[u][j].op \in Carrying => inbox[u][j] # inbox[t][1]
  BY <1>2, TakeOnce DEF OnceInv, IInv
<1>5. ASSUME NEW u \in Threads, NEW i \in 1 .. Len(inbox'[u])
      PROVE  /\ inbox'[u][i].op = "add_raw_event" =>
                  inbox'[u][i].id >= next /\ inbox'[u][i].id \notin waiting
             /\ inbox'[u][i].op = "force_sync" =>
                  /\ inbox'[u][i].id \notin answered \cup sync_promises_ \cup {p}
                  /\ \A e \in immediate_sync_promises_ : e.promise # inbox'[u][i].id
                  /\ p # inbox'[u][i].id
  <2>1. PICK j \in 1 .. Len(inbox[u]) :
          /\ inbox'[u][i] = inbox[u][j]
          /\ inbox[u][j].op \in Carrying => inbox[u][j] # inbox[t][1]
    BY <1>4
  <2>2. inbox[u][j] \in Message
    BY DEF IInv, TypeOK
  <2>3. inbox[u][j].op = "force_sync" => inbox[u][j].id # p
    BY <1>2, <2>1, <2>2 DEF Message, Carrying
  <2> QED
    BY <2>1, <2>3 DEF OnceInv, FreshMessages
<1>6. CASE DoImmediateSync(p)
  <2>1. /\ sync_promises_' = sync_promises_ \cup {p}
        /\ immediate_sync_promises_' = immediate_sync_promises_
    BY <1>6 DEF DoImmediateSync
  <2>2. FreshMessages'
    BY <1>1, <1>5, <2>1 DEF FreshMessages
  <2>3. PromisesApart'
    BY <1>1, <1>2, <1>3, <2>1 DEF OnceInv, PromisesApart
  <2> QED
    BY <1>4, <2>2, <2>3 DEF OnceInv
<1>7. CASE SyncLater(p)
  <2>1. PICK s \in waiting :
          /\ immediate_sync_promises_' =
               immediate_sync_promises_ \cup {[seq_no |-> s, promise |-> p]}
          /\ sync_promises_' = sync_promises_
    BY <1>7 DEF SyncLater
  <2>2. FreshMessages'
    BY <1>1, <1>5, <2>1 DEF FreshMessages
  <2>3. PromisesApart'
    BY <1>1, <1>2, <1>3, <2>1 DEF OnceInv, PromisesApart
  <2> QED
    BY <1>4, <2>2, <2>3 DEF OnceInv
<1> QED
  BY <1>1, <1>6, <1>7

\* stop() loses promises that were not answered.
LEMMA StopOnce ==
  ASSUME IInv, OnceInv, NEW t \in Threads, HandleClose(t) \/ HandleCloseAndDestroy(t)
  PROVE  OnceInv'
<1>1. Taken(t) /\ state = "open" /\ state' # "open" /\ Stop
  BY DEF HandleClose, HandleCloseAndDestroy, Take, Taken
<1>2. /\ waiting' = {} /\ immediate_sync_promises_' = {} /\ sync_promises_' = {}
      /\ UNCHANGED <<next, answered>>
  BY <1>1, StopFacts
<1>3. lost' = lost \cup sync_promises_
                   \cup {e.promise : e \in immediate_sync_promises_}
                   \cup {n \in waiting : event[n].promise}
  BY <1>1 DEF Stop
<1>4. \A n \in waiting : n \notin answered
  <2>1. \A n \in waiting : n \in Ids /\ n \in Nat /\ n >= next /\ next \in Nat
    BY IdsAndKeys DEF IInv, TypeOK, OnceInv, PromisesApart
  <2>2. \A n \in answered : n \in Ids => n < next
    BY DEF IInv, CoverDelivered
  <2> QED
    BY <2>1, <2>2
<1>5. answered' \cap lost' = {}
  BY <1>2, <1>3, <1>4 DEF OnceInv, PromisesApart
<1>6. PromisesApart'
  BY <1>1, <1>2, <1>5 DEF PromisesApart
<1>7. /\ SentOnce'
      /\ \A u \in Threads : \A i \in 1 .. Len(inbox'[u]) :
           \E j \in 1 .. Len(inbox[u]) : inbox'[u][i] = inbox[u][j]
  BY <1>1, TakeOnce DEF OnceInv, IInv
<1>8. FreshMessages'
  BY <1>2, <1>7 DEF OnceInv, FreshMessages
<1> QED
  BY <1>6, <1>7, <1>8 DEF OnceInv

\* A message to a stopped actor loses a promise that was not answered.
LEMMA DropMessageOnce ==
  ASSUME IInv, OnceInv, NEW t \in Threads, DropMessage(t)
  PROVE  OnceInv'
<1>1. /\ Taken(t) /\ state # "open"
      /\ lost' = lost \cup PromiseOf(Head(inbox[t]))
      /\ UNCHANGED <<state, next, waiting, answered, sync_promises_,
                     immediate_sync_promises_>>
  BY DEF DropMessage, Taken, processor
<1>2. 1 \in 1 .. Len(inbox[t]) /\ Head(inbox[t]) = inbox[t][1]
  <2>1. Len(inbox[t]) \in Nat /\ Len(inbox[t]) >= 1 /\ Head(inbox[t]) = inbox[t][1]
    BY <1>1, TailFacts DEF IInv, Taken
  <2> QED
    BY <2>1
<1>3. \A k \in PromiseOf(Head(inbox[t])) : k \notin answered
  <2>1. CASE inbox[t][1].op = "force_sync"
    BY <1>2, <2>1 DEF OnceInv, FreshMessages, PromiseOf
  <2>2. CASE inbox[t][1].op = "add_raw_event"
    <3>1. inbox[t][1].id >= next /\ inbox[t][1].id \in Ids
      BY <1>2, <2>2 DEF OnceInv, FreshMessages, IInv, MessagesOK
    <3>2. \A k \in answered : k \in Ids => k < next
      BY DEF IInv, CoverDelivered
    <3>3. inbox[t][1].id \in Nat /\ next \in Nat
      BY <3>1, IdsAndKeys DEF IInv, TypeOK
    <3> QED
      BY <1>2, <2>2, <3>1, <3>2, <3>3 DEF PromiseOf
  <2>3. CASE inbox[t][1].op \notin Carrying
    BY <1>2, <2>3 DEF PromiseOf, Carrying
  <2> QED
    BY <2>1, <2>2, <2>3 DEF Carrying
<1>4. PromisesApart'
  BY <1>1, <1>3 DEF OnceInv, PromisesApart
<1>5. FreshMessages' /\ SentOnce'
  BY <1>1, TakeFresh DEF IInv
<1> QED
  BY <1>4, <1>5 DEF OnceInv

\* timeout_expired answers what waited, and forgets it.
LEMMA TimeoutExpiredOnce ==
  ASSUME IInv, OnceInv, TimeoutExpired
  PROVE  OnceInv'
<1>1. /\ state = "open"
      /\ UNCHANGED <<inbox, state, next, waiting, lost, immediate_sync_promises_>>
      /\ \/ answered' = answered \cup sync_promises_ /\ sync_promises_' = {}
         \/ UNCHANGED <<answered, sync_promises_>>
  BY DEF TimeoutExpired, AnswerAll, processor
<1>2. answered' \cup sync_promises_' = answered \cup sync_promises_
  BY <1>1
<1>3. SentOnce'
  BY <1>1 DEF OnceInv, SentOnce
<1>4. FreshMessages'
  BY <1>1, <1>2 DEF OnceInv, FreshMessages
<1>5. PromisesApart'
  BY <1>1, <1>2 DEF OnceInv, PromisesApart
<1> QED
  BY <1>3, <1>4, <1>5 DEF OnceInv

\* Nothing is left of the actor and its mailboxes.
LEMMA CrashOnce ==
  ASSUME IInv, OnceInv, Crash
  PROVE  OnceInv'
<1>1. /\ state = "open" /\ state' = "crashed" /\ waiting' = {}
      /\ immediate_sync_promises_' = {} /\ sync_promises_' = {}
      /\ inbox' = [t \in Threads |-> << >>] /\ UNCHANGED <<answered, lost>>
  BY DEF Crash, ActorGone
<1>2. \A t \in Threads : 1 .. Len(inbox'[t]) = {}
  BY <1>1
<1> QED
  BY <1>1, <1>2 DEF OnceInv, SentOnce, FreshMessages, PromisesApart

\* The numbers that add_raw_event hands on leave waiting and the message;
\* the promises that waited for them leave immediate_sync_promises_.
LEMMA AddRawEventOnce ==
  ASSUME IInv, OnceInv, NEW t \in Threads, AddRawEvent(t)
  PROVE  OnceInv'
<1> SUFFICES ASSUME NEW n, n = Head(inbox[t]).id PROVE OnceInv'
  OBVIOUS
<1>1. /\ Take(t, "add_raw_event") /\ Processor!Add(n)
      /\ UNCHANGED <<state, answered, lost>>
  BY DEF AddRawEvent
<1>2. /\ Taken(t) /\ state = "open" /\ 1 \in 1 .. Len(inbox[t])
      /\ Head(inbox[t]) = inbox[t][1] /\ inbox[t][1].op = "add_raw_event"
  BY <1>1, TakeFacts DEF Ops
<1>3. PICK b \in next .. LastId + 1 :
        /\ n >= next /\ n \notin waiting
        /\ \A m \in next .. b - 1 : m \in waiting \cup {n}
        /\ next' = b /\ waiting' = {m \in waiting \cup {n} : m >= b}
  BY <1>1 DEF Processor!Add
<1>4. PICK promised \in SUBSET (next .. b - 1),
           ready \in SUBSET immediate_sync_promises_ :
        /\ immediate_sync_promises_' = immediate_sync_promises_ \ ready
        /\ sync_promises_' = sync_promises_ \cup promised \cup {e.promise : e \in ready}
  <2> DEFINE P == {m \in next .. b - 1 : event[m].promise}
             R == {e \in immediate_sync_promises_ : e.seq_no <= b - 1}
  <2>1. /\ immediate_sync_promises_' = immediate_sync_promises_ \ R
        /\ sync_promises_' = sync_promises_ \cup P \cup {e.promise : e \in R}
    BY <1>3 DEF AddRawEvent
  <2>2. P \in SUBSET (next .. b - 1) /\ R \in SUBSET immediate_sync_promises_
    OBVIOUS
  <2> HIDE DEF P, R
  <2> QED
    BY <2>1, <2>2
<1>5. /\ next \in Nat /\ b \in Nat /\ waiting \subseteq Ids /\ n \in Ids
      /\ immediate_sync_promises_ \subseteq [seq_no : Ids, promise : ForceKeys]
      /\ answered \subseteq Keys /\ sync_promises_ \subseteq Keys
  <2>1. /\ next \in Nat /\ waiting \subseteq Ids
        /\ immediate_sync_promises_ \subseteq [seq_no : Ids, promise : ForceKeys]
        /\ answered \subseteq Keys /\ sync_promises_ \subseteq Keys
    BY DEF IInv, TypeOK
  <2>2. n \in Ids
    BY <1>2 DEF IInv, MessagesOK
  <2>3. b \in Nat
    BY <2>1, <1>3, IdAssumption
  <2> QED
    BY <2>1, <2>2, <2>3
<1>6. /\ SentOnce'
      /\ \A u \in Threads : \A i \in 1 .. Len(inbox'[u]) :
           \E j \in 1 .. Len(inbox[u]) :
             /\ inbox'[u][i] = inbox[u][j]
             /\ inbox[u][j].op \in Carrying => inbox[u][j] # inbox[t][1]
  BY <1>2, TakeOnce DEF OnceInv, IInv
<1>7. \A m \in next .. b - 1 : m \in Ids /\ m \in Nat /\ m >= next /\ m < b
  BY <1>3, <1>5, IdsAndKeys
<1>8. \A k \in sync_promises_' \ sync_promises_ :
        \/ k \in next .. b - 1
        \/ \E e \in ready : k = e.promise
  BY <1>4
<1>9. ASSUME NEW u \in Threads, NEW i \in 1 .. Len(inbox'[u])
      PROVE  /\ inbox'[u][i].op = "add_raw_event" =>
                  inbox'[u][i].id >= b /\ inbox'[u][i].id \notin waiting'
             /\ inbox'[u][i].op = "force_sync" =>
                  /\ inbox'[u][i].id \notin answered \cup sync_promises_'
                  /\ \A e \in immediate_sync_promises_' : e.promise # inbox'[u][i].id
  <2>1. PICK j \in 1 .. Len(inbox[u]) :
          /\ inbox'[u][i] = inbox[u][j]
          /\ inbox[u][j].op \in Carrying => inbox[u][j] # inbox[t][1]
    BY <1>6
  <2>2. CASE inbox[u][j].op = "add_raw_event"
    <3>1. /\ inbox[u][j] \in Message /\ inbox[t][1] \in Message
          /\ inbox[u][j].id \in Ids
      BY <1>2, <2>2 DEF IInv, TypeOK, MessagesOK
    <3>2. inbox[u][j].id # n
      BY <1>2, <2>1, <2>2, <3>1 DEF Message, Carrying
    <3>3. inbox[u][j].id >= next /\ inbox[u][j].id \notin waiting
      BY <2>2 DEF OnceInv, FreshMessages
    <3>4. inbox[u][j].id \in Nat /\ inbox[u][j].id \notin next .. b - 1
      BY <1>3, <3>1, <3>2, <3>3, IdsAndKeys
    <3>5. inbox[u][j].id >= b
      BY <1>5, <3>3, <3>4
    <3> QED
      BY <1>3, <2>1, <2>2, <3>2, <3>3, <3>5
  <2>3. CASE inbox[u][j].op = "force_sync"
    <3>1. /\ inbox[u][j].id \notin answered \cup sync_promises_
          /\ \A e \in immediate_sync_promises_ : e.promise # inbox[u][j].id
      BY <2>3 DEF OnceInv, FreshMessages
    <3>2. inbox[u][j].id \notin next .. b - 1
      BY <1>7, <2>3, IdsAndKeys DEF IInv, MessagesOK
    <3>3. inbox[u][j].id \notin sync_promises_'
      BY <1>4, <1>8, <3>1, <3>2
    <3> QED
      BY <1>4, <2>1, <2>3, <3>1, <3>3
  <2> QED
    BY <2>1, <2>2, <2>3
<1>10. FreshMessages'
  BY <1>1, <1>3, <1>9 DEF FreshMessages
<1>11. \A k \in sync_promises_' \ sync_promises_ : k \notin answered
  <2>1. \A k \in answered : k \in Ids => k < next
    BY DEF IInv, CoverDelivered
  <2>2. \A k \in next .. b - 1 : k \notin answered
    BY <1>5, <1>7, <2>1
  <2>3. \A e \in ready : e.promise \notin answered
    BY DEF OnceInv, PromisesApart
  <2> QED
    BY <1>8, <2>2, <2>3
<1>12. \A e \in immediate_sync_promises_' : e.promise \notin answered \cup sync_promises_'
  <2> SUFFICES ASSUME NEW e \in immediate_sync_promises_, e \notin ready
               PROVE  e.promise \notin answered \cup sync_promises_'
    BY <1>4
  <2>1. e.promise \notin answered \cup sync_promises_
    BY DEF OnceInv, PromisesApart
  <2>2. e.promise \notin next .. b - 1
    BY <1>5, <1>7, IdsAndKeys
  <2>3. \A f \in ready : f.promise # e.promise
    BY DEF OnceInv, PromisesApart
  <2> QED
    BY <1>8, <2>1, <2>2, <2>3
<1>13. PromisesApart'
  BY <1>1, <1>2, <1>3, <1>4, <1>11, <1>12 DEF OnceInv, PromisesApart
<1> QED
  BY <1>6, <1>10, <1>13 DEF OnceInv

\* Every step preserves the second invariant, given the first.
LEMMA NextOnce == IInv /\ OnceInv /\ [Next]_vars => OnceInv'
<1> SUFFICES ASSUME IInv, OnceInv, [Next]_vars PROVE OnceInv'
  OBVIOUS
<1>1. CASE UNCHANGED <<inbox, state, processor, promises>>
  BY <1>1 DEF processor, promises, OnceInv, FreshMessages, SentOnce, PromisesApart
<1>2. ASSUME NEW t \in Threads, TakeId(t) PROVE OnceInv'
  BY <1>1, <1>2 DEF TakeId
<1>3. ASSUME NEW t \in Threads, NEW n \in Ids, NEW c \in Contents, SendEvent(t, n, c)
      PROVE  OnceInv'
  BY <1>3, SendEventOnce
<1>4. ASSUME NEW t \in Threads, ForceSync(t) \/ Control(t) \/ Close(t) PROVE OnceInv'
  BY <1>4, ForceSyncOnce, ControlOnce
<1>5. ASSUME NEW t \in Threads, ActorStep(t) PROVE OnceInv'
  BY <1>5, AddRawEventOnce, HandleForceSyncOnce, HandleOthersOnce, StopOnce,
     DropMessageOnce DEF ActorStep
<1>6. CASE TimeoutExpired \/ Crash
  BY <1>6, TimeoutExpiredOnce, CrashOnce
<1>7. CASE Tick \/ UNCHANGED vars
  BY <1>1, <1>7 DEF Tick, vars
<1> QED
  BY <1>2, <1>3, <1>4, <1>5, <1>6, <1>7 DEF Next

\* A promise is answered once, with a value or by its destruction, whatever
\* threads send while the actor syncs, stops or is gone: timeout_expired and
\* stop() never see a promise that another of them, or a message, still has.
THEOREM PromiseAnsweredOnce == Spec => []AnsweredOnce
<1>1. Init => OnceInv
  <2> SUFFICES ASSUME Init PROVE OnceInv
    OBVIOUS
  <2>1. \A t \in Threads : inbox[t] = << >> /\ Len(inbox[t]) = 0
    BY DEF Init
  <2>2. 1 .. 0 = {}
    OBVIOUS
  <2>3. \A t \in Threads : 1 .. Len(inbox[t]) = {}
    BY <2>1, <2>2
  <2> QED
    BY <2>3 DEF Init, OnceInv, FreshMessages, SentOnce, PromisesApart
<1>2. OnceInv => AnsweredOnce
  BY DEF OnceInv, PromisesApart, AnsweredOnce
<1> QED
  BY Invariant, <1>1, <1>2, NextOnce, PTL DEF Spec

-----------------------------------------------------------------------------
(* OrderedEventsProcessor, the vector behind processor_, for every set of   *)
(* events, every bound on the numbers and every compaction threshold.       *)

\* The inductive invariant.  Each part needs the others: the order of the
\* calls follows from the marks, the marks from the bounds of the vector.
VectorInv == VectorTypeOK /\ InOrder /\ NothingHeldBack /\ MarksAreWaiting

\* A function on 1 .. n is a sequence of length n.
LEMMA FunctionIsSequence ==
  ASSUME NEW S, NEW n \in Nat, NEW f \in [1 .. n -> S]
  PROVE  f \in Seq(S) /\ Len(f) = n
  OBVIOUS

\* What one add() of the number begin_ does: b is begin_ after the call.
LEMMA RunNowFacts ==
  ASSUME VectorInv, NEW d \in Data, NEW b \in Nat,
         begin \in SeqNos,
         b \in begin + 1 .. (IF end > begin THEN end ELSE begin + 1),
         \A s \in begin + 1 .. b - 1 : Stored(s)
  PROVE  \A s \in begin + 1 .. b - 1 :
           /\ s < end /\ s - offset \in Cells
           /\ s \in SeqNos
           /\ data[s - offset] = given[s]
           /\ given[s] # NoData
<1>1. SUFFICES ASSUME NEW s \in begin + 1 .. b - 1
               PROVE  /\ s < end /\ s - offset \in Cells
                      /\ s \in SeqNos
                      /\ data[s - offset] = given[s]
                      /\ given[s] # NoData
  OBVIOUS
<1>2. s < end /\ flag[s - offset]
  BY <1>1 DEF Stored
<1>3. s - offset \in Cells
  BY <1>1, <1>2 DEF VectorInv, VectorTypeOK, MarksAreWaiting, Cells
<1> QED
  BY <1>1, <1>2, <1>3 DEF VectorInv, VectorTypeOK, MarksAreWaiting, Cells

\* The calls a "run now" makes continue the sequence of calls.
LEMMA RunNowOrder ==
  ASSUME VectorInv, NEW d \in Data, NEW b \in Nat,
         begin \in SeqNos,
         b \in begin + 1 .. (IF end > begin THEN end ELSE begin + 1),
         \A s \in begin + 1 .. b - 1 : Stored(s),
         given' = [given EXCEPT ![begin] = d],
         out' = out \o Calls(d, b),
         base' = base
  PROVE  /\ out' \in Seq(Call)
         /\ b = base + Len(out')
         /\ InOrder'
<1> DEFINE c == Calls(d, b)
<1>0. \A s \in begin + 1 .. b - 1 :
        /\ s < end /\ s - offset \in Cells
        /\ s \in SeqNos
        /\ data[s - offset] = given[s]
        /\ given[s] # NoData
  BY RunNowFacts
<1>1. c \in Seq(Call) /\ Len(c) = b - begin
  <2>1. \A i \in 1 .. b - begin : c[i] \in Call
    <3>1. SUFFICES ASSUME NEW i \in 1 .. b - begin PROVE c[i] \in Call
      OBVIOUS
    <3>2. CASE i = 1
      BY <3>2 DEF Calls, Call, Event, VectorInv, VectorTypeOK
    <3>3. CASE i # 1
      <4> DEFINE s == begin + i - 1
      <4>1. s \in begin + 1 .. b - 1 /\ s \in Nat
        BY <3>3 DEF VectorInv, VectorTypeOK
      <4>2. c[i] = [seq_no |-> s, data |-> data[s - offset]]
        BY <3>3 DEF Calls, VectorInv, VectorTypeOK
      <4> HIDE DEF s
      <4>3. s - offset \in Cells
        BY <4>1, <1>0
      <4> QED
        BY <4>1, <4>2, <4>3 DEF Call, VectorInv, VectorTypeOK
    <3> QED
      BY <3>2, <3>3
  <2>2. b - begin \in Nat
    BY DEF VectorInv, VectorTypeOK
  <2>3. c = [i \in 1 .. b - begin |-> c[i]]
    BY DEF Calls
  <2> HIDE DEF c
  <2>4. c \in [1 .. b - begin -> Call]
    BY <2>1, <2>3
  <2> QED
    BY <2>2, <2>4, FunctionIsSequence
<1>2. out \in Seq(Call) /\ begin = base + Len(out) /\ base \in Nat
  BY SeqNoAssumption DEF VectorInv, VectorTypeOK, NothingHeldBack, DefaultSeqNo
<1> HIDE DEF c
<1>3. out' \in Seq(Call) /\ Len(out') = Len(out) + (b - begin)
  BY <1>1, <1>2 DEF c
<1>4. b = base + Len(out')
  BY <1>2, <1>3 DEF VectorInv, VectorTypeOK
<1>5. ASSUME NEW i \in 1 .. Len(out')
      PROVE  /\ base + i - 1 \in SeqNos
             /\ out'[i] = [seq_no |-> base + i - 1, data |-> given'[base + i - 1]]
             /\ out'[i].data # NoData
  <2>1. CASE i <= Len(out)
    <3>1. i \in 1 .. Len(out)
      BY <2>1, <1>2
    <3>2. out'[i] = out[i]
      BY <3>1, <1>1, <1>2 DEF c
    <3>3. base + i - 1 # begin /\ base + i - 1 \in SeqNos
      <4>1. base + i - 1 \in SeqNos
        BY <3>1 DEF VectorInv, InOrder
      <4>2. base + i - 1 # begin
        BY <3>1, <1>2, LenProperties
      <4> QED
        BY <4>1, <4>2
    <3>4. given'[base + i - 1] = given[base + i - 1]
      BY <3>3 DEF VectorInv, VectorTypeOK
    <3> QED
      BY <3>1, <3>2, <3>3, <3>4 DEF VectorInv, InOrder
  <2>2. CASE i > Len(out)
    <3> DEFINE j == i - Len(out)
    <3>1. j \in 1 .. b - begin /\ base + i - 1 = begin + j - 1
      BY <2>2, <1>2, <1>3 DEF VectorInv, VectorTypeOK
    <3>2. out'[i] = c[j]
      BY <2>2, <1>1, <1>2, <1>3 DEF c
    <3>3. c[j].seq_no = begin + j - 1 /\ c[j] = [seq_no |-> begin + j - 1, data |-> c[j].data]
      BY <3>1 DEF c, Calls
    <3>4. CASE j = 1
      <4>1. c[j].data = d
        BY <3>1, <3>4 DEF c, Calls
      <4>2. given'[begin] = d
        BY DEF VectorInv, VectorTypeOK
      <4>3. begin + j - 1 = begin
        BY <3>4 DEF VectorInv, VectorTypeOK
      <4> QED
        BY <3>1, <3>2, <3>3, <4>1, <4>2, <4>3, DataAssumption
    <3>5. CASE j # 1
      <4> DEFINE s == begin + j - 1
      <4>1. s \in begin + 1 .. b - 1 /\ s # begin
        BY <3>1, <3>5 DEF VectorInv, VectorTypeOK
      <4>2. s \in SeqNos /\ data[s - offset] = given[s] /\ given[s] # NoData
        BY <4>1, <1>0
      <4>3. given'[s] = given[s]
        BY <4>1, <4>2 DEF VectorInv, VectorTypeOK
      <4>4. c[j].data = data[s - offset]
        BY <3>1, <3>5 DEF c, Calls, VectorInv, VectorTypeOK
      <4> QED
        BY <3>1, <3>2, <3>3, <4>2, <4>3, <4>4
    <3> QED
      BY <3>4, <3>5
  <2> QED
    BY <2>1, <2>2, <1>2, <1>3
<1> QED
  BY <1>3, <1>4, <1>5 DEF InOrder

\* Advance keeps the vector well formed: the cells that remain are the old
\* ones, shifted by the number of erased cells.
LEMMA AdvanceFacts ==
  ASSUME VectorInv, NEW d \in Data, NEW b \in Nat,
         begin \in SeqNos,
         b \in begin + 1 .. (IF end > begin THEN end ELSE begin + 1),
         \A s \in begin + 1 .. b - 1 : Stored(s),
         Advance(b)
  PROVE  /\ begin' = b
         /\ end' = IF b > end THEN b ELSE end
         /\ offset' \in Nat /\ size' \in Nat
         /\ offset' <= b /\ b <= end'
         /\ b < end' => end' = end /\ end' - offset' <= size'
         /\ flag' \in [Cells' -> BOOLEAN]
         /\ data' \in [Cells' -> Event]
         /\ b = end' => \A i \in Cells' : ~ flag'[i]
         /\ b < end' => \A i \in Cells' :
              /\ i + (offset' - offset) \in Cells
              /\ data'[i] = data[i + (offset' - offset)]
              /\ flag'[i] = (/\ flag[i + (offset' - offset)]
                             /\ ~ (i + offset' \in begin + 1 .. b - 1))
<1> DEFINE e == IF b > end THEN b ELSE end
           o == IF b = e THEN b ELSE offset
           drop == Drop(b, o)
<1>1. /\ offset \in Nat /\ begin \in Nat /\ end \in Nat /\ size \in Nat
      /\ offset <= begin /\ begin <= end
      /\ begin < end => end - offset <= size
      /\ flag \in [Cells -> BOOLEAN] /\ data \in [Cells -> Event]
  BY DEF VectorInv, VectorTypeOK, MarksAreWaiting
<1>2. /\ begin' = b /\ end' = e /\ offset' = o + drop /\ size' = size - drop
      /\ flag' = [i \in 0 .. size - drop - 1 |->
                    flag[i + drop] /\ ~ WasRun(i + drop, b)]
      /\ data' = [i \in 0 .. size - drop - 1 |-> data[i + drop]]
  BY Zenon DEF Advance
<1>3. e \in Nat /\ o \in Nat /\ b <= e /\ o <= b
  BY <1>1
<1>4. b < e => e = end /\ o = offset /\ end - offset <= size
  BY <1>1
<1>5. drop \in Nat /\ drop <= b - o
  BY <1>1, <1>3, CompactMinAssumption DEF Drop
<1>6. b = e => drop = 0
  BY <1>1, <1>3, CompactMinAssumption DEF Drop
<1> HIDE DEF e, o, drop
<1>7. drop <= size
  BY <1>1, <1>3, <1>4, <1>5, <1>6
<1>8. Cells' = 0 .. size - drop - 1
  BY <1>2 DEF Cells
<1>9. \A i \in Cells' : i + drop \in Cells
  <2>1. \A i \in 0 .. size - drop - 1 : i + drop \in 0 .. size - 1
    BY <1>1, <1>5, <1>7
  <2> QED
    BY <1>8, <2>1 DEF Cells
<1>10. flag' \in [Cells' -> BOOLEAN] /\ data' \in [Cells' -> Event]
  BY <1>1, <1>2, <1>8, <1>9
<1>11. ASSUME b = e, NEW i \in Cells' PROVE ~ flag'[i]
  <2>1. flag'[i] = (flag[i] /\ ~ WasRun(i, b)) /\ i \in Cells /\ i \in Nat
    BY <1>1, <1>2, <1>6, <1>8, <1>9, <1>11 DEF Cells
  <2>2. SUFFICES ASSUME flag[i] PROVE WasRun(i, b)
    BY <2>1
  <2>3. i + offset \in begin + 1 .. end - 1
    BY <2>1, <2>2 DEF VectorInv, MarksAreWaiting
  <2>4. b >= end
    BY <1>1, <1>11 DEF e
  <2> QED
    BY <1>1, <2>1, <2>3, <2>4 DEF WasRun
<1>12. ASSUME b < e, NEW i \in Cells'
       PROVE  /\ i + (offset' - offset) \in Cells
              /\ data'[i] = data[i + (offset' - offset)]
              /\ flag'[i] = (/\ flag[i + (offset' - offset)]
                             /\ ~ (i + offset' \in begin + 1 .. b - 1))
  <2>1. offset' - offset = drop
    BY <1>1, <1>2, <1>4, <1>5, <1>12
  <2>2. i + drop + offset = i + offset'
    BY <1>1, <1>2, <1>4, <1>5, <1>7, <1>8, <1>12
  <2>3. /\ data'[i] = data[i + drop]
        /\ flag'[i] = (flag[i + drop] /\ ~ WasRun(i + drop, b))
    BY <1>2, <1>8
  <2> QED
    BY <1>9, <2>1, <2>2, <2>3 DEF WasRun
<1>13. /\ offset' \in Nat /\ size' \in Nat /\ offset' <= b
       /\ b < e => e = end /\ e - offset' <= size'
  BY <1>1, <1>2, <1>3, <1>4, <1>5, <1>7
<1>14. end' = IF b > end THEN b ELSE end
  BY <1>2 DEF e
<1> QED
  BY <1>2, <1>3, <1>10, <1>11, <1>12, <1>13, <1>14

\* add() of the number begin_ preserves the invariant.
LEMMA RunNowInv ==
  ASSUME VectorInv, NEW d \in Data, begin \in SeqNos,
         given[begin] = NoData,
         given' = [given EXCEPT ![begin] = d],
         RunNow(d), base' = base
  PROVE  VectorInv'
<1>1. PICK b \in Nat :
        /\ b \in begin + 1 .. (IF end > begin THEN end ELSE begin + 1)
        /\ ~ Stored(b)
        /\ \A s \in begin + 1 .. b - 1 : Stored(s)
        /\ out' = out \o Calls(d, b)
        /\ Advance(b)
  BY DEF RunNow, VectorInv, VectorTypeOK
<1>2. b \in Nat /\ begin < b
  BY <1>1 DEF VectorInv, VectorTypeOK
<1>3. out' \in Seq(Call) /\ b = base + Len(out') /\ InOrder'
  BY <1>1, <1>2, RunNowOrder
<1>4. /\ begin' = b
      /\ end' = IF b > end THEN b ELSE end
      /\ offset' \in Nat /\ size' \in Nat
      /\ offset' <= b /\ b <= end'
      /\ b < end' => end' = end /\ end' - offset' <= size'
      /\ flag' \in [Cells' -> BOOLEAN]
      /\ data' \in [Cells' -> Event]
      /\ b = end' => \A i \in Cells' : ~ flag'[i]
      /\ b < end' => \A i \in Cells' :
           /\ i + (offset' - offset) \in Cells
           /\ data'[i] = data[i + (offset' - offset)]
           /\ flag'[i] = (/\ flag[i + (offset' - offset)]
                          /\ ~ (i + offset' \in begin + 1 .. b - 1))
  BY <1>1, <1>2, AdvanceFacts
<1>5. /\ offset \in Nat /\ begin \in Nat /\ end \in Nat /\ size \in Nat
      /\ offset <= begin /\ begin <= end /\ end' \in Nat
      /\ offset' \in Nat /\ size' \in Nat /\ offset' <= b /\ b <= end'
      /\ b < end' => end' = end /\ end' - offset' <= size'
      /\ end' = IF b > end THEN b ELSE end
  <2>1. /\ offset \in Nat /\ begin \in Nat /\ end \in Nat /\ size \in Nat
        /\ offset <= begin /\ begin <= end
    BY DEF VectorInv, VectorTypeOK, MarksAreWaiting
  <2>2. end' \in Nat
    BY <1>2, <1>4, <2>1
  <2> QED
    BY <1>4, <2>1, <2>2
\* The provers do better with names for the primed numbers.
<1>o. PICK o1 \in Nat : o1 = offset'
  BY <1>5
<1>n. PICK n1 \in Nat : n1 = size'
  BY <1>5
<1>e. PICK e1 \in Nat : e1 = end'
  BY <1>5
<1>51. /\ offset \in Nat /\ begin \in Nat /\ end \in Nat /\ size \in Nat
       /\ offset <= begin /\ begin <= end /\ o1 <= b /\ b <= e1
       /\ b < e1 => e1 = end /\ e1 - o1 <= n1
       /\ e1 = IF b > end THEN b ELSE end
  BY <1>5, <1>o, <1>n, <1>e
<1>6. /\ given' \in [SeqNos -> Event]
      /\ \A s \in SeqNos : s # begin => given'[s] = given[s]
  BY DEF VectorInv, VectorTypeOK, Event
<1>7. ASSUME NEW s \in Nat, s \in SeqNos, s >= b, given'[s] # NoData
      PROVE  s > b /\ s < end' /\ s - offset' < size' /\ flag'[s - offset'] /\ b < end'
  <2>1. given[s] # NoData /\ s > begin /\ s \in Nat
    BY <1>2, <1>5, <1>6, <1>7 DEF SeqNos
  <2>2. s < end /\ s - offset < size /\ flag[s - offset]
    <3>1. s >= begin
      BY <1>51, <2>1
    <3> QED
      BY <3>1, <2>1, <1>7 DEF VectorInv, MarksAreWaiting
  <2>3. s # b
    BY <1>1, <2>2 DEF Stored
  <2>4. b < e1 /\ e1 = end
    BY <1>51, <1>7, <2>2
  <2> DEFINE j == s - o1
  <2>5. o1 <= s /\ s < e1 /\ e1 - o1 <= n1 /\ s > b
    BY <1>51, <1>7, <2>2, <2>3, <2>4
  <2>6. /\ j \in 0 .. n1 - 1 /\ j < n1
        /\ j + (o1 - offset) = s - offset /\ j + o1 = s
    BY <1>51, <2>5
  <2>7. ~ (s \in begin + 1 .. b - 1)
    BY <1>51, <1>7
  <2> HIDE DEF j
  <2>8. j \in Cells'
    BY <1>n, <2>6 DEF Cells
  <2>9. flag'[j] = (/\ flag[j + (o1 - offset)]
                    /\ ~ (j + o1 \in begin + 1 .. b - 1))
    BY <1>4, <1>o, <1>e, <2>4, <2>8
  <2>10. flag'[j]
    BY <2>2, <2>6, <2>7, <2>9
  <2> QED
    BY <1>o, <1>n, <1>e, <2>4, <2>5, <2>6, <2>10 DEF j
<1>8. ASSUME NEW i \in Cells', flag'[i]
      PROVE  /\ i + offset' \in b + 1 .. end' - 1
             /\ i + offset' \in SeqNos
             /\ data'[i] = given'[i + offset']
             /\ data'[i] # NoData
  <2>1. b < e1 /\ e1 = end
    BY <1>4, <1>e, <1>51, <1>8
  <2> DEFINE k == i + (o1 - offset)
             s == i + o1
  <2>2. k \in Cells /\ k + offset = s /\ s \in Int
    <3>1. i \in Int
      BY <1>5 DEF Cells
    <3>2. k + offset = s /\ s \in Int
      BY <1>51, <3>1
    <3>3. k \in Cells
      BY <1>4, <1>o, <1>e, <2>1
    <3> QED
      BY <3>2, <3>3
  <2>3. flag[k] /\ data'[i] = data[k] /\ ~ (s \in begin + 1 .. b - 1)
    BY <1>4, <1>8, <1>o, <1>e, <2>1
  <2> HIDE DEF k, s
  <2>4. /\ s \in begin + 1 .. end - 1 /\ s \in SeqNos
        /\ data[k] = given[s] /\ data[k] # NoData
    BY <2>2, <2>3 DEF VectorInv, MarksAreWaiting
  <2>5. s # b
    <3>1. k = s - offset
      BY <1>51, <2>2 DEF Cells
    <3> QED
      BY <1>1, <2>1, <2>3, <3>1 DEF Stored
  <2>6. s \in b + 1 .. e1 - 1
    BY <1>51, <2>1, <2>2, <2>3, <2>4, <2>5
  <2>7. given'[s] = given[s]
    BY <1>5, <1>6, <2>4
  <2> QED
    BY <1>o, <1>e, <2>3, <2>4, <2>6, <2>7 DEF s
<1>9. b \in SeqNos => given'[b] = NoData
  <2>1. b >= b /\ ~ (b > b)
    BY <1>2
  <2> QED
    BY <2>1, <1>7
<1>10. MarksAreWaiting'
  <2>1. \A s \in SeqNos : s \in Nat
    BY SeqNoAssumption DEF SeqNos
  <2> QED
    BY <1>4, <1>7, <1>8, <2>1 DEF MarksAreWaiting
<1>11. VectorTypeOK'
  BY <1>2, <1>3, <1>4, <1>5, <1>6 DEF VectorTypeOK, VectorInv
<1>12. NothingHeldBack'
  BY <1>3, <1>4, <1>9 DEF NothingHeldBack
<1> QED
  BY <1>3, <1>10, <1>11, <1>12 DEF VectorInv

\* add() of a later number preserves the invariant: the vector only grows,
\* and the new cell is outside the finished ones.
LEMMA KeepInv ==
  ASSUME VectorInv, NEW d \in Data, NEW n \in Nat, n \in SeqNos, n > begin,
         given[n] = NoData,
         given' = [given EXCEPT ![n] = d],
         Keep(n, d), base' = base
  PROVE  VectorInv'
<1> DEFINE pos == n - offset
           need == IF size < pos + 1 THEN pos + 1 ELSE size
<1>1. /\ offset \in Nat /\ begin \in Nat /\ end \in Nat /\ size \in Nat
      /\ offset <= begin /\ begin <= end
      /\ begin < end => end - offset <= size
      /\ flag \in [0 .. size - 1 -> BOOLEAN] /\ data \in [0 .. size - 1 -> Event]
  BY DEF VectorInv, VectorTypeOK, MarksAreWaiting, Cells
<1>2. /\ size' = need
      /\ flag' = [i \in 0 .. need - 1 |-> i = pos \/ (i < size /\ flag[i])]
      /\ data' = [i \in 0 .. need - 1 |->
                    IF i = pos THEN d ELSE IF i < size THEN data[i] ELSE NoData]
      /\ end' = IF end < n + 1 THEN n + 1 ELSE end
      /\ offset' = offset /\ begin' = begin /\ out' = out
  BY DEF Keep
<1>3. /\ pos \in Nat /\ need \in Nat /\ pos < need /\ size <= need
      /\ pos + offset = n
  BY <1>1
<1>e. PICK e1 \in Nat : e1 = IF end < n + 1 THEN n + 1 ELSE end
  BY <1>1
<1>4. end' = e1 /\ begin <= e1 /\ end <= e1 /\ n < e1 /\ e1 - offset <= need
  BY <1>1, <1>2, <1>e
<1> HIDE DEF pos, need
<1>5. Cells' = 0 .. need - 1 /\ Cells = 0 .. size - 1
  BY <1>2 DEF Cells
<1>6. /\ given' \in [SeqNos -> Event] /\ given'[n] = d
      /\ \A s \in SeqNos : s # n => given'[s] = given[s]
  BY DEF VectorInv, VectorTypeOK, Event
<1>7. flag' \in [Cells' -> BOOLEAN] /\ data' \in [Cells' -> Event]
  <2>1. ASSUME NEW i \in 0 .. need - 1
        PROVE  (IF i = pos THEN d ELSE IF i < size THEN data[i] ELSE NoData) \in Event
    <3>1. i < size => i \in 0 .. size - 1
      BY <1>1, <1>3
    <3> QED
      BY <1>1, <3>1 DEF Event
  <2>2. ASSUME NEW i \in 0 .. need - 1
        PROVE  (i = pos \/ (i < size /\ flag[i])) \in BOOLEAN
    OBVIOUS
  <2> QED
    BY <1>2, <1>5, <2>1, <2>2
<1>8. ASSUME NEW i \in Cells', flag'[i]
      PROVE  /\ i + offset' \in begin' + 1 .. end' - 1
             /\ i + offset' \in SeqNos
             /\ data'[i] = given'[i + offset']
             /\ data'[i] # NoData
  <2>1. i \in 0 .. need - 1 /\ (i = pos \/ (i < size /\ flag[i]))
    BY <1>2, <1>5, <1>8
  <2>2. CASE i = pos
    <3>1. i + offset = n /\ n \in begin + 1 .. e1 - 1
      BY <1>1, <1>3, <1>4, <2>2
    <3>2. data'[i] = d
      BY <1>2, <2>1, <2>2
    <3> QED
      BY <1>2, <1>4, <1>6, <3>1, <3>2, DataAssumption
  <2>3. CASE i # pos
    <3>1. i \in Cells /\ flag[i]
      BY <1>1, <1>3, <1>5, <2>1, <2>3
    <3>2. /\ i + offset \in begin + 1 .. end - 1
          /\ i + offset \in SeqNos
          /\ data[i] = given[i + offset]
          /\ data[i] # NoData
      BY <3>1 DEF VectorInv, MarksAreWaiting
    <3>3. i + offset \in begin + 1 .. e1 - 1 /\ i + offset # n
      BY <1>1, <1>3, <1>4, <2>1, <2>3, <3>2
    <3>4. data'[i] = data[i]
      BY <1>2, <2>1, <2>3
    <3> QED
      BY <1>2, <1>4, <1>6, <3>2, <3>3, <3>4
  <2> QED
    BY <2>2, <2>3
<1>9. ASSUME NEW s \in Nat, s \in SeqNos, s >= begin, given'[s] # NoData
      PROVE  s < e1 /\ s - offset < need /\ flag'[s - offset]
  <2>1. CASE s = n
    <3>1. s - offset = pos /\ pos \in 0 .. need - 1
      BY <1>1, <1>3, <2>1 DEF pos
    <3> QED
      BY <1>2, <1>3, <1>4, <2>1, <3>1
  <2>2. CASE s # n
    <3>1. given[s] # NoData
      BY <1>6, <1>9, <2>2
    <3>2. s < end /\ s - offset < size /\ flag[s - offset]
      BY <1>9, <3>1 DEF VectorInv, MarksAreWaiting
    <3>3. s < e1 /\ s - offset < need /\ s - offset \in 0 .. need - 1
      BY <1>1, <1>3, <1>4, <1>9, <3>2
    <3> QED
      BY <1>2, <3>2, <3>3
  <2> QED
    BY <2>1, <2>2
<1>10. MarksAreWaiting'
  <2>1. \A s \in SeqNos : s \in Nat
    BY SeqNoAssumption DEF SeqNos
  <2>2. offset <= begin /\ begin <= e1 /\ e1 - offset <= need
    BY <1>1, <1>4
  <2>3. /\ offset' <= begin' /\ begin' <= end'
        /\ begin' < end' => end' - offset' <= size'
    BY <1>2, <1>4, <2>2
  <2>4. \A s \in SeqNos : s >= begin' /\ given'[s] # NoData =>
          s < end' /\ s - offset' < size' /\ flag'[s - offset']
    BY <1>2, <1>4, <1>9, <2>1
  <2> QED
    BY <1>8, <2>3, <2>4 DEF MarksAreWaiting
<1>11. VectorTypeOK'
  BY <1>1, <1>2, <1>3, <1>4, <1>6, <1>7 DEF VectorTypeOK, VectorInv
<1>12. InOrder' /\ NothingHeldBack'
  <2>1. begin # n
    BY <1>1
  <2>2. ASSUME NEW i \in 1 .. Len(out)
        PROVE  base + i - 1 # n /\ base + i - 1 \in SeqNos
    <3>1. base + Len(out) = begin /\ Len(out) \in Nat /\ base \in Nat
      BY SeqNoAssumption DEF VectorInv, NothingHeldBack, VectorTypeOK, DefaultSeqNo
    <3>2. base + i - 1 # n
      BY <1>1, <3>1
    <3> QED
      BY <3>2 DEF VectorInv, InOrder
  <2>3. InOrder'
    BY <1>2, <1>6, <2>2 DEF VectorInv, InOrder
  <2> QED
    BY <1>2, <1>6, <2>1, <2>3 DEF VectorInv, NothingHeldBack
<1> QED
  BY <1>10, <1>11, <1>12 DEF VectorInv

\* clear() starts over.
LEMMA StartInv ==
  ASSUME NEW first \in {FirstSeqNo, DefaultSeqNo}, StartAt(first)
  PROVE  VectorInv'
<1>1. first \in Nat
  BY SeqNoAssumption DEF DefaultSeqNo
<1>2. /\ offset' = first /\ begin' = first /\ end' = first /\ size' = 0
      /\ flag' = << >> /\ data' = << >> /\ base' = first /\ out' = << >>
      /\ given' = [s \in SeqNos |-> NoData]
  BY DEF StartAt
<1>3. Cells' = {}
  BY <1>2 DEF Cells
<1>4. << >> \in [{} -> BOOLEAN] /\ << >> \in [{} -> Event]
  OBVIOUS
<1>5. VectorTypeOK'
  BY <1>1, <1>2, <1>3, <1>4 DEF VectorTypeOK, Event
<1>6. MarksAreWaiting'
  BY <1>1, <1>2, <1>3 DEF MarksAreWaiting
<1>7. InOrder' /\ NothingHeldBack'
  BY <1>1, <1>2 DEF InOrder, NothingHeldBack
<1> QED
  BY <1>5, <1>6, <1>7 DEF VectorInv

\* The invariant holds initially ...
LEMMA VectorInitInv == VectorInit => VectorInv
<1> SUFFICES ASSUME VectorInit PROVE VectorInv
  OBVIOUS
<1>1. Cells = {}
  BY DEF VectorInit, Cells
<1>2. << >> \in [{} -> BOOLEAN] /\ << >> \in [{} -> Event]
  OBVIOUS
<1>3. VectorTypeOK
  BY <1>1, <1>2, SeqNoAssumption DEF VectorInit, VectorTypeOK, Event
<1>4. MarksAreWaiting
  BY <1>1, SeqNoAssumption DEF VectorInit, MarksAreWaiting
<1>5. InOrder /\ NothingHeldBack
  BY SeqNoAssumption DEF VectorInit, InOrder, NothingHeldBack
<1> QED
  BY <1>3, <1>4, <1>5 DEF VectorInv

\* ... and every step preserves it.
LEMMA VectorNextInv == VectorInv /\ [VectorNext]_vector_vars => VectorInv'
<1> SUFFICES ASSUME VectorInv, [VectorNext]_vector_vars PROVE VectorInv'
  OBVIOUS
<1>1. ASSUME NEW s \in SeqNos, NEW d \in Data, given[s] = NoData, Add(s, d)
      PROVE  VectorInv'
  <2>1. s \in Nat /\ begin \in Nat
    BY SeqNoAssumption DEF SeqNos, VectorInv, VectorTypeOK
  <2>2. CASE s = begin /\ RunNow(d)
    BY <1>1, <2>2, RunNowInv DEF Add
  <2>3. CASE s # begin /\ Keep(s, d)
    <3>1. s > begin
      BY <1>1, <2>1, <2>3 DEF Add
    <3> QED
      BY <1>1, <2>1, <2>3, <3>1, KeepInv DEF Add
  <2> QED
    BY <1>1, <2>2, <2>3 DEF Add
<1>2. CASE Clear
  BY <1>2, StartInv DEF Clear
<1>3. CASE UNCHANGED vector_vars
  BY <1>3 DEF vector_vars, array, VectorInv, VectorTypeOK, InOrder, NothingHeldBack,
              MarksAreWaiting, Cells
<1> QED
  BY <1>1, <1>2, <1>3 DEF VectorNext

\* For every set of events and every bound: whatever the order of the calls
\* of add(), the callback sees consecutive numbers, each with its own event
\* (InOrder), and no event is held back without a missing predecessor
\* (NothingHeldBack); the accesses to the vector stay inside it.
THEOREM ProcessorCorrect ==
  VectorSpec => [](VectorTypeOK /\ InOrder /\ NothingHeldBack /\ MarksAreWaiting)
BY VectorInitInv, VectorNextInv, PTL DEF VectorSpec, VectorInv

-----------------------------------------------------------------------------

\* The marked cells are those of the numbers that were given and not run, and
\* hold what was given.
LEMMA MarkedNumbers ==
  ASSUME VectorInv
  PROVE  /\ Marked = {n \in SeqNos : n >= begin /\ given[n] # NoData}
         /\ \A s \in Marked : data[s - offset] = given[s]
<1> DEFINE W == {n \in SeqNos : n >= begin /\ given[n] # NoData}
<1>1. offset \in Nat /\ begin \in Nat /\ size \in Nat /\ end \in Nat
  BY DEF VectorInv, VectorTypeOK
<1>2. ASSUME NEW i \in Cells, flag[i]
      PROVE  /\ i + offset \in W
             /\ data[(i + offset) - offset] = given[i + offset]
  <2>1. /\ i + offset \in begin + 1 .. end - 1 /\ i + offset \in SeqNos
        /\ data[i] = given[i + offset] /\ data[i] # NoData
    BY <1>2 DEF VectorInv, MarksAreWaiting
  <2>2. (i + offset) - offset = i /\ i + offset >= begin
    BY <1>1, <2>1 DEF Cells
  <2> QED
    BY <2>1, <2>2
<1>3. ASSUME NEW s \in W PROVE s \in Marked
  <2>1. s \in Nat
    BY SeqNoAssumption DEF SeqNos
  <2>2. s - offset < size /\ flag[s - offset] /\ s >= begin /\ offset <= begin
    BY DEF VectorInv, MarksAreWaiting
  <2>3. s - offset \in Cells /\ s = (s - offset) + offset
    BY <1>1, <2>1, <2>2 DEF Cells
  <2> QED
    BY <2>2, <2>3 DEF Marked
<1>4. Marked = W
  BY <1>2, <1>3 DEF Marked
<1>5. \A s \in Marked : data[s - offset] = given[s]
  BY <1>2 DEF Marked
<1> QED
  BY <1>4, <1>5

\* The same after a step.
LEMMA MarkedNumbersNext ==
  VectorInv' => (Marked = {n \in SeqNos : n >= begin /\ given[n] # NoData})'
<1>1. VectorInv => Marked = {n \in SeqNos : n >= begin /\ given[n] # NoData}
  BY MarkedNumbers
<1> QED
  BY <1>1, PTL

\* clear() hands over every event that was added and not run, and no other:
\* the marked cells are those of the waiting numbers.
THEOREM ClearCorrect == VectorSpec => ClearReleasesWaiting
<1>1. ASSUME VectorInv, Clear
      PROVE  released' = [s \in {n \in SeqNos : n >= begin /\ given[n] # NoData} |->
                            given[s]]
  BY <1>1, MarkedNumbers DEF Clear
<1>2. VectorSpec => []VectorInv
  BY ProcessorCorrect, PTL DEF VectorInv
<1> QED
  BY <1>1, <1>2, PTL DEF VectorSpec, ClearReleasesWaiting

\* An add() is a step of the abstract specification.
LEMMA AddDelivers ==
  ASSUME VectorInv, VectorInv', NEW n \in Nat, n \in SeqNos, NEW d \in Data,
         given[n] = NoData, Add(n, d)
  PROVE  Delivery!Add(n)
<1> DEFINE W == {m \in SeqNos : m >= begin /\ given[m] # NoData}
<1>1. begin \in Nat /\ begin' \in Nat /\ \A s \in SeqNos : s \in Nat
  BY SeqNoAssumption DEF VectorInv, VectorTypeOK, SeqNos
<1>2. Marked = W
  BY MarkedNumbers
<1>3. Marked' = {m \in SeqNos : m >= begin' /\ given'[m] # NoData}
  BY MarkedNumbersNext DEF SeqNos
<1>4. /\ given'[n] = d /\ d # NoData /\ n >= begin
      /\ \A m \in SeqNos : m # n => given'[m] = given[m]
  BY DataAssumption DEF Add, VectorInv, VectorTypeOK
<1>5. n \notin W
  OBVIOUS
<1>6. PICK b \in Nat : b = begin'
  BY <1>1
<1>7. /\ begin <= b /\ b <= LastSeqNo + 1
      /\ \A m \in begin .. b - 1 : m \in W \cup {n}
      /\ b \notin W \cup {n}
  <2>1. CASE n = begin /\ RunNow(d)
    <3>1. /\ b \in begin + 1 .. (IF end > begin THEN end ELSE begin + 1)
          /\ ~ Stored(b)
          /\ \A s \in begin + 1 .. b - 1 : Stored(s)
      BY <1>6, <2>1 DEF RunNow, Advance
    <3>2. \A s \in begin + 1 .. b - 1 :
             s \in SeqNos /\ given[s] # NoData
      BY <2>1, <3>1, RunNowFacts
    <3>3. begin < b
      BY <1>1, <3>1 DEF VectorInv, VectorTypeOK
    <3>4. b <= LastSeqNo + 1
      <4>1. CASE b = begin + 1
        BY <1>1, <2>1, <4>1, SeqNoAssumption DEF SeqNos
      <4>2. CASE b # begin + 1
        <5>1. b - 1 \in begin + 1 .. b - 1
          BY <1>1, <3>3, <4>2
        <5>2. b - 1 \in SeqNos
          BY <3>2, <5>1
        <5> QED
          BY <5>2, SeqNoAssumption DEF SeqNos
      <4> QED
        BY <4>1, <4>2
    <3>5. ASSUME NEW m \in begin .. b - 1 PROVE m \in W \cup {n}
      <4>1. m = begin \/ m \in begin + 1 .. b - 1
        BY <1>1
      <4>2. m >= begin
        BY <1>1
      <4> QED
        BY <2>1, <3>2, <4>1, <4>2
    <3>6. b \notin W \cup {n}
      <4>1. ASSUME b \in W PROVE FALSE
        BY <3>1, <4>1 DEF VectorInv, MarksAreWaiting, Stored
      <4> QED
        BY <1>1, <2>1, <3>3, <4>1
    <3> QED
      BY <1>1, <3>3, <3>4, <3>5, <3>6
  <2>2. CASE n # begin /\ Keep(n, d)
    <3>1. b = begin
      BY <1>6, <2>2 DEF Keep
    <3>2. begin \notin W
      BY DEF VectorInv, NothingHeldBack
    <3>3. begin <= n /\ n <= LastSeqNo
      BY <1>4, SeqNoAssumption DEF SeqNos
    <3>4. begin .. begin - 1 = {}
      BY <1>1
    <3>5. begin <= LastSeqNo + 1 /\ begin <= begin
      BY <1>1, <3>3, SeqNoAssumption
    <3> QED
      BY <2>2, <3>1, <3>2, <3>4, <3>5
  <2> QED
    BY <2>1, <2>2 DEF Add
<1>8. Marked' = {m \in W \cup {n} : m >= b}
  <2>1. ASSUME NEW m \in SeqNos, m >= b, given'[m] # NoData
        PROVE  m \in W \cup {n}
    <3>1. m \in Nat /\ begin \in Nat /\ begin <= b
      BY <1>1, <1>7
    <3>2. m >= begin
      BY <1>1, <2>1, <3>1
    <3> QED
      BY <1>4, <2>1, <3>2
  <2>2. ASSUME NEW m \in W \cup {n}, m >= b
        PROVE  m \in SeqNos /\ given'[m] # NoData
    BY <1>4
  <2> QED
    BY <1>3, <1>6, <2>1, <2>2
<1>9. b \in begin .. LastSeqNo + 1
  BY <1>1, <1>7, SeqNoAssumption
<1> QED
  BY <1>2, <1>4, <1>5, <1>6, <1>7, <1>8, <1>9 DEF Delivery!Add

\* The class implements in-order delivery, the interface its users rely on.
THEOREM ProcessorImplementsDelivery == VectorSpec => ImplementsDelivery
<1>1. VectorInit => Delivery!Init
  BY DEF VectorInit, Delivery!Init, Marked, Cells
<1>2. ASSUME VectorInv, VectorInv', [VectorNext]_vector_vars
      PROVE  [Delivery!Next]_<<begin, Marked>>
  <2>1. ASSUME NEW s \in SeqNos, NEW d \in Data, given[s] = NoData, Add(s, d)
        PROVE  Delivery!Next
    <3>1. s \in Nat /\ s \in 0 .. LastSeqNo
      BY SeqNoAssumption DEF SeqNos
    <3> QED
      BY <1>2, <2>1, <3>1, AddDelivers DEF Delivery!Next
  <2>2. CASE Clear
    <3>1. Marked' = {}
      BY <2>2 DEF Clear, StartAt, Marked, Cells
    <3>2. begin' = 1
      BY <2>2 DEF Clear, StartAt, DefaultSeqNo
    <3> QED
      BY <3>1, <3>2 DEF Delivery!Next, Delivery!Clear
  <2>3. CASE UNCHANGED vector_vars
    BY <2>3 DEF vector_vars, array, Marked, Cells
  <2> QED
    BY <1>2, <2>1, <2>2, <2>3 DEF VectorNext
<1>3. VectorSpec => []VectorInv
  BY ProcessorCorrect, PTL DEF VectorInv
<1> QED
  BY <1>1, <1>2, <1>3, PTL DEF VectorSpec, ImplementsDelivery, Delivery!Spec

\* The vector, its offset and its marks agree with what was added and handed
\* on, however the vector grows, is compactified or is cleared.
THEOREM VectorIsRight == VectorSpec => []VectorAgrees
<1>1. VectorInv => VectorAgrees
  BY DEF VectorInv, VectorAgrees
<1>2. VectorSpec => []VectorInv
  BY ProcessorCorrect, PTL DEF VectorInv
<1> QED
  BY <1>1, <1>2, PTL
=============================================================================
