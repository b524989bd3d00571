-------------------------- MODULE ConcurrentBinlog --------------------------
(***************************************************************************)
(* td::ConcurrentBinlog and its BinlogActor                                *)
(* (tddb/td/db/binlog/ConcurrentBinlog.{h,cpp}, BinlogInterface.h).        *)
(*                                                                         *)
(* Any thread adds an event in two steps that others may interleave with:  *)
(* it takes a number from an atomic counter, then sends the event to the   *)
(* actor.  The actor reorders the events by number, appends them to the    *)
(* log and answers promises once the log is synced.  Syncs are batched     *)
(* behind one timer: 30 s for a lazy sync, 3 ms for a forced one; a flush  *)
(* waits for 1 ms on the same timer.                                       *)
(*                                                                         *)
(* The Binlog under the actor is reduced to where the effect of an event   *)
(* is: in the process (buffer), given to the operating system (cache) or   *)
(* synced (disk).                                                          *)
(***************************************************************************)
EXTENDS Integers, Sequences

CONSTANTS
  Threads,      \* the threads that use the log
  FirstId,      \* peek_next_id() of the opened Binlog
  LastId,       \* bound: the last number a thread takes
  MaxForce,     \* bound: calls of force_sync
  MaxControl,   \* bound: calls of force_flush and change_key
  Contents      \* the kinds of events: payload says that raw_event is not
                \* empty, promise that there is a promise to answer

ASSUME IdAssumption == FirstId \in Nat \ {0} /\ LastId \in Nat
ASSUME BoundAssumption == MaxForce \in Nat /\ MaxControl \in Nat
ASSUME ContentsAssumption ==
  Contents \subseteq [payload : BOOLEAN, promise : BOOLEAN]

VARIABLES
  last_id_,         \* ConcurrentBinlog::last_id_, the atomic counter
  held,             \* held[t]: numbers t took and did not send yet
  event,            \* event[n]: the content of number n, once sent
  inbox,            \* inbox[t]: messages of t the actor did not get yet
  forced, controls, \* calls of force_sync, of force_flush and change_key
  closing,          \* binlog_actor_ was given up by close or close_and_destroy
  state,            \* of the actor and its file
  next, waiting,    \* processor_
  immediate_sync_promises_,
  sync_promises_,
  force_sync_flag_, lazy_sync_flag_, flush_flag_,
  timer,            \* wakeup_at_ # 0: a timeout is set
  binlog,           \* binlog_
  cover,            \* history: the events the caller of a promise relies on
  answered,         \* promises that got a value
  lost              \* promises destroyed without one

users == <<last_id_, held, event, forced, controls, closing, cover>>
processor == <<next, waiting>>
timers == <<force_sync_flag_, lazy_sync_flag_, flush_flag_, timer>>
promises == <<immediate_sync_promises_, sync_promises_, answered, lost>>
vars == <<users, inbox, state, processor, timers, promises, binlog>>

Ids == FirstId .. LastId

\* A promise is named by the number of its event or, for force_sync, by the
\* negative count of the call.
ForceKeys == -MaxForce .. -1
Keys == ForceKeys \cup Ids

\* Of a number that was not sent yet.
NoContent == [payload |-> FALSE, promise |-> FALSE]

\* id is the number of an add_raw_event, the promise of a force_sync, or 0.
Ops == {"add_raw_event", "force_sync", "force_flush", "change_key",
        "close", "close_and_destroy"}
Message == [op : Ops, id : Keys \cup {0}]

Binlogs == [buffer : SUBSET Ids, cache : SUBSET Ids, disk : SUBSET Ids,
            need_sync : BOOLEAN, aged : BOOLEAN]

TypeOK ==
  /\ last_id_ \in Nat /\ last_id_ >= FirstId
  /\ held \in [Threads -> SUBSET Ids]
  /\ event \in [Ids -> Contents \cup {NoContent}]
  /\ inbox \in [Threads -> Seq(Message)]
  /\ forced \in 0 .. MaxForce /\ controls \in 0 .. MaxControl
  /\ closing \in BOOLEAN
  /\ state \in {"open", "closed", "destroyed", "crashed"}
  /\ next \in Nat /\ next >= FirstId
  /\ waiting \subseteq Ids
  /\ immediate_sync_promises_ \subseteq [seq_no : Ids, promise : ForceKeys]
  /\ sync_promises_ \subseteq Keys
  /\ force_sync_flag_ \in BOOLEAN /\ lazy_sync_flag_ \in BOOLEAN
  /\ flush_flag_ \in BOOLEAN /\ timer \in BOOLEAN
  /\ binlog \in Binlogs
  /\ cover \in [Keys -> SUBSET Ids]
  /\ answered \subseteq Keys /\ lost \subseteq Keys

Init ==
  /\ last_id_ = FirstId
  /\ held = [t \in Threads |-> {}]
  /\ event = [n \in Ids |-> NoContent]
  /\ inbox = [t \in Threads |-> << >>]
  /\ forced = 0 /\ controls = 0
  /\ closing = FALSE
  /\ state = "open"
  /\ next = FirstId /\ waiting = {}
  /\ immediate_sync_promises_ = {} /\ sync_promises_ = {}
  /\ force_sync_flag_ = FALSE /\ lazy_sync_flag_ = FALSE
  /\ flush_flag_ = FALSE /\ timer = FALSE
  /\ binlog = [buffer |-> {}, cache |-> {}, disk |-> {},
               need_sync |-> FALSE, aged |-> FALSE]
  /\ cover = [k \in Keys |-> {}]
  /\ answered = {} /\ lost = {}

-----------------------------------------------------------------------------
(* The Binlog, seen from the actor.  aged: need_flush_since_ is more than  *)
(* FLUSH_TIMEOUT ago.                                                      *)

\* Binlog::flush
Flush(b) ==
  [b EXCEPT !.cache = @ \cup b.buffer, !.buffer = {}, !.aged = FALSE,
            !.need_sync = @ \/ b.buffer # {}]

\* Mutant of Sync: need_sync_ is read before flush() sets it.
Sync_StaleFlag(b) ==
  LET f == Flush(b)
  IN IF b.need_sync
       THEN [f EXCEPT !.disk = @ \cup f.cache, !.cache = {}, !.need_sync = FALSE]
       ELSE f

\* Binlog::sync: fsync only when something was written since the last one.
Sync(b) ==
  LET f == Flush(b)
  IN IF f.need_sync
       THEN [f EXCEPT !.disk = @ \cup f.cache, !.cache = {}, !.need_sync = FALSE]
       ELSE f

\* Binlog::do_reindex: a synced file with the effect of every event so far.
Reindex(b) ==
  [buffer |-> {}, cache |-> {}, disk |-> b.disk \cup b.cache \cup b.buffer,
   need_sync |-> FALSE, aged |-> FALSE]

\* Mutant of Appended: the new file gets the new events only.
Appended_ReindexLoses(b, new, r, f) ==
  LET all == b.buffer \cup new
      disk == b.disk \cup {m \in new : m <= r}
      cache == (b.cache \cup {m \in all : m <= f}) \ disk
  IN [buffer |-> all \ (cache \cup disk), cache |-> cache, disk |-> disk,
      need_sync |-> f > r \/ (r = 0 /\ b.need_sync),
      aged |-> b.aged /\ r = 0 /\ f = 0]

\* Binlog::add_raw_event for the numbers new, in order.  Depending on sizes
\* lazy_flush flushes and add_event reindexes: r and f are the last numbers
\* at which they do, 0 for never.
Appended(b, new, r, f) ==
  LET all == b.buffer \cup new
      disk == b.disk \cup {m \in b.cache \cup all : m <= r}
      cache == (b.cache \cup {m \in all : m <= f}) \ disk
  IN [buffer |-> all \ (cache \cup disk), cache |-> cache, disk |-> disk,
      need_sync |-> f > r \/ (r = 0 /\ b.need_sync),
      aged |-> b.aged /\ r = 0 /\ f = 0]

-----------------------------------------------------------------------------
(* The users' threads.                                                     *)

\* The process runs, and nobody gave up binlog_actor_.
Running == state = "open" /\ ~ closing

\* next_id()
TakeId(t) ==
  /\ Running
  /\ last_id_ <= LastId
  /\ held' = [held EXCEPT ![t] = @ \cup {last_id_}]
  /\ last_id_' = last_id_ + 1
  /\ UNCHANGED <<event, forced, controls, closing, cover, inbox, state,
                 processor, timers, promises, binlog>>

Send(t, op, id) ==
  inbox' = [inbox EXCEPT ![t] = Append(@, [op |-> op, id |-> id])]

\* add, rewrite, erase, lazy_sync: the event with the number n taken before.
\* Whoever waits for its promise relies on all events up to n.
SendEvent(t, n, c) ==
  /\ Running
  /\ n \in held[t]
  /\ held' = [held EXCEPT ![t] = @ \ {n}]
  /\ event' = [event EXCEPT ![n] = c]
  /\ cover' = [cover EXCEPT ![n] = {m \in Ids : m <= n}]
  /\ Send(t, "add_raw_event", n)
  /\ UNCHANGED <<last_id_, forced, controls, closing, state, processor,
                 timers, promises, binlog>>

\* The numbers the actor has got or will get from t before a new message.
SentBy(t) ==
  {n \in Ids : \E i \in DOMAIN inbox[t] :
                 inbox[t][i].op = "add_raw_event" /\ inbox[t][i].id = n}

\* force_sync: the caller relies on what it sent before, and on what the
\* actor has already got from anyone.
ForceSync(t) ==
  /\ Running
  /\ forced < MaxForce
  /\ forced' = forced + 1
  /\ cover' = [cover EXCEPT ![-(forced + 1)] =
                 SentBy(t) \cup waiting \cup {n \in Ids : n < next}]
  /\ Send(t, "force_sync", -(forced + 1))
  /\ UNCHANGED <<last_id_, held, event, controls, closing, state, processor,
                 timers, promises, binlog>>

\* force_flush, change_key
Control(t) ==
  /\ Running
  /\ controls < MaxControl
  /\ controls' = controls + 1
  /\ \E op \in {"force_flush", "change_key"} : Send(t, op, 0)
  /\ UNCHANGED <<last_id_, held, event, forced, closing, cover, state,
                 processor, timers, promises, binlog>>

\* close, close_and_destroy: send_closure(std::move(binlog_actor_), ...)
Close(t) ==
  /\ Running
  /\ closing' = TRUE
  /\ \E op \in {"close", "close_and_destroy"} : Send(t, op, 0)
  /\ UNCHANGED <<last_id_, held, event, forced, controls, cover, state,
                 processor, timers, promises, binlog>>

-----------------------------------------------------------------------------
(* BinlogActor.                                                            *)

Processor == INSTANCE OrderedDelivery WITH First <- FirstId, Limit <- LastId

\* The actor takes the message msg of thread t.
Take(t, op) ==
  /\ state = "open"
  /\ inbox[t] # << >>
  /\ Head(inbox[t]).op = op
  /\ inbox' = [inbox EXCEPT ![t] = Tail(@)]

\* try_flush: flush at once, or set flush_flag_ and the timer unless a forced
\* sync will flush anyway.
FlushNow(b) == b.buffer = {} \/ b.aged

FlushLater(b, forcing) == ~ FlushNow(b) /\ ~ forcing

\* add_raw_event: processor_ hands on the numbers next .. next' - 1.  Each
\* goes to do_add_raw_event if it has a payload and to do_lazy_sync; then
\* flush_immediate_sync and try_flush run.
AddRawEvent(t) ==
  /\ Take(t, "add_raw_event")
  /\ Processor!Add(Head(inbox[t]).id)
  /\ LET batch == next .. next' - 1
         new == {m \in batch : event[m].payload}
         promised == {m \in batch : event[m].promise}
         ready == {e \in immediate_sync_promises_ : e.seq_no <= next' - 1}
         lazy == promised # {} /\ ~ lazy_sync_flag_ /\ ~ force_sync_flag_
         force == ready # {} /\ ~ force_sync_flag_
     IN \E r \in new \cup {0}, f \in new \cup {0} :
          LET b == Appended(binlog, new, r, f)
              later == FlushLater(b, force_sync_flag_ \/ force)
          IN /\ binlog' = IF FlushNow(b) THEN Flush(b) ELSE b
             /\ immediate_sync_promises_' = immediate_sync_promises_ \ ready
             /\ sync_promises_' =
                  sync_promises_ \cup promised \cup {e.promise : e \in ready}
             /\ lazy_sync_flag_' = (lazy_sync_flag_ \/ lazy)
             /\ force_sync_flag_' = (force_sync_flag_ \/ force)
             /\ flush_flag_' = (flush_flag_ \/ later)
             /\ timer' = (timer \/ lazy \/ force \/ later)
  /\ UNCHANGED <<users, state, answered, lost>>

\* Mutant of DoImmediateSync: wakeup_after is missing.
DoImmediateSync_NoTimer(promise) ==
  /\ sync_promises_' = sync_promises_ \cup {promise}
  /\ force_sync_flag_' = TRUE
  /\ UNCHANGED <<timer, immediate_sync_promises_>>

\* do_immediate_sync(promise)
DoImmediateSync(promise) ==
  /\ sync_promises_' = sync_promises_ \cup {promise}
  /\ force_sync_flag_' = TRUE
  /\ timer' = (timer \/ ~ force_sync_flag_)
  /\ UNCHANGED immediate_sync_promises_

\* Mutant of SyncLater: end_ where end_ - 1 is meant.
SyncLater_PastEnd(promise) ==
  \E seq_no \in waiting :
    /\ \A m \in waiting : m <= seq_no
    /\ immediate_sync_promises_' = immediate_sync_promises_
         \cup {[seq_no |-> seq_no + 1, promise |-> promise]}
    /\ UNCHANGED <<sync_promises_, force_sync_flag_, timer>>

\* force_sync when events wait for a missing number: the promise waits for
\* the largest of them, max_unfinished_seq_no().
SyncLater(promise) ==
  \E seq_no \in waiting :
    /\ \A m \in waiting : m <= seq_no
    /\ immediate_sync_promises_' =
         immediate_sync_promises_ \cup {[seq_no |-> seq_no, promise |-> promise]}
    /\ UNCHANGED <<sync_promises_, force_sync_flag_, timer>>

HandleForceSync(t) ==
  /\ Take(t, "force_sync")
  /\ LET promise == Head(inbox[t]).id
     IN \/ waiting = {} /\ DoImmediateSync(promise)
        \/ waiting # {} /\ SyncLater(promise)
  /\ UNCHANGED <<users, state, processor, lazy_sync_flag_, flush_flag_,
                 answered, lost, binlog>>

HandleForceFlush(t) ==
  /\ Take(t, "force_flush")
  /\ binlog' = Flush(binlog)
  /\ flush_flag_' = FALSE
  /\ UNCHANGED <<users, state, processor, force_sync_flag_, lazy_sync_flag_,
                 timer, promises>>

\* change_key: do_reindex gives up, with a message in the log only, when it
\* cannot open the new file.
HandleChangeKey(t) ==
  /\ Take(t, "change_key")
  /\ binlog' \in {Reindex(binlog), binlog}
  /\ UNCHANGED <<users, state, processor, timers, promises>>

ActorGone ==
  /\ waiting' = {}
  /\ immediate_sync_promises_' = {} /\ sync_promises_' = {}
  /\ force_sync_flag_' = FALSE /\ lazy_sync_flag_' = FALSE
  /\ flush_flag_' = FALSE /\ timer' = FALSE
  /\ UNCHANGED next

\* stop(): the actor is destroyed with the promises it holds.
Stop ==
  /\ lost' = lost \cup sync_promises_
                  \cup {e.promise : e \in immediate_sync_promises_}
                  \cup {n \in waiting : event[n].promise}
  /\ ActorGone
  /\ UNCHANGED <<users, answered>>

\* Mutant of HandleClose: close(false).
HandleClose_NoSync(t) ==
  /\ Take(t, "close")
  /\ binlog' = Flush(binlog)
  /\ state' = "closed"
  /\ Stop

HandleClose(t) ==
  /\ Take(t, "close")
  /\ binlog' = Sync(binlog)
  /\ state' = "closed"
  /\ Stop

HandleCloseAndDestroy(t) ==
  /\ Take(t, "close_and_destroy")
  /\ binlog' = [Flush(binlog) EXCEPT !.cache = {}, !.disk = {}, !.need_sync = FALSE]
  /\ state' = "destroyed"
  /\ Stop

\* The promise a message carries.
PromiseOf(msg) ==
  IF \/ msg.op = "force_sync"
     \/ msg.op = "add_raw_event" /\ event[msg.id].promise
    THEN {msg.id} ELSE {}

\* A message to an actor that stopped is destroyed.
DropMessage(t) ==
  /\ state \in {"closed", "destroyed"}
  /\ inbox[t] # << >>
  /\ inbox' = [inbox EXCEPT ![t] = Tail(@)]
  /\ lost' = lost \cup PromiseOf(Head(inbox[t]))
  /\ UNCHANGED <<users, state, processor, timers, immediate_sync_promises_,
                 sync_promises_, answered, binlog>>

\* Mutant of AnswerAll: sync_promises_.clear() is missing.
AnswerAll_Keeps == answered' = answered \cup sync_promises_ /\ UNCHANGED sync_promises_

AnswerAll == answered' = answered \cup sync_promises_ /\ sync_promises_' = {}

\* timeout_expired: one sync for all that wait, else what try_flush does.
TimeoutExpired ==
  /\ state = "open"
  /\ timer
  /\ lazy_sync_flag_' = FALSE /\ force_sync_flag_' = FALSE
  /\ IF lazy_sync_flag_ \/ force_sync_flag_
       THEN /\ binlog' = Sync(binlog)
            /\ AnswerAll
            /\ flush_flag_' = FALSE /\ timer' = FALSE
       ELSE LET later == flush_flag_ /\ FlushLater(binlog, FALSE)
            IN /\ binlog' = IF flush_flag_ /\ FlushNow(binlog)
                              THEN Flush(binlog) ELSE binlog
               /\ flush_flag_' = later /\ timer' = later
               /\ UNCHANGED <<answered, sync_promises_>>
  /\ UNCHANGED <<users, inbox, state, processor, immediate_sync_promises_, lost>>

-----------------------------------------------------------------------------
(* The environment.                                                        *)

\* FLUSH_TIMEOUT passes while something is buffered.
Tick ==
  /\ state = "open"
  /\ binlog.buffer # {} /\ ~ binlog.aged
  /\ binlog' = [binlog EXCEPT !.aged = TRUE]
  /\ UNCHANGED <<users, inbox, state, processor, timers, promises>>

\* The process or the machine dies, and the memory of the process with it.
\* A beginning of what was written and not synced may have reached the disk.
Crash ==
  /\ state = "open"
  /\ state' = "crashed"
  /\ \E k \in binlog.cache \cup {LastId + 1} :
       binlog' = [buffer |-> {}, cache |-> {},
                  disk |-> binlog.disk \cup {m \in binlog.cache : m < k},
                  need_sync |-> FALSE, aged |-> FALSE]
  /\ held' = [t \in Threads |-> {}]
  /\ inbox' = [t \in Threads |-> << >>]
  /\ ActorGone
  /\ UNCHANGED <<last_id_, event, forced, controls, closing, cover, answered, lost>>

ActorStep(t) ==
  \/ AddRawEvent(t) \/ HandleForceSync(t) \/ HandleForceFlush(t)
  \/ HandleChangeKey(t) \/ HandleClose(t) \/ HandleCloseAndDestroy(t)
  \/ DropMessage(t)

Next ==
  \/ \E t \in Threads :
       \/ TakeId(t)
       \/ \E n \in Ids, c \in Contents : SendEvent(t, n, c)
       \/ ForceSync(t) \/ Control(t) \/ Close(t)
       \/ ActorStep(t)
  \/ TimeoutExpired \/ Tick \/ Crash

\* The scheduler runs the actor for every message and every timeout, time
\* passes, and a thread sends the number it took in the same function.
Fairness ==
  /\ \A t \in Threads :
       /\ WF_vars(ActorStep(t))
       /\ WF_vars(\E n \in Ids, c \in Contents : SendEvent(t, n, c))
  /\ WF_vars(TimeoutExpired)
  /\ WF_vars(Tick)

Spec == Init /\ [][Next]_vars /\ Fairness

-----------------------------------------------------------------------------
(* Properties.                                                             *)

\* A promise with a value is true: every event its caller relies on is
\* synced, whatever was buffered, reordered or delayed in between, and stays
\* so after a crash.
SyncDurable ==
  state # "destroyed" =>
    \A k \in answered : \A m \in cover[k] :
      event[m].payload => m \in binlog.disk

\* What is on disk is a beginning of the log: an event that survives a crash
\* has all its predecessors with it, although threads send them in any order.
PrefixDurable ==
  state # "destroyed" =>
    \A m \in binlog.disk : \A n \in Ids :
      n < m /\ event[n].payload => n \in binlog.disk

\* Nothing is forgotten: whoever waits has a timeout that will serve it, or a
\* missing number before it.  The flags are shared by three kinds of waiting
\* and reset together in timeout_expired.
WaitsAreServed ==
  state = "open" =>
    /\ sync_promises_ # {} => timer /\ (lazy_sync_flag_ \/ force_sync_flag_)
    /\ binlog.buffer # {} => timer /\ (flush_flag_ \/ force_sync_flag_)
    /\ \A e \in immediate_sync_promises_ : e.seq_no \in waiting
    /\ binlog.cache # {} => binlog.need_sync

\* close() loses nothing the processor handed on.
CloseKeepsDelivered ==
  state = "closed" =>
    \A m \in Ids : m < next /\ event[m].payload => m \in binlog.disk

\* A promise gets its answer once: a value, or destruction with the actor.
AnsweredOnce == answered \cap (lost \cup sync_promises_) = {}

Issued(k) == IF k < 0 THEN -k <= forced ELSE event[k].promise

\* Every promise given to the log gets an answer, unless the process dies:
\* no order of take, send, sync and close leaves one waiting forever.
PromisesAnswered ==
  \A k \in Keys :
    Issued(k) ~> (k \in answered \cup lost \/ state = "crashed")

\* Every event reaches the operating system without anybody asking for it.
EventsWritten ==
  \A n \in Ids :
    event[n].payload ~>
      (n \in binlog.cache \cup binlog.disk \/ closing \/ state = "crashed")

\* Nothing waits for ever in the actor: neither a promise nor an event.
AllServed == PromisesAnswered /\ EventsWritten
=============================================================================
