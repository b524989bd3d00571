--------------------------- MODULE BinlogKeyValue ---------------------------
(***************************************************************************)
(* BinlogKeyValue<ConcurrentBinlog> (tddb/td/db/BinlogKeyValue.h): a map   *)
(* in memory, kept in a log.  set() and erase() change the map and take a  *)
(* number of the log under a lock and send the event after they released   *)
(* it, so events come to the log in any order; the log hands them on in    *)
(* the order of their numbers (OrderedDelivery, as proved of               *)
(* OrderedEventsProcessor) to the processor (BinlogEventsProcessor).       *)
(*                                                                         *)
(* held[t] are the events a thread still has to send and those on their    *)
(* way from it: the log gets the events of one thread in order.  The file  *)
(* is the sequence of events in it; Restart keeps any beginning that has   *)
(* the synced part, which is what DurableLog promises.  What it keeps      *)
(* beyond that part is not synced by being read: the next restart may      *)
(* still lose it.                                                          *)
(***************************************************************************)
EXTENDS BinlogEventsProcessor, Sequences, SequencesExt, FiniteSetsExt

CONSTANTS
  Threads, Keys, Values,
  KeyPrefixes,   \* the sets of keys that a prefix stands for
  MaxNumber,  \* bound: no number of the log above it is used
  MaxRestarts \* bound: restarts

ASSUME KeyValueAssumption ==
  /\ MaxNumber \in Nat /\ MaxRestarts \in Nat
  /\ KeyPrefixes \subseteq SUBSET Keys

\* An event holds an entry of the map; its id is the number it was first sent with.
ASSUME EntriesAssumption == Ids = 1 .. MaxNumber /\ Data = Keys \X Values

VARIABLES
  map,      \* map_: [key -> [value, id]]
  last_id,  \* the next number of the log
  held,     \* held[t]: events [seq_no, event] not yet at the log
  came,     \* events at the log, by number
  next, waiting,  \* processor_ of the log
  file,     \* the events in the file
  synced,   \* how many of them are synced
  hist,     \* history: hist[n] is the contents of the map after number n;
            \* what the file had before a restart is counted back from there
  restarts

vars == <<map, last_id, held, came, next, waiting, file, synced, hist, restarts>>

Delivery == INSTANCE OrderedDelivery WITH First <- 1, Limit <- MaxNumber

Contents(m) == [k \in DOMAIN m |-> m[k].value]

Without(m, ks) == [k \in DOMAIN m \ ks |-> m[k]]

Put(m, k, x) == [j \in DOMAIN m \cup {k} |-> IF j = k THEN x ELSE m[j]]

Nothing == [k \in {} |-> Empty]

Init ==
  /\ map = Nothing /\ last_id = 1 /\ held = [t \in Threads |-> << >>] /\ came = Nothing
  /\ next = 1 /\ waiting = {} /\ file = << >> /\ synced = 0
  /\ hist = [n \in {0} |-> Nothing] /\ restarts = 0

-----------------------------------------------------------------------------
\* next_id(n), and the events that get the numbers.
Log(t, events, maps) ==
  /\ last_id + Len(events) <= MaxNumber + 1
  /\ last_id' = last_id + Len(events)
  /\ held' = [held EXCEPT ![t] = @ \o [i \in 1 .. Len(events) |->
                [seq_no |-> last_id + i - 1, event |-> events[i]]]]
  /\ hist' = [n \in DOMAIN hist \cup last_id .. last_id + Len(events) - 1 |->
                IF n \in DOMAIN hist THEN hist[n] ELSE Contents(maps[n - last_id + 1])]
  /\ UNCHANGED <<came, next, waiting, file, synced, restarts>>

\* The id of the event of k: the old one, or the number just taken.
SetId(k) == IF k \in DOMAIN map THEN map[k].id ELSE last_id

\* set(k, v); the same value again does nothing.
Set(t, k, v) ==
  /\ k \in DOMAIN map => map[k].value # v
  /\ map' = Put(map, k, [value |-> v, id |-> SetId(k)])
  /\ Log(t, <<[id |-> SetId(k), value |-> <<k, v>>, rewrite |-> k \in DOMAIN map]>>, <<map'>>)

EraseEvent(k) == [id |-> map[k].id, value |-> Empty, rewrite |-> TRUE]

\* Mutation: the entry stays until the next restart.
Remaining_All(k) == map

Remaining(k) == Without(map, {k})

Erase(t, k) ==
  /\ k \in DOMAIN map
  /\ map' = Remaining(k)
  /\ Log(t, <<EraseEvent(k)>>, <<map'>>)

\* erase_by_prefix: one block of numbers for all keys, in the order of the hash table.
EraseByPrefix(t, prefix) ==
  LET n == Cardinality(prefix \cap DOMAIN map) IN
  /\ n > 0
  /\ \E ks \in [1 .. n -> prefix \cap DOMAIN map] :
       /\ IsInjective(ks)
       /\ map' = Without(map, prefix)
       /\ Log(t, [i \in 1 .. n |-> EraseEvent(ks[i])],
              [i \in 1 .. n |-> Without(map, {ks[j] : j \in 1 .. i})])

\* Mutation: the log writes events as they come.
Handed_AsTheyCome(n, e) == Delivery!Add(n) /\ file' = Append(file, e)

\* The log gets the event e with number n and writes all that is now in order.
Handed(n, e) ==
  /\ Delivery!Add(n)
  /\ file' = file \o [i \in 1 .. next' - next |-> came'[next + i - 1]]

Deliver(t) ==
  /\ held[t] # << >>
  /\ came' = Put(came, Head(held[t]).seq_no, Head(held[t]).event)
  /\ Handed(Head(held[t]).seq_no, Head(held[t]).event)
  /\ held' = [held EXCEPT ![t] = Tail(@)]
  /\ UNCHANGED <<map, last_id, synced, hist, restarts>>

\* sync() of the log.
Sync ==
  /\ synced < Len(file) /\ synced' = Len(file)
  /\ UNCHANGED <<map, last_id, held, came, next, waiting, file, hist, restarts>>

-----------------------------------------------------------------------------
Replay(events) == AfterEvents(events)

\* do_reindex(): the file is written again with the live events only.
Live(events) == LiveEvents(Replay(events))

Reindex ==
  /\ file # Live(file)
  /\ file' = Live(file) /\ synced' = Len(file')
  /\ UNCHANGED <<map, last_id, held, came, next, waiting, hist, restarts>>

\* init(), external_init_handle(): emplace() for every live event, in the order of their ids;
\* it does not replace an entry.
Emplaced(p) ==
  LET of(k) == {i \in LiveIds(p) : p.at[i].value[1] = k}
  IN [k \in {j \in Keys : of(j) # {}} |->
        [value |-> p.at[Min(of(k))].value[2], id |-> Min(of(k))]]

\* Mutation: numbers start again after the last live event.
FirstNumber_OfLive(p) == Max({0} \cup LiveIds(p)) + 1

\* Binlog::init sets last_id_ from the processor.
FirstNumber(p) == p.last_id + 1

\* The number after which the map was what the first j events of the file stand for.
Moment(j) == next - 1 - (Len(file) - j)

\* The process or the power ends, and the next process opens the log.  The
\* moments that the file still has are kept, counted from the new number.
Restart ==
  /\ restarts < MaxRestarts /\ restarts' = restarts + 1
  /\ \E n \in synced .. Len(file) : \E p \in {Replay(SubSeq(file, 1, n))} :
       /\ file' = SubSeq(file, 1, n)
       /\ map' = Emplaced(p)
       /\ last_id' = FirstNumber(p) /\ next' = last_id'
       /\ hist' = [i \in last_id' - 1 - (n - synced) .. last_id' - 1 |->
                     hist[Moment(n) - (last_id' - 1 - i)]]
  /\ held' = [t \in Threads |-> << >>] /\ came' = Nothing /\ waiting' = {}
  /\ UNCHANGED synced   \* Binlog::init() syncs nothing

Next ==
  \/ \E t \in Threads, k \in Keys, v \in Values : Set(t, k, v)
  \/ \E t \in Threads, k \in Keys : Erase(t, k)
  \/ \E t \in Threads, p \in KeyPrefixes : EraseByPrefix(t, p)
  \/ \E t \in Threads : Deliver(t)
  \/ Sync
  \/ Reindex
  \/ Restart

Spec == Init /\ [][Next]_vars

-----------------------------------------------------------------------------
TypeOK ==
  /\ DOMAIN map \subseteq Keys
  /\ \A k \in DOMAIN map : map[k] \in [value : Values, id : 1 .. MaxNumber]
  /\ last_id \in 1 .. MaxNumber + 1 /\ next \in 1 .. last_id
  /\ waiting \subseteq next .. last_id - 1
  /\ synced \in 0 .. Len(file)
  /\ DOMAIN came \subseteq 1 .. last_id - 1
  /\ \A t \in Threads : \A i \in DOMAIN held[t] : held[t][i].seq_no \in next .. last_id - 1

\* The file stands for the map as it was when its last number was taken: no
\* order in which threads send their events, and no restart, puts an older
\* value of a key over a newer one.
LogAgrees == Contents(Emplaced(Replay(file))) = hist[next - 1]

\* A restart brings the map back to one moment of its past, at or after the
\* last sync: never a mixture, and nothing synced is lost.  A moment may lie
\* before earlier restarts, which synced nothing.
RestartGivesPast ==
  [][restarts' # restarts =>
       \E j \in synced .. Len(file) : Contents(map') = hist[Moment(j)]]_vars

\* Every event is accepted by BinlogEventsProcessor::do_event, which otherwise
\* stops the process (LOG(FATAL) in Binlog::do_event).
EventsAccepted ==
  \A i \in DOMAIN file : Accepts(Replay(SubSeq(file, 1, i - 1)), file[i])

\* No two keys share an event of the log, also when ids are used again after a
\* restart: erasing one key never erases the other.
KeysOwnTheirIds ==
  \A j, k \in DOMAIN map : j # k => map[j].id # map[k].id

\* Whatever was sent, replayed and reused, the events and the ids of the store
\* stay sound.
IdsAreSound == TypeOK /\ EventsAccepted /\ KeysOwnTheirIds
=============================================================================
