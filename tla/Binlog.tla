------------------------------- MODULE Binlog -------------------------------
(***************************************************************************)
(* td::Binlog (tddb/td/db/binlog/Binlog.{h,cpp}): the log of events on     *)
(* disk, its encryption, its regeneration into <path>.new, and what init() *)
(* makes of the files after the process or the power went away.            *)
(*                                                                         *)
(* A file is the sequence of its chunks: an AesCtrEncryption event (kind   *)
(* "key"), an event, or the bytes a power loss leaves behind: the          *)
(* beginning of an event ("torn") or zeros.  AES-CTR makes a byte readable *)
(* only at the offset of the keystream it was written with; `pos' is that  *)
(* offset, in chunks, and 0 for an event written in the clear.             *)
(***************************************************************************)
EXTENDS BinlogEventsProcessor, Sequences, Functions, FiniteSetsExt

CONSTANTS
  Keys,         \* the database keys
  NoKey,        \* DbKey::empty()
  NoFile,       \* the path does not exist
  Down,         \* what the user sees while the log is not open
  MaxOps,       \* bound: operations in the log
  BadSizeTails, \* may zeros decrypt to a length that is not a multiple of 4?
  FailOn        \* for which files open_binlog(<path>.new) may fail: whole, cut

ASSUME MaxOpsAssumption == MaxOps \in Nat
ASSUME BadSizeTailsAssumption == BadSizeTails \in BOOLEAN
ASSUME FailOnAssumption == FailOn \subseteq {"whole", "cut"}
ASSUME KeysAssumption == NoKey \notin Keys

\* An event holds the operation that wrote it, known by its seq_no.
ASSUME OperationsAssumption == Ids = 1 .. MaxOps /\ Data = Nat

VARIABLES
  main, newf,   \* the files <path> and <path>.new: chunks, and how many are synced
  pc,           \* where the process is: down, run, or a step of do_reindex or destroy
  processor_,   \* the events (BinlogEventsProcessor)
  buffer_,      \* events in buffer_writer_, not yet encrypted and written
  stream,       \* how far the write keystream is, in chunks
  last_id_, need_sync_, db_key_,
  aes_key,      \* aes_ctr_key_, when aes_ctr_key_salt_ is set; NoKey when it is empty
  fatal,        \* LOG(FATAL) or a CHECK stopped the process
  hist,         \* history: the operations, those a crash takes away left out
  dur,          \* history: how many of them are promised to be on disk
  base,         \* history: how many of them this process found on disk
  keys          \* history: the keys the user knows the log may have

files == <<main, newf>>
memory == <<processor_, buffer_, stream, last_id_, need_sync_, db_key_, aes_key>>
history == <<hist, dur, base, keys>>
vars == <<files, pc, memory, fatal, history>>

DbKeys == Keys \cup {NoKey}
Ops == [id : Ids, value : Ids \cup {Empty}]

-----------------------------------------------------------------------------
(* Files *)

EmptyFile == [chunks |-> << >>, synced |-> 0]

Garbage == {[kind |-> "torn"], [kind |-> "zeros"]}

\* Chunks and files as the bytes allow them.
RawChunks == [kind : {"key"}, key : DbKeys] \cup Garbage
             \cup [kind : {"event"}, ev : RawEvents, pos : Nat]
RawFiles == [chunks : Seq(RawChunks), synced : Nat]

\* The marks are none of what they stand beside.
ASSUME MarksAssumption ==
  /\ NoFile \notin RawFiles
  /\ \A S \in SUBSET Ids : Down \notin [S -> Data]

Encrypted(f) == f.chunks # << >> /\ f.chunks[1].kind = "key"

HeaderKey(f) == IF Encrypted(f) THEN f.chunks[1].key ELSE NoKey

\* Events as they are written from the offset `from' of the keystream on.
Written(events, encrypted, from) ==
  [i \in DOMAIN events |->
     [kind |-> "event", ev |-> events[i], pos |-> IF encrypted THEN from + i ELSE 0]]

\* read_next() gives the event of chunk i, its length and its crc right.
Readable(f, i) ==
  \/ i = 1 /\ Encrypted(f)
  \/ /\ f.chunks[i].kind = "event"
     /\ f.chunks[i].pos = IF Encrypted(f) THEN i ELSE 0

\* reader.offset() where load_binlog stops.
ValidLen(f) ==
  Max({n \in 0 .. Len(f.chunks) : \A i \in 1 .. n : Readable(f, i)})

Truncated(f) ==
  [chunks |-> SubSeq(f.chunks, 1, ValidLen(f)), synced |-> Min({f.synced, ValidLen(f)})]

\* The events load_binlog reads, and what the processor makes of them.
EventsOf(f) ==
  LET from == IF Encrypted(f) THEN 1 ELSE 0
  IN  [i \in 1 .. ValidLen(f) - from |-> f.chunks[i + from].ev]

Loaded(f) == AfterEvents(EventsOf(f))

\* Loading meets an event that the processor refuses.
LoadFails(f) ==
  LET events == EventsOf(f)
  IN  \E i \in DOMAIN events :
        ~ Accepts(AfterEvents(SubSeq(events, 1, i - 1)), events[i])

\* The main file init() opens: <path>, else <path>.new, else a new one.
Restored == IF main # NoFile THEN main ELSE IF newf # NoFile THEN newf ELSE EmptyFile

\* What do_reindex() writes to <path>.new: the encryption event unless the
\* key is empty (with the cached AES key, if its salt was kept), the events.
Regenerated(p, db_key, cached) ==
  LET live   == LiveEvents(p)
      used   == IF cached = NoKey THEN db_key ELSE cached
      header == [kind |-> "key", key |-> used]
  IN  [chunks |-> IF db_key = NoKey THEN Written(live, FALSE, 0)
                                    ELSE <<header>> \o Written(live, TRUE, 1),
       synced |-> 0]

-----------------------------------------------------------------------------
(* The refined specification *)

Durable == INSTANCE DurableLog WITH
  log <- hist, durable <- dur,
  view <- IF pc \in {"down", "destroy"} THEN Down ELSE View(processor_)

\* The prefixes of the operations that the file f may stand for.
Explains(f) ==
  LET view == View(Loaded(f))
  IN  {k \in dur .. Len(hist) : Durable!Replay(SubSeq(hist, 1, k)) = view}

-----------------------------------------------------------------------------
Init ==
  /\ main = NoFile /\ newf = NoFile
  /\ pc = "down"
  /\ processor_ = NoEvents /\ buffer_ = << >> /\ stream = 0
  /\ last_id_ = 0 /\ need_sync_ = FALSE
  /\ db_key_ = NoKey /\ aes_key = NoKey
  /\ fatal = FALSE
  /\ hist = << >> /\ dur = 0 /\ base = 0 /\ keys = {NoKey}

\* The memory of the process is gone.
Forget ==
  /\ processor_' = NoEvents /\ buffer_' = << >> /\ stream' = 0
  /\ last_id_' = 0 /\ need_sync_' = FALSE
  /\ db_key_' = NoKey /\ aes_key' = NoKey

-----------------------------------------------------------------------------
(* init() *)

\* The keys init() is given open the file.
Opens(f, db_key, old_db_key) ==
  Encrypted(f) => HeaderKey(f) \in {db_key, old_db_key} \ {NoKey}

\* Mutation: the id of the last event that is left.
LoadedLastId_OfLive(p) == IF LiveIds(p) = {} THEN 0 ELSE Max(LiveIds(p))

\* last_id_ = processor_->last_id()
LoadedLastId(p) == p.last_id

\* Is db_key_used_ = FALSE forced on a file with a bad tail?  Not when the
\* tail is zeros that decrypt to a bad length: load_binlog truncates the
\* file there, breaks, and then finds the offset it expects.
ForcedReindex(f) ==
  IF ValidLen(f) = Len(f.chunks) THEN {FALSE}
  ELSE IF /\ BadSizeTails /\ Encrypted(f)
          /\ f.chunks[ValidLen(f) + 1].kind = "zeros"
         THEN BOOLEAN
         ELSE {TRUE}

NeedReindex(f, db_key, forced) ==
  \/ db_key # NoKey /\ (HeaderKey(f) # db_key \/ forced)
  \/ db_key = NoKey /\ Encrypted(f)

\* <path>.new when open_binlog() could not open it, or could not lock it and
\* left it empty.
Unopened(f) == {f, EmptyFile}

\* init() on a log it can open, up to the sync() of the do_reindex() in it.
Open(db_key, old_db_key) ==
  LET f == Restored
      p == Loaded(f)
      failed == LoadFails(f)
      explained == Explains(f)
  IN
  /\ pc = "down"
  /\ Opens(f, db_key, old_db_key)
  /\ fatal' = failed
  /\ main' = Truncated(f)
  /\ processor_' = p /\ last_id_' = LoadedLastId(p)
  /\ buffer_' = << >> /\ need_sync_' = FALSE
  /\ db_key_' = db_key
  /\ stream' = IF Encrypted(f) THEN Len(f.chunks) ELSE 0
  /\ \E forced \in ForcedReindex(f) :
       IF NeedReindex(f, db_key, forced)
         THEN /\ aes_key' = NoKey
              /\ \/ /\ newf' = Regenerated(p, db_key, NoKey)
                    /\ pc' = IF failed THEN "down" ELSE "rx_sync"
                 \/ /\ (IF forced THEN "cut" ELSE "whole") \in FailOn
                    /\ newf' \in Unopened(IF main = NoFile THEN NoFile ELSE newf)
                    /\ pc' = IF failed THEN "down" ELSE "run"
         ELSE /\ newf' = IF main = NoFile THEN NoFile ELSE newf
              /\ aes_key' = HeaderKey(f)
              /\ pc' = IF failed THEN "down" ELSE "run"
  /\ keys' = {db_key, HeaderKey(f)}
  /\ hist' = IF explained = {} THEN hist ELSE SubSeq(hist, 1, Max(explained))
  /\ base' = Len(hist')
  /\ UNCHANGED dur

\* init() that ends in WrongPassword: nothing of the log is touched.
OpenWrongPassword(db_key, old_db_key) ==
  /\ pc = "down"
  /\ ~ Opens(Restored, db_key, old_db_key)
  /\ main' = Restored
  /\ newf' = IF main = NoFile THEN NoFile ELSE newf
  /\ UNCHANGED <<pc, memory, fatal, history>>

-----------------------------------------------------------------------------
(* add_event(), sync(), flush() *)

\* The main file once these events are written to its end.
MainWith(events) ==
  [main EXCEPT !.chunks = @ \o Written(events, Encrypted(main), stream)]

Write(events) ==
  /\ main' = MainWith(events)
  /\ stream' = IF Encrypted(main) THEN stream + Len(events) ELSE 0
  /\ buffer_' = << >>

\* add_event(): do_event() gives the event to the buffer and the processor,
\* lazy_flush() writes a large buffer, a file much larger than its events is
\* regenerated (sizes are not modelled; the file has more events than needed).
AddEvent(e) ==
  LET buffered == Append(buffer_, e)
      p        == DoEvent(processor_, e)
  IN
  /\ pc = "run" /\ Len(hist) < MaxOps
  /\ fatal' = ~ Accepts(processor_, e)
  /\ processor_' = p
  /\ last_id_' = last_id_ + 1
  /\ hist' = Append(hist, [id |-> e.id, value |-> e.value])
  /\ \/ /\ buffer_' = buffered
        /\ UNCHANGED <<main, stream, need_sync_>>
     \/ Write(buffered) /\ need_sync_' = TRUE
  /\ \/ /\ pc' = IF Accepts(processor_, e) THEN "run" ELSE "down"
        /\ UNCHANGED newf
     \/ /\ Accepts(processor_, e)
        /\ Len(main.chunks) + Len(buffered) > Cardinality(LiveIds(p))
        /\ \/ newf' = Regenerated(p, db_key_, aes_key) /\ pc' = "rx_sync"
           \/ "whole" \in FailOn /\ newf' \in Unopened(newf) /\ pc' = "run"
  /\ UNCHANGED <<db_key_, aes_key, dur, base, keys>>

Add == AddEvent([id |-> last_id_ + 1, value |-> last_id_ + 1, rewrite |-> FALSE])

\* The caller rewrites and erases events that it did not erase before.
Rewrite(id) ==
  /\ id \in LiveIds(processor_)
  /\ AddEvent([id |-> id, value |-> last_id_ + 1, rewrite |-> TRUE])

Erase(id) ==
  /\ id \in LiveIds(processor_)
  /\ AddEvent([id |-> id, value |-> Empty, rewrite |-> TRUE])

Flush ==
  /\ pc = "run" /\ buffer_ # << >>
  /\ Write(buffer_)
  /\ need_sync_' = TRUE
  /\ UNCHANGED <<newf, pc, processor_, last_id_, db_key_, aes_key, fatal, history>>

\* Mutation: need_sync_ is read before flush() sets it.
Synced_StaleFlag(f, wrote) ==
  IF need_sync_ THEN [f EXCEPT !.synced = Len(f.chunks)] ELSE f

\* What sync() leaves: all is written; it is synced unless nothing was
\* written since the last sync() or init().
Synced(f, wrote) ==
  IF need_sync_ \/ wrote THEN [f EXCEPT !.synced = Len(f.chunks)] ELSE f

\* What a caller may rely on after sync(): the operations of this process,
\* and those before them.
Promised == IF Len(hist) > base THEN Len(hist) ELSE dur

Sync ==
  /\ pc = "run"
  /\ main' = Synced(MainWith(buffer_), buffer_ # << >>)
  /\ stream' = IF Encrypted(main) THEN stream + Len(buffer_) ELSE 0
  /\ buffer_' = << >> /\ need_sync_' = FALSE
  /\ dur' = Promised
  /\ UNCHANGED <<newf, pc, processor_, last_id_, db_key_, aes_key, fatal, hist, base, keys>>

\* close(): sync(), then the file and its lock are released.
Close ==
  /\ pc = "run"
  /\ main' = Synced(MainWith(buffer_), buffer_ # << >>)
  /\ pc' = "down"
  /\ Forget
  /\ dur' = Promised
  /\ UNCHANGED <<newf, fatal, hist, base, keys>>

-----------------------------------------------------------------------------
(* change_key() and do_reindex() *)

\* Mutation: aes_ctr_key_salt_ is kept.
ChangeKey_KeepsSalt(k) ==
  /\ pc = "run"
  /\ db_key_' = k
  /\ newf' = Regenerated(processor_, k, aes_key)
  /\ pc' = "rx_sync"
  /\ keys' = keys \cup {k}
  /\ UNCHANGED <<main, processor_, buffer_, stream, last_id_, need_sync_, aes_key, fatal,
                 hist, dur, base>>

ChangeKey(k) ==
  /\ pc = "run"
  /\ db_key_' = k
  /\ aes_key' = NoKey
  /\ newf' = Regenerated(processor_, k, NoKey)
  /\ pc' = "rx_sync"
  /\ keys' = keys \cup {k}
  /\ UNCHANGED <<main, processor_, buffer_, stream, last_id_, need_sync_, fatal,
                 hist, dur, base>>

\* change_key() whose do_reindex() cannot open <path>.new and only logs it.
ChangeKeyFails(k) ==
  /\ pc = "run"
  /\ "whole" \in FailOn
  /\ db_key_' = k
  /\ aes_key' = NoKey
  /\ newf' \in Unopened(newf)
  /\ keys' = keys \cup {k}
  /\ UNCHANGED <<main, pc, processor_, buffer_, stream, last_id_, need_sync_, fatal,
                 hist, dur, base>>

\* need_sync_ = true; sync();
ReindexSync ==
  /\ pc = "rx_sync"
  /\ newf' = [newf EXCEPT !.synced = Len(newf.chunks)]
  /\ buffer_' = << >> /\ need_sync_' = FALSE
  /\ pc' = "rx_unlink"
  /\ UNCHANGED <<main, processor_, stream, last_id_, db_key_, aes_key, fatal, history>>

\* unlink(path_)
ReindexUnlink ==
  /\ pc = "rx_unlink"
  /\ main' = NoFile
  /\ pc' = "rx_rename"
  /\ UNCHANGED <<newf, memory, fatal, history>>

\* Mutation: the keystream of the old file goes on.
ReindexRename_OldStream ==
  /\ pc = "rx_rename"
  /\ main' = newf /\ newf' = NoFile
  /\ aes_key' = HeaderKey(newf)
  /\ pc' = "run"
  /\ dur' = Len(hist)
  /\ keys' = {db_key_}
  /\ UNCHANGED <<processor_, buffer_, stream, last_id_, need_sync_, db_key_, fatal, hist, base>>

\* rename(new_path, path_), and the write keystream goes on from its end.
ReindexRename ==
  /\ pc = "rx_rename"
  /\ main' = newf /\ newf' = NoFile
  /\ stream' = IF Encrypted(newf) THEN Len(newf.chunks) ELSE 0
  /\ aes_key' = HeaderKey(newf)
  /\ pc' = "run"
  /\ dur' = Len(hist)
  /\ keys' = {db_key_}
  /\ UNCHANGED <<processor_, buffer_, last_id_, need_sync_, db_key_, fatal, hist, base>>

-----------------------------------------------------------------------------
(* close_and_destroy(), and destroy() of a log that is not open *)

\* Nothing of the log is left.
NoHistory == hist' = << >> /\ dur' = 0 /\ base' = 0 /\ keys' = {NoKey}

\* close(false), unlink(path.new)
DestroyNew ==
  /\ pc \in {"run", "down"}
  /\ main' = IF pc = "run" THEN MainWith(buffer_) ELSE main
  /\ newf' = NoFile
  /\ Forget
  /\ pc' = "destroy"
  /\ IF main = NoFile THEN NoHistory ELSE UNCHANGED history
  /\ UNCHANGED fatal

\* unlink(path)
DestroyMain ==
  /\ pc = "destroy"
  /\ main' = NoFile
  /\ pc' = "down"
  /\ NoHistory
  /\ UNCHANGED <<newf, memory, fatal>>

-----------------------------------------------------------------------------
(* Crashes *)

\* The process ends, perhaps in the middle of a flush(): what it wrote stays.
\* (A half-written <path>.new is among the outcomes of PowerLoss.)
Kill ==
  /\ pc # "down"
  /\ IF pc = "run"
       THEN \E n \in 0 .. Len(buffer_) :
            \E tail \in {<< >>} \cup (IF n < Len(buffer_) THEN {<<[kind |-> "torn"]>>} ELSE {}) :
              main' = [main EXCEPT !.chunks =
                @ \o Written(SubSeq(buffer_, 1, n), Encrypted(main), stream) \o tail]
       ELSE UNCHANGED main
  /\ Forget
  /\ pc' = "down"
  /\ UNCHANGED <<newf, fatal, history>>

\* What a power loss may leave of a file: of what was not synced, some
\* beginning, and of the next chunk nothing, a part, or zeros.
Survivors(f) ==
  IF f = NoFile THEN {NoFile}
  ELSE {[chunks |-> SubSeq(f.chunks, 1, k), synced |-> k] : k \in f.synced .. Len(f.chunks)}
       \cup {[chunks |-> SubSeq(f.chunks, 1, k) \o <<g>>, synced |-> k + 1] :
               k \in f.synced .. Len(f.chunks) - 1, g \in Garbage}

PowerLoss ==
  /\ main' \in Survivors(main)
  /\ newf' \in Survivors(newf)
  /\ Forget
  /\ pc' = "down"
  /\ UNCHANGED <<fatal, history>>

-----------------------------------------------------------------------------
Next ==
  \/ \E k \in DbKeys, old \in DbKeys : Open(k, old) \/ OpenWrongPassword(k, old)
  \/ Add \/ \E i \in LiveIds(processor_) : Rewrite(i) \/ Erase(i)
  \/ Flush \/ Sync \/ Close
  \/ \E k \in DbKeys : ChangeKey(k) \/ ChangeKeyFails(k)
  \/ ReindexSync \/ ReindexUnlink \/ ReindexRename
  \/ DestroyNew \/ DestroyMain
  \/ Kill \/ PowerLoss

Spec == Init /\ [][Next]_vars

-----------------------------------------------------------------------------
(* Properties *)

Chunks == [kind : {"key"}, key : Keys] \cup Garbage
          \cup [kind : {"event"}, ev : Events, pos : 0 .. 2 * MaxOps + 2]

IsFile(f) ==
  f # NoFile => f.synced \in 0 .. Len(f.chunks) /\ Range(f.chunks) \subseteq Chunks

\* Type correctness of the files, of the memory of a Binlog and of the history.
TypeOK ==
  /\ IsFile(main) /\ IsFile(newf)
  /\ pc \in {"down", "run", "rx_sync", "rx_unlink", "rx_rename", "destroy"}
  /\ DOMAIN processor_.at \subseteq Ids
  /\ Range(buffer_) \subseteq Events
  /\ last_id_ \in 0 .. MaxOps
  /\ {db_key_, aes_key} \subseteq DbKeys /\ keys \subseteq DbKeys
  /\ need_sync_ \in BOOLEAN /\ fatal \in BOOLEAN
  /\ Range(hist) \subseteq Ops /\ dur \in 0 .. Len(hist) /\ base \in 0 .. Len(hist)

\* No LOG(FATAL) of do_event() is ever reached: the processor accepts every
\* event that is added, and every event of every file init() may find; and no
\* id, key or file leaves its type.
NeverFatal == TypeOK /\ ~ fatal

\* While the log runs, the file followed by the buffer reads back as exactly
\* the events the processor holds: the next init() replays what is in memory.
ReplayAgrees ==
  pc = "run" =>
    View(Loaded(MainWith(buffer_))) = View(processor_)

\* Whatever stopped the process, init() will find a file that holds the
\* outcome of all operations up to the last completed sync(), close() or
\* reindex, and of a beginning of the later ones.
NothingDurableIsLost == pc = "down" => Explains(Restored) # {}

\* The key of the file init() will find is one the user knows of: the key of
\* the last file that was completed, or one given to change_key() or init()
\* since then.
NeverLockedOut == pc = "down" => HeaderKey(Restored) \in keys

\* Binlog implements the abstract durable log.
ImplementsDurableLog == Durable!Spec
=============================================================================
