----------------------- MODULE BinlogEventsProcessor -----------------------
(***************************************************************************)
(* td::detail::BinlogEventsProcessor                                       *)
(* (tddb/td/db/binlog/detail/BinlogEventsProcessor.{h,cpp}): the events a  *)
(* log stands for.  ids_ and events_ are two vectors sorted by id; an id   *)
(* whose event was erased stays, marked, until compactify().  Here they    *)
(* are one function from the ids in ids_ to the event, or Erased.          *)
(*                                                                         *)
(* An event is [id, value, rewrite]: value is Empty for the service type   *)
(* that erases.  The flag Rewrite stays in the bytes of an event, so it is *)
(* kept when a reindex writes the event again.                             *)
(***************************************************************************)
EXTENDS Integers, Sequences, FiniteSets, FiniteSetsExt

CONSTANTS
  Empty,        \* BinlogEvent::ServiceTypes::Empty
  Erased,       \* the mark of an erased id
  CompactTotal, \* compactify needs more than this many ids (10)
  Ids,          \* the ids that events get
  Data          \* what events hold

ASSUME CompactTotalAssumption == CompactTotal \in Nat

Events == [id : Ids, value : Data \cup {Empty}, rewrite : BOOLEAN]

\* Events as the bytes allow them, of whose ids no bound is known.
RawEvents == [id : Nat, value : Data \cup {Empty}, rewrite : BOOLEAN]

\* The marks are none of what they stand beside.
ASSUME EventsAssumption ==
  Ids \subseteq Nat \ {0} /\ Empty \notin Data /\ Erased \notin RawEvents

NoEvents == [at |-> [i \in {} |-> Erased], last_id |-> 0]

\* id <= ids_.back()
AtMostBack(p, id) == \E i \in DOMAIN p.at : i >= id

ErasedIds(p) == {i \in DOMAIN p.at : p.at[i] = Erased}

\* for_each: the ids it visits.
LiveIds(p) == DOMAIN p.at \ ErasedIds(p)

Compactify(p) ==
  IF /\ Cardinality(DOMAIN p.at) > CompactTotal
     /\ Cardinality(ErasedIds(p)) * 4 > Cardinality(DOMAIN p.at) * 3
    THEN [p EXCEPT !.at = [i \in LiveIds(p) |-> p.at[i]]]
    ELSE p

\* Does do_event() change an event that is there?
IsRewrite(p, e) == e.rewrite /\ AtMostBack(p, e.id)

\* do_event() returns no error.
Accepts(p, e) ==
  IF IsRewrite(p, e) THEN e.id \in LiveIds(p)
  ELSE e.value = Empty \/ ~ AtMostBack(p, e.id)

\* Mutation: a rewrite leaves the event as it was.
DoEvent_KeepsOld(p, e) ==
  IF IsRewrite(p, e)
    THEN Compactify([p EXCEPT !.at[e.id] = IF e.value = Empty THEN Erased ELSE @])
  ELSE IF e.value = Empty
    THEN Compactify(p)
  ELSE Compactify([at |-> [i \in DOMAIN p.at \cup {e.id} |->
                             IF i = e.id THEN e ELSE p.at[i]],
                   last_id |-> e.id])

\* The state after do_event().
DoEvent(p, e) ==
  IF IsRewrite(p, e)
    THEN Compactify([p EXCEPT !.at[e.id] = IF e.value = Empty THEN Erased ELSE e])
  ELSE IF e.value = Empty
    THEN Compactify(p)
  ELSE Compactify([at |-> [i \in DOMAIN p.at \cup {e.id} |->
                             IF i = e.id THEN e ELSE p.at[i]],
                   last_id |-> e.id])

-----------------------------------------------------------------------------
\* The state after a sequence of events.
AfterEvents(events) ==
  LET after[n \in 0 .. Len(events)] ==
        IF n = 0 THEN NoEvents ELSE DoEvent(after[n - 1], events[n])
  IN  after[Len(events)]

\* for_each: what the callback of init() is given.
View(p) == [i \in LiveIds(p) |-> p.at[i].value]

\* for_each: the events it gives, in the order of their ids.
LiveEvents(p) ==
  LET upTo[n \in 0 .. Max({0} \cup DOMAIN p.at)] ==
        IF n = 0 THEN << >>
        ELSE IF n \in LiveIds(p) THEN Append(upTo[n - 1], p.at[n])
        ELSE upTo[n - 1]
  IN  upTo[Max({0} \cup DOMAIN p.at)]
=============================================================================
