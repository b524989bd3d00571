--------------------------- MODULE ClientManager ---------------------------
(***************************************************************************)
(* ClientManager::Impl (td/telegram/Client.cpp): user threads send         *)
(* requests to TDLib instances, one thread receives the answers and the    *)
(* updates.  impls_ is guarded by the read-write lock impls_mutex_; every  *)
(* section under the lock is one step here.  MultiTd, an actor of another  *)
(* thread, owns the instances; the calls come to it in the order in which  *)
(* they were made.  What an instance itself does is in TdLifecycle: here   *)
(* it answers its requests, may close, and reports that it is closed.      *)
(*                                                                         *)
(* Up to ten instances each have a MultiImpl of their own (MultiImplPool). *)
(***************************************************************************)
EXTENDS Integers, Sequences, FiniteSets, Functions

CONSTANTS
  Requests,   \* each is one call of send
  Closes,     \* the requests that ask an instance to close
  Clients,    \* bound: clients created
  Updates     \* bound: other updates of an instance

ASSUME ClientManagerAssumption ==
  Clients \in Nat \ {0} /\ Updates \in Nat /\ IsFiniteSet(Requests) /\ Closes \subseteq Requests

\* "request_id: Request identifier. Must be non-zero." (Client.h)
ASSUME RequestIdAssumption == 0 \notin Requests

Ids == 1 .. Clients

VARIABLES
  current_id, \* MultiImpl::current_id_
  creating,   \* create_client_id has an identifier that is not in impls_ yet
  impls,      \* impls_
  calls,      \* the calls of send: client, and what comes next
  box,        \* the mailbox of MultiTd, by client
  tds,        \* the instances
  out,        \* output_queue_
  held,       \* the response that receive took from the queue; << >> when none
  answers,    \* by request, the responses the user received
  late,       \* requests sent after the user saw that the client is closed
  closed,     \* clients the user saw as closed
  stray,      \* did an update come after that?
  bad,        \* did a CHECK fail?
  destroying  \* ~Impl is running

vars == <<current_id, creating, impls, calls, box, tds, out, held, answers, late, closed, stray,
          bad, destroying>>

NoCall == [client |-> 0, pc |-> "idle"]

Init ==
  /\ current_id = 1 /\ creating = {}
  /\ impls = [c \in {} |-> [impl |-> FALSE, is_closed |-> FALSE]]
  /\ calls = [r \in Requests |-> NoCall]
  /\ box = [c \in Ids |-> << >>]
  /\ tds = [c \in Ids |-> [state |-> "none", pending |-> {}, hung |-> FALSE, updates |-> 0]]
  /\ out = << >> /\ held = << >>
  /\ answers = [r \in Requests |-> << >>]
  /\ late = {} /\ closed = {}
  /\ stray = FALSE /\ bad = FALSE /\ destroying = FALSE

-----------------------------------------------------------------------------
\* A response: its client, its request or 0, and what it says; Nothing stands
\* for nullptr.

Nothing == "nullptr"
Response(c, r, what) == [client |-> c, id |-> r, what |-> what]

Known(c) == c \in DOMAIN impls
With(c, info) == [d \in DOMAIN impls \cup {c} |-> IF d = c THEN info ELSE impls[d]]

CreateId ==
  /\ ~destroying /\ current_id <= Clients
  /\ current_id' = current_id + 1 /\ creating' = creating \cup {current_id}
  /\ UNCHANGED <<impls, calls, box, tds, out, held, answers, late, closed, stray, bad, destroying>>

CreateClientId(c) ==
  /\ c \in creating
  /\ creating' = creating \ {c}
  /\ impls' = With(c, [impl |-> FALSE, is_closed |-> FALSE])
  /\ UNCHANGED <<current_id, calls, box, tds, out, held, answers, late, closed, stray, bad,
                 destroying>>

-----------------------------------------------------------------------------
\* send

Refused(c) == ~Known(c) \/ impls[c].is_closed

\* Mutation: a refused request is handed over all the same.
Finish_NoReturn(r, c) ==
  /\ calls' = [calls EXCEPT ![r] = [client |-> c, pc |-> "done"]]
  /\ out' = IF Refused(c) THEN Append(out, Response(c, r, "500")) ELSE out
  /\ box' = [box EXCEPT ![c] = Append(@, <<"send", r>>)]

\* The last section of send, under the read lock.
Finish(r, c) ==
  /\ calls' = [calls EXCEPT ![r] = [client |-> c, pc |-> "done"]]
  /\ IF Refused(c)
     THEN out' = Append(out, Response(c, r, "500")) /\ UNCHANGED box
     ELSE box' = [box EXCEPT ![c] = Append(@, <<"send", r>>)] /\ UNCHANGED out

\* The first section.  An instance that was not started yet needs the write lock.
Send(r, c) ==
  /\ ~destroying /\ calls[r].pc = "idle"
  /\ late' = IF c \in closed THEN late \cup {r} ELSE late
  /\ IF c >= current_id
     THEN /\ out' = Append(out, Response(c, r, "400"))
          /\ calls' = [calls EXCEPT ![r] = [client |-> c, pc |-> "done"]]
          /\ UNCHANGED box
     ELSE IF Known(c) /\ ~impls[c].impl
     THEN calls' = [calls EXCEPT ![r] = [client |-> c, pc |-> "create"]] /\ UNCHANGED <<out, box>>
     ELSE Finish(r, c)
  /\ UNCHANGED <<current_id, creating, impls, tds, held, answers, closed, stray, bad, destroying>>

\* Mutation: what was found under the read lock is trusted.
MustCreate_Trusting(c) == Known(c)

\* find again: another thread may have started it
MustCreate(c) == Known(c) /\ ~impls[c].impl

\* The second section, under the write lock.
SendCreate(r) ==
  LET c == calls[r].client IN
  /\ calls[r].pc = "create"
  /\ calls' = [calls EXCEPT ![r].pc = "finish"]
  /\ IF MustCreate(c)
     THEN /\ impls' = [impls EXCEPT ![c].impl = TRUE]
          /\ box' = [box EXCEPT ![c] = Append(@, <<"create">>)]
     ELSE UNCHANGED <<impls, box>>
  /\ UNCHANGED <<current_id, creating, tds, out, held, answers, late, closed, stray, bad, destroying>>

SendFinish(r) ==
  /\ calls[r].pc = "finish"
  /\ Finish(r, calls[r].client)
  /\ UNCHANGED <<current_id, creating, impls, tds, held, answers, late, closed, stray, bad, destroying>>

-----------------------------------------------------------------------------
\* receive

\* receiver_.receive: the next response of the queue
ReceiveNext ==
  /\ held = << >> /\ out # << >>
  /\ held' = <<Head(out)>> /\ out' = Tail(out)
  /\ UNCHANGED <<current_id, creating, impls, calls, box, tds, answers, late, closed, stray, bad,
                 destroying>>

\* close_impl, under the write lock; cs are the clients to close
ToClose(cs) == {c \in cs \cap DOMAIN impls : ~impls[c].is_closed}

CloseImpl(cs, keep) ==
  LET todo == ToClose(cs)
      empty == {c \in todo : ~impls[c].impl}
  IN /\ impls' = [c \in DOMAIN impls |-> IF c \in todo THEN [impls[c] EXCEPT !.is_closed = TRUE]
                                         ELSE impls[c]]
     /\ box' = [c \in Ids |-> IF c \in todo \ empty THEN Append(box[c], <<"close">>) ELSE box[c]]
     /\ \E s \in {t \in [1 .. Cardinality(empty) -> empty] : IsInjective(t)} :
          out' = keep \o [k \in DOMAIN s |-> Response(s[k], 0, Nothing)]

\* the update of an instance that is closed; the user does not see it
IsClosedReport(m) == m.id = 0 /\ m.what = "Closed"

\* the instance is gone: its callback was destroyed
IsGone(m) == m.what = Nothing /\ m.client # 0 /\ m.id = 0

\* What receive returns; the destructor throws it away.
ToUser(m) ==
  IF destroying THEN UNCHANGED <<answers, stray, closed>>
  ELSE /\ answers' = IF m.id = 0 THEN answers ELSE [answers EXCEPT ![m.id] = Append(@, m.what)]
       /\ stray' = (stray \/ (m.id = 0 /\ m.client \in closed))
       /\ closed' = IF m.id = 0 /\ m.what \in {"Closed", Nothing} THEN closed \cup {m.client}
                    ELSE closed

Receive ==
  /\ held # << >>
  /\ held' = << >>
  /\ LET m == held[1] IN
     \/ /\ IsClosedReport(m)
        /\ CloseImpl({m.client}, out)
        /\ bad' = (bad \/ ~Known(m.client))
        /\ UNCHANGED <<answers, closed, stray>>
     \/ /\ IsGone(m)
        /\ bad' = (bad \/ ~Known(m.client) \/ ~impls[m.client].is_closed)
        /\ impls' = [c \in DOMAIN impls \ {m.client} |-> impls[c]]
        /\ ToUser(m)
        /\ UNCHANGED <<box, out>>
     \/ /\ ~IsClosedReport(m) /\ ~IsGone(m)
        /\ ToUser(m)
        /\ UNCHANGED <<impls, box, out, bad>>
  /\ UNCHANGED <<current_id, creating, calls, tds, late, destroying>>

\* ~Impl, after the last call of send and receive: closes what is left and
\* receives until it is gone.
Destroy ==
  /\ ~destroying /\ held = << >> /\ creating = {}
  /\ \A r \in Requests : calls[r].pc \in {"idle", "done"}
  /\ destroying' = TRUE
  /\ CloseImpl(DOMAIN impls, out)
  /\ UNCHANGED <<current_id, creating, calls, tds, held, answers, late, closed, stray, bad>>

-----------------------------------------------------------------------------
\* MultiTd takes the next call for the client.

\* Mutation: closing forgets the instance and does not hang it up.
MultiTd_Keeps(td, m) ==
  CASE m[1] = "create" -> [td EXCEPT !.state = "open"]
    [] m[1] = "send" -> [td EXCEPT !.pending = @ \cup {m[2]}]
    [] m[1] = "close" -> td

\* what the call does to the instance
MultiTd(td, m) ==
  CASE m[1] = "create" -> [td EXCEPT !.state = "open"]
    [] m[1] = "send" -> [td EXCEPT !.pending = @ \cup {m[2]}]
    [] m[1] = "close" -> [td EXCEPT !.hung = TRUE]

\* the CHECKs of create, send and close
Expects(td, m) ==
  IF m[1] = "create" THEN td.state = "none" ELSE td.state # "none" /\ ~td.hung

MultiTdStep(c) ==
  /\ box[c] # << >>
  /\ box' = [box EXCEPT ![c] = Tail(@)]
  /\ bad' = (bad \/ ~Expects(tds[c], Head(box[c])))
  /\ tds' = [tds EXCEPT ![c] = MultiTd(@, Head(box[c]))]
  /\ UNCHANGED <<current_id, creating, impls, calls, out, held, answers, late, closed, stray,
                 destroying>>

-----------------------------------------------------------------------------
\* The instance.

Says(c, td, ms) ==
  /\ tds' = [tds EXCEPT ![c] = td]
  /\ out' = out \o ms
  /\ UNCHANGED <<current_id, creating, impls, calls, box, held, answers, late, closed, stray, bad,
                 destroying>>

TdAnswers(c, r) ==
  /\ r \in tds[c].pending /\ tds[c].state \in {"open", "closing", "closed"}
  /\ LET td == [tds[c] EXCEPT !.pending = @ \ {r}] IN
     IF tds[c].state = "open"
     THEN Says(c, [td EXCEPT !.state = IF r \in Closes THEN "closing" ELSE "open"],
               <<Response(c, r, "result")>>)
     ELSE Says(c, td, <<Response(c, r, IF r \in Closes THEN "result" ELSE "500")>>)

TdUpdates(c) ==
  /\ tds[c].state \in {"open", "closing"} /\ tds[c].updates < Updates
  /\ Says(c, [tds[c] EXCEPT !.updates = @ + 1], <<Response(c, 0, "update")>>)

\* The user logged out, or MultiTd let the instance go.
TdBeginsToClose(c) ==
  /\ tds[c].state = "open"
  /\ Says(c, [tds[c] EXCEPT !.state = "closing"], << >>)

\* ClosedOwesNothing of TdLifecycle
TdClosed(c) ==
  /\ tds[c].state = "closing" /\ tds[c].pending \subseteq Closes
  /\ Says(c, [tds[c] EXCEPT !.state = "closed"], <<Response(c, 0, "Closed")>>)

\* StoppedAnsweredAll of TdLifecycle; ~Callback
TdStops(c) ==
  /\ tds[c].state = "closed" /\ tds[c].hung /\ tds[c].pending \subseteq Closes
  /\ Says(c, [tds[c] EXCEPT !.state = "gone", !.pending = {}], <<Response(c, 0, Nothing)>>)

TdCloses(c) ==
  \/ tds[c].hung /\ TdBeginsToClose(c)
  \/ TdClosed(c) \/ TdStops(c)
  \/ tds[c].state # "open" /\ \E r \in Requests : TdAnswers(c, r)

Next ==
  \/ CreateId
  \/ \E c \in Ids :
       \/ CreateClientId(c) \/ MultiTdStep(c)
       \/ TdUpdates(c) \/ TdBeginsToClose(c) \/ TdClosed(c) \/ TdStops(c)
       \/ \E r \in Requests : Send(r, c) \/ TdAnswers(c, r)
  \/ \E r \in Requests : SendCreate(r) \/ SendFinish(r)
  \/ ReceiveNext \/ Receive \/ Destroy

\* The threads of the user and of the scheduler run, receive is called in a loop,
\* and an instance that was asked to close does so (CloseEnds, LetGoStops of TdLifecycle).
Spec ==
  /\ Init /\ [][Next]_vars
  /\ WF_vars(ReceiveNext \/ Receive)
  /\ \A c \in Ids : WF_vars(MultiTdStep(c)) /\ WF_vars(TdCloses(c)) /\ WF_vars(CreateClientId(c))
  /\ \A r \in Requests : WF_vars(SendCreate(r) \/ SendFinish(r))

-----------------------------------------------------------------------------
TypeOK ==
  /\ current_id \in 1 .. Clients + 1 /\ creating \subseteq 1 .. current_id - 1
  /\ DOMAIN impls \subseteq 1 .. current_id - 1
  /\ \A c \in DOMAIN impls : impls[c] \in [impl : BOOLEAN, is_closed : BOOLEAN]
  /\ calls \in [Requests -> [client : 0 .. Clients, pc : {"idle", "create", "finish", "done"}]]
  /\ \A c \in Ids : tds[c] \in [state : {"none", "open", "closing", "closed", "gone"},
                                pending : SUBSET Requests, hung : BOOLEAN, updates : 0 .. Updates]
  /\ \A r \in Requests : \A k \in DOMAIN answers[r] : answers[r][k] \in {"result", "400", "500"}
  /\ Len(held) <= 1 /\ late \subseteq Requests /\ closed \subseteq Ids
  /\ {stray, bad, destroying} \subseteq BOOLEAN

\* No CHECK of MultiTd, close_impl or receive fails, however calls of send, receive
\* and the destructor are mixed with the steps of the instances: an instance is
\* created once, gets no request before that or after it was let go, and is erased once.
ChecksHold == ~bad

\* No request is answered twice, whether by the instance or by send itself.
AnsweredOnce == \A r \in Requests : Len(answers[r]) <= 1

\* The update about the closing that the user sees is the last word of the client:
\* no update follows it, and a request sent after it is answered with error 500.
ClosedIsFinal ==
  /\ ~stray
  /\ \A r \in late : \A k \in DOMAIN answers[r] : answers[r][k] = "500"

\* When the user sees that a client is closed, every request that the instance was
\* given was answered; a close request may have been lost (see TdLifecycle).
ClosedAnsweredAll ==
  \A r \in Requests \ Closes :
    calls[r].pc = "done" /\ calls[r].client \in closed /\ r \notin late
      => answers[r] # << >> \/ destroying \/ r \in {out[k].id : k \in DOMAIN out} \cup {held[k].id : k \in DOMAIN held}

\* Each request is answered exactly once, and a client says nothing after it closed.
RequestsAnswered == TypeOK /\ AnsweredOnce /\ ClosedIsFinal /\ ClosedAnsweredAll

\* The destructor ends: every client is gone from impls_.
DestroyEnds == destroying ~> DOMAIN impls = {}

\* Once an instance is closing, every request for it is answered, unless the manager
\* is destroyed.
ClosingAnswers ==
  \A r \in Requests \ Closes, c \in Ids :
    (calls[r].client = c /\ tds[c].state = "closing") ~> (answers[r] # << >> \/ destroying)

\* Closing ends, for the manager and for the requests of a client.
ClosingEnds == DestroyEnds /\ ClosingAnswers
=============================================================================
