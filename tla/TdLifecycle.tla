---------------------------- MODULE TdLifecycle ----------------------------
(***************************************************************************)
(* The life of a TDLib instance, the actor Td (td/telegram/Td.cpp): how it *)
(* takes requests in each of its states, and how it closes.  Td counts the *)
(* request actors and the other actors that hold a reference to it, closes *)
(* in five stages (close_flag_) as the counters fall to zero, and stops    *)
(* when it is closed and its owner (MultiTd) has let it go.                *)
(*                                                                         *)
(* A message to Td runs at once when its mailbox is empty, and is put into *)
(* the mailbox otherwise, as are the messages Td sends to itself           *)
(* (Scheduler::send_impl, always_wait_for_mailbox).                        *)
(***************************************************************************)
EXTENDS Integers, Sequences, FiniteSets

CONSTANTS
  Ids,       \* requests; each is sent at most once
  Managers,  \* bound: actors with a reference to a running Td
  Destruct   \* may the client manager be destroyed with Td open?

ASSUME TdAssumption == Managers \in Nat \ {0} /\ IsFiniteSet(Ids) /\ Destruct \in BOOLEAN

\* sync: answered inside Td::request (getCurrentState); close, destroy;
\* params: setTdlibParameters; key: checkDatabaseEncryptionKey; option:
\* allowed before the authorization (getOption); actor: CREATE_REQUEST; promise:
\* CREATE_REQUEST_PROMISE.  A request of the last two is refused before the
\* authorization, except testProxy and setAlarm, which are taken in any state.
Kinds == {"sync", "close", "destroy", "params", "key", "option", "actor", "promise"}
States == {"WaitParameters", "Decrypt", "Run", "Close"}

VARIABLES
  td,        \* the actor
  sent,      \* the kind of every request sent so far
  actors,    \* request actors at work
  promises,  \* requests that another actor will answer
  managers,  \* actors with a reference to Td
  owned      \* does MultiTd still own it?

vars == <<td, sent, actors, promises, managers, owned>>

Init ==
  /\ td = [state |-> "WaitParameters", close_flag |-> 0, destroy_flag |-> FALSE,
           request_set |-> {}, pending |-> {}, actor_refcnt |-> 1, request_actor_refcnt |-> 1,
           stop_cnt |-> 2, mailbox |-> << >>, flushing |-> 0, stopped |-> FALSE, bad |-> FALSE,
           answered |-> {}, twice |-> {}, behind |-> {}, late |-> {}, db |-> FALSE]
  /\ sent = [i \in {} |-> "sync"]
  /\ actors = {} /\ promises = {} /\ managers = 0 /\ owned = TRUE

-----------------------------------------------------------------------------
\* Answers and reference counters.  s is the state of Td.

Message(what, i) == <<what, i>>
Post(s, ms) == [s EXCEPT !.mailbox = @ \o ms]

\* callback_->on_result, on_error
Answer(s, ids) ==
  [s EXCEPT !.request_set = @ \ ids, !.answered = @ \cup ids,
            !.twice = @ \cup (ids \cap s.answered)]

\* send_result, send_error_impl
Reply(s, i) == IF i \in s.request_set THEN Answer(s, {i}) ELSE s

\* Mutation: nothing is answered.
ClearRequests_Forgets(s) == s

ClearRequests(s) == Answer(s, s.request_set)

\* Mutation: the first call stops Td.
DecStopCnt_Once(s) ==
  [s EXCEPT !.stop_cnt = 0, !.stopped = TRUE, !.mailbox = << >>, !.flushing = 0,
            !.bad = @ \/ s.close_flag # 5]

\* stop() throws the mailbox away; tear_down checks close_flag_.
DecStopCnt(s) ==
  IF s.stop_cnt > 1 THEN [s EXCEPT !.stop_cnt = @ - 1]
  ELSE [s EXCEPT !.stop_cnt = 0, !.stopped = TRUE, !.mailbox = << >>, !.flushing = 0,
                 !.bad = @ \/ s.close_flag # 5]

OnClosed(s) == DecStopCnt([s EXCEPT !.close_flag = 5, !.behind = s.request_set])

DecActorRefcnt(s) ==
  LET t == [s EXCEPT !.actor_refcnt = @ - 1] IN
  CASE t.actor_refcnt # 0 -> t
    [] t.actor_refcnt = 0 /\ s.close_flag = 2 ->
         Post([t EXCEPT !.actor_refcnt = 1, !.close_flag = 3], <<Message("actorGone", 0)>>)
    [] t.actor_refcnt = 0 /\ s.close_flag = 3 ->
         [t EXCEPT !.actor_refcnt = 1, !.close_flag = 4, !.db = TRUE]
    [] t.actor_refcnt = 0 /\ s.close_flag = 4 -> OnClosed(t)
    [] OTHER -> [t EXCEPT !.bad = TRUE]

Clear(s) ==
  IF s.close_flag >= 2 THEN s ELSE ClearRequests([s EXCEPT !.close_flag = 2])

DecRequestActorRefcnt(s) ==
  LET t == [s EXCEPT !.request_actor_refcnt = @ - 1] IN
  IF t.request_actor_refcnt # 0 THEN t ELSE DecActorRefcnt(Clear(t))

\* Mutation: the guard of the request actors is never removed before Run.
CloseImpl_KeepsGuard(s, destroy) ==
  LET t == [s EXCEPT !.destroy_flag = @ \/ destroy] IN
  IF t.close_flag # 0 THEN t
  ELSE IF t.state \in {"WaitParameters", "Decrypt"}
  THEN [ClearRequests(t) EXCEPT !.state = "Close", !.close_flag = 4]
  ELSE Post([t EXCEPT !.state = "Close", !.close_flag = 1], <<Message("requestActorGone", 0)>>)

\* close_impl.  The guard is removed by a message.
CloseImpl(s, destroy) ==
  LET t == [s EXCEPT !.destroy_flag = @ \/ destroy]
      guard == <<Message("requestActorGone", 0)>>
  IN IF t.close_flag # 0 THEN t
     ELSE IF t.state \in {"WaitParameters", "Decrypt"}
     THEN Post([ClearRequests(t) EXCEPT !.state = "Close", !.close_flag = 4], guard)
     ELSE Post([t EXCEPT !.state = "Close", !.close_flag = 1], guard)

-----------------------------------------------------------------------------
\* Td::request.  The outcomes of the request: the new state of Td, and whether
\* a request actor, a promise or the managers come into being.

Outcome(s, makes) == [td |-> s, makes |-> makes]
ReplyLater(s, i, more) == Post(s, <<Message("reply", i)>> \o more)

\* checkDatabaseEncryptionKey: init() may fail; it passes the requests that
\* waited for it on.
InitDatabase(s, i) ==
  {Outcome(ReplyLater(s, i, << >>), "nothing"),
   Outcome(ReplyLater([s EXCEPT !.state = "Run", !.actor_refcnt = @ + Managers, !.pending = {}],
                      i, << >>), "managers")}

\* setTdlibParameters: set_parameters() may fail.
SetParameters(s, i) ==
  {Outcome(ReplyLater(s, i, << >>), "nothing"),
   Outcome(ReplyLater([s EXCEPT !.state = "Decrypt"], i, << >>), "nothing")}

Request(s0, i, kind) ==
  LET s == [s0 EXCEPT !.request_set = @ \cup {i}]
      Now == {Outcome(Reply(s, i), "nothing")}
      Later == {Outcome(ReplyLater(s, i, << >>), "nothing")}
      early == s.state \in {"WaitParameters", "Decrypt"}
  IN CASE kind = "sync" -> Now
       [] kind = "close" ->
            {Outcome(ReplyLater([s EXCEPT !.late = IF s.close_flag >= 4 THEN @ \cup {i} ELSE @],
                                i, <<Message("close", 0)>>), "nothing")}
       [] kind = "destroy" /\ s.state \in {"Decrypt", "Run"} ->
            {Outcome(ReplyLater(s, i, <<Message("destroy", 0)>>), "nothing")}
       [] kind = "params" /\ s.state = "WaitParameters" -> SetParameters(s, i)
       [] kind = "key" /\ s.state = "Decrypt" -> InitDatabase(s, i)
       [] kind = "option" /\ early ->
            {Outcome([s EXCEPT !.pending = @ \cup {i}], "nothing")}
       [] kind \in {"params", "key"} /\ s.state = "Run" -> Later
       [] kind = "option" /\ s.state = "Run" -> {Outcome(s, "promise")}
       [] kind = "promise" /\ s.state # "Close" ->
            {Outcome(s, "promise")} \cup Now \cup Later
       [] kind = "actor" /\ s.state # "Close" ->
            {Outcome([s EXCEPT !.request_actor_refcnt = @ + 1], "actor")} \cup Now \cup Later
       [] OTHER -> Now

\* What Td does with a message; the requests are handled by Request.
Handle(s, m) ==
  CASE m[1] = "reply" -> Reply(s, m[2])
    [] m[1] = "close" -> CloseImpl(s, FALSE)
    [] m[1] = "destroy" -> CloseImpl(s, TRUE)
    [] m[1] = "requestActorGone" -> DecRequestActorRefcnt(s)
    [] m[1] = "actorGone" -> DecActorRefcnt(s)
    [] m[1] = "hangup" -> DecStopCnt(CloseImpl(s, FALSE))

\* Td, in state s, takes the request.
TakeRequest(s, i, kind) ==
  \E o \in Request(s, i, kind) :
    /\ td' = o.td
    /\ actors' = IF o.makes = "actor" THEN actors \cup {i} ELSE actors
    /\ promises' = CASE o.makes = "promise" -> promises \cup {i}
                     [] o.makes = "managers" -> promises \cup s.pending
                     [] OTHER -> promises
    /\ managers' = IF o.makes = "managers" THEN Managers ELSE managers

\* Td works off its mailbox: the messages that are there when it begins, one
\* after the other, with no other actor of the thread in between.
Flush ==
  /\ ~td.stopped /\ td.mailbox # << >>
  /\ LET left == IF td.flushing = 0 THEN Len(td.mailbox) - 1 ELSE td.flushing - 1
         s == [td EXCEPT !.mailbox = Tail(@), !.flushing = left]
         m == Head(td.mailbox)
     IN IF m[1] = "request" THEN TakeRequest(s, m[2], sent[m[2]])
        ELSE td' = Handle(s, m) /\ UNCHANGED <<actors, promises, managers>>
  /\ UNCHANGED <<sent, owned>>

-----------------------------------------------------------------------------
\* The others.  Their messages come when Td is not at work.

Idle == td.flushing = 0

\* MultiTd::send
Send(i, kind) ==
  /\ owned /\ i \notin DOMAIN sent /\ Idle
  /\ sent' = [j \in DOMAIN sent \cup {i} |-> IF j = i THEN kind ELSE sent[j]]
  /\ IF td.mailbox = << >> THEN TakeRequest(td, i, kind)
     ELSE td' = Post(td, <<Message("request", i)>>) /\ UNCHANGED <<actors, promises, managers>>
  /\ UNCHANGED owned

\* A message that is no request of the user.
Tell(m) ==
  /\ Idle
  /\ td' = IF td.stopped THEN td
           ELSE IF td.mailbox = << >> THEN Handle(td, m) ELSE Post(td, <<m>>)

\* MultiTd::close, called once the update about the closing was received.
LetGo ==
  /\ owned /\ td.close_flag = 5
  /\ owned' = FALSE /\ Tell(Message("hangup", 0))
  /\ UNCHANGED <<sent, actors, promises, managers>>

\* ClientManager is destroyed before Td was closed.
LetGoEarly ==
  /\ Destruct /\ owned /\ td.close_flag < 5
  /\ owned' = FALSE /\ Tell(Message("hangup", 0))
  /\ UNCHANGED <<sent, actors, promises, managers>>

\* RequestActor answers and stops; it does so too when Td hangs it up.
ActorAnswers(i) ==
  /\ i \in actors /\ ~td.stopped /\ Idle
  /\ actors' = actors \ {i}
  /\ td' = IF td.mailbox = << >>
           THEN DecRequestActorRefcnt(Reply(td, i))
           ELSE Post(td, <<Message("reply", i), Message("requestActorGone", 0)>>)
  /\ UNCHANGED <<sent, promises, managers, owned>>

PromiseAnswers(i) ==
  /\ i \in promises
  /\ promises' = promises \ {i}
  /\ Tell(Message("reply", i))
  /\ UNCHANGED <<sent, actors, managers, owned>>

\* An actor closed by Td::clear lets its reference go.
ManagerGone ==
  /\ managers > 0 /\ td.close_flag >= 2
  /\ managers' = managers - 1
  /\ Tell(Message("actorGone", 0))
  /\ UNCHANGED <<sent, actors, promises, owned>>

\* The promise given to close_all or close_and_destroy_all.
DatabasesClosed ==
  /\ td.db /\ Idle
  /\ td' = LET s == [td EXCEPT !.db = FALSE]  m == Message("actorGone", 0)
           IN IF s.mailbox = << >> THEN Handle(s, m) ELSE Post(s, <<m>>)
  /\ UNCHANGED <<sent, actors, promises, managers, owned>>

\* The user logged out: AuthManager asks for the destruction.
LoggedOut ==
  /\ td.state = "Run" /\ Idle /\ \A k \in DOMAIN td.mailbox : td.mailbox[k][1] # "destroy"
  /\ td' = Post(td, <<Message("destroy", 0)>>)
  /\ UNCHANGED <<sent, actors, promises, managers, owned>>

Closing ==
  \/ LetGo \/ ManagerGone \/ DatabasesClosed
  \/ \E i \in Ids : td.close_flag > 0 /\ ActorAnswers(i)

Next ==
  \/ Flush
  \/ \E i \in Ids, kind \in Kinds : Send(i, kind)
  \/ LetGo \/ LetGoEarly
  \/ \E i \in Ids : ActorAnswers(i) \/ PromiseAnswers(i)
  \/ ManagerGone \/ DatabasesClosed
  \/ LoggedOut

\* Td runs; actors that were hung up stop, and databases close.
Spec == Init /\ [][Next]_vars /\ WF_vars(Flush) /\ WF_vars(Closing)

-----------------------------------------------------------------------------
TypeOK ==
  /\ td.state \in States /\ td.close_flag \in 0 .. 5 /\ td.destroy_flag \in BOOLEAN
  /\ td.request_set \subseteq DOMAIN sent /\ td.pending \subseteq DOMAIN sent
  /\ td.actor_refcnt \in 0 .. Managers + 1 /\ td.request_actor_refcnt \in 0 .. Cardinality(Ids) + 1
  /\ td.flushing \in 0 .. Len(td.mailbox) /\ td.stop_cnt \in 0 .. 2 /\ td.stopped = (td.stop_cnt = 0)
  /\ td.answered \cup td.twice \cup td.behind \cup td.late \subseteq DOMAIN sent
  /\ DOMAIN sent \subseteq Ids /\ \A i \in DOMAIN sent : sent[i] \in Kinds
  /\ actors \subseteq Ids /\ promises \subseteq Ids /\ managers \in 0 .. Managers
  /\ owned \in BOOLEAN

\* Whatever closes Td, and however its messages, the end of its actors and the
\* closing of the databases are mixed, no counter falls to zero in a stage that
\* does not expect it (UNREACHABLE in dec_actor_refcnt), and Td stops in the last
\* stage only (LOG_CHECK in tear_down).
StagesInOrder == ~td.bad

\* No request is answered twice: not when Td gives up on it while closing and its
\* actor or promise answers after that.
AnsweredOnce == td.twice = {}

\* When Td stops, every request it was given was answered; a close request that
\* was taken in the last two stages of a closing may have been lost.
StoppedAnsweredAll == td.stopped => DOMAIN sent \subseteq td.answered \cup td.late

\* When Td reports that it is closed, it owes no answer but to a close request.
ClosedOwesNothing == \A i \in td.behind : sent[i] = "close"

\* Each request is answered exactly once, at the latest when Td closes.
RequestsAnswered == TypeOK /\ AnsweredOnce /\ StoppedAnsweredAll /\ ClosedOwesNothing

\* A Td that was asked to close comes to report that it is closed.
CloseEnds == (td.close_flag > 0) ~> (td.close_flag = 5)

\* A Td that was let go by its owner stops, whatever state it was in.
LetGoStops == ~owned ~> td.stopped

\* Closing ends, whoever began it.
ClosingEnds == CloseEnds /\ LetGoStops
=============================================================================
