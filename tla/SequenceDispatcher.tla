------------------------- MODULE SequenceDispatcher -------------------------
(***************************************************************************)
(* SequenceDispatcher and its parent MultiSequenceDispatcher               *)
(* (td/telegram/SequenceDispatcher.cpp), for one sequence_id.  Queries of  *)
(* a sequence are sent without waiting for answers, each with invokeAfter  *)
(* of the one before it; a failed query is sent again, and so is           *)
(* everything behind it in its chain.                                      *)
(*                                                                         *)
(* The two actors and the callers run one handler at a time.  Positions    *)
(* are counted from 1 and "none" is 0, so finish_i, next_i and last_sent_i *)
(* are one larger than in the code.  A query is its number in the          *)
(* sequence.  External parts: the network (net, srv) keeps the contract of *)
(* invokeAfter; callbacks (hands) give a failed query back or end it.      *)
(***************************************************************************)
EXTENDS Integers, FiniteSets, Sequences, SequencesExt, FiniteSetsExt

CONSTANTS
  MaxQueries,           \* bound: queries sent to the sequence
  MaxFailures,          \* bound: failures of the network and given-back queries
  MaxSimultaneousWait,  \* MAX_SIMULTANEOUS_WAIT, 10 in the code
  ShrinkMin,            \* try_shrink keeps vectors up to this size, 5 in the code
  Timeouts,             \* values of last_timeout_ in an answer
  TimeoutLimit          \* total_timeout_limit_

ASSUME ConstantsOK ==
  /\ {MaxQueries, MaxFailures, ShrinkMin, TimeoutLimit} \subseteq Nat
  /\ MaxSimultaneousWait \in Nat \ {0}
  /\ Timeouts \subseteq Nat /\ 0 \in Timeouts

VARIABLES
  d,          \* the members of the dispatcher (see Fresh)
  timer,      \* is the timeout of the dispatcher set?
  inbox,      \* queries on their way from the parent to the dispatcher
  exists,     \* is the sequence in dispatchers_?
  cnt,        \* dispatchers_[sequence_id].cnt_
  to_parent,  \* messages on their way to the parent
  net,        \* queries sent and not answered
  srv,        \* srv[q]: what became of the last attempt of q at the server
  hands,      \* queries handed to on_result_resendable, promise not yet set
  executed,   \* history: queries in the order the server executed them
  done,       \* history: queries given back to their callers for good
  asked,      \* queries sent to the sequence so far
  failures,   \* counts towards MaxFailures
  local       \* may a sent query fail in the client, unseen by the server?

vars == <<d, timer, inbox, exists, cnt, to_parent, net, srv, hands, executed, done, asked,
          failures, local>>

Queries == 1 .. MaxQueries

\* A new SequenceDispatcher.
Fresh ==
  [data |-> <<>>, finish_i |-> 1, next_i |-> 1, last_sent_i |-> 0,
   generation |-> 1, id_offset |-> 1, wait_cnt |-> 0, sent |-> {}]

Init ==
  /\ d = Fresh /\ timer = FALSE /\ inbox = <<>>
  /\ exists = FALSE /\ cnt = 0 /\ to_parent = <<>>
  /\ net = {} /\ srv = [q \in Queries |-> "idle"] /\ hands = {}
  /\ executed = <<>> /\ done = {} /\ asked = 0 /\ failures = 0
  /\ local \in BOOLEAN

-----------------------------------------------------------------------------
\* The helpers of the class, as functions of its members.

Token(s, p) == p - 1 + s.id_offset
Pos(s, token) == token - s.id_offset + 1

\* The vector with Op(p) at position p.
Each(data, Op(_)) == SubSeq([p \in DOMAIN data |-> Op(p)], 1, Len(data))

\* Mutation: invokeAfter only within one call of loop().
InvokeAfter_Never(s) == 0

\* Who the next query has to be invoked after.
InvokeAfter(s) ==
  IF s.last_sent_i # 0 /\ s.data[s.last_sent_i].state = "Wait"
  THEN s.data[s.last_sent_i].query ELSE 0

\* The second loop of loop() sends the positions Sent: it goes on from next_i_
\* up to, and not including, a waiting query or the query that would be one too many.
Passed(s) ==
  Max({n \in s.next_i .. Len(s.data) + 1 :
         \A p \in s.next_i .. n - 1 :
           /\ s.data[p].state # "Wait"
           /\ s.wait_cnt + Cardinality({r \in s.next_i .. p - 1 : s.data[r].state = "Start"})
                < MaxSimultaneousWait})

Sent(s) == {p \in s.next_i .. Passed(s) - 1 : s.data[p].state = "Start"}

SendAll(s) ==
  LET ps == Sent(s)
      After(p) == LET earlier == {r \in ps : r < p}
                  IN IF earlier = {} THEN InvokeAfter(s) ELSE s.data[Max(earlier)].query
      Put(p) == IF p \in ps THEN [s.data[p] EXCEPT !.state = "Wait", !.generation = s.generation]
                ELSE s.data[p]
  IN [s EXCEPT !.data = Each(s.data, Put),
               !.next_i = Passed(s),
               !.wait_cnt = @ + Cardinality(ps),
               !.last_sent_i = IF ps = {} THEN @ ELSE Max(ps),
               !.sent = {[token |-> Token(s, p), query |-> s.data[p].query,
                          after |-> After(p)] : p \in ps}]

\* The first loop of loop(): finish_i and next_i move to the first unfinished query.
SkipFinished(s) ==
  LET open == {p \in s.finish_i .. Len(s.data) : s.data[p].state # "Finish"}
      f == Min(open \cup {Len(s.data) + 1})
  IN [s EXCEPT !.finish_i = f, !.next_i = IF s.next_i < f THEN f ELSE @]

\* Mutation: id_offset_ is not moved with the others.
TryShrink_KeepsOffset(s) ==
  LET n == s.finish_i - 1 IN
  IF n * 2 > Len(s.data) /\ Len(s.data) > ShrinkMin
  THEN [s EXCEPT !.data = SubSeq(s.data, n + 1, Len(s.data)), !.next_i = @ - n,
                 !.last_sent_i = IF @ > n THEN @ - n ELSE 0, !.finish_i = 1]
  ELSE s

TryShrink(s) ==
  LET n == s.finish_i - 1 IN
  IF n * 2 > Len(s.data) /\ Len(s.data) > ShrinkMin
  THEN [s EXCEPT !.data = SubSeq(s.data, n + 1, Len(s.data)),
                 !.next_i = @ - n,
                 !.last_sent_i = IF @ > n THEN @ - n ELSE 0,
                 !.id_offset = @ + n,
                 !.finish_i = 1]
  ELSE s

\* check_timeout(data_[p]) for all p in ps: who waited too long in the queue
\* goes back to its caller with an error.
TooLong(s, ps) ==
  {p \in ps : s.data[p].state = "Start" /\ s.data[p].total_timeout > TimeoutLimit}

CheckTimeout(s, ps) ==
  LET Ended(p) == [s.data[p] EXCEPT !.state = IF p \in TooLong(s, ps) THEN "Wait" ELSE @]
  IN [s EXCEPT !.data = Each(s.data, Ended),
               !.wait_cnt = @ + Cardinality(TooLong(s, ps))]

Handed(s, ps) == {[token |-> Token(s, p), query |-> s.data[p].query, ok |-> FALSE] : p \in TooLong(s, ps)}

\* The answer for position p took lt longer, for it and for all behind it.
Delay(s, p, lt) ==
  LET Longer(i) == [s.data[i] EXCEPT !.total_timeout = IF i >= p THEN @ + lt ELSE @]
  IN [s EXCEPT !.data = Each(s.data, Longer)]

\* data_from_token(), up to the new state of the query.
FromToken(s, p) == [s EXCEPT !.wait_cnt = @ - 1, !.data[p].state = "Dummy"]

\* do_resend(data_[p]), up to its check_timeout.
Restart(s, p) ==
  LET b == [s EXCEPT !.data[p].state = "Start"] IN
  IF s.data[p].generation = s.generation
  THEN [b EXCEPT !.next_i = s.finish_i, !.generation = @ + 1, !.last_sent_i = 0]
  ELSE b

-----------------------------------------------------------------------------
\* What every handler of the dispatcher ends with: loop(), the messages it
\* sent, and the timeout when nothing is left.
AfterLoop(before, answered, handed) ==
  \E s \in {before} :
  \E a \in {SkipFinished(s)} : \E b \in {SendAll(a)} : \E r \in {TryShrink(b)} :
  /\ d' = [r EXCEPT !.sent = {}]
  /\ net' = (net \ answered) \cup r.sent
  /\ srv' = [q \in Queries |-> IF \E m \in r.sent : m.query = q THEN "pending" ELSE srv[q]]
  /\ hands' = handed

\* Mutation: the timeout is not set when the last query finishes.
TimerAfter_Never(before) == timer' = before

\* set_timeout_in(5) at the end of loop(); "before" is its state before.
TimerAfter(before) == timer' = (before \/ d'.finish_i = Len(d'.data) + 1)

\* MultiSequenceDispatcher::send_with_callback: the dispatcher is created on demand.
SendWithCallback ==
  /\ asked < MaxQueries
  /\ asked' = asked + 1
  /\ exists' = TRUE
  /\ cnt' = cnt + 1
  /\ inbox' = Append(inbox, asked')
  /\ UNCHANGED <<d, timer, to_parent, net, srv, hands, executed, done, failures, local>>

\* SequenceDispatcher::send_with_callback.
Enqueue ==
  /\ inbox # <<>>
  /\ LET x == [query |-> Head(inbox), state |-> "Start", generation |-> 0, total_timeout |-> 0]
     IN AfterLoop([d EXCEPT !.data = Append(@, x)], {}, hands)
  /\ inbox' = Tail(inbox)
  /\ TimerAfter(FALSE)
  /\ UNCHANGED <<exists, cnt, to_parent, executed, done, failures, asked, local>>

\* on_result with last_timeout_ = lt: the queries behind waited that long as
\* well.  A query that only lost its predecessor is sent again at once, any
\* other answer goes to the callback, which may want to send it again.
OnResult(m, lt) ==
  /\ m \in net
  /\ srv[m.query] \in {"ok", "error", "wait_failed"}
  /\ \E p \in {Pos(d, m.token)} : \E b \in {Delay(FromToken(d, p), p, lt)} :
     \E c \in {CheckTimeout(b, p + 1 .. Len(b.data))} : \E r \in {Restart(c, p)} :
       LET h == hands \cup Handed(b, p + 1 .. Len(b.data)) IN
       IF srv[m.query] = "wait_failed"
       THEN AfterLoop(CheckTimeout(r, {p}), {m}, h \cup Handed(r, {p}))
       ELSE AfterLoop([c EXCEPT !.data[p].state = "Wait", !.wait_cnt = @ + 1], {m},
                      h \cup {[token |-> m.token, query |-> m.query, ok |-> srv[m.query] = "ok"]})
  /\ failures' = failures + (IF lt = 0 THEN 0 ELSE 1) /\ failures' <= MaxFailures
  /\ TimerAfter(timer)
  /\ UNCHANGED <<inbox, exists, cnt, to_parent, executed, done, asked, local>>

\* The callback wants the query sent again (only ever after an error).
OnResendOk(h) ==
  /\ h \in hands /\ ~h.ok /\ failures < MaxFailures
  /\ \E p \in {Pos(d, h.token)} : \E r \in {Restart(FromToken(d, p), p)} :
       AfterLoop(CheckTimeout(r, {p}), {}, (hands \ {h}) \cup Handed(r, {p}))
  /\ failures' = failures + 1
  /\ TimerAfter(timer)
  /\ UNCHANGED <<inbox, exists, cnt, to_parent, executed, done, asked, local>>

\* The callback is done with the query, or lost the promise: do_finish.
OnResendError(h) ==
  /\ h \in hands
  /\ AfterLoop([FromToken(d, Pos(d, h.token)) EXCEPT !.data[Pos(d, h.token)].state = "Finish"],
               {}, hands \ {h})
  /\ to_parent' = Append(to_parent, "on_result")
  /\ done' = done \cup {h.query}
  /\ TimerAfter(timer)
  /\ UNCHANGED <<inbox, exists, cnt, executed, failures, asked, local>>

\* timeout_expired.  Parent and dispatcher run on one scheduler, which empties
\* the mailbox of the parent in less than the second until the next timeout.
TimeoutExpired ==
  /\ timer /\ "ready_to_close" \notin ToSet(to_parent)
  /\ timer' = (d.finish_i = Len(d.data) + 1)
  /\ to_parent' = IF timer' THEN Append(to_parent, "ready_to_close") ELSE to_parent
  /\ UNCHANGED <<d, inbox, exists, cnt, net, srv, hands, executed, done, failures, asked, local>>

\* MultiSequenceDispatcher::on_result.
ParentOnResult ==
  /\ to_parent # <<>> /\ Head(to_parent) = "on_result"
  /\ to_parent' = Tail(to_parent)
  /\ cnt' = cnt - 1
  /\ UNCHANGED <<d, timer, inbox, exists, net, srv, hands, executed, done, failures, asked, local>>

\* May the dispatcher be closed when it says that it is idle?
MayClose == cnt = 0

\* MultiSequenceDispatcher::ready_to_close, with hangup() of the dispatcher.
ParentReadyToClose ==
  /\ to_parent # <<>> /\ Head(to_parent) = "ready_to_close"
  /\ to_parent' = Tail(to_parent)
  /\ exists' = ~MayClose
  /\ IF MayClose THEN d' = Fresh /\ timer' = FALSE /\ inbox' = <<>> ELSE UNCHANGED <<d, timer, inbox>>
  /\ UNCHANGED <<cnt, net, srv, hands, executed, done, failures, asked, local>>

-----------------------------------------------------------------------------
\* The network and the server.  A query with invokeAfter is executed only
\* after the other one was executed with success; else it fails as a whole.

Answer(q, what) ==
  /\ srv' = [srv EXCEPT ![q] = what]
  /\ UNCHANGED <<d, timer, inbox, exists, cnt, to_parent, net, hands, done, asked, local>>

\* What became of the query that m has to be invoked after.
Before(m) == IF m.after = 0 THEN "ok" ELSE srv[m.after]

Execute(m) ==
  /\ m \in net /\ srv[m.query] = "pending"
  /\ Before(m) = "ok"
  /\ executed' = Append(executed, m.query)
  /\ Answer(m.query, "ok") /\ UNCHANGED failures

\* An error of the query itself; or, if local, one of the client (a cancelled
\* query), for which the server never saw it.
Fail(m) ==
  /\ m \in net /\ srv[m.query] = "pending"
  /\ local \/ Before(m) = "ok"
  /\ failures < MaxFailures /\ failures' = failures + 1
  /\ Answer(m.query, "error") /\ UNCHANGED executed

\* MSG_WAIT_FAILED, MSG_WAIT_TIMEOUT or, from Session, ResendInvokeAfter.
WaitFail(m) ==
  /\ m \in net /\ srv[m.query] = "pending"
  /\ Before(m) # "ok"
  /\ failures' = failures + (IF Before(m) \in {"error", "wait_failed"} THEN 0 ELSE 1)
  /\ failures' <= MaxFailures
  /\ Answer(m.query, "wait_failed") /\ UNCHANGED executed

-----------------------------------------------------------------------------
Next ==
  \/ SendWithCallback
  \/ Enqueue
  \/ \E m \in net, lt \in Timeouts : OnResult(m, lt)
  \/ \E h \in hands : OnResendOk(h)
  \/ \E h \in hands : OnResendError(h)
  \/ TimeoutExpired
  \/ ParentOnResult
  \/ ParentReadyToClose
  \/ \E m \in net : Execute(m)
  \/ \E m \in net : Fail(m)
  \/ \E m \in net : WaitFail(m)

\* Actors with messages run, queries are answered, callbacks set their
\* promises, timeouts expire.
Fairness ==
  /\ WF_vars(Enqueue)
  /\ WF_vars(\E m \in net : OnResult(m, 0))
  /\ WF_vars(\E m \in net : Execute(m) \/ Fail(m) \/ WaitFail(m))
  /\ WF_vars(\E h \in hands : OnResendError(h))
  /\ WF_vars(TimeoutExpired)
  /\ WF_vars(ParentOnResult)
  /\ WF_vars(ParentReadyToClose)

Spec == Init /\ [][Next]_vars /\ Fairness

-----------------------------------------------------------------------------
TypeOK ==
  /\ \A p \in DOMAIN d.data :
       d.data[p] \in [query : Queries, state : {"Start", "Wait", "Finish"},
                      generation : Nat, total_timeout : Nat]
  /\ d.finish_i \in 1 .. Len(d.data) + 1
  /\ d.next_i \in d.finish_i .. Len(d.data) + 1
  /\ d.last_sent_i \in 0 .. Len(d.data)
  /\ d.generation \in Nat \ {0} /\ d.id_offset \in Nat \ {0} /\ d.wait_cnt \in Nat
  /\ {timer, exists} \subseteq BOOLEAN
  /\ inbox \in Seq(Queries) /\ cnt \in Nat
  /\ to_parent \in Seq({"on_result", "ready_to_close"})
  /\ net \subseteq [token : Queries, query : Queries, after : {0} \cup Queries]
  /\ srv \in [Queries -> {"idle", "pending", "ok", "error", "wait_failed"}]
  /\ hands \subseteq [token : Queries, query : Queries, ok : BOOLEAN]
  /\ executed \in Seq(Queries) /\ done \subseteq Queries
  /\ asked \in 0 .. MaxQueries /\ failures \in Nat /\ local \in BOOLEAN

\* Every token outside the dispatcher finds its own query, in state Wait, also
\* after try_shrink moved the vector, every waiting query has exactly one
\* token outside, and wait_cnt_ counts them: the CHECKs of data_from_token
\* hold and no answer is taken for that of another query.
TokensFindTheirQuery ==
  LET out == {[token |-> m.token, query |-> m.query] : m \in net \cup hands}
      waiting == {[token |-> Token(d, p), query |-> d.data[p].query] :
                    p \in {r \in DOMAIN d.data : d.data[r].state = "Wait"}}
  IN /\ out = waiting
     /\ d.wait_cnt = Cardinality(net) + Cardinality(hands)
     /\ Cardinality(waiting) = d.wait_cnt

\* The server executes the queries of a sequence in the order they were sent
\* in, each at most once, whatever fails at the server and is sent again.  (A
\* query that fails in the client ends in state Finish, and the next one is
\* sent without invokeAfter although earlier ones are still under way.)
ExecutedInOrder ==
  ~local => \A i, j \in DOMAIN executed : i < j => executed[i] < executed[j]

\* A query that has to be sent (again) is never behind next_i_: do_resend
\* leaves next_i_ alone when the query belongs to an older chain.
NothingSkipped ==
  \A p \in DOMAIN d.data : d.data[p].state = "Start" => p >= d.next_i

\* The parent forgets a dispatcher only when all its queries are done, nothing
\* is under way in either direction, and no CHECK of the parent can fail.
ClosedWhenDone ==
  ~exists => done = 1 .. asked /\ net = {} /\ hands = {} /\ to_parent = <<>>

\* Every query that was given to the sequence is finished in the end, although
\* queries, answers and predecessors fail (a bounded number of times).
EveryQueryEnds == \A q \in Queries : asked >= q ~> q \in done

\* An idle dispatcher is closed, although new queries race with its timeout.
IdleIsClosed == []<>~exists

\* No query is mistaken for another, passed over, or left behind in a dispatcher
\* that is closed.
QueriesKept == TypeOK /\ TokensFindTheirQuery /\ NothingSkipped /\ ClosedWhenDone

\* Queries and dispatchers come to their end.
AllEnd == EveryQueryEnds /\ IdleIsClosed
=============================================================================
