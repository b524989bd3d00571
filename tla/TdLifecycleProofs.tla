-------------------------- MODULE TdLifecycleProofs --------------------------
(***************************************************************************)
(* Proofs about TdLifecycle: the reference counters of Td agree with who   *)
(* holds a reference, so that it closes in its stages, and every request   *)
(* is answered once, for any number of requests and of actors.             *)
(***************************************************************************)
EXTENDS TdLifecycle, SequenceTheorems, FiniteSetTheorems, TLAPS

Words == {"reply", "request", "close", "destroy", "requestActorGone", "actorGone",
          "hangup"}
Messages == Words \X (Ids \cup {0})

\* The states of the actor.
TdRecords ==
  [state : States, close_flag : 0 .. 5, destroy_flag : BOOLEAN,
   request_set : SUBSET Ids, pending : SUBSET Ids,
   actor_refcnt : Int, request_actor_refcnt : Int, stop_cnt : Int,
   mailbox : Seq(Messages), flushing : Nat, stopped : BOOLEAN, bad : BOOLEAN,
   answered : SUBSET Ids, twice : SUBSET Ids, behind : SUBSET Ids, late : SUBSET Ids,
   db : BOOLEAN]

-----------------------------------------------------------------------------
(* The mailbox.                                                            *)

\* Where messages of the kind w are in the mailbox q, and how many.
Places(q, w) == {k \in 1 .. Len(q) : q[k][1] = w}
Count(q, w) == Cardinality(Places(q, w))

\* Is if the message m is of the kind w.
Is(m, w) == IF m[1] = w THEN 1 ELSE 0

\* A count is zero exactly when there is no such message.
LEMMA CountFacts ==
  ASSUME NEW q \in Seq(Messages), NEW w
  PROVE  /\ IsFiniteSet(Places(q, w)) /\ Count(q, w) \in Nat
         /\ Count(q, w) = 0 <=> Places(q, w) = {}
<1>1. IsFiniteSet(1 .. Len(q))
  BY FS_Interval
<1>2. Places(q, w) \subseteq 1 .. Len(q)
  BY DEF Places
<1>3. IsFiniteSet(Places(q, w))
  BY <1>1, <1>2, FS_Subset
<1> QED
  BY <1>3, FS_CardinalityType, FS_EmptySet DEF Count

\* A message is put at the end.
LEMMA AppendFacts ==
  ASSUME NEW q \in Seq(Messages), NEW m \in Messages
  PROVE  /\ q \o <<m>> \in Seq(Messages)
         /\ Len(q) \in Nat /\ Len(q \o <<m>>) = Len(q) + 1
         /\ \A k \in 1 .. Len(q) : (q \o <<m>>)[k] = q[k]
         /\ (q \o <<m>>)[Len(q) + 1] = m
<1>1. <<m>> \in Seq(Messages) /\ Len(<<m>>) = 1 /\ <<m>>[1] = m
  OBVIOUS
<1> QED
  BY <1>1, ConcatProperties

\* The first message is taken out.
LEMMA TailFacts ==
  ASSUME NEW q \in Seq(Messages), q # << >>
  PROVE  /\ Tail(q) \in Seq(Messages) /\ Head(q) = q[1] /\ q[1] \in Messages
         /\ Len(q) \in Nat /\ Len(q) >= 1 /\ Len(Tail(q)) = Len(q) - 1
         /\ \A k \in 1 .. Len(q) - 1 : Tail(q)[k] = q[k + 1]
<1>1. /\ Head(q) \in Messages /\ Tail(q) \in Seq(Messages)
      /\ Len(Tail(q)) = Len(q) - 1
      /\ \A k \in 1 .. Len(Tail(q)) : Tail(q)[k] = q[k + 1]
  BY HeadTailProperties
<1>2. Len(q) \in Nat /\ Len(q) >= 1 /\ Head(q) = q[1]
  OBVIOUS
<1> QED
  BY <1>1, <1>2

\* What a message at the end adds to a count.
LEMMA CountAppend ==
  ASSUME NEW q \in Seq(Messages), NEW p, NEW m, NEW w,
         Len(p) = Len(q) + 1, \A k \in 1 .. Len(q) : p[k] = q[k], p[Len(q) + 1] = m
  PROVE  /\ m[1] = w => Places(p, w) = Places(q, w) \cup {Len(q) + 1}
         /\ m[1] # w => Places(p, w) = Places(q, w)
         /\ Count(p, w) = Count(q, w) + Is(m, w)
<1>1. Len(q) \in Nat
  OBVIOUS
<1>2. 1 .. Len(p) = 1 .. Len(q) \cup {Len(q) + 1}
  BY <1>1
<1>3. /\ m[1] = w => Places(p, w) = Places(q, w) \cup {Len(q) + 1}
      /\ m[1] # w => Places(p, w) = Places(q, w)
  BY <1>1, <1>2 DEF Places
<1>4. IsFiniteSet(Places(q, w)) /\ Count(q, w) \in Nat
  BY CountFacts
<1>5. Len(q) + 1 \notin Places(q, w)
  BY <1>1 DEF Places
<1>6. CASE m[1] = w
  BY <1>3, <1>4, <1>5, <1>6, FS_AddElement DEF Count, Is
<1>7. CASE m[1] # w
  BY <1>3, <1>4, <1>7 DEF Count, Is
<1> QED
  BY <1>3, <1>6, <1>7

\* What the first message takes from a count.
LEMMA CountTail ==
  ASSUME NEW q \in Seq(Messages), q # << >>, NEW w
  PROVE  Count(q, w) = Count(Tail(q), w) + Is(q[1], w)
<1> SUFFICES ASSUME NEW p, p = Tail(q)
             PROVE  Count(q, w) = Count(p, w) + Is(q[1], w)
  OBVIOUS
<1>1. /\ p \in Seq(Messages) /\ Len(q) \in Nat /\ Len(q) >= 1 /\ Len(p) = Len(q) - 1
      /\ \A k \in 1 .. Len(q) - 1 : p[k] = q[k + 1]
  BY TailFacts
<1> DEFINE Rest == Places(q, w) \ {1}
           f == [k \in Places(p, w) |-> k + 1]
<1>2. IsFiniteSet(Places(p, w)) /\ Count(p, w) \in Nat /\ IsFiniteSet(Places(q, w))
  BY <1>1, CountFacts
<1>3. \A k \in Places(p, w) : k \in Int /\ k + 1 \in Rest
  BY <1>1 DEF Places
<1>4. \A k \in Rest : k \in Int /\ k - 1 \in Places(p, w)
  <2> SUFFICES ASSUME NEW k \in Rest PROVE k \in Int /\ k - 1 \in Places(p, w)
    OBVIOUS
  <2>1. k \in 2 .. Len(q) /\ q[k][1] = w
    BY <1>1 DEF Places
  <2>2. k - 1 \in 1 .. Len(q) - 1 /\ (k - 1) + 1 = k
    BY <1>1, <2>1
  <2>3. p[k - 1] = q[k]
    BY <1>1, <2>2
  <2> QED
    BY <1>1, <2>1, <2>2, <2>3 DEF Places
<1>5. f \in Bijection(Places(p, w), Rest)
  <2>1. f \in Injection(Places(p, w), Rest)
    <3>1. f \in [Places(p, w) -> Rest]
      BY <1>3
    <3>2. \A j, k \in Places(p, w) : f[j] = f[k] => j = k
      BY <1>3
    <3> HIDE DEF f, Rest
    <3> QED
      BY <3>1, <3>2 DEF Injection, IsInjective
  <2>2. \A k \in Rest : \E j \in Places(p, w) : f[j] = k
    <3> SUFFICES ASSUME NEW k \in Rest PROVE \E j \in Places(p, w) : f[j] = k
      OBVIOUS
    <3>1. k \in Int /\ k - 1 \in Places(p, w)
      BY <1>4
    <3>2. f[k - 1] = k
      BY <3>1
    <3> QED
      BY <3>1, <3>2
  <2> QED
    BY <1>3, <2>1, <2>2 DEF Bijection, Injection, Surjection
<1>6. Cardinality(Rest) = Count(p, w) /\ IsFiniteSet(Rest)
  <2>1. ExistsBijection(Places(p, w), Rest)
    BY <1>5 DEF ExistsBijection
  <2> HIDE DEF f, Rest
  <2> QED
    BY <1>2, <2>1, FS_Bijection DEF Count
<1>7. CASE q[1][1] = w
  <2>1. Places(q, w) = Rest \cup {1} /\ 1 \notin Rest
    BY <1>1, <1>7 DEF Places
  <2> HIDE DEF Rest
  <2> QED
    BY <1>6, <1>7, <2>1, FS_AddElement DEF Count, Is
<1>8. CASE q[1][1] # w
  <2>1. Places(q, w) = Rest
    BY <1>8 DEF Places
  <2> HIDE DEF Rest
  <2> QED
    BY <1>2, <1>6, <1>8, <2>1 DEF Count, Is
<1> QED
  BY <1>7, <1>8

-----------------------------------------------------------------------------
(* The invariant of Td in state s.  While Td handles a message the         *)
(* invariant is about what is left: a and r count the references that are  *)
(* neither Td's own nor under way in the mailbox, own says who will        *)
(* still make Td count down stop_cnt_ (yes: MultiTd owns it, hung: the     *)
(* hangup is being handled, no: it is in the mailbox or was handled), x    *)
(* has the request, y the answer that is being handled.                    *)

\* The requests Td took, and those that wait in its mailbox.
Taken(s) == s.request_set \cup s.answered
Asked(s) == {i \in Ids : \E k \in 1 .. Len(s.mailbox) : s.mailbox[k] = <<"request", i>>}

\* The references of the request actors together, of the databases, and of Td
\* itself to its request actors; the ends that stop_cnt_ waits for.
ActorsRef(s) == IF s.request_actor_refcnt > 0 THEN 1 ELSE 0
DbRef(s) == IF s.db THEN 1 ELSE 0
OpenRef(s) == IF s.close_flag = 0 THEN 1 ELSE 0
CloseEnd(s) == IF s.close_flag # 5 THEN 1 ELSE 0
OwnerEnd(s, own) == IF own # "no" \/ Places(s.mailbox, "hangup") # {} THEN 1 ELSE 0

\* A counter is the number of those who will count it down: actor_refcnt_ one
\* for the request actors together, one for every manager, one for the
\* databases; request_actor_refcnt_ one for every request actor, and one
\* until the closing begins.
Balance(s, a, r) ==
  /\ s.actor_refcnt = ActorsRef(s) + a
                        + Count(s.mailbox, "actorGone") + DbRef(s)
  /\ s.request_actor_refcnt = r + Count(s.mailbox, "requestActorGone")
                                + OpenRef(s)
  /\ s.close_flag < 2 => Count(s.mailbox, "actorGone") = 0 /\ ~ s.db
  /\ s.close_flag = 5 => s.actor_refcnt = 0
  /\ s.state = "Close" <=> s.close_flag # 0
  /\ s.state \in {"WaitParameters", "Decrypt"} => a = 0
  /\ s.actor_refcnt <= Managers + 1
  /\ s.request_actor_refcnt <= Cardinality(Taken(s)) + 1
  /\ ~ s.bad

\* stop_cnt_ counts the two ends, the one of the closing and the one of the
\* owner, and e more; a hangup is the last message of the owner.
Stops(s, own, e) ==
  /\ s.stop_cnt = e + CloseEnd(s)
                    + OwnerEnd(s, own)
  /\ s.stopped <=> s.stop_cnt = 0
  /\ own # "no" => Places(s.mailbox, "hangup") = {}
  /\ \A j, k \in Places(s.mailbox, "hangup") : j = k
  /\ own # "yes" =>
       \A k \in Places(s.mailbox, "request") :
         \E j \in Places(s.mailbox, "hangup") : j > k

\* A request is in one place: the mailbox, request_set_, or answered.
Once(s, snt, x) ==
  /\ s.twice = {} /\ s.request_set \cap s.answered = {}
  /\ Taken(s) \cap (Asked(s) \cup x) = {} /\ Asked(s) \cap x = {}
  /\ DOMAIN snt = Taken(s) \cup Asked(s) \cup x
  /\ \A j, k \in Places(s.mailbox, "request") : s.mailbox[j] = s.mailbox[k] => j = k
  /\ \A k \in Places(s.mailbox, "request") : s.mailbox[k][2] \in Ids

\* The answer to i is in the mailbox, before the message that could end the
\* fourth stage.
Answering(s, i) ==
  \E k \in 1 .. Len(s.mailbox) :
    /\ s.mailbox[k] = <<"reply", i>>
    /\ s.close_flag = 4 => s.db \/ \E j \in Places(s.mailbox, "actorGone") : j > k

\* From the second stage on Td owes answers to close requests only, and they
\* are under way.
Owed(s, snt, y) ==
  /\ s.close_flag >= 2 => \A i \in s.request_set : snt[i] = "close"
  /\ s.close_flag \in 2 .. 4 =>
       \A i \in s.request_set \ (s.late \cup y) : Answering(s, i)
  /\ s.close_flag = 5 => s.request_set \subseteq s.late
  /\ \A i \in s.behind : snt[i] = "close"
  /\ s.pending \cup s.late \cup s.behind \subseteq Taken(s)

Good(s, snt, a, r, own, x, y) ==
  /\ s \in TdRecords /\ a \in Nat /\ r \in Nat
  /\ Balance(s, a, r) /\ Stops(s, own, 0) /\ Once(s, snt, x) /\ Owed(s, snt, y)
  /\ s.flushing <= Len(s.mailbox)

IInv ==
  /\ Good(td, sent, managers, Cardinality(actors), IF owned THEN "yes" ELSE "no", {}, {})
  /\ actors \subseteq Taken(td)
  /\ promises \subseteq Ids /\ managers \in 0 .. Managers /\ owned \in BOOLEAN
  /\ \A i \in DOMAIN sent : sent[i] \in Kinds

-----------------------------------------------------------------------------
(* Answers.                                                                *)

\* The counts of a mailbox of Td.
LEMMA TdCounts ==
  ASSUME NEW s \in TdRecords, NEW w
  PROVE  /\ s.mailbox \in Seq(Messages) /\ Count(s.mailbox, w) \in Nat
         /\ Len(s.mailbox) \in Nat
         /\ Count(s.mailbox, w) = 0 <=> Places(s.mailbox, w) = {}
<1>1. s.mailbox \in Seq(Messages)
  BY DEF TdRecords
<1> QED
  BY <1>1, CountFacts

\* The set of requests is finite.
LEMMA TakenFinite ==
  ASSUME NEW s \in TdRecords
  PROVE  /\ Taken(s) \subseteq Ids /\ IsFiniteSet(Taken(s))
         /\ Cardinality(Taken(s)) \in Nat /\ Cardinality(Taken(s)) <= Cardinality(Ids)
<1>1. Taken(s) \subseteq Ids
  BY DEF Taken, TdRecords
<1>2. IsFiniteSet(Ids)
  BY TdAssumption
<1> QED
  BY <1>1, <1>2, FS_Subset, FS_CardinalityType

\* What answering the requests in ids changes.
LEMMA AnswerFacts ==
  ASSUME NEW s \in TdRecords, NEW ids \in SUBSET s.request_set,
         s.request_set \cap s.answered = {},
         NEW t, t = Answer(s, ids)
  PROVE  /\ t \in TdRecords
         /\ t.request_set = s.request_set \ ids /\ t.answered = s.answered \cup ids
         /\ t.twice = s.twice /\ Taken(t) = Taken(s)
         /\ t.state = s.state /\ t.close_flag = s.close_flag /\ t.pending = s.pending
         /\ t.actor_refcnt = s.actor_refcnt
         /\ t.request_actor_refcnt = s.request_actor_refcnt
         /\ t.stop_cnt = s.stop_cnt /\ t.mailbox = s.mailbox /\ t.flushing = s.flushing
         /\ t.stopped = s.stopped /\ t.bad = s.bad /\ t.behind = s.behind
         /\ t.late = s.late /\ t.db = s.db
<1>1. t = [s EXCEPT !.request_set = @ \ ids, !.answered = @ \cup ids,
                    !.twice = @ \cup (ids \cap s.answered)]
  BY DEF Answer
<1>2. ids \cap s.answered = {}
  OBVIOUS
<1>3. /\ s.request_set \in SUBSET Ids /\ s.answered \in SUBSET Ids /\ s.twice \in SUBSET Ids
  BY DEF TdRecords
<1>4. /\ s.request_set \ ids \in SUBSET Ids /\ s.answered \cup ids \in SUBSET Ids
      /\ s.twice \cup (ids \cap s.answered) = s.twice
  BY <1>2, <1>3
<1>5. t \in TdRecords
  BY <1>1, <1>3, <1>4 DEF TdRecords
<1>6. /\ t.request_set = s.request_set \ ids /\ t.answered = s.answered \cup ids
      /\ t.twice = s.twice
  BY <1>1, <1>4 DEF TdRecords
<1>7. /\ t.state = s.state /\ t.close_flag = s.close_flag /\ t.pending = s.pending
      /\ t.actor_refcnt = s.actor_refcnt
      /\ t.request_actor_refcnt = s.request_actor_refcnt
      /\ t.stop_cnt = s.stop_cnt /\ t.mailbox = s.mailbox /\ t.flushing = s.flushing
      /\ t.stopped = s.stopped /\ t.bad = s.bad /\ t.behind = s.behind
      /\ t.late = s.late /\ t.db = s.db
  BY <1>1 DEF TdRecords
<1>8. Taken(t) = Taken(s)
  BY <1>6 DEF Taken
<1> QED
  BY <1>5, <1>6, <1>7, <1>8

\* Answering requests that Td owes an answer keeps the invariant.
LEMMA AnswerGood ==
  ASSUME NEW s, NEW snt, NEW a, NEW r, NEW own, NEW x, NEW y, NEW z,
         Good(s, snt, a, r, own, x, y), NEW ids \in SUBSET s.request_set,
         y \cap s.request_set \subseteq ids \cup z,
         NEW t, t = Answer(s, ids)
  PROVE  Good(t, snt, a, r, own, x, z) /\ Taken(t) = Taken(s) /\ t.close_flag = s.close_flag
<1>1. s \in TdRecords /\ s.request_set \cap s.answered = {}
  BY DEF Good, Once
<1>2. /\ t \in TdRecords
      /\ t.request_set = s.request_set \ ids /\ t.answered = s.answered \cup ids
      /\ t.twice = s.twice /\ Taken(t) = Taken(s)
      /\ t.state = s.state /\ t.close_flag = s.close_flag /\ t.pending = s.pending
      /\ t.actor_refcnt = s.actor_refcnt
      /\ t.request_actor_refcnt = s.request_actor_refcnt
      /\ t.stop_cnt = s.stop_cnt /\ t.mailbox = s.mailbox /\ t.flushing = s.flushing
      /\ t.stopped = s.stopped /\ t.bad = s.bad /\ t.behind = s.behind
      /\ t.late = s.late /\ t.db = s.db
  BY <1>1, AnswerFacts
<1>3. Balance(t, a, r)
  BY <1>2 DEF Good, Balance, ActorsRef, DbRef, OpenRef
<1>4. Stops(t, own, 0)
  BY <1>2 DEF Good, Stops, CloseEnd, OwnerEnd
<1>5. Once(t, snt, x)
  <2>1. Asked(t) = Asked(s)
    BY <1>2 DEF Asked
  <2> QED
    BY <1>2, <2>1 DEF Good, Once
<1>6. Owed(t, snt, z)
  <2>1. t.request_set \ (t.late \cup z) \subseteq s.request_set \ (s.late \cup y)
    BY <1>2
  <2>2. Owed(s, snt, y)
    BY DEF Good
  <2>3. ASSUME t.close_flag \in 2 .. 4, NEW i \in t.request_set \ (t.late \cup z)
        PROVE  Answering(t, i)
    <3>1. s.close_flag \in 2 .. 4 /\ i \in s.request_set \ (s.late \cup y)
      BY <1>2, <2>1, <2>3
    <3>2. Answering(s, i)
      BY <2>2, <3>1 DEF Owed
    <3> QED
      BY <1>2, <3>2 DEF Answering
  <2>4. /\ t.close_flag >= 2 => \A i \in t.request_set : snt[i] = "close"
        /\ t.close_flag = 5 => t.request_set \subseteq t.late
        /\ \A i \in t.behind : snt[i] = "close"
        /\ t.pending \cup t.late \cup t.behind \subseteq Taken(t)
    BY <1>2, <2>2 DEF Owed
  <2> QED
    BY <2>3, <2>4 DEF Owed
<1> QED
  BY <1>2, <1>3, <1>4, <1>5, <1>6 DEF Good

\* send_result and send_error: the answer i.
LEMMA ReplyGood ==
  ASSUME NEW s, NEW snt, NEW a, NEW r, NEW own, NEW x, NEW i, NEW y \in SUBSET {i},
         Good(s, snt, a, r, own, x, y),
         NEW t, t = Reply(s, i)
  PROVE  Good(t, snt, a, r, own, x, {}) /\ Taken(t) = Taken(s) /\ t.close_flag = s.close_flag
<1>1. CASE i \in s.request_set
  <2>1. t = Answer(s, {i}) /\ {i} \in SUBSET s.request_set
    BY <1>1 DEF Reply
  <2>2. PICK ids \in SUBSET s.request_set :
          t = Answer(s, ids) /\ y \cap s.request_set \subseteq ids \cup {}
    BY <2>1
  <2> QED
    BY <2>2, AnswerGood
<1>2. CASE i \notin s.request_set
  <2>1. t = s
    BY <1>2 DEF Reply
  <2>2. s.request_set \ (s.late \cup {}) = s.request_set \ (s.late \cup y)
    BY <1>2
  <2>3. Owed(s, snt, {})
    BY <2>2 DEF Good, Owed
  <2> QED
    BY <2>1, <2>3 DEF Good
<1> QED
  BY <1>1, <1>2

-----------------------------------------------------------------------------
(* Messages are put into the mailbox, and taken out of it.                 *)

\* Td after a message was put into its mailbox.
LEMMA PostFacts ==
  ASSUME NEW s \in TdRecords, NEW m \in Messages, NEW t, t = Post(s, <<m>>)
  PROVE  /\ t \in TdRecords
         /\ t.mailbox = s.mailbox \o <<m>>
         /\ t.close_flag = s.close_flag /\ t.behind = s.behind
         /\ t.stop_cnt = s.stop_cnt /\ t.actor_refcnt = s.actor_refcnt
         /\ t.request_set = s.request_set /\ t.answered = s.answered
         /\ t.twice = s.twice /\ t.state = s.state /\ t.pending = s.pending
         /\ t.request_actor_refcnt = s.request_actor_refcnt
         /\ t.flushing = s.flushing
         /\ t.stopped = s.stopped /\ t.bad = s.bad
         /\ t.late = s.late /\ t.db = s.db
         /\ Taken(t) = Taken(s)
<1>1. s.mailbox \in Seq(Messages)
  BY DEF TdRecords
<1>2. PICK q : q = s.mailbox \o <<m>> /\ q \in Seq(Messages)
  BY <1>1, AppendFacts
<1>3. t = [s EXCEPT !.mailbox = q]
  BY <1>2 DEF Post
<1>4. t \in TdRecords
  BY <1>2, <1>3 DEF TdRecords
<1>5. /\ t.mailbox = q
      /\ t.close_flag = s.close_flag /\ t.behind = s.behind
      /\ t.stop_cnt = s.stop_cnt /\ t.actor_refcnt = s.actor_refcnt
      /\ t.request_set = s.request_set /\ t.answered = s.answered
      /\ t.twice = s.twice /\ t.state = s.state /\ t.pending = s.pending
      /\ t.request_actor_refcnt = s.request_actor_refcnt
      /\ t.flushing = s.flushing
      /\ t.stopped = s.stopped /\ t.bad = s.bad
      /\ t.late = s.late /\ t.db = s.db
  BY <1>3 DEF TdRecords
<1> QED
  BY <1>2, <1>4, <1>5 DEF Taken

\* The messages after one was put at the end.
LEMMA PostPlaces ==
  ASSUME NEW s \in TdRecords, NEW m \in Messages, NEW t, t = Post(s, <<m>>)
  PROVE  /\ Len(s.mailbox) \in Nat /\ Len(t.mailbox) = Len(s.mailbox) + 1
         /\ \A k \in 1 .. Len(s.mailbox) :
              k \in 1 .. Len(t.mailbox) /\ t.mailbox[k] = s.mailbox[k]
         /\ t.mailbox[Len(s.mailbox) + 1] = m
         /\ \A k \in 1 .. Len(t.mailbox) :
              k \in 1 .. Len(s.mailbox) \/ k = Len(s.mailbox) + 1
<1>1. s.mailbox \in Seq(Messages) /\ t.mailbox = s.mailbox \o <<m>>
  BY PostFacts DEF TdRecords
<1>2. /\ Len(s.mailbox) \in Nat /\ Len(t.mailbox) = Len(s.mailbox) + 1
      /\ \A k \in 1 .. Len(s.mailbox) : t.mailbox[k] = s.mailbox[k]
      /\ t.mailbox[Len(s.mailbox) + 1] = m
  BY <1>1, AppendFacts
<1>3. \A k \in 1 .. Len(s.mailbox) : k \in 1 .. Len(t.mailbox)
  BY <1>2
<1>4. \A k \in 1 .. Len(t.mailbox) : k \in 1 .. Len(s.mailbox) \/ k = Len(s.mailbox) + 1
  BY <1>2
<1> QED
  BY <1>2, <1>3, <1>4

\* The messages of one kind after one was put at the end.
LEMMA PostKind ==
  ASSUME NEW s \in TdRecords, NEW m \in Messages, NEW t, t = Post(s, <<m>>), NEW w
  PROVE  /\ m[1] = w => Places(t.mailbox, w) = Places(s.mailbox, w) \cup {Len(s.mailbox) + 1}
         /\ m[1] # w => Places(t.mailbox, w) = Places(s.mailbox, w)
         /\ Count(t.mailbox, w) = Count(s.mailbox, w) + Is(m, w)
         /\ \A k \in Places(s.mailbox, w) : k \in Nat /\ k < Len(s.mailbox) + 1
<1>1. /\ Len(s.mailbox) \in Nat /\ Len(t.mailbox) = Len(s.mailbox) + 1
      /\ \A k \in 1 .. Len(s.mailbox) : t.mailbox[k] = s.mailbox[k]
      /\ t.mailbox[Len(s.mailbox) + 1] = m
  BY PostPlaces
<1>2. PICK q, p : q \in Seq(Messages) /\ q = s.mailbox /\ p = t.mailbox
  BY DEF TdRecords
<1>3. /\ m[1] = w => Places(p, w) = Places(q, w) \cup {Len(q) + 1}
      /\ m[1] # w => Places(p, w) = Places(q, w)
      /\ Count(p, w) = Count(q, w) + Is(m, w)
  <2>1. Len(p) = Len(q) + 1 /\ (\A k \in 1 .. Len(q) : p[k] = q[k]) /\ p[Len(q) + 1] = m
    BY <1>1, <1>2
  <2> QED
    BY ONLY <1>2, <2>1, CountAppend, SMTT(30)
<1>4. \A k \in Places(s.mailbox, w) : k \in Nat /\ k < Len(s.mailbox) + 1
  BY <1>1 DEF Places
<1> QED
  BY <1>2, <1>3, <1>4

\* A message of another kind at the end.
LEMMA PostOther ==
  ASSUME NEW s \in TdRecords, NEW m \in Messages, NEW t, t = Post(s, <<m>>), NEW w,
         m[1] # w
  PROVE  Places(t.mailbox, w) = Places(s.mailbox, w)
BY PostKind

\* A message of the kind at the end.
LEMMA PostSame ==
  ASSUME NEW s \in TdRecords, NEW m \in Messages, NEW t, t = Post(s, <<m>>), NEW w,
         m[1] = w
  PROVE  Places(t.mailbox, w) = Places(s.mailbox, w) \cup {Len(s.mailbox) + 1}
BY PostKind

\* The counters: the reference that the message gives back is under way now.
LEMMA PostBalance ==
  ASSUME NEW s \in TdRecords, NEW m \in Messages, NEW a \in Nat, NEW r \in Nat,
         Balance(s, a + Is(m, "actorGone"), r + Is(m, "requestActorGone")),
         m[1] = "actorGone" => s.close_flag >= 2,
         NEW t, t = Post(s, <<m>>)
  PROVE  Balance(t, a, r)
<1>1. /\ t.close_flag = s.close_flag /\ t.actor_refcnt = s.actor_refcnt
      /\ t.state = s.state
      /\ t.request_actor_refcnt = s.request_actor_refcnt
      /\ t.bad = s.bad /\ t.db = s.db /\ Taken(t) = Taken(s)
  BY PostFacts
<1>2. /\ Count(t.mailbox, "actorGone") =
           Count(s.mailbox, "actorGone") + Is(m, "actorGone")
      /\ Count(t.mailbox, "requestActorGone") =
           Count(s.mailbox, "requestActorGone") + Is(m, "requestActorGone")
  BY PostKind
<1>3. /\ Count(s.mailbox, "actorGone") \in Nat /\ Count(s.mailbox, "requestActorGone") \in Nat
  BY TdCounts
<1>4. PICK o \in {0, 1}, p \in {0, 1} :
        o = Is(m, "actorGone") /\ p = Is(m, "requestActorGone")
  BY DEF ActorsRef, DbRef, OpenRef, CloseEnd, OwnerEnd, Is
<1>5. /\ ActorsRef(s) \in Nat /\ DbRef(s) \in Nat
      /\ OpenRef(s) \in Nat
      /\ ActorsRef(t) = ActorsRef(s) /\ DbRef(t) = DbRef(s) /\ OpenRef(t) = OpenRef(s)
  BY <1>1 DEF ActorsRef, DbRef, OpenRef, CloseEnd, OwnerEnd, Is
<1>6. t.actor_refcnt = ActorsRef(t) + a
                         + Count(t.mailbox, "actorGone") + DbRef(t)
  <2>1. s.actor_refcnt = ActorsRef(s) + (a + o)
                         + Count(s.mailbox, "actorGone") + DbRef(s)
    BY <1>4 DEF Balance, ActorsRef, DbRef, OpenRef
  <2>2. \A e, c, d \in Nat : e + (a + o) + c + d = e + a + (c + o) + d
    OBVIOUS
  <2> QED
    BY <1>1, <1>2, <1>3, <1>4, <1>5, <2>1, <2>2
<1>7. t.request_actor_refcnt = r + Count(t.mailbox, "requestActorGone")
                                 + OpenRef(t)
  <2>1. s.request_actor_refcnt = (r + p) + Count(s.mailbox, "requestActorGone")
                                   + OpenRef(s)
    BY <1>4 DEF Balance, ActorsRef, DbRef, OpenRef
  <2>2. \A c, d \in Nat : (r + p) + c + d = r + (c + p) + d
    OBVIOUS
  <2> QED
    BY <1>1, <1>2, <1>3, <1>4, <1>5, <2>1, <2>2
<1>8. t.close_flag < 2 => Count(t.mailbox, "actorGone") = 0 /\ ~ t.db
  <2>1. t.close_flag < 2 => m[1] # "actorGone"
    BY <1>1 DEF TdRecords
  <2> QED
    BY <1>1, <1>2, <1>3, <2>1 DEF Balance, ActorsRef, DbRef, OpenRef, CloseEnd, OwnerEnd, Is
<1>9. t.state \in {"WaitParameters", "Decrypt"} => a = 0
  BY <1>1, <1>4 DEF Balance, ActorsRef, DbRef, OpenRef
<1> QED
  BY <1>1, <1>6, <1>7, <1>8, <1>9 DEF Balance, ActorsRef, DbRef, OpenRef

\* The owner's hangup comes after its requests.
LEMMA PostStops ==
  ASSUME NEW s \in TdRecords, NEW m \in Messages, NEW own, NEW now, NEW e \in Nat,
         Stops(s, own, e),
         m[1] = "hangup" => own # "no" /\ now = "no",
         m[1] # "hangup" => now = own,
         m[1] = "request" => own = "yes",
         NEW t, t = Post(s, <<m>>)
  PROVE  Stops(t, now, e)
<1>1. /\ t.close_flag = s.close_flag /\ t.stop_cnt = s.stop_cnt /\ t.stopped = s.stopped
  BY PostFacts
<1>2. /\ m[1] = "hangup" =>
           Places(t.mailbox, "hangup") = Places(s.mailbox, "hangup") \cup {Len(s.mailbox) + 1}
      /\ m[1] # "hangup" => Places(t.mailbox, "hangup") = Places(s.mailbox, "hangup")
      /\ m[1] # "request" => Places(t.mailbox, "request") = Places(s.mailbox, "request")
      /\ \A k \in Places(s.mailbox, "request") : k \in Nat /\ k < Len(s.mailbox) + 1
      /\ Len(s.mailbox) \in Nat
  <2>1. /\ m[1] = "hangup" =>
             Places(t.mailbox, "hangup") = Places(s.mailbox, "hangup") \cup {Len(s.mailbox) + 1}
        /\ m[1] # "hangup" => Places(t.mailbox, "hangup") = Places(s.mailbox, "hangup")
    BY PostOther, PostSame
  <2>2. m[1] # "request" => Places(t.mailbox, "request") = Places(s.mailbox, "request")
    BY PostOther
  <2>3. \A k \in Places(s.mailbox, "request") : k \in Nat /\ k < Len(s.mailbox) + 1
    BY PostKind
  <2>4. Len(s.mailbox) \in Nat
    BY PostPlaces
  <2> QED
    BY <2>1, <2>2, <2>3, <2>4
<1>3. CASE m[1] = "hangup"
  <2>1. /\ Places(s.mailbox, "hangup") = {}
        /\ Places(t.mailbox, "hangup") = {Len(s.mailbox) + 1}
        /\ Places(t.mailbox, "request") = Places(s.mailbox, "request")
    BY <1>2, <1>3 DEF Stops, CloseEnd, OwnerEnd
  <2>2. OwnerEnd(t, now)
          = OwnerEnd(s, own)
    BY <1>3, <2>1 DEF ActorsRef, DbRef, OpenRef, CloseEnd, OwnerEnd, Is
  <2> QED
    BY <1>1, <1>2, <1>3, <2>1, <2>2 DEF Stops, CloseEnd, OwnerEnd
<1>4. CASE m[1] # "hangup"
  <2>1. Places(t.mailbox, "hangup") = Places(s.mailbox, "hangup") /\ now = own
    BY <1>2, <1>4
  <2>2. own # "yes" => Places(t.mailbox, "request") = Places(s.mailbox, "request")
    BY <1>2
  <2> QED
    BY <1>1, <2>1, <2>2 DEF Stops, CloseEnd, OwnerEnd
<1> QED
  BY <1>3, <1>4

\* A request in the mailbox is not being handled any more.
LEMMA PostOnce ==
  ASSUME NEW s \in TdRecords, NEW m \in Messages, NEW snt, NEW x, NEW z,
         Once(s, snt, x),
         m[1] = "request" => x = {m[2]} /\ z = {} /\ m[2] \in Ids,
         m[1] # "request" => z = x,
         NEW t, t = Post(s, <<m>>)
  PROVE  Once(t, snt, z)
<1>1. /\ t.request_set = s.request_set /\ t.answered = s.answered
      /\ t.twice = s.twice /\ Taken(t) = Taken(s)
  BY PostFacts
<1>2. /\ \A k \in 1 .. Len(s.mailbox) :
           k \in 1 .. Len(t.mailbox) /\ t.mailbox[k] = s.mailbox[k]
      /\ t.mailbox[Len(s.mailbox) + 1] = m
      /\ Len(s.mailbox) + 1 \in 1 .. Len(t.mailbox)
      /\ \A k \in 1 .. Len(t.mailbox) :
           k \in 1 .. Len(s.mailbox) \/ k = Len(s.mailbox) + 1
      /\ m[1] = "request" =>
           Places(t.mailbox, "request") = Places(s.mailbox, "request") \cup {Len(s.mailbox) + 1}
      /\ m[1] # "request" => Places(t.mailbox, "request") = Places(s.mailbox, "request")
  <2>1. Len(s.mailbox) \in Nat /\ Len(t.mailbox) = Len(s.mailbox) + 1
    BY PostPlaces
  <2>2. Len(s.mailbox) + 1 \in 1 .. Len(t.mailbox)
    BY <2>1
  <2>3. /\ m[1] = "request" =>
             Places(t.mailbox, "request") = Places(s.mailbox, "request") \cup {Len(s.mailbox) + 1}
        /\ m[1] # "request" => Places(t.mailbox, "request") = Places(s.mailbox, "request")
    BY PostOther, PostSame
  <2>4. /\ \A k \in 1 .. Len(s.mailbox) :
             k \in 1 .. Len(t.mailbox) /\ t.mailbox[k] = s.mailbox[k]
        /\ t.mailbox[Len(s.mailbox) + 1] = m
        /\ \A k \in 1 .. Len(t.mailbox) :
             k \in 1 .. Len(s.mailbox) \/ k = Len(s.mailbox) + 1
    BY PostPlaces
  <2> QED
    BY <2>2, <2>3, <2>4
<1>m. m = <<m[1], m[2]>>
  BY DEF Messages
<1>3. CASE m[1] = "request"
  <2>1. m = <<"request", m[2]>>
    BY <1>m, <1>3
  <2>2. Asked(t) = Asked(s) \cup {m[2]}
    <3>1. \A i \in Asked(s) : i \in Asked(t)
      BY <1>2 DEF Asked
    <3>2. m[2] \in Asked(t)
      BY <1>2, <1>3, <2>1 DEF Asked
    <3>3. ASSUME NEW i \in Asked(t) PROVE i \in Asked(s) \/ i = m[2]
      <4>1. PICK k \in 1 .. Len(t.mailbox) : t.mailbox[k] = <<"request", i>> /\ i \in Ids
        BY DEF Asked
      <4>2. CASE k \in 1 .. Len(s.mailbox)
        <5>1. s.mailbox[k] = <<"request", i>>
          BY <1>2, <4>1, <4>2
        <5> QED
          BY <4>1, <4>2, <5>1 DEF Asked
      <4>3. CASE k = Len(s.mailbox) + 1
        <5>1. m = <<"request", i>>
          BY <1>2, <4>1, <4>3
        <5> QED
          BY <2>1, <5>1
      <4> QED
        BY <1>2, <4>1, <4>2, <4>3
    <3> QED
      BY <3>1, <3>2, <3>3
  <2>3. \A j \in Places(s.mailbox, "request") : s.mailbox[j] # m
    <3> SUFFICES ASSUME NEW j \in Places(s.mailbox, "request"), s.mailbox[j] = m PROVE FALSE
      OBVIOUS
    <3>1. m[2] \in Asked(s)
      BY <1>3, <2>1 DEF Asked, Places
    <3> QED
      BY <1>3, <3>1 DEF Once
  <2>4. \A j, k \in Places(t.mailbox, "request") : t.mailbox[j] = t.mailbox[k] => j = k
    <3>1. \A j \in Places(s.mailbox, "request") :
            t.mailbox[j] = s.mailbox[j] /\ t.mailbox[j] # m
      BY <1>2, <2>3 DEF Places
    <3>2. \A j \in Places(t.mailbox, "request") :
            j \in Places(s.mailbox, "request") \/ j = Len(s.mailbox) + 1
      BY <1>2
    <3> QED
      BY <1>2, <3>1, <3>2 DEF Once
  <2>5. \A k \in Places(t.mailbox, "request") : t.mailbox[k][2] \in Ids
    <3>1. \A j \in Places(s.mailbox, "request") : t.mailbox[j] = s.mailbox[j]
      BY <1>2 DEF Places
    <3>2. \A j \in Places(t.mailbox, "request") :
            j \in Places(s.mailbox, "request") \/ j = Len(s.mailbox) + 1
      BY <1>2
    <3> QED
      BY <1>2, <1>3, <3>1, <3>2 DEF Once
  <2> QED
    BY <1>1, <1>3, <2>2, <2>4, <2>5 DEF Once
<1>4. CASE m[1] # "request"
  <2>1. Asked(t) = Asked(s)
    <3>1. \A i \in Asked(s) : i \in Asked(t)
      BY <1>2 DEF Asked
    <3>2. \A i \in Asked(t) : i \in Asked(s)
      BY <1>2, <1>4 DEF Asked
    <3> QED
      BY <3>1, <3>2
  <2>2. /\ \A j, k \in Places(t.mailbox, "request") : t.mailbox[j] = t.mailbox[k] => j = k
        /\ \A k \in Places(t.mailbox, "request") : t.mailbox[k][2] \in Ids
    <3>1. \A j \in Places(t.mailbox, "request") :
            j \in Places(s.mailbox, "request") /\ t.mailbox[j] = s.mailbox[j]
      BY <1>2, <1>4 DEF Places
    <3> QED
      BY <3>1 DEF Once
  <2> QED
    BY <1>1, <1>4, <2>1, <2>2 DEF Once
<1> QED
  BY <1>3, <1>4

\* An answer stays where it is.
LEMMA PostAnswering ==
  ASSUME NEW s \in TdRecords, NEW m \in Messages, NEW t, t = Post(s, <<m>>), NEW i,
         Answering(s, i)
  PROVE  Answering(t, i)
<1>1. t.close_flag = s.close_flag /\ t.db = s.db
  BY PostFacts
<1>2. /\ \A k \in 1 .. Len(s.mailbox) :
           k \in 1 .. Len(t.mailbox) /\ t.mailbox[k] = s.mailbox[k]
      /\ Places(s.mailbox, "actorGone") \subseteq Places(t.mailbox, "actorGone")
  <2>1. /\ m[1] = "actorGone" => Places(t.mailbox, "actorGone") =
                                   Places(s.mailbox, "actorGone") \cup {Len(s.mailbox) + 1}
        /\ m[1] # "actorGone" => Places(t.mailbox, "actorGone") = Places(s.mailbox, "actorGone")
    BY PostOther, PostSame
  <2> QED
    BY <2>1, PostPlaces
<1> QED
  BY <1>1, <1>2 DEF Answering

\* An answer is put into the mailbox.
LEMMA PostOwed ==
  ASSUME NEW s \in TdRecords, NEW m \in Messages, NEW snt, NEW y, NEW z,
         Owed(s, snt, y),
         \/ z = y
         \/ z = {} /\ y = {m[2]} /\ m[1] = "reply" /\ (s.close_flag = 4 => m[2] \in s.late),
         NEW t, t = Post(s, <<m>>)
  PROVE  Owed(t, snt, z)
<1>1. /\ t.close_flag = s.close_flag /\ t.behind = s.behind
      /\ t.request_set = s.request_set /\ t.pending = s.pending /\ t.late = s.late
      /\ Taken(t) = Taken(s)
  BY PostFacts
<1>2. ASSUME t.close_flag \in 2 .. 4, NEW i \in t.request_set \ (t.late \cup z)
      PROVE  Answering(t, i)
  <2>1. CASE i \notin y
    <3>1. Answering(s, i)
      BY <1>1, <1>2, <2>1 DEF Owed
    <3> QED
      BY <3>1, PostAnswering
  <2>2. CASE i \in y
    <3>1. i = m[2] /\ m[1] = "reply" /\ t.close_flag # 4
      BY <1>1, <1>2, <2>2
    <3>2. m = <<"reply", i>>
      BY <3>1 DEF Messages
    <3>3. /\ Len(s.mailbox) \in Nat /\ Len(t.mailbox) = Len(s.mailbox) + 1
          /\ t.mailbox[Len(s.mailbox) + 1] = m
      BY PostPlaces
    <3>4. Len(s.mailbox) + 1 \in 1 .. Len(t.mailbox)
      BY <3>3
    <3> QED
      BY <3>1, <3>2, <3>3, <3>4 DEF Answering
  <2> QED
    BY <2>1, <2>2
<1> QED
  BY <1>1, <1>2 DEF Owed

\* A message that Td, its owner or an actor may send is put into the mailbox.
LEMMA PostGood ==
  ASSUME NEW s, NEW m \in Messages, NEW snt, NEW a \in Nat, NEW r \in Nat,
         NEW own, NEW now, NEW x, NEW x2, NEW y, NEW y2,
         Good(s, snt, a + Is(m, "actorGone"), r + Is(m, "requestActorGone"),
              own, x, y),
         m[1] = "actorGone" => s.close_flag >= 2,
         m[1] = "hangup" => own # "no" /\ now = "no",
         m[1] # "hangup" => now = own,
         m[1] = "request" => own = "yes" /\ x = {m[2]} /\ x2 = {} /\ m[2] \in Ids,
         m[1] # "request" => x2 = x,
         \/ y2 = y
         \/ y2 = {} /\ y = {m[2]} /\ m[1] = "reply" /\ (s.close_flag = 4 => m[2] \in s.late),
         NEW t, t = Post(s, <<m>>)
  PROVE  Good(t, snt, a, r, now, x2, y2) /\ Taken(t) = Taken(s)
<1>1. /\ s \in TdRecords
      /\ Balance(s, a + Is(m, "actorGone"), r + Is(m, "requestActorGone"))
      /\ Stops(s, own, 0) /\ Once(s, snt, x) /\ Owed(s, snt, y)
      /\ s.flushing <= Len(s.mailbox)
  BY DEF Good
<1>2. t \in TdRecords /\ t.flushing = s.flushing /\ Taken(t) = Taken(s)
  BY <1>1, PostFacts
<1>3. Balance(t, a, r)
  BY <1>1, PostBalance
<1>4. Stops(t, now, 0)
  BY <1>1, PostStops
<1>5. Once(t, snt, x2)
  BY <1>1, PostOnce
<1>6. Owed(t, snt, y2)
  BY <1>1, PostOwed
<1>7. t.flushing <= Len(t.mailbox)
  <2>1. Len(s.mailbox) \in Nat /\ Len(t.mailbox) = Len(s.mailbox) + 1
    BY <1>1, PostPlaces
  <2>2. s.flushing \in Nat
    BY <1>1 DEF TdRecords
  <2> QED
    BY <1>1, <1>2, <2>1, <2>2
<1> QED
  BY <1>2, <1>3, <1>4, <1>5, <1>6, <1>7 DEF Good

\* A message that is no request, no hangup and no awaited answer.
LEMMA PostPlain ==
  ASSUME NEW s, NEW m \in Messages, NEW snt, NEW a \in Nat, NEW r \in Nat,
         NEW own, NEW x, NEW y,
         Good(s, snt, a + Is(m, "actorGone"), r + Is(m, "requestActorGone"), own, x, y),
         m[1] = "actorGone" => s.close_flag >= 2,
         m[1] # "hangup", m[1] # "request",
         NEW t, t = Post(s, <<m>>)
  PROVE  Good(t, snt, a, r, own, x, y) /\ Taken(t) = Taken(s)
BY PostGood

\* The kind of a message.
LEMMA MessageFacts ==
  ASSUME NEW w \in Words, NEW i \in Ids \cup {0}
  PROVE  /\ Message(w, i) \in Messages
         /\ Message(w, i)[1] = w /\ Message(w, i)[2] = i
         /\ \A v : Is(Message(w, i), v) = IF w = v THEN 1 ELSE 0
BY DEF Message, Messages, Is

-----------------------------------------------------------------------------
(* Stopping.                                                               *)

\* The last step of stop(): nothing that counts is in the mailbox any more.
LEMMA DecStopGood ==
  ASSUME NEW s \in TdRecords, NEW snt, NEW a \in Nat, NEW r \in Nat, NEW own, NEW y,
         Balance(s, a, r), Stops(s, own, 1), Once(s, snt, {}), Owed(s, snt, y),
         s.flushing <= Len(s.mailbox),
         NEW t, t = DecStopCnt(s)
  PROVE  Good(t, snt, a, r, own, {}, y) /\ Taken(t) = Taken(s)
<1>0. /\ s.stop_cnt = 1 + CloseEnd(s)
                        + OwnerEnd(s, own)
      /\ s.stopped <=> s.stop_cnt = 0
  BY DEF Stops, CloseEnd, OwnerEnd
<1>1. CASE s.stop_cnt > 1
  <2>1. t = [s EXCEPT !.stop_cnt = @ - 1]
    BY <1>1 DEF DecStopCnt
  <2>2. s.stop_cnt \in Int /\ s.stop_cnt - 1 \in Int
    BY DEF TdRecords
  <2>3. t \in TdRecords
    BY <2>1, <2>2 DEF TdRecords
  <2>4. /\ t.stop_cnt = s.stop_cnt - 1
        /\ t.request_set = s.request_set /\ t.answered = s.answered
        /\ t.twice = s.twice
        /\ t.state = s.state /\ t.close_flag = s.close_flag /\ t.pending = s.pending
        /\ t.actor_refcnt = s.actor_refcnt
        /\ t.request_actor_refcnt = s.request_actor_refcnt
        /\ t.mailbox = s.mailbox /\ t.flushing = s.flushing
        /\ t.stopped = s.stopped /\ t.bad = s.bad /\ t.behind = s.behind
        /\ t.late = s.late /\ t.db = s.db
    BY <2>1, <2>2 DEF TdRecords
  <2>5. Taken(t) = Taken(s) /\ Asked(t) = Asked(s) /\ \A i : Answering(t, i) <=> Answering(s, i)
    BY <2>4 DEF Taken, Asked, Answering
  <2>6. Balance(t, a, r)
    BY <2>4, <2>5 DEF Balance, ActorsRef, DbRef, OpenRef
  <2>7. Stops(t, own, 0)
    <3>1. /\ t.stop_cnt = 0 + CloseEnd(s)
                            + OwnerEnd(s, own)
          /\ ~ s.stopped /\ t.stop_cnt # 0 /\ s.stopped \in BOOLEAN
      BY <1>0, <1>1, <2>2, <2>4 DEF ActorsRef, DbRef, OpenRef, CloseEnd, OwnerEnd, Is, TdRecords
    <3> QED
      BY <2>4, <3>1 DEF Stops, CloseEnd, OwnerEnd
  <2>8. Once(t, snt, {})
    BY <2>4, <2>5 DEF Once
  <2>9. Owed(t, snt, y)
    BY <2>4, <2>5 DEF Owed
  <2> QED
    BY <2>3, <2>4, <2>5, <2>6, <2>7, <2>8, <2>9 DEF Good
<1>2. CASE ~ (s.stop_cnt > 1)
  <2>1. /\ s.close_flag = 5 /\ own = "no" /\ Places(s.mailbox, "hangup") = {}
        /\ s.stop_cnt = 1
    BY <1>0, <1>2 DEF ActorsRef, DbRef, OpenRef, CloseEnd, OwnerEnd, Is
  <2>2. t = [s EXCEPT !.stop_cnt = 0, !.stopped = TRUE, !.mailbox = << >>, !.flushing = 0,
                      !.bad = FALSE]
    <3>1. (s.bad \/ s.close_flag # 5) = FALSE
      BY <2>1 DEF Balance, ActorsRef, DbRef, OpenRef
    <3>2. t = [s EXCEPT !.stop_cnt = 0, !.stopped = TRUE, !.mailbox = << >>, !.flushing = 0,
                        !.bad = @ \/ s.close_flag # 5]
      BY <1>2 DEF DecStopCnt
    <3> QED
      BY <3>1, <3>2 DEF TdRecords
  <2>3. t \in TdRecords
    <3>1. PICK e : e = << >> /\ e \in Seq(Messages)
      BY EmptySeq
    <3>2. t = [s EXCEPT !.stop_cnt = 0, !.stopped = TRUE, !.mailbox = e, !.flushing = 0,
                        !.bad = FALSE]
      BY <2>2, <3>1
    <3>3. 0 \in Int /\ 0 \in Nat /\ TRUE \in BOOLEAN /\ FALSE \in BOOLEAN
          /\ e \in Seq(Messages)
      BY <3>1
    <3> QED
      BY <3>2, <3>3, Zenon DEF TdRecords
  <2>4. /\ t.stop_cnt = 0
        /\ t.request_set = s.request_set /\ t.answered = s.answered
        /\ t.twice = s.twice
        /\ t.state = s.state /\ t.close_flag = s.close_flag /\ t.pending = s.pending
        /\ t.actor_refcnt = s.actor_refcnt
        /\ t.request_actor_refcnt = s.request_actor_refcnt
        /\ t.mailbox = << >> /\ t.flushing = 0
        /\ t.stopped = TRUE /\ t.bad = FALSE /\ t.behind = s.behind
        /\ t.late = s.late /\ t.db = s.db
    BY <2>2 DEF TdRecords
  <2>5. Len(t.mailbox) = 0 /\ \A w : Places(t.mailbox, w) = {}
    BY <2>4 DEF Places
  <2>6. \A w : Count(t.mailbox, w) = 0
    BY <2>3, <2>5, TdCounts
  <2>7. /\ Count(s.mailbox, "actorGone") \in Nat
        /\ Count(s.mailbox, "requestActorGone") \in Nat
    BY TdCounts
  <2>8. /\ s.actor_refcnt = 0
        /\ s.actor_refcnt = ActorsRef(s) + a
                              + Count(s.mailbox, "actorGone") + DbRef(s)
        /\ s.request_actor_refcnt = r + Count(s.mailbox, "requestActorGone") + 0
    BY <2>1 DEF Balance, ActorsRef, DbRef, OpenRef, CloseEnd, OwnerEnd, Is
  <2>9. /\ Count(s.mailbox, "actorGone") = 0
        /\ Count(s.mailbox, "requestActorGone") = 0
    BY <2>7, <2>8 DEF ActorsRef, DbRef, OpenRef, CloseEnd, OwnerEnd, Is
  <2>10. Taken(t) = Taken(s) /\ Asked(t) = {}
    BY <2>4, <2>5 DEF Taken, Asked
  <2>11. Asked(s) = {}
    <3>1. Places(s.mailbox, "request") = {}
      BY <2>1 DEF Stops, CloseEnd, OwnerEnd
    <3> QED
      BY <3>1 DEF Asked, Places
  <2>12. Balance(t, a, r)
    BY <2>1, <2>4, <2>6, <2>9, <2>10 DEF Balance, ActorsRef, DbRef, OpenRef
  <2>13. Stops(t, own, 0)
    <3>1. /\ CloseEnd(t) = 0
          /\ OwnerEnd(t, own) = 0
      BY <2>1, <2>4, <2>5 DEF ActorsRef, DbRef, OpenRef, CloseEnd, OwnerEnd, Is
    <3>2. (t.stopped <=> t.stop_cnt = 0) /\ t.stop_cnt = 0 + 0 + 0
      BY <2>4
    <3> QED
      BY <2>1, <2>5, <3>1, <3>2 DEF Stops, CloseEnd, OwnerEnd
  <2>14. Once(t, snt, {})
    BY <2>4, <2>5, <2>10, <2>11 DEF Once
  <2>15. Owed(t, snt, y)
    BY <2>1, <2>4, <2>10 DEF Owed
  <2> QED
    BY <2>3, <2>4, <2>5, <2>10, <2>12, <2>13, <2>14, <2>15 DEF Good
<1>3. s.stop_cnt \in Int
  BY DEF TdRecords
<1> QED
  BY <1>1, <1>2

-----------------------------------------------------------------------------
(* The counters.                                                           *)

\* on_closed: the last reference is gone, and no answer is under way that was
\* not given up.
LEMMA OnClosedGood ==
  ASSUME NEW s \in TdRecords, NEW snt, NEW r \in Nat, NEW own,
         s.close_flag = 4, s.actor_refcnt = 0,
         Balance(s, 0, r), Stops(s, own, 0), Once(s, snt, {}), Owed(s, snt, {}),
         s.request_set \subseteq s.late,
         s.flushing <= Len(s.mailbox),
         NEW t, t = OnClosed(s)
  PROVE  Good(t, snt, 0, r, own, {}, {}) /\ Taken(t) = Taken(s)
<1>1. PICK u : u = [s EXCEPT !.close_flag = 5, !.behind = s.request_set]
  OBVIOUS
<1>2. t = DecStopCnt(u)
  BY <1>1 DEF OnClosed
<1>3. s.request_set \in SUBSET Ids /\ 5 \in 0 .. 5
  BY DEF TdRecords
<1>4. u \in TdRecords
  BY <1>1, <1>3 DEF TdRecords
<1>5. /\ u.close_flag = 5 /\ u.behind = s.request_set
      /\ u.stop_cnt = s.stop_cnt
      /\ u.request_set = s.request_set /\ u.answered = s.answered
      /\ u.twice = s.twice /\ u.state = s.state /\ u.pending = s.pending
      /\ u.actor_refcnt = s.actor_refcnt
      /\ u.request_actor_refcnt = s.request_actor_refcnt
      /\ u.mailbox = s.mailbox /\ u.flushing = s.flushing
      /\ u.stopped = s.stopped /\ u.bad = s.bad
      /\ u.late = s.late /\ u.db = s.db
  BY <1>1, <1>3 DEF TdRecords
<1>6. Taken(u) = Taken(s) /\ Asked(u) = Asked(s)
  BY <1>5 DEF Taken, Asked
<1>7. Balance(u, 0, r)
  <2>1. OpenRef(u) = OpenRef(s) /\ ~ (u.close_flag < 2)
    BY <1>5 DEF ActorsRef, DbRef, OpenRef, CloseEnd, OwnerEnd, Is
  <2>2. u.state = "Close"
    BY <1>5 DEF Balance, ActorsRef, DbRef, OpenRef
  <2> QED
    BY <1>5, <1>6, <2>1, <2>2 DEF Balance, ActorsRef, DbRef, OpenRef
<1>8. Stops(u, own, 1)
  <2>1. CloseEnd(s) = 1 /\ CloseEnd(u) = 0
    BY <1>5 DEF ActorsRef, DbRef, OpenRef, CloseEnd, OwnerEnd, Is
  <2>2. s.stop_cnt = 0 + 1 + OwnerEnd(s, own)
    BY <2>1 DEF Stops, CloseEnd, OwnerEnd
  <2>3. OwnerEnd(s, own) \in {0, 1} /\ OwnerEnd(u, own) = OwnerEnd(s, own)
    BY <1>5 DEF OwnerEnd
  <2>4. u.stop_cnt = 1 + CloseEnd(u) + OwnerEnd(u, own)
    BY <1>5, <2>1, <2>2, <2>3
  <2> QED
    BY <1>5, <2>4 DEF Stops, CloseEnd, OwnerEnd
<1>9. Once(u, snt, {})
  BY <1>5, <1>6 DEF Once
<1>10. Owed(u, snt, {})
  <2>1. \A i \in s.request_set : snt[i] = "close"
    BY DEF Owed
  <2>2. u.pending \cup u.late \cup u.behind \subseteq Taken(u)
    BY <1>5, <1>6 DEF Owed, Taken
  <2> QED
    BY <1>5, <2>1, <2>2 DEF Owed
<1>11. u.flushing <= Len(u.mailbox)
  BY <1>5
<1>12. Good(t, snt, 0, r, own, {}, {}) /\ Taken(t) = Taken(u)
  BY <1>2, <1>4, <1>7, <1>8, <1>9, <1>10, <1>11, DecStopGood
<1> QED
  BY <1>6, <1>12

\* dec_actor_refcnt by one of those who hold a reference.
LEMMA DecActorGood ==
  ASSUME NEW s, NEW snt, NEW a \in Nat, NEW r, NEW own,
         Good(s, snt, a + 1, r, own, {}, {}), s.close_flag >= 2,
         NEW t, t = DecActorRefcnt(s)
  PROVE  Good(t, snt, a, r, own, {}, {}) /\ Taken(t) = Taken(s)
<1>0. /\ s \in TdRecords /\ r \in Nat /\ Balance(s, a + 1, r) /\ Stops(s, own, 0)
      /\ Once(s, snt, {}) /\ Owed(s, snt, {}) /\ s.flushing <= Len(s.mailbox)
  BY DEF Good
<1>c. /\ s.mailbox \in Seq(Messages) /\ Count(s.mailbox, "actorGone") \in Nat
      /\ Count(s.mailbox, "requestActorGone") \in Nat
      /\ Count(s.mailbox, "actorGone") = 0 <=> Places(s.mailbox, "actorGone") = {}
  BY <1>0, TdCounts
<1>i. /\ s.actor_refcnt \in Int /\ s.actor_refcnt - 1 \in Int /\ s.close_flag \in 0 .. 5
      /\ s.request_actor_refcnt \in Int /\ s.db \in BOOLEAN /\ s.mailbox \in Seq(Messages)
  BY <1>0 DEF TdRecords
<1>b. /\ s.actor_refcnt = ActorsRef(s) + (a + 1)
                            + Count(s.mailbox, "actorGone") + DbRef(s)
      /\ s.actor_refcnt <= Managers + 1
      /\ s.close_flag = 5 => s.actor_refcnt = 0
      /\ ActorsRef(s) \in {0, 1} /\ DbRef(s) \in {0, 1}
  BY <1>0 DEF Balance, ActorsRef, DbRef, OpenRef, CloseEnd, OwnerEnd, Is
<1>f. s.close_flag \in 2 .. 4
  BY <1>b, <1>c, <1>i
<1>1. PICK u : u = [s EXCEPT !.actor_refcnt = @ - 1]
  OBVIOUS
<1>2. /\ u \in TdRecords /\ u.actor_refcnt = s.actor_refcnt - 1
      /\ u.close_flag = s.close_flag /\ u.behind = s.behind
      /\ u.stop_cnt = s.stop_cnt
      /\ u.request_set = s.request_set /\ u.answered = s.answered
      /\ u.twice = s.twice /\ u.state = s.state /\ u.pending = s.pending
      /\ u.request_actor_refcnt = s.request_actor_refcnt
      /\ u.mailbox = s.mailbox /\ u.flushing = s.flushing
      /\ u.stopped = s.stopped /\ u.bad = s.bad
      /\ u.late = s.late /\ u.db = s.db
  BY <1>0, <1>1, <1>i DEF TdRecords
<1>3. /\ Taken(u) = Taken(s) /\ Asked(u) = Asked(s)
      /\ \A i : Answering(u, i) <=> Answering(s, i)
  BY <1>2 DEF Taken, Asked, Answering
<1>4. Balance(u, a, r)
  <2>1. u.actor_refcnt = ActorsRef(s) + a
                           + Count(s.mailbox, "actorGone") + DbRef(s)
    <3>1. \A o, c, d \in Int : (o + (a + 1) + c + d) - 1 = o + a + c + d
      OBVIOUS
    <3>2. /\ ActorsRef(s) \in Int /\ DbRef(s) \in Int
          /\ Count(s.mailbox, "actorGone") \in Int
      BY <1>b, <1>c
    <3> QED
      BY <1>2, <1>b, <3>1, <3>2
  <2>2. u.actor_refcnt <= Managers + 1
    BY <1>2, <1>b, <1>i, TdAssumption
  <2>3. u.state \in {"WaitParameters", "Decrypt"} => a = 0
    BY <1>0, <1>2, <1>f DEF Balance, ActorsRef, DbRef, OpenRef
  <2>4. ~ (u.close_flag < 2) /\ u.close_flag # 5
    BY <1>2, <1>f
  <2> QED
    BY <1>0, <1>2, <1>3, <2>1, <2>2, <2>3, <2>4 DEF Balance, ActorsRef, DbRef, OpenRef
<1>5. Stops(u, own, 0)
  BY <1>0, <1>2 DEF Stops, CloseEnd, OwnerEnd
<1>6. Once(u, snt, {})
  BY <1>0, <1>2, <1>3 DEF Once
<1>7. Owed(u, snt, {})
  BY <1>0, <1>2, <1>3 DEF Owed
<1>8. u.flushing <= Len(u.mailbox)
  BY <1>0, <1>2
<1>9. CASE u.actor_refcnt # 0
  <2>1. t = u
    BY <1>1, <1>9 DEF DecActorRefcnt
  <2> QED
    BY <1>0, <1>2, <1>3, <1>4, <1>5, <1>6, <1>7, <1>8, <2>1 DEF Good
<1>10. ASSUME u.actor_refcnt = 0
       PROVE  /\ a = 0 /\ ~ s.db /\ Places(s.mailbox, "actorGone") = {}
              /\ Count(s.mailbox, "actorGone") = 0
              /\ ~ (s.request_actor_refcnt > 0)
  BY <1>2, <1>10, <1>b, <1>c, <1>i DEF ActorsRef, DbRef, OpenRef, CloseEnd, OwnerEnd, Is
<1>11. CASE u.actor_refcnt = 0 /\ s.close_flag = 2
  <2>1. PICK v : v = [u EXCEPT !.actor_refcnt = 1, !.close_flag = 3]
    OBVIOUS
  <2>2. t = Post(v, <<Message("actorGone", 0)>>)
    BY <1>1, <1>11, <2>1 DEF DecActorRefcnt
  <2>3. /\ v \in TdRecords /\ v.actor_refcnt = 1 /\ v.close_flag = 3
        /\ v.behind = s.behind /\ v.stop_cnt = s.stop_cnt
        /\ v.request_set = s.request_set /\ v.answered = s.answered
        /\ v.twice = s.twice /\ v.state = s.state /\ v.pending = s.pending
        /\ v.request_actor_refcnt = s.request_actor_refcnt
        /\ v.mailbox = s.mailbox /\ v.flushing = s.flushing
        /\ v.stopped = s.stopped /\ v.bad = s.bad
        /\ v.late = s.late /\ v.db = s.db
    <3>1. 1 \in Int /\ 3 \in 0 .. 5
      OBVIOUS
    <3>2. v \in TdRecords
      BY <1>2, <2>1, <3>1 DEF TdRecords
    <3>3. /\ v.actor_refcnt = 1 /\ v.close_flag = 3
          /\ v.behind = u.behind /\ v.stop_cnt = u.stop_cnt
          /\ v.request_set = u.request_set /\ v.answered = u.answered
          /\ v.twice = u.twice /\ v.state = u.state /\ v.pending = u.pending
          /\ v.request_actor_refcnt = u.request_actor_refcnt
          /\ v.mailbox = u.mailbox /\ v.flushing = u.flushing
          /\ v.stopped = u.stopped /\ v.bad = u.bad
          /\ v.late = u.late /\ v.db = u.db
      BY <1>2, <2>1, <3>1 DEF TdRecords
    <3> QED
      BY <1>2, <3>2, <3>3
  <2>4. Taken(v) = Taken(s) /\ Asked(v) = Asked(s)
    BY <2>3 DEF Taken, Asked
  <2>5. \A i : Answering(s, i) => Answering(v, i)
    BY <2>3 DEF Answering
  <2>6. Balance(v, 0 + 1, r)
    <3>1. ActorsRef(v) = 0 /\ DbRef(v) = 0 /\ OpenRef(v) = OpenRef(s)
      BY <1>10, <1>11, <2>3 DEF ActorsRef, DbRef, OpenRef
    <3>2. Count(v.mailbox, "actorGone") = 0
      BY <1>10, <1>11, <2>3
    <3>3. v.actor_refcnt = ActorsRef(v) + (0 + 1) + Count(v.mailbox, "actorGone") + DbRef(v)
      BY <2>3, <3>1, <3>2
    <3>4. v.state = "Close" /\ 1 <= Managers + 1
      BY <1>0, <1>f, <2>3, TdAssumption DEF Balance
    <3>5. v.request_actor_refcnt = r + Count(v.mailbox, "requestActorGone") + OpenRef(v)
      BY <1>0, <2>3, <3>1 DEF Balance
    <3>6. v.request_actor_refcnt <= Cardinality(Taken(v)) + 1 /\ ~ v.bad
      BY <1>0, <2>3, <2>4 DEF Balance
    <3> QED
      BY <2>3, <3>3, <3>4, <3>5, <3>6 DEF Balance
  <2>7. Stops(v, own, 0)
    BY <1>0, <1>11, <2>3 DEF Stops, CloseEnd, OwnerEnd
  <2>8. Once(v, snt, {})
    BY <1>0, <2>3, <2>4 DEF Once
  <2>9. Owed(v, snt, {})
    <3>1. \A i \in s.request_set \ (s.late \cup {}) : Answering(v, i)
      BY <1>0, <1>f, <2>5 DEF Owed
    <3> QED
      BY <1>0, <1>11, <2>3, <2>4, <3>1 DEF Owed
  <2>10. Good(v, snt, 0 + 1, r, own, {}, {})
    BY <1>0, <2>3, <2>6, <2>7, <2>8, <2>9 DEF Good
  <2>11. PICK m \in Messages : /\ m = Message("actorGone", 0) /\ m[1] = "actorGone"
                               /\ Is(m, "actorGone") = 1 /\ Is(m, "requestActorGone") = 0
    <3>1. "actorGone" \in Words /\ 0 \in Ids \cup {0}
      BY DEF Words
    <3> QED
      BY <3>1, MessageFacts
  <2>12. Good(v, snt, 0 + Is(m, "actorGone"), r + Is(m, "requestActorGone"), own, {}, {})
    <3>1. r + 0 = r
      BY <1>0
    <3> QED
      BY <2>10, <2>11, <3>1
  <2>13. Good(t, snt, 0, r, own, {}, {}) /\ Taken(t) = Taken(v)
    <3>1. /\ v.close_flag >= 2 /\ 0 \in Nat /\ t = Post(v, <<m>>)
          /\ m[1] # "hangup" /\ m[1] # "request"
      BY <2>2, <2>3, <2>11
    <3> QED
      BY <1>0, <2>11, <2>12, <3>1, PostPlain
  <2> QED
    BY <1>10, <1>11, <2>4, <2>13
<1>12. CASE u.actor_refcnt = 0 /\ s.close_flag = 3
  <2>1. t = [u EXCEPT !.actor_refcnt = 1, !.close_flag = 4, !.db = TRUE]
    BY <1>1, <1>12 DEF DecActorRefcnt
  <2>3. /\ t \in TdRecords /\ t.actor_refcnt = 1 /\ t.close_flag = 4 /\ t.db = TRUE
        /\ t.behind = s.behind /\ t.stop_cnt = s.stop_cnt
        /\ t.request_set = s.request_set /\ t.answered = s.answered
        /\ t.twice = s.twice /\ t.state = s.state /\ t.pending = s.pending
        /\ t.request_actor_refcnt = s.request_actor_refcnt
        /\ t.mailbox = s.mailbox /\ t.flushing = s.flushing
        /\ t.stopped = s.stopped /\ t.bad = s.bad
        /\ t.late = s.late
    <3>1. 1 \in Int /\ 4 \in 0 .. 5 /\ TRUE \in BOOLEAN
      OBVIOUS
    <3>2. t \in TdRecords
      BY <1>2, <2>1, <3>1 DEF TdRecords
    <3>3. /\ t.actor_refcnt = 1 /\ t.close_flag = 4 /\ t.db = TRUE
          /\ t.behind = u.behind /\ t.stop_cnt = u.stop_cnt
          /\ t.request_set = u.request_set /\ t.answered = u.answered
          /\ t.twice = u.twice /\ t.state = u.state /\ t.pending = u.pending
          /\ t.request_actor_refcnt = u.request_actor_refcnt
          /\ t.mailbox = u.mailbox /\ t.flushing = u.flushing
          /\ t.stopped = u.stopped /\ t.bad = u.bad
          /\ t.late = u.late
      BY <1>2, <2>1, <3>1 DEF TdRecords
    <3> QED
      BY <1>2, <3>2, <3>3
  <2>4. Taken(t) = Taken(s) /\ Asked(t) = Asked(s)
    BY <2>3 DEF Taken, Asked
  <2>5. \A i : Answering(s, i) => Answering(t, i)
    BY <2>3 DEF Answering
  <2>6. Balance(t, 0, r)
    <3>1. ActorsRef(t) = 0 /\ DbRef(t) = 1 /\ OpenRef(t) = OpenRef(s)
      BY <1>10, <1>12, <2>3 DEF ActorsRef, DbRef, OpenRef
    <3>2. Count(t.mailbox, "actorGone") = 0
      BY <1>10, <1>12, <2>3
    <3>3. t.actor_refcnt = ActorsRef(t) + 0 + Count(t.mailbox, "actorGone") + DbRef(t)
      BY <2>3, <3>1, <3>2
    <3>4. t.state = "Close" /\ 1 <= Managers + 1
      BY <1>0, <1>f, <2>3, TdAssumption DEF Balance
    <3>5. t.request_actor_refcnt = r + Count(t.mailbox, "requestActorGone") + OpenRef(t)
      BY <1>0, <2>3, <3>1 DEF Balance
    <3>6. t.request_actor_refcnt <= Cardinality(Taken(t)) + 1 /\ ~ t.bad
      BY <1>0, <2>3, <2>4 DEF Balance
    <3> QED
      BY <2>3, <3>3, <3>4, <3>5, <3>6 DEF Balance
  <2>7. Stops(t, own, 0)
    BY <1>0, <1>12, <2>3 DEF Stops, CloseEnd, OwnerEnd
  <2>8. Once(t, snt, {})
    BY <1>0, <2>3, <2>4 DEF Once
  <2>9. Owed(t, snt, {})
    <3>1. \A i \in s.request_set \ (s.late \cup {}) : Answering(t, i)
      BY <1>0, <1>f, <2>5 DEF Owed
    <3> QED
      BY <1>0, <1>12, <2>3, <2>4, <3>1 DEF Owed
  <2> QED
    BY <1>0, <1>10, <1>12, <2>3, <2>4, <2>6, <2>7, <2>8, <2>9 DEF Good
<1>13. CASE u.actor_refcnt = 0 /\ s.close_flag = 4
  <2>1. t = OnClosed(u)
    BY <1>1, <1>13 DEF DecActorRefcnt
  <2>2. u.request_set \subseteq u.late
    <3>1. \A i : ~ Answering(s, i)
      BY <1>10, <1>13 DEF Answering
    <3> QED
      BY <1>0, <1>2, <1>f, <3>1 DEF Owed
  <2>3. Good(t, snt, 0, r, own, {}, {}) /\ Taken(t) = Taken(u)
    <3>1. Balance(u, 0, r) /\ u.close_flag = 4 /\ u.actor_refcnt = 0
      BY <1>2, <1>4, <1>10, <1>13
    <3> QED
      BY <1>0, <1>2, <1>5, <1>6, <1>7, <1>8, <2>1, <2>2, <3>1, OnClosedGood
  <2> QED
    BY <1>3, <1>10, <1>13, <2>3
<1> QED
  BY <1>9, <1>11, <1>12, <1>13, <1>f

\* dec_request_actor_refcnt by one of those who hold a reference: the last one
\* begins the second stage, which answers everything that waits.
LEMMA DecRequestActorGood ==
  ASSUME NEW s, NEW snt, NEW a \in Nat, NEW r \in Nat, NEW own,
         Good(s, snt, a, r + 1, own, {}, {}),
         NEW t, t = DecRequestActorRefcnt(s)
  PROVE  Good(t, snt, a, r, own, {}, {}) /\ Taken(t) = Taken(s)
<1>0. /\ s \in TdRecords /\ Balance(s, a, r + 1) /\ Stops(s, own, 0)
      /\ Once(s, snt, {}) /\ Owed(s, snt, {}) /\ s.flushing <= Len(s.mailbox)
  BY DEF Good
<1>c. /\ Count(s.mailbox, "actorGone") \in Nat
      /\ Count(s.mailbox, "requestActorGone") \in Nat
  BY <1>0, TdCounts
<1>k. Cardinality(Taken(s)) \in Nat
  BY <1>0, TakenFinite
<1>i. /\ s.request_actor_refcnt \in Int /\ s.request_actor_refcnt - 1 \in Int
      /\ s.close_flag \in 0 .. 5
  BY <1>0 DEF TdRecords
<1>o. /\ OpenRef(s) \in {0, 1} /\ (OpenRef(s) = 0 <=> s.close_flag # 0)
      /\ ActorsRef(s) \in {0, 1} /\ DbRef(s) \in {0, 1}
  BY DEF OpenRef, ActorsRef, DbRef
<1>b. /\ s.request_actor_refcnt = (r + 1) + Count(s.mailbox, "requestActorGone") + OpenRef(s)
      /\ s.request_actor_refcnt >= 1 /\ ActorsRef(s) = 1
  <2>1. s.request_actor_refcnt = (r + 1) + Count(s.mailbox, "requestActorGone") + OpenRef(s)
    BY <1>0 DEF Balance
  <2>2. s.request_actor_refcnt >= 1
    BY <1>c, <1>o, <2>1
  <2> QED
    BY <1>i, <2>1, <2>2 DEF ActorsRef
<1>1. PICK u : u = [s EXCEPT !.request_actor_refcnt = @ - 1]
  OBVIOUS
<1>2. /\ u \in TdRecords /\ u.request_actor_refcnt = s.request_actor_refcnt - 1
      /\ u.close_flag = s.close_flag /\ u.behind = s.behind
      /\ u.stop_cnt = s.stop_cnt
      /\ u.request_set = s.request_set /\ u.answered = s.answered
      /\ u.twice = s.twice /\ u.state = s.state /\ u.pending = s.pending
      /\ u.actor_refcnt = s.actor_refcnt
      /\ u.mailbox = s.mailbox /\ u.flushing = s.flushing
      /\ u.stopped = s.stopped /\ u.bad = s.bad
      /\ u.late = s.late /\ u.db = s.db
  BY <1>0, <1>1, <1>i DEF TdRecords
<1>3. /\ Taken(u) = Taken(s) /\ Asked(u) = Asked(s)
      /\ \A i : Answering(u, i) <=> Answering(s, i)
  BY <1>2 DEF Taken, Asked, Answering
<1>4. /\ OpenRef(u) = OpenRef(s) /\ DbRef(u) = DbRef(s)
      /\ u.request_actor_refcnt = r + Count(u.mailbox, "requestActorGone") + OpenRef(u)
      /\ u.request_actor_refcnt <= Cardinality(Taken(u)) + 1
  <2>1. OpenRef(u) = OpenRef(s) /\ DbRef(u) = DbRef(s)
    BY <1>2 DEF OpenRef, DbRef
  <2>2. u.request_actor_refcnt = r + Count(u.mailbox, "requestActorGone") + OpenRef(u)
    BY <1>2, <1>b, <1>c, <1>o, <2>1
  <2>3. s.request_actor_refcnt <= Cardinality(Taken(s)) + 1
    BY <1>0 DEF Balance
  <2>4. u.request_actor_refcnt <= Cardinality(Taken(u)) + 1
    BY <1>2, <1>3, <1>i, <1>k, <2>3
  <2> QED
    BY <2>1, <2>2, <2>4
<1>5. Stops(u, own, 0)
  BY <1>0, <1>2 DEF Stops, CloseEnd, OwnerEnd
<1>6. Once(u, snt, {})
  BY <1>0, <1>2, <1>3 DEF Once
<1>7. Owed(u, snt, {})
  BY <1>0, <1>2, <1>3 DEF Owed
<1>8. CASE u.request_actor_refcnt # 0
  <2>1. t = u
    BY <1>1, <1>8 DEF DecRequestActorRefcnt
  <2>2. ActorsRef(u) = ActorsRef(s)
    <3>1. u.request_actor_refcnt > 0
      BY <1>2, <1>8, <1>b, <1>i
    <3> QED
      BY <1>b, <3>1 DEF ActorsRef
  <2>3. Balance(u, a, r)
    BY <1>0, <1>2, <1>3, <1>4, <2>2 DEF Balance
  <2> QED
    BY <1>0, <1>2, <1>3, <1>5, <1>6, <1>7, <2>1, <2>3 DEF Good
<1>9. CASE u.request_actor_refcnt = 0
  <2>1. t = DecActorRefcnt(Clear(u))
    BY <1>1, <1>9 DEF DecRequestActorRefcnt
  <2>2. OpenRef(s) = 0 /\ s.close_flag # 0 /\ s.state = "Close"
    <3>1. OpenRef(s) = 0
      BY <1>2, <1>4, <1>9, <1>c, <1>o
    <3> QED
      BY <1>0, <1>o, <3>1 DEF Balance
  <2>3. /\ u.actor_refcnt = ActorsRef(u) + (a + 1) + Count(u.mailbox, "actorGone") + DbRef(u)
        /\ ActorsRef(u) = 0
    <3>1. s.actor_refcnt = 1 + a + Count(s.mailbox, "actorGone") + DbRef(s)
      BY <1>0, <1>b DEF Balance
    <3>2. ActorsRef(u) = 0
      BY <1>9 DEF ActorsRef
    <3>3. \A c, d \in Int : 1 + a + c + d = 0 + (a + 1) + c + d
      OBVIOUS
    <3>4. Count(s.mailbox, "actorGone") \in Int /\ DbRef(s) \in Int
      BY <1>c, <1>o
    <3> QED
      BY <1>2, <1>4, <3>1, <3>2, <3>3, <3>4
  <2>4. CASE u.close_flag >= 2
    <3>1. Clear(u) = u
      BY <2>4 DEF Clear
    <3>2. Balance(u, a + 1, r)
      BY <1>0, <1>2, <1>3, <1>4, <2>2, <2>3 DEF Balance
    <3>3. Good(u, snt, a + 1, r, own, {}, {})
      BY <1>0, <1>2, <1>5, <1>6, <1>7, <3>2 DEF Good
    <3> QED
      BY <1>3, <2>1, <2>4, <3>1, <3>3, DecActorGood
  <2>5. CASE ~ (u.close_flag >= 2)
    <3>1. PICK v : v = [u EXCEPT !.close_flag = 2]
      OBVIOUS
    <3>2. PICK w : w = Answer(v, v.request_set) /\ w = Clear(u)
      BY <2>5, <3>1 DEF Clear, ClearRequests
    <3>3. /\ v \in TdRecords /\ v.close_flag = 2
          /\ v.request_actor_refcnt = u.request_actor_refcnt
          /\ v.behind = u.behind /\ v.stop_cnt = u.stop_cnt
          /\ v.request_set = u.request_set /\ v.answered = u.answered
          /\ v.twice = u.twice /\ v.state = u.state /\ v.pending = u.pending
          /\ v.actor_refcnt = u.actor_refcnt
          /\ v.mailbox = u.mailbox /\ v.flushing = u.flushing
          /\ v.stopped = u.stopped /\ v.bad = u.bad
          /\ v.late = u.late /\ v.db = u.db
      <4>1. 2 \in 0 .. 5
        OBVIOUS
      <4>2. v \in TdRecords
        BY <1>2, <3>1, <4>1 DEF TdRecords
      <4> QED
        BY <1>2, <3>1, <4>1, <4>2 DEF TdRecords
    <3>4. Taken(v) = Taken(s) /\ Asked(v) = Asked(s)
      BY <1>2, <3>3 DEF Taken, Asked
    <3>5. /\ w \in TdRecords
          /\ w.request_set = {}
          /\ w.twice = v.twice /\ Taken(w) = Taken(v)
          /\ w.state = v.state /\ w.close_flag = v.close_flag /\ w.pending = v.pending
          /\ w.actor_refcnt = v.actor_refcnt
          /\ w.request_actor_refcnt = v.request_actor_refcnt
          /\ w.stop_cnt = v.stop_cnt /\ w.mailbox = v.mailbox /\ w.flushing = v.flushing
          /\ w.stopped = v.stopped /\ w.bad = v.bad /\ w.behind = v.behind
          /\ w.late = v.late /\ w.db = v.db
      <4>1. v.request_set \cap v.answered = {}
        BY <1>6, <3>3 DEF Once
      <4>2. PICK ids \in SUBSET v.request_set : ids = v.request_set /\ w = Answer(v, ids)
        BY <3>2
      <4> QED
        BY <3>3, <4>1, <4>2, AnswerFacts
    <3>6. Asked(w) = Asked(s) /\ Taken(w) = Taken(s)
      BY <1>2, <3>3, <3>4, <3>5 DEF Asked
    <3>7. Balance(w, a + 1, r)
      <4>1. ActorsRef(w) = ActorsRef(u) /\ DbRef(w) = DbRef(u) /\ OpenRef(w) = OpenRef(u)
        BY <1>o, <1>4, <2>2, <3>3, <3>5 DEF ActorsRef, DbRef, OpenRef
      <4>2. w.actor_refcnt = ActorsRef(w) + (a + 1) + Count(w.mailbox, "actorGone") + DbRef(w)
        BY <2>3, <3>3, <3>5, <4>1
      <4>3. w.request_actor_refcnt = r + Count(w.mailbox, "requestActorGone") + OpenRef(w)
        BY <1>4, <3>3, <3>5, <4>1
      <4>4. w.request_actor_refcnt <= Cardinality(Taken(w)) + 1
        BY <1>3, <1>4, <3>3, <3>5, <3>6
      <4>5. w.actor_refcnt <= Managers + 1 /\ ~ w.bad /\ w.state = "Close" /\ w.close_flag = 2
        BY <1>0, <1>2, <2>2, <3>3, <3>5 DEF Balance
      <4> QED
        BY <4>2, <4>3, <4>4, <4>5 DEF Balance
    <3>8. Stops(w, own, 0)
      <4>1. s.close_flag # 5
        BY <1>2, <2>5
      <4> QED
        BY <1>5, <1>2, <3>3, <3>5, <4>1 DEF Stops, CloseEnd, OwnerEnd
    <3>9. Once(w, snt, {})
      BY <1>0, <1>2, <3>3, <3>5, <3>6 DEF Once
    <3>10. Owed(w, snt, {})
      <4>1. \A i \in w.behind : snt[i] = "close"
        BY <1>7, <3>3, <3>5 DEF Owed
      <4>2. w.pending \cup w.late \cup w.behind \subseteq Taken(w)
        BY <1>3, <1>7, <3>3, <3>5, <3>6 DEF Owed
      <4> QED
        BY <3>3, <3>5, <4>1, <4>2 DEF Owed
    <3>11. Good(w, snt, a + 1, r, own, {}, {}) /\ w.close_flag >= 2
      BY <1>0, <1>2, <3>3, <3>5, <3>7, <3>8, <3>9, <3>10 DEF Good
    <3> QED
      BY <2>1, <3>2, <3>6, <3>11, DecActorGood
  <2> QED
    BY <2>4, <2>5
<1> QED
  BY <1>8, <1>9

\* close_impl gives the guard of the request actors back, once.
LEMMA CloseImplGood ==
  ASSUME NEW s, NEW snt, NEW a, NEW r, NEW own, NEW destroy \in BOOLEAN,
         Good(s, snt, a, r, own, {}, {}),
         NEW t, t = CloseImpl(s, destroy)
  PROVE  Good(t, snt, a, r, own, {}, {}) /\ Taken(t) = Taken(s)
<1>0. /\ s \in TdRecords /\ a \in Nat /\ r \in Nat /\ Balance(s, a, r) /\ Stops(s, own, 0)
      /\ Once(s, snt, {}) /\ Owed(s, snt, {}) /\ s.flushing <= Len(s.mailbox)
  BY DEF Good
<1>1. PICK u : u = [s EXCEPT !.destroy_flag = @ \/ destroy]
  OBVIOUS
<1>2. /\ u \in TdRecords /\ u.request_actor_refcnt = s.request_actor_refcnt
      /\ u.close_flag = s.close_flag /\ u.behind = s.behind
      /\ u.stop_cnt = s.stop_cnt
      /\ u.request_set = s.request_set /\ u.answered = s.answered
      /\ u.twice = s.twice /\ u.state = s.state /\ u.pending = s.pending
      /\ u.actor_refcnt = s.actor_refcnt
      /\ u.mailbox = s.mailbox /\ u.flushing = s.flushing
      /\ u.stopped = s.stopped /\ u.bad = s.bad
      /\ u.late = s.late /\ u.db = s.db
  <2>1. PICK d \in BOOLEAN : u = [s EXCEPT !.destroy_flag = d]
    <3>1. (s.destroy_flag \/ destroy) \in BOOLEAN
      OBVIOUS
    <3> QED
      BY <1>1, <3>1
  <2>2. u \in TdRecords
    BY <1>0, <2>1 DEF TdRecords
  <2> QED
    BY <1>0, <2>1, <2>2 DEF TdRecords
<1>3. /\ Taken(u) = Taken(s) /\ Asked(u) = Asked(s)
      /\ \A i : Answering(u, i) <=> Answering(s, i)
      /\ OpenRef(u) = OpenRef(s) /\ DbRef(u) = DbRef(s) /\ ActorsRef(u) = ActorsRef(s)
  BY <1>2 DEF Taken, Asked, Answering, OpenRef, DbRef, ActorsRef
<1>4. Good(u, snt, a, r, own, {}, {})
  <2>1. Balance(u, a, r)
    BY <1>0, <1>2, <1>3 DEF Balance
  <2>2. Stops(u, own, 0)
    BY <1>0, <1>2 DEF Stops, CloseEnd, OwnerEnd
  <2>3. Once(u, snt, {})
    BY <1>0, <1>2, <1>3 DEF Once
  <2>4. Owed(u, snt, {})
    BY <1>0, <1>2, <1>3 DEF Owed
  <2> QED
    BY <1>0, <1>2, <2>1, <2>2, <2>3, <2>4 DEF Good
<1>5. CASE u.close_flag # 0
  <2>1. t = u
    BY <1>1, <1>5 DEF CloseImpl
  <2> QED
    BY <1>3, <1>4, <2>1
<1>6. CASE u.close_flag = 0
  <2>1. PICK w \in TdRecords, f \in {1, 4} :
          /\ f = 4 => w.request_set = {}
          /\ f = 1 => w.request_set = u.request_set
          /\ w.request_set \cap w.answered = {}
          /\ w.twice = u.twice /\ Taken(w) = Taken(u)
          /\ w.pending = u.pending /\ w.actor_refcnt = u.actor_refcnt
          /\ w.request_actor_refcnt = u.request_actor_refcnt
          /\ w.stop_cnt = u.stop_cnt /\ w.mailbox = u.mailbox /\ w.flushing = u.flushing
          /\ w.stopped = u.stopped /\ w.bad = u.bad /\ w.behind = u.behind
          /\ w.late = u.late /\ w.db = u.db
          /\ t = Post([w EXCEPT !.state = "Close", !.close_flag = f],
                      <<Message("requestActorGone", 0)>>)
    <3>1. CASE u.state \in {"WaitParameters", "Decrypt"}
      <4>1. PICK z : z = Answer(u, u.request_set)
        OBVIOUS
      <4>2. t = Post([z EXCEPT !.state = "Close", !.close_flag = 4],
                     <<Message("requestActorGone", 0)>>)
        BY <1>1, <1>6, <3>1, <4>1 DEF CloseImpl, ClearRequests
      <4>3. u.request_set \cap u.answered = {}
        BY <1>4 DEF Good, Once
      <4>4. PICK ids \in SUBSET u.request_set : ids = u.request_set /\ z = Answer(u, ids)
        BY <4>1
      <4>5. /\ z \in TdRecords
            /\ z.request_set = {}
            /\ z.twice = u.twice /\ Taken(z) = Taken(u)
            /\ z.pending = u.pending
            /\ z.actor_refcnt = u.actor_refcnt
            /\ z.request_actor_refcnt = u.request_actor_refcnt
            /\ z.stop_cnt = u.stop_cnt /\ z.mailbox = u.mailbox /\ z.flushing = u.flushing
            /\ z.stopped = u.stopped /\ z.bad = u.bad /\ z.behind = u.behind
            /\ z.late = u.late /\ z.db = u.db
        BY <1>2, <4>3, <4>4, AnswerFacts
      <4>6. z.request_set \cap z.answered = {}
        BY <4>5
      <4> z \in TdRecords /\ 4 \in {1, 4}
        BY <4>5
      <4> WITNESS z \in TdRecords, 4 \in {1, 4}
      <4> QED
        BY <4>2, <4>5, <4>6
    <3>2. CASE u.state \notin {"WaitParameters", "Decrypt"}
      <4>1. t = Post([u EXCEPT !.state = "Close", !.close_flag = 1],
                     <<Message("requestActorGone", 0)>>)
        BY <1>1, <1>6, <3>2 DEF CloseImpl
      <4>2. u.request_set \cap u.answered = {}
        BY <1>4 DEF Good, Once
      <4> u \in TdRecords /\ 1 \in {1, 4}
        BY <1>2
      <4> WITNESS u \in TdRecords, 1 \in {1, 4}
      <4> QED
        BY <1>2, <4>1, <4>2
    <3> QED
      BY <3>1, <3>2
  <2>2. PICK v : v = [w EXCEPT !.state = "Close", !.close_flag = f]
    OBVIOUS
  <2>3. /\ v \in TdRecords /\ v.close_flag = f /\ v.state = "Close"
        /\ v.request_actor_refcnt = w.request_actor_refcnt
        /\ v.behind = w.behind /\ v.stop_cnt = w.stop_cnt
        /\ v.request_set = w.request_set /\ v.answered = w.answered
        /\ v.twice = w.twice /\ v.pending = w.pending
        /\ v.actor_refcnt = w.actor_refcnt
        /\ v.mailbox = w.mailbox /\ v.flushing = w.flushing
        /\ v.stopped = w.stopped /\ v.bad = w.bad
        /\ v.late = w.late /\ v.db = w.db
    <3>1. f \in 0 .. 5 /\ "Close" \in States /\ w \in TdRecords
      BY <2>1 DEF States
    <3>2. v \in TdRecords
      BY <2>2, <3>1 DEF TdRecords
    <3> QED
      BY <2>2, <3>1, <3>2 DEF TdRecords
  <2>4. Taken(v) = Taken(u) /\ Asked(v) = Asked(u)
    BY <2>1, <2>3 DEF Taken, Asked
  <2>5. Balance(v, a, r + 1)
    <3>1. /\ Balance(u, a, r) /\ Count(u.mailbox, "requestActorGone") \in Nat
          /\ Count(u.mailbox, "actorGone") \in Nat
      BY <1>2, <1>4, TdCounts DEF Good
    <3>2. OpenRef(u) = 1 /\ OpenRef(v) = 0 /\ ActorsRef(v) = ActorsRef(u) /\ DbRef(v) = DbRef(u)
      BY <1>6, <2>1, <2>3 DEF OpenRef, ActorsRef, DbRef
    <3>3. u.request_actor_refcnt = r + Count(u.mailbox, "requestActorGone") + 1
      BY <3>1, <3>2 DEF Balance
    <3>4. v.request_actor_refcnt = (r + 1) + Count(v.mailbox, "requestActorGone") + OpenRef(v)
      BY <1>0, <2>1, <2>3, <3>1, <3>2, <3>3
    <3>5. v.actor_refcnt = ActorsRef(v) + a + Count(v.mailbox, "actorGone") + DbRef(v)
      BY <2>1, <2>3, <3>1, <3>2 DEF Balance
    <3>6. Count(v.mailbox, "actorGone") = 0 /\ ~ v.db
      BY <1>6, <2>1, <2>3, <3>1 DEF Balance
    <3>7. /\ v.actor_refcnt <= Managers + 1 /\ ~ v.bad
          /\ v.request_actor_refcnt <= Cardinality(Taken(v)) + 1
      BY <2>1, <2>3, <2>4, <3>1 DEF Balance
    <3> QED
      BY <2>1, <2>3, <3>4, <3>5, <3>6, <3>7 DEF Balance
  <2>6. Stops(v, own, 0)
    <3>1. Stops(u, own, 0) /\ u.close_flag # 5 /\ v.close_flag # 5
      BY <1>4, <1>6, <2>1, <2>3 DEF Good
    <3> QED
      BY <2>1, <2>3, <3>1 DEF Stops, CloseEnd, OwnerEnd
  <2>7. Once(v, snt, {})
    BY <1>4, <2>1, <2>3, <2>4 DEF Good, Once
  <2>8. Owed(v, snt, {})
    <3>1. /\ \A i \in v.behind : snt[i] = "close"
          /\ v.pending \cup v.late \cup v.behind \subseteq Taken(v)
      BY <1>4, <2>1, <2>3, <2>4 DEF Good, Owed
    <3>2. CASE f = 4
      BY <2>1, <2>3, <3>1, <3>2 DEF Owed
    <3>3. CASE f = 1
      BY <2>1, <2>3, <3>1, <3>3 DEF Owed
    <3> QED
      BY <2>1, <3>2, <3>3
  <2>9. Good(v, snt, a, r + 1, own, {}, {})
    BY <1>0, <1>4, <2>1, <2>3, <2>5, <2>6, <2>7, <2>8 DEF Good
  <2>10. PICK m \in Messages : /\ m = Message("requestActorGone", 0)
                               /\ m[1] = "requestActorGone"
                               /\ Is(m, "actorGone") = 0 /\ Is(m, "requestActorGone") = 1
    <3>1. "requestActorGone" \in Words /\ 0 \in Ids \cup {0}
      BY DEF Words
    <3> QED
      BY <3>1, MessageFacts
  <2>11. Good(v, snt, a + Is(m, "actorGone"), r + Is(m, "requestActorGone"), own, {}, {})
    <3>1. a + 0 = a
      BY <1>0
    <3> QED
      BY <2>9, <2>10, <3>1
  <2>12. Good(t, snt, a, r, own, {}, {}) /\ Taken(t) = Taken(v)
    <3>1. /\ t = Post(v, <<m>>)
          /\ m[1] # "hangup" /\ m[1] # "request" /\ m[1] # "actorGone"
      BY <2>1, <2>2, <2>10
    <3> QED
      BY <1>0, <2>10, <2>11, <3>1, PostPlain
  <2> QED
    BY <1>3, <2>4, <2>12
<1> QED
  BY <1>5, <1>6

-----------------------------------------------------------------------------
(* The messages of Td that are no requests.                                *)

\* What the invariant is about while Td handles m.
Handling(s, m, snt, a, r, own) ==
  Good(s, snt, a + Is(m, "actorGone"), r + Is(m, "requestActorGone"),
       IF m[1] = "hangup" THEN "hung" ELSE own,
       IF m[1] = "request" THEN {m[2]} ELSE {},
       IF m[1] = "reply" THEN {m[2]} ELSE {})

\* Td handles a message.
LEMMA HandleGood ==
  ASSUME NEW s, NEW m \in Messages, NEW snt, NEW a \in Nat, NEW r \in Nat, NEW own,
         Handling(s, m, snt, a, r, own), m[1] # "request",
         m[1] = "actorGone" => s.close_flag >= 2,
         m[1] = "hangup" => own = "no",
         NEW t, t = Handle(s, m)
  PROVE  Good(t, snt, a, r, own, {}, {}) /\ Taken(t) = Taken(s)
<1>0. m[1] \in Words /\ a + 0 = a /\ r + 0 = r
  BY DEF Messages
<1>1. CASE m[1] = "reply"
  <2>1. Good(s, snt, a, r, own, {}, {m[2]})
    <3>1. Is(m, "actorGone") = 0 /\ Is(m, "requestActorGone") = 0
      BY <1>1 DEF Is
    <3> QED
      BY <1>0, <1>1, <3>1 DEF Handling
  <2>2. t = Reply(s, m[2])
    BY <1>1 DEF Handle
  <2>3. PICK y : y = {m[2]} /\ y \in SUBSET {m[2]}
    OBVIOUS
  <2> QED
    BY <2>1, <2>2, <2>3, ReplyGood
<1>2. CASE m[1] \in {"close", "destroy"}
  <2>1. Good(s, snt, a, r, own, {}, {})
    <3>1. Is(m, "actorGone") = 0 /\ Is(m, "requestActorGone") = 0
      BY <1>2 DEF Is
    <3> QED
      BY <1>0, <1>2, <3>1 DEF Handling
  <2>2. PICK d \in BOOLEAN : t = CloseImpl(s, d)
    BY <1>2 DEF Handle
  <2> QED
    BY <2>1, <2>2, CloseImplGood
<1>3. CASE m[1] = "requestActorGone"
  <2>1. Good(s, snt, a, r + 1, own, {}, {})
    <3>1. Is(m, "actorGone") = 0 /\ Is(m, "requestActorGone") = 1
      BY <1>3 DEF Is
    <3> QED
      BY <1>0, <1>3, <3>1 DEF Handling
  <2>2. t = DecRequestActorRefcnt(s)
    BY <1>3 DEF Handle
  <2> QED
    BY <2>1, <2>2, DecRequestActorGood
<1>4. CASE m[1] = "actorGone"
  <2>1. Good(s, snt, a + 1, r, own, {}, {})
    <3>1. Is(m, "actorGone") = 1 /\ Is(m, "requestActorGone") = 0
      BY <1>4 DEF Is
    <3> QED
      BY <1>0, <1>4, <3>1 DEF Handling
  <2>2. t = DecActorRefcnt(s)
    BY <1>4 DEF Handle
  <2> QED
    BY <1>4, <2>1, <2>2, DecActorGood
<1>5. CASE m[1] = "hangup"
  <2>1. Good(s, snt, a, r, "hung", {}, {})
    <3>1. Is(m, "actorGone") = 0 /\ Is(m, "requestActorGone") = 0
      BY <1>5 DEF Is
    <3> QED
      BY <1>0, <1>5, <3>1 DEF Handling
  <2>2. PICK u : u = CloseImpl(s, FALSE)
    OBVIOUS
  <2>3. t = DecStopCnt(u) /\ own = "no"
    BY <1>5, <2>2 DEF Handle
  <2>4. Good(u, snt, a, r, "hung", {}, {}) /\ Taken(u) = Taken(s)
    BY <2>1, <2>2, CloseImplGood
  <2>5. Stops(u, "no", 1)
    <3>1. Stops(u, "hung", 0)
      BY <2>4 DEF Good
    <3>2. Places(u.mailbox, "hangup") = {}
      BY <3>1 DEF Stops
    <3>3. OwnerEnd(u, "hung") = 1 /\ OwnerEnd(u, "no") = 0 /\ CloseEnd(u) \in {0, 1}
      BY <3>2 DEF OwnerEnd, CloseEnd
    <3>4. u.stop_cnt = 0 + CloseEnd(u) + OwnerEnd(u, "hung")
      BY <3>1 DEF Stops
    <3>5. u.stop_cnt = 1 + CloseEnd(u) + OwnerEnd(u, "no")
      BY <3>3, <3>4
    <3> QED
      BY <3>1, <3>5 DEF Stops
  <2>6. Good(t, snt, a, r, "no", {}, {}) /\ Taken(t) = Taken(u)
    <3>1. /\ u \in TdRecords /\ Balance(u, a, r) /\ Once(u, snt, {}) /\ Owed(u, snt, {})
          /\ u.flushing <= Len(u.mailbox)
      BY <2>4 DEF Good
    <3> QED
      BY <2>3, <2>5, <3>1, DecStopGood
  <2> QED
    BY <2>3, <2>4, <2>6
<1> QED
  BY <1>0, <1>1, <1>2, <1>3, <1>4, <1>5 DEF Words

-----------------------------------------------------------------------------
(* Td takes a message out of its mailbox.                                  *)

\* The messages behind the first one move up by a place.
LEMMA TailPlaces ==
  ASSUME NEW q \in Seq(Messages), q # << >>, NEW p, p = Tail(q), NEW w
  PROVE  /\ \A k \in Places(p, w) : k \in Nat /\ k >= 1 /\ k + 1 \in Places(q, w)
         /\ \A k \in Places(q, w) :
              k \in Nat /\ (k # 1 => k - 1 \in Places(p, w))
         /\ 1 \in Places(q, w) <=> q[1][1] = w
<1>1. /\ Len(q) \in Nat /\ Len(q) >= 1 /\ Len(p) = Len(q) - 1
      /\ \A k \in 1 .. Len(q) - 1 : p[k] = q[k + 1]
  BY TailFacts
<1>2. \A k \in Places(p, w) : k \in Nat /\ k >= 1 /\ k + 1 \in Places(q, w)
  BY <1>1 DEF Places
<1>3. ASSUME NEW k \in Places(q, w), k # 1
      PROVE  k \in Nat /\ k - 1 \in Places(p, w)
  <2>1. k \in 2 .. Len(q) /\ q[k][1] = w
    BY <1>1, <1>3 DEF Places
  <2>2. k - 1 \in 1 .. Len(q) - 1 /\ (k - 1) + 1 = k /\ k \in Nat
    BY <1>1, <2>1
  <2>3. p[k - 1] = q[k]
    BY <1>1, <2>2
  <2> QED
    BY <1>1, <2>1, <2>2, <2>3 DEF Places
<1>4. 1 \in Places(q, w) <=> q[1][1] = w
  BY <1>1 DEF Places
<1>5. \A k \in Places(q, w) : k \in Nat
  BY <1>1 DEF Places
<1> QED
  BY <1>2, <1>3, <1>4, <1>5

\* Td with the first message taken out.
Took(s, t, left) ==
  t = [s EXCEPT !.mailbox = Tail(@), !.flushing = left]

\* Taking a message out changes nothing else.
LEMMA TookFacts ==
  ASSUME NEW s \in TdRecords, s.mailbox # << >>, NEW left \in Nat, NEW t, Took(s, t, left)
  PROVE  /\ t \in TdRecords
         /\ t.mailbox = Tail(s.mailbox) /\ t.flushing = left
         /\ t.close_flag = s.close_flag /\ t.behind = s.behind
         /\ t.stop_cnt = s.stop_cnt /\ t.actor_refcnt = s.actor_refcnt
         /\ t.request_set = s.request_set /\ t.answered = s.answered
         /\ t.twice = s.twice /\ t.state = s.state /\ t.pending = s.pending
         /\ t.request_actor_refcnt = s.request_actor_refcnt
         /\ t.stopped = s.stopped /\ t.bad = s.bad
         /\ t.late = s.late /\ t.db = s.db
         /\ Taken(t) = Taken(s)
<1>1. s.mailbox \in Seq(Messages)
  BY DEF TdRecords
<1>2. PICK q : q = Tail(s.mailbox) /\ q \in Seq(Messages)
  BY <1>1, TailFacts
<1>3. t = [s EXCEPT !.mailbox = q, !.flushing = left]
  BY <1>2 DEF Took
<1>4. t \in TdRecords
  BY <1>2, <1>3 DEF TdRecords
<1>5. /\ t.mailbox = q /\ t.flushing = left
      /\ t.close_flag = s.close_flag /\ t.behind = s.behind
      /\ t.stop_cnt = s.stop_cnt /\ t.actor_refcnt = s.actor_refcnt
      /\ t.request_set = s.request_set /\ t.answered = s.answered
      /\ t.twice = s.twice /\ t.state = s.state /\ t.pending = s.pending
      /\ t.request_actor_refcnt = s.request_actor_refcnt
      /\ t.stopped = s.stopped /\ t.bad = s.bad
      /\ t.late = s.late /\ t.db = s.db
  BY <1>3 DEF TdRecords
<1> QED
  BY <1>2, <1>4, <1>5 DEF Taken

\* The counters: the reference that the message gives back is being handled.
LEMMA TakeBalance ==
  ASSUME NEW s \in TdRecords, s.mailbox # << >>, NEW left \in Nat, NEW t, Took(s, t, left),
         NEW a \in Nat, NEW r \in Nat, Balance(s, a, r), NEW m, m = s.mailbox[1]
  PROVE  /\ Balance(t, a + Is(m, "actorGone"), r + Is(m, "requestActorGone"))
         /\ m[1] = "actorGone" => s.close_flag >= 2
<1>1. /\ t \in TdRecords /\ t.mailbox = Tail(s.mailbox)
      /\ t.close_flag = s.close_flag /\ t.actor_refcnt = s.actor_refcnt
      /\ t.state = s.state
      /\ t.request_actor_refcnt = s.request_actor_refcnt
      /\ t.bad = s.bad /\ t.db = s.db /\ Taken(t) = Taken(s)
  BY TookFacts
<1>2. /\ Count(s.mailbox, "actorGone") =
           Count(t.mailbox, "actorGone") + Is(m, "actorGone")
      /\ Count(s.mailbox, "requestActorGone") =
           Count(t.mailbox, "requestActorGone") + Is(m, "requestActorGone")
  <2>1. s.mailbox \in Seq(Messages)
    BY DEF TdRecords
  <2> QED
    BY <1>1, <2>1, CountTail
<1>3. /\ Count(t.mailbox, "actorGone") \in Nat /\ Count(t.mailbox, "requestActorGone") \in Nat
  BY <1>1, TdCounts
<1>4. PICK o \in {0, 1}, p \in {0, 1} :
        /\ o = Is(m, "actorGone") /\ p = Is(m, "requestActorGone")
        /\ o = 1 <=> m[1] = "actorGone"
  BY DEF Is
<1>5. /\ ActorsRef(s) \in Nat /\ DbRef(s) \in Nat
      /\ OpenRef(s) \in Nat
      /\ ActorsRef(t) = ActorsRef(s) /\ DbRef(t) = DbRef(s) /\ OpenRef(t) = OpenRef(s)
  BY <1>1 DEF ActorsRef, DbRef, OpenRef
<1>6. t.actor_refcnt = ActorsRef(t) + (a + o)
                         + Count(t.mailbox, "actorGone") + DbRef(t)
  <2>1. s.actor_refcnt = ActorsRef(s) + a
                         + Count(s.mailbox, "actorGone") + DbRef(s)
    BY DEF Balance
  <2>2. \A e, c, d \in Nat : e + (a + o) + c + d = e + a + (c + o) + d
    OBVIOUS
  <2> QED
    BY <1>1, <1>2, <1>3, <1>4, <1>5, <2>1, <2>2
<1>7. t.request_actor_refcnt = (r + p) + Count(t.mailbox, "requestActorGone")
                                 + OpenRef(t)
  <2>1. s.request_actor_refcnt = r + Count(s.mailbox, "requestActorGone")
                                   + OpenRef(s)
    BY DEF Balance
  <2>2. \A c, d \in Nat : (r + p) + c + d = r + (c + p) + d
    OBVIOUS
  <2> QED
    BY <1>1, <1>2, <1>3, <1>4, <1>5, <2>1, <2>2
<1>8. t.close_flag < 2 => Count(t.mailbox, "actorGone") = 0 /\ ~ t.db /\ o = 0
  BY <1>1, <1>2, <1>3, <1>4 DEF Balance
<1>9. m[1] = "actorGone" => s.close_flag >= 2
  <2>1. s.close_flag \in 0 .. 5
    BY DEF TdRecords
  <2> QED
    BY <1>1, <1>4, <1>8, <2>1
<1>10. t.state \in {"WaitParameters", "Decrypt"} => a + o = 0
  <2>1. t.state \in {"WaitParameters", "Decrypt"} => t.close_flag = 0 /\ a = 0
    BY <1>1 DEF Balance
  <2> QED
    BY <1>8, <2>1
<1>11. Balance(t, a + o, r + p)
  BY <1>1, <1>6, <1>7, <1>8, <1>10 DEF Balance
<1> QED
  BY <1>4, <1>9, <1>11

\* The ends: a hangup is the only one, and no request of the owner is left.
LEMMA TakeStops ==
  ASSUME NEW s \in TdRecords, s.mailbox # << >>, NEW left \in Nat, NEW t, Took(s, t, left),
         NEW own, Stops(s, own, 0), NEW m, m = s.mailbox[1],
         NEW now, now = IF m[1] = "hangup" THEN "hung" ELSE own
  PROVE  Stops(t, now, 0) /\ (m[1] = "hangup" => own = "no")
<1>1. /\ t.mailbox = Tail(s.mailbox) /\ t.close_flag = s.close_flag
      /\ t.stop_cnt = s.stop_cnt /\ t.stopped = s.stopped
  BY TookFacts
<1>2. PICK H, R, HQ, RQ :
        /\ H = Places(t.mailbox, "hangup") /\ R = Places(t.mailbox, "request")
        /\ HQ = Places(s.mailbox, "hangup") /\ RQ = Places(s.mailbox, "request")
  OBVIOUS
<1>3. /\ \A k \in H : k \in Nat /\ k >= 1 /\ k + 1 \in HQ
      /\ \A k \in HQ : k \in Nat /\ (k # 1 => k - 1 \in H)
      /\ 1 \in HQ <=> m[1] = "hangup"
      /\ \A k \in R : k \in Nat /\ k >= 1 /\ k + 1 \in RQ
  <2>1. s.mailbox \in Seq(Messages)
    BY DEF TdRecords
  <2>2. /\ \A k \in H : k \in Nat /\ k >= 1 /\ k + 1 \in HQ
        /\ \A k \in HQ : k \in Nat /\ (k # 1 => k - 1 \in H)
        /\ 1 \in HQ <=> m[1] = "hangup"
    <3>1. \A k \in H : k \in Nat /\ k >= 1 /\ k + 1 \in HQ
      BY <1>1, <1>2, <2>1, TailPlaces
    <3>2. ASSUME NEW k \in HQ PROVE k \in Nat /\ (k # 1 => k - 1 \in H)
      <4>1. k \in Places(s.mailbox, "hangup")
        BY <1>2
      <4>2. k \in Nat /\ (k # 1 => k - 1 \in Places(t.mailbox, "hangup"))
        BY <1>1, <1>2, <2>1, <4>1, TailPlaces
      <4> QED
        BY <1>2, <4>2
    <3>3. 1 \in HQ <=> m[1] = "hangup"
      BY <1>1, <1>2, <2>1, TailPlaces
    <3> QED
      BY <3>1, <3>2, <3>3
  <2>3. \A k \in R : k \in Nat /\ k >= 1 /\ k + 1 \in RQ
    BY <1>1, <1>2, <2>1, TailPlaces
  <2> QED
    BY <2>2, <2>3
<1>4. /\ s.stop_cnt = 0 + CloseEnd(s) + OwnerEnd(s, own)
      /\ s.stopped <=> s.stop_cnt = 0
      /\ own # "no" => HQ = {}
      /\ \A j, k \in HQ : j = k
      /\ own # "yes" => \A k \in RQ : \E j \in HQ : j > k
  BY <1>2 DEF Stops
<1>5. CloseEnd(t) = CloseEnd(s)
  BY <1>1 DEF CloseEnd
<1>6. CASE m[1] = "hangup"
  <2>1. 1 \in HQ /\ own = "no" /\ now = "hung"
    BY <1>3, <1>4, <1>6
  <2>2. H = {}
    BY <1>3, <1>4, <2>1
  <2>3. R = {}
    <3> SUFFICES ASSUME NEW k \in R PROVE FALSE
      OBVIOUS
    <3>1. PICK j \in HQ : j > k + 1
      BY <1>3, <1>4, <2>1
    <3>2. j = 1 /\ k \in Nat
      BY <1>3, <1>4, <2>1
    <3> QED
      BY <3>1, <3>2
  <2>4. OwnerEnd(t, now) = OwnerEnd(s, own)
    BY <1>2, <2>1 DEF OwnerEnd
  <2> QED
    BY <1>1, <1>2, <1>4, <1>5, <2>1, <2>2, <2>3, <2>4 DEF Stops
<1>7. CASE m[1] # "hangup"
  <2>1. 1 \notin HQ /\ now = own
    BY <1>3, <1>7
  <2>2. H = {} <=> HQ = {}
    BY <1>3, <2>1
  <2>3. \A j, k \in H : j = k
    BY <1>3, <1>4
  <2>4. ASSUME own # "yes", NEW k \in R PROVE \E j \in H : j > k
    <3>1. k \in Nat /\ k + 1 \in RQ
      BY <1>3
    <3>2. PICK j \in HQ : j > k + 1
      BY <1>4, <2>4, <3>1
    <3>3. j \in Nat /\ j - 1 \in H /\ j - 1 > k
      BY <1>3, <2>1, <3>1, <3>2
    <3> QED
      BY <3>3
  <2>5. OwnerEnd(t, now) = OwnerEnd(s, own)
    BY <1>2, <2>1, <2>2 DEF OwnerEnd
  <2> QED
    BY <1>1, <1>2, <1>4, <1>5, <1>7, <2>1, <2>2, <2>3, <2>4, <2>5 DEF Stops
<1> QED
  BY <1>5, <1>6, <1>7

\* A request leaves the mailbox: it is the one that is being handled.
LEMMA TakeOnce ==
  ASSUME NEW s \in TdRecords, s.mailbox # << >>, NEW left \in Nat, NEW t, Took(s, t, left),
         NEW snt, Once(s, snt, {}), NEW m, m = s.mailbox[1],
         NEW x, x = IF m[1] = "request" THEN {m[2]} ELSE {}
  PROVE  Once(t, snt, x) /\ (m[1] = "request" => m[2] \in Ids)
<1>0. s.mailbox \in Seq(Messages)
  BY DEF TdRecords
<1>1. /\ t.request_set = s.request_set /\ t.answered = s.answered
      /\ t.twice = s.twice /\ Taken(t) = Taken(s)
      /\ t.mailbox = Tail(s.mailbox)
  BY TookFacts
<1>2. /\ Len(s.mailbox) \in Nat /\ Len(s.mailbox) >= 1
      /\ Len(t.mailbox) = Len(s.mailbox) - 1 /\ m \in Messages
      /\ \A k \in 1 .. Len(s.mailbox) - 1 : t.mailbox[k] = s.mailbox[k + 1]
  BY <1>0, <1>1, TailFacts
<1>3. m = <<m[1], m[2]>>
  BY <1>2 DEF Messages
<1>4. PICK R, RQ : R = Places(t.mailbox, "request") /\ RQ = Places(s.mailbox, "request")
  OBVIOUS
<1>5. /\ \A k \in R : k \in Nat /\ k >= 1 /\ k + 1 \in RQ
      /\ \A k \in RQ : k \in Nat /\ (k # 1 => k - 1 \in R /\ t.mailbox[k - 1] = s.mailbox[k])
      /\ 1 \in RQ <=> m[1] = "request"
  <2>1. /\ \A k \in R : k \in Nat /\ k >= 1 /\ k + 1 \in RQ
        /\ \A k \in RQ : k \in Nat /\ (k # 1 => k - 1 \in R)
        /\ 1 \in RQ <=> m[1] = "request"
    <3>1. \A k \in R : k \in Nat /\ k >= 1 /\ k + 1 \in RQ
      BY <1>0, <1>1, <1>4, TailPlaces
    <3>2. ASSUME NEW k \in RQ PROVE k \in Nat /\ (k # 1 => k - 1 \in R)
      <4>1. k \in Places(s.mailbox, "request")
        BY <1>4
      <4>2. k \in Nat /\ (k # 1 => k - 1 \in Places(t.mailbox, "request"))
        BY <1>0, <1>1, <1>4, <4>1, TailPlaces
      <4> QED
        BY <1>4, <4>2
    <3>3. 1 \in RQ <=> m[1] = "request"
      BY <1>0, <1>1, <1>4, TailPlaces
    <3> QED
      BY <3>1, <3>2, <3>3
  <2>2. ASSUME NEW k \in RQ, k # 1 PROVE t.mailbox[k - 1] = s.mailbox[k]
    <3>1. k \in Nat /\ k - 1 \in 1 .. Len(t.mailbox)
      BY <1>4, <2>1, <2>2 DEF Places
    <3>2. k - 1 \in 1 .. Len(s.mailbox) - 1 /\ (k - 1) + 1 = k
      BY <1>2, <3>1
    <3> QED
      BY <1>2, <3>2
  <2> QED
    BY <2>1, <2>2
<1>6. /\ \A j, k \in RQ : s.mailbox[j] = s.mailbox[k] => j = k
      /\ \A k \in RQ : s.mailbox[k][2] \in Ids
  BY <1>4 DEF Once
<1>7. \A k \in R : t.mailbox[k] = s.mailbox[k + 1]
  BY <1>2, <1>4 DEF Places
<1>8. \A j, k \in R : t.mailbox[j] = t.mailbox[k] => j = k
  <2> SUFFICES ASSUME NEW j \in R, NEW k \in R, t.mailbox[j] = t.mailbox[k] PROVE j = k
    OBVIOUS
  <2>1. j + 1 = k + 1
    BY <1>5, <1>6, <1>7
  <2>2. j \in Nat /\ k \in Nat
    BY <1>5
  <2> QED
    BY <2>1, <2>2
<1>9. \A k \in R : t.mailbox[k][2] \in Ids
  BY <1>5, <1>6, <1>7
<1>10. \A i : i \in Asked(t) <=> i \in Ids /\ \E k \in R : t.mailbox[k] = <<"request", i>>
  BY <1>4 DEF Asked, Places
<1>11. \A i : i \in Asked(s) <=> i \in Ids /\ \E k \in RQ : s.mailbox[k] = <<"request", i>>
  BY <1>4 DEF Asked, Places
<1>12. \A i \in Asked(t) : i \in Asked(s)
  BY <1>5, <1>7, <1>10, <1>11
<1>13. CASE m[1] = "request"
  <2>1. m = <<"request", m[2]>> /\ 1 \in RQ /\ m[2] \in Ids /\ x = {m[2]}
    BY <1>3, <1>5, <1>6, <1>13
  <2>2. m[2] \in Asked(s)
    BY <1>11, <2>1
  <2>3. m[2] \notin Asked(t)
    <3> SUFFICES ASSUME m[2] \in Asked(t) PROVE FALSE
      OBVIOUS
    <3>1. PICK k \in R : t.mailbox[k] = m
      BY <1>10, <2>1
    <3>2. k + 1 \in RQ /\ s.mailbox[k + 1] = m /\ k \in Nat /\ k >= 1
      BY <1>5, <1>7, <3>1
    <3>3. k + 1 = 1
      BY <1>6, <2>1, <3>2
    <3> QED
      BY <3>2, <3>3
  <2>4. \A i \in Asked(s) : i \in Asked(t) \/ i = m[2]
    <3> SUFFICES ASSUME NEW i \in Asked(s), i \notin Asked(t) PROVE i = m[2]
      OBVIOUS
    <3>1. PICK k \in RQ : s.mailbox[k] = <<"request", i>>
      BY <1>11
    <3>2. k = 1
      BY <1>5, <1>10, <1>11, <3>1
    <3> QED
      BY <2>1, <3>1, <3>2
  <2>5. Asked(s) = Asked(t) \cup x
    BY <1>12, <2>1, <2>2, <2>4
  <2>6. /\ Taken(t) \cap (Asked(t) \cup x) = {} /\ Asked(t) \cap x = {}
        /\ DOMAIN snt = Taken(t) \cup Asked(t) \cup x
    <3>1. Taken(s) \cap (Asked(s) \cup {}) = {} /\ DOMAIN snt = Taken(s) \cup Asked(s) \cup {}
      BY DEF Once
    <3> QED
      BY <1>1, <2>1, <2>3, <2>5, <3>1
  <2>7. t.twice = {} /\ t.request_set \cap t.answered = {}
    BY <1>1 DEF Once
  <2> QED
    BY <1>4, <1>8, <1>9, <2>1, <2>6, <2>7 DEF Once
<1>14. CASE m[1] # "request"
  <2>1. \A i \in Asked(s) : i \in Asked(t)
    BY <1>5, <1>10, <1>11, <1>14
  <2>2. Asked(s) = Asked(t) /\ x = {}
    BY <1>12, <1>14, <2>1
  <2> QED
    BY <1>1, <1>4, <1>8, <1>9, <1>14, <2>2 DEF Once
<1> QED
  BY <1>13, <1>14

\* An answer leaves the mailbox: it is the one that is being handled.
LEMMA TakeOwed ==
  ASSUME NEW s \in TdRecords, s.mailbox # << >>, NEW left \in Nat, NEW t, Took(s, t, left),
         NEW snt, Owed(s, snt, {}), NEW m, m = s.mailbox[1],
         NEW y, y = IF m[1] = "reply" THEN {m[2]} ELSE {}
  PROVE  Owed(t, snt, y)
<1>0. s.mailbox \in Seq(Messages)
  BY DEF TdRecords
<1>1. /\ t.request_set = s.request_set /\ Taken(t) = Taken(s)
      /\ t.close_flag = s.close_flag /\ t.late = s.late /\ t.db = s.db
      /\ t.behind = s.behind /\ t.pending = s.pending
      /\ t.mailbox = Tail(s.mailbox)
  BY TookFacts
<1>2. ASSUME t.close_flag \in 2 .. 4, NEW i \in t.request_set \ (t.late \cup y)
      PROVE  Answering(t, i)
  <2>1. Answering(s, i)
    BY <1>1, <1>2 DEF Owed
  <2>2. PICK k \in 1 .. Len(s.mailbox) :
          /\ s.mailbox[k] = <<"reply", i>>
          /\ s.close_flag = 4 => s.db \/ \E j \in Places(s.mailbox, "actorGone") : j > k
    BY <2>1 DEF Answering
  <2>3. k # 1
    <3> SUFFICES ASSUME k = 1 PROVE FALSE
      OBVIOUS
    <3>1. m = <<"reply", i>>
      BY <2>2
    <3> QED
      BY <1>2, <3>1
  <2>4. k \in Places(s.mailbox, "reply")
    BY <2>2 DEF Places
  <2>5. k \in Nat /\ k - 1 \in Places(t.mailbox, "reply") /\ t.mailbox[k - 1] = s.mailbox[k]
    <3>1. k \in Nat /\ k - 1 \in Places(t.mailbox, "reply")
      BY <1>0, <1>1, <2>3, <2>4, TailPlaces
    <3>2. /\ Len(s.mailbox) \in Nat /\ Len(t.mailbox) = Len(s.mailbox) - 1
          /\ \A n \in 1 .. Len(s.mailbox) - 1 : t.mailbox[n] = s.mailbox[n + 1]
      BY <1>0, <1>1, TailFacts
    <3>3. k - 1 \in 1 .. Len(s.mailbox) - 1 /\ (k - 1) + 1 = k
      BY <3>1, <3>2 DEF Places
    <3> QED
      BY <3>1, <3>2, <3>3
  <2>6. ASSUME NEW j \in Places(s.mailbox, "actorGone"), j > k
        PROVE  j - 1 \in Places(t.mailbox, "actorGone") /\ j - 1 > k - 1
    <3>1. j \in Nat /\ (j # 1 => j - 1 \in Places(t.mailbox, "actorGone"))
      BY <1>0, <1>1, TailPlaces
    <3>2. k >= 1
      OBVIOUS
    <3> QED
      BY <2>5, <2>6, <3>1, <3>2
  <2>7. k - 1 \in 1 .. Len(t.mailbox)
    BY <2>5 DEF Places
  <2>8. t.close_flag = 4 => t.db \/ \E j \in Places(t.mailbox, "actorGone") : j > k - 1
    BY <1>1, <2>2, <2>6
  <2> QED
    BY <2>2, <2>5, <2>7, <2>8 DEF Answering
<1> QED
  BY <1>1, <1>2 DEF Owed

\* How many messages are left of those that Td is working off.
Left(s) == IF s.flushing = 0 THEN Len(s.mailbox) - 1 ELSE s.flushing - 1

\* Td takes the first message and begins to handle it.
LEMMA TakeGood ==
  ASSUME NEW s, NEW snt, NEW a \in Nat, NEW r \in Nat, NEW own,
         Good(s, snt, a, r, own, {}, {}), s.mailbox # << >>,
         NEW t, Took(s, t, Left(s)), NEW m, m = Head(s.mailbox)
  PROVE  /\ m \in Messages /\ Handling(t, m, snt, a, r, own) /\ Taken(t) = Taken(s)
         /\ m[1] = "actorGone" => t.close_flag >= 2
         /\ m[1] = "hangup" => own = "no"
         /\ m[1] = "request" => m[2] \in Ids
<1>0. /\ s \in TdRecords /\ Balance(s, a, r) /\ Stops(s, own, 0)
      /\ Once(s, snt, {}) /\ Owed(s, snt, {}) /\ s.flushing <= Len(s.mailbox)
  BY DEF Good
<1>1. s.mailbox \in Seq(Messages) /\ s.flushing \in Nat
  BY <1>0 DEF TdRecords
<1>2. /\ m = s.mailbox[1] /\ m \in Messages /\ Len(s.mailbox) \in Nat /\ Len(s.mailbox) >= 1
      /\ Len(Tail(s.mailbox)) = Len(s.mailbox) - 1
  BY <1>1, TailFacts
<1>3. PICK left \in Nat : /\ left = Left(s) /\ left <= Len(s.mailbox) - 1
                          /\ Took(s, t, left)
  BY <1>0, <1>1, <1>2 DEF Left
<1>4. /\ t \in TdRecords /\ t.mailbox = Tail(s.mailbox) /\ t.flushing = left
      /\ t.close_flag = s.close_flag /\ Taken(t) = Taken(s)
  BY <1>0, <1>3, TookFacts
<1>5. /\ Balance(t, a + Is(m, "actorGone"), r + Is(m, "requestActorGone"))
      /\ m[1] = "actorGone" => s.close_flag >= 2
  BY <1>0, <1>2, <1>3, TakeBalance
<1>6. PICK now, x, y :
        /\ now = IF m[1] = "hangup" THEN "hung" ELSE own
        /\ x = IF m[1] = "request" THEN {m[2]} ELSE {}
        /\ y = IF m[1] = "reply" THEN {m[2]} ELSE {}
  OBVIOUS
<1>7. Stops(t, now, 0) /\ (m[1] = "hangup" => own = "no")
  BY <1>0, <1>2, <1>3, <1>6, TakeStops
<1>8. Once(t, snt, x) /\ (m[1] = "request" => m[2] \in Ids)
  BY <1>0, <1>2, <1>3, <1>6, TakeOnce
<1>9. Owed(t, snt, y)
  BY <1>0, <1>2, <1>3, <1>6, TakeOwed
<1>10. Is(m, "actorGone") \in Nat /\ Is(m, "requestActorGone") \in Nat
  BY DEF Is
<1>11. a + Is(m, "actorGone") \in Nat /\ r + Is(m, "requestActorGone") \in Nat
  BY <1>10
<1>12. t.flushing <= Len(t.mailbox)
  BY <1>2, <1>3, <1>4
<1>13. Good(t, snt, a + Is(m, "actorGone"), r + Is(m, "requestActorGone"), now, x, y)
  BY <1>4, <1>5, <1>7, <1>8, <1>9, <1>11, <1>12 DEF Good
<1> QED
  BY <1>2, <1>4, <1>5, <1>6, <1>7, <1>8, <1>13 DEF Handling

-----------------------------------------------------------------------------
(* Requests.                                                               *)

\* Two messages at the end are one after the other.
LEMMA PostTwo ==
  ASSUME NEW s \in TdRecords, NEW m \in Messages, NEW n \in Messages
  PROVE  /\ Post(s, <<m>> \o <<n>>) = Post(Post(s, <<m>>), <<n>>)
         /\ <<m>> \o <<n>> = <<m, n>>
<1>1. s.mailbox \in Seq(Messages) /\ <<m>> \in Seq(Messages) /\ <<n>> \in Seq(Messages)
  BY DEF TdRecords
<1>2. s.mailbox \o (<<m>> \o <<n>>) = (s.mailbox \o <<m>>) \o <<n>>
  BY <1>1, ConcatAssociative
<1>3. PICK q, p : q = s.mailbox \o (<<m>> \o <<n>>) /\ p = s.mailbox \o <<m>> /\ q = p \o <<n>>
  BY <1>2
<1>4. PICK u : u = Post(s, <<m>>) /\ u = [s EXCEPT !.mailbox = p]
  BY <1>3 DEF Post
<1>5. u.mailbox = p
  BY <1>4 DEF TdRecords
<1>6. Post(u, <<n>>) = [u EXCEPT !.mailbox = q]
  BY <1>3, <1>5 DEF Post
<1>7. [u EXCEPT !.mailbox = q] = [s EXCEPT !.mailbox = q]
  BY <1>4 DEF TdRecords
<1>8. Post(s, <<m>> \o <<n>>) = [s EXCEPT !.mailbox = q]
  BY <1>3 DEF Post
<1>9. <<m>> \o <<n>> = <<m, n>>
  <2>1. PICK e \in Seq(Messages) : e = <<m>> /\ Len(e) = 1 /\ e[1] = m
    BY <1>1
  <2> PICK f : f = e \o <<n>>
    OBVIOUS
  <2>2. f \in Seq(Messages) /\ Len(f) = 1 + 1 /\ f[1] = m /\ f[1 + 1] = n
    BY <2>1, AppendFacts
  <2>3. PICK g \in Seq(Messages) : g = <<m, n>> /\ Len(g) = 2 /\ g[1] = m /\ g[2] = n
    <3>1. <<m, n>> \in Seq(Messages)
      OBVIOUS
    <3>2. Len(<<m, n>>) = 2 /\ <<m, n>>[1] = m /\ <<m, n>>[2] = n
      OBVIOUS
    <3> QED
      BY <3>1, <3>2
  <2>4. Len(f) = Len(g) /\ \A k \in 1 .. Len(f) : f[k] = g[k]
    BY <2>2, <2>3
  <2>5. f = g
    BY <2>2, <2>3, <2>4, SeqEqual
  <2> QED
    BY <2>1, <2>3, <2>5
<1> QED
  BY <1>4, <1>6, <1>7, <1>8, <1>9

\* Td takes the request i, whose answer it owes from then on: what stays as it
\* is, and what may change.
Kept(s, u) ==
  /\ u.close_flag = s.close_flag /\ u.behind = s.behind /\ u.stop_cnt = s.stop_cnt
  /\ u.answered = s.answered /\ u.twice = s.twice /\ u.mailbox = s.mailbox
  /\ u.flushing = s.flushing /\ u.stopped = s.stopped /\ u.db = s.db /\ u.bad = s.bad
TakesIn(s, snt, u, i) ==
  /\ Kept(s, u)
  /\ u.request_set = s.request_set \cup {i} /\ u.pending \subseteq s.pending \cup {i}
  /\ u.late = s.late \/ u.late = s.late \cup {i}
  /\ s.close_flag >= 2 => snt[i] = "close"
  /\ s.close_flag = 5 => i \in u.late

\* The request i was taken: Td owes its answer.
LEMMA AskGood ==
  ASSUME NEW s, NEW snt, NEW a, NEW r, NEW own, NEW i \in Ids,
         Good(s, snt, a, r, own, {i}, {}),
         NEW u \in TdRecords, NEW b \in Nat, NEW c \in Nat, TakesIn(s, snt, u, i),
         Balance(u, b, c)
  PROVE  /\ Good(u, snt, b, c, own, {}, {i}) /\ Taken(u) = Taken(s) \cup {i}
         /\ s.close_flag < 2 => Good(u, snt, b, c, own, {}, {})
<1> /\ u.request_set = s.request_set \cup {i} /\ u.pending \subseteq s.pending \cup {i}
    /\ u.late = s.late \/ u.late = s.late \cup {i}
    /\ u.close_flag = s.close_flag /\ u.behind = s.behind /\ u.stop_cnt = s.stop_cnt
    /\ u.answered = s.answered /\ u.twice = s.twice /\ u.mailbox = s.mailbox
    /\ u.flushing = s.flushing /\ u.stopped = s.stopped /\ u.db = s.db
    /\ s.close_flag >= 2 => snt[i] = "close"
    /\ s.close_flag = 5 => i \in u.late
  BY DEF TakesIn, Kept
<1>0. /\ s \in TdRecords /\ Stops(s, own, 0)
      /\ Once(s, snt, {i}) /\ Owed(s, snt, {}) /\ s.flushing <= Len(s.mailbox)
  BY DEF Good
<1>1. Taken(u) = Taken(s) \cup {i} /\ Asked(u) = Asked(s)
  BY DEF Taken, Asked
<1>2. i \notin Taken(s) /\ i \notin Asked(s) /\ DOMAIN snt = Taken(s) \cup Asked(s) \cup {i}
  BY <1>0 DEF Once
<1>3. Stops(u, own, 0)
  BY <1>0 DEF Stops, CloseEnd, OwnerEnd
<1>4. Once(u, snt, {})
  <2>1. u.request_set \cap u.answered = {}
    BY <1>0, <1>2 DEF Once, Taken
  <2>2. /\ Taken(u) \cap (Asked(u) \cup {}) = {} /\ Asked(u) \cap {} = {}
        /\ DOMAIN snt = Taken(u) \cup Asked(u) \cup {}
    <3>1. Taken(s) \cap (Asked(s) \cup {i}) = {}
      BY <1>0 DEF Once
    <3> QED
      BY <1>1, <1>2, <3>1
  <2> QED
    BY <1>0, <2>1, <2>2 DEF Once
<1>5. Owed(u, snt, {i})
  <2>1. ASSUME u.close_flag \in 2 .. 4, NEW j \in u.request_set \ (u.late \cup {i})
        PROVE  Answering(u, j)
    <3>1. Answering(s, j)
      BY <1>0, <2>1 DEF Owed
    <3> QED
      BY <3>1 DEF Answering
  <2>2. u.close_flag >= 2 => \A j \in u.request_set : snt[j] = "close"
    BY <1>0 DEF Owed
  <2>3. u.close_flag = 5 => u.request_set \subseteq u.late
    BY <1>0 DEF Owed
  <2>4. \A j \in u.behind : snt[j] = "close"
    BY <1>0 DEF Owed
  <2>5. u.pending \cup u.late \cup u.behind \subseteq Taken(u)
    BY <1>0, <1>1 DEF Owed
  <2> QED
    BY <2>1, <2>2, <2>3, <2>4, <2>5 DEF Owed
<1>6. s.close_flag < 2 => Owed(u, snt, {})
  <2>1. s.close_flag < 2 => ~ (s.close_flag \in 2 .. 4)
    BY <1>0 DEF TdRecords
  <2> QED
    BY <1>5, <2>1 DEF Owed
<1> QED
  BY <1>0, <1>1, <1>3, <1>4, <1>5, <1>6 DEF Good

\* The request i is put into request_set_.
Asks(s, u, i) == u = [s EXCEPT !.request_set = @ \cup {i}]

\* The request i was answered at once.
LEMMA NowGood ==
  ASSUME NEW s, NEW snt, NEW a, NEW r, NEW own, NEW i \in Ids,
         Good(s, snt, a, r, own, {i}, {}),
         NEW u \in TdRecords, Asks(s, u, i),
         NEW t, t = Reply(u, i)
  PROVE  Good(t, snt, a, r, own, {}, {}) /\ Taken(t) = Taken(s) \cup {i}
<1>0. /\ s \in TdRecords /\ Balance(s, a, r) /\ Stops(s, own, 0) /\ a \in Nat /\ r \in Nat
      /\ Once(s, snt, {i}) /\ Owed(s, snt, {}) /\ s.flushing <= Len(s.mailbox)
  BY DEF Good
<1>1. /\ u.request_set = s.request_set \cup {i} /\ u.answered = s.answered
      /\ u.twice = s.twice /\ u.state = s.state /\ u.close_flag = s.close_flag
      /\ u.pending = s.pending /\ u.actor_refcnt = s.actor_refcnt
      /\ u.request_actor_refcnt = s.request_actor_refcnt
      /\ u.stop_cnt = s.stop_cnt /\ u.mailbox = s.mailbox /\ u.flushing = s.flushing
      /\ u.stopped = s.stopped /\ u.bad = s.bad /\ u.behind = s.behind
      /\ u.late = s.late /\ u.db = s.db
  BY <1>0 DEF Asks, TdRecords
<1>2. i \notin Taken(s) /\ i \notin Asked(s) /\ DOMAIN snt = Taken(s) \cup Asked(s) \cup {i}
  BY <1>0 DEF Once
<1>3. u.request_set \cap u.answered = {} /\ i \notin s.request_set
  BY <1>0, <1>1, <1>2 DEF Once, Taken
<1>4. PICK ids \in SUBSET u.request_set : ids = {i} /\ t = Answer(u, ids)
  <2>1. {i} \in SUBSET u.request_set /\ t = Answer(u, {i})
    BY <1>1 DEF Reply
  <2> QED
    BY <2>1
<1>5. /\ t \in TdRecords
      /\ t.request_set = u.request_set \ ids /\ t.answered = u.answered \cup ids
      /\ t.twice = u.twice /\ Taken(t) = Taken(u)
      /\ t.state = u.state /\ t.close_flag = u.close_flag /\ t.pending = u.pending
      /\ t.actor_refcnt = u.actor_refcnt
      /\ t.request_actor_refcnt = u.request_actor_refcnt
      /\ t.stop_cnt = u.stop_cnt /\ t.mailbox = u.mailbox /\ t.flushing = u.flushing
      /\ t.stopped = u.stopped /\ t.bad = u.bad /\ t.behind = u.behind
      /\ t.late = u.late /\ t.db = u.db
  BY <1>3, <1>4, AnswerFacts
<1>6. t.request_set = s.request_set /\ t.answered = s.answered \cup {i}
  BY <1>1, <1>3, <1>4, <1>5
<1>7. Taken(t) = Taken(s) \cup {i} /\ Asked(t) = Asked(s)
  BY <1>1, <1>5, <1>6 DEF Taken, Asked
<1>8. Balance(t, a, r)
  <2>1. Cardinality(Taken(s)) \in Nat /\ Cardinality(Taken(t)) = Cardinality(Taken(s)) + 1
    BY <1>0, <1>2, <1>7, TakenFinite, FS_AddElement
  <2>2. t.request_actor_refcnt <= Cardinality(Taken(t)) + 1
    <3>1. s.request_actor_refcnt <= Cardinality(Taken(s)) + 1 /\ s.request_actor_refcnt \in Int
      BY <1>0 DEF Balance, TdRecords
    <3> QED
      BY <1>1, <1>5, <2>1, <3>1
  <2>3. ActorsRef(t) = ActorsRef(s) /\ DbRef(t) = DbRef(s) /\ OpenRef(t) = OpenRef(s)
    BY <1>1, <1>5 DEF ActorsRef, DbRef, OpenRef
  <2> QED
    BY <1>0, <1>1, <1>5, <2>2, <2>3 DEF Balance
<1>9. Stops(t, own, 0)
  BY <1>0, <1>1, <1>5 DEF Stops, CloseEnd, OwnerEnd
<1>10. Once(t, snt, {})
  <2>1. t.request_set \cap t.answered = {} /\ t.twice = {}
    BY <1>0, <1>1, <1>2, <1>5, <1>6 DEF Once, Taken
  <2>2. /\ Taken(t) \cap (Asked(t) \cup {}) = {} /\ Asked(t) \cap {} = {}
        /\ DOMAIN snt = Taken(t) \cup Asked(t) \cup {}
    <3>1. Taken(s) \cap (Asked(s) \cup {i}) = {}
      BY <1>0 DEF Once
    <3> QED
      BY <1>2, <1>7, <3>1
  <2>3. t.mailbox = s.mailbox
    BY <1>1, <1>5
  <2> QED
    BY <1>0, <2>1, <2>2, <2>3 DEF Once
<1>11. Owed(t, snt, {})
  <2>1. \A j : Answering(s, j) => Answering(t, j)
    BY <1>1, <1>5 DEF Answering
  <2>2. /\ t.close_flag = s.close_flag /\ t.request_set = s.request_set /\ t.late = s.late
        /\ t.behind = s.behind /\ t.pending = s.pending
    BY <1>1, <1>5, <1>6
  <2>3. t.pending \cup t.late \cup t.behind \subseteq Taken(t)
    BY <1>0, <1>7, <2>2 DEF Owed
  <2> QED
    BY <1>0, <2>1, <2>2, <2>3 DEF Owed
<1> QED
  BY <1>0, <1>1, <1>5, <1>7, <1>8, <1>9, <1>10, <1>11 DEF Good

\* The answer to i is sent by a message, and more by another one.
AnswersLater(u, i, t) ==
  /\ u.close_flag = 4 => i \in u.late
  /\ \/ t = ReplyLater(u, i, << >>)
     \/ \E w \in {"close", "destroy"} : t = ReplyLater(u, i, <<Message(w, 0)>>)

\* Such an answer keeps the invariant.
LEMMA LaterGood ==
  ASSUME NEW u, NEW snt, NEW a \in Nat, NEW r \in Nat, NEW own, NEW i \in Ids,
         Good(u, snt, a, r, own, {}, {i}), NEW t, AnswersLater(u, i, t)
  PROVE  Good(t, snt, a, r, own, {}, {}) /\ Taken(t) = Taken(u)
<1>0. /\ u.close_flag = 4 => i \in u.late
      /\ \/ t = ReplyLater(u, i, << >>)
         \/ \E w \in {"close", "destroy"} : t = ReplyLater(u, i, <<Message(w, 0)>>)
  BY DEF AnswersLater
<1>1. PICK m \in Messages : /\ m = Message("reply", i) /\ m[1] = "reply" /\ m[2] = i
                            /\ Is(m, "actorGone") = 0 /\ Is(m, "requestActorGone") = 0
  <2>1. "reply" \in Words /\ i \in Ids \cup {0}
    BY DEF Words
  <2> QED
    BY <2>1, MessageFacts
<1>2. PICK v : v = Post(u, <<m>>)
  OBVIOUS
<1>3. Good(v, snt, a, r, own, {}, {}) /\ Taken(v) = Taken(u)
  <2>1. a + 0 = a /\ r + 0 = r
    OBVIOUS
  <2>2. Good(u, snt, a + Is(m, "actorGone"), r + Is(m, "requestActorGone"), own, {}, {i})
    BY <1>1, <2>1
  <2>3. PICK y, y2 : /\ y = {i} /\ y2 = {} /\ y = {m[2]}
                     /\ u.close_flag = 4 => m[2] \in u.late
    BY <1>0, <1>1
  <2>4. Good(v, snt, a, r, own, {}, y2) /\ Taken(v) = Taken(u)
    <3>1. Good(u, snt, a + Is(m, "actorGone"), r + Is(m, "requestActorGone"), own, {}, y)
      BY <2>2, <2>3
    <3>2. m[1] # "actorGone" /\ m[1] # "hangup" /\ m[1] # "request"
      BY <1>1
    <3> QED
      BY <1>1, <1>2, <2>3, <3>1, <3>2, PostGood
  <2> QED
    BY <2>3, <2>4
<1>4. CASE t = ReplyLater(u, i, << >>)
  <2>1. <<m>> \o << >> = <<m>>
    OBVIOUS
  <2>2. t = v
    BY <1>1, <1>2, <1>4, <2>1 DEF ReplyLater
  <2> QED
    BY <1>3, <2>2
<1>5. ASSUME NEW w \in {"close", "destroy"}, t = ReplyLater(u, i, <<Message(w, 0)>>)
      PROVE  Good(t, snt, a, r, own, {}, {}) /\ Taken(t) = Taken(u)
  <2>1. PICK n \in Messages : /\ n = Message(w, 0) /\ n[1] = w
                              /\ Is(n, "actorGone") = 0 /\ Is(n, "requestActorGone") = 0
    <3>1. w \in Words /\ 0 \in Ids \cup {0} /\ w # "actorGone" /\ w # "requestActorGone"
      BY DEF Words
    <3> QED
      BY <3>1, MessageFacts
  <2>2. u \in TdRecords
    BY DEF Good
  <2>3. t = Post(v, <<n>>)
    BY <1>1, <1>2, <1>5, <2>1, <2>2, PostTwo DEF ReplyLater
  <2>4. a + 0 = a /\ r + 0 = r
    OBVIOUS
  <2>5. Good(v, snt, a + Is(n, "actorGone"), r + Is(n, "requestActorGone"), own, {}, {})
    BY <1>3, <2>1, <2>4
  <2>6. n[1] # "actorGone" /\ n[1] # "hangup" /\ n[1] # "request"
    BY <2>1
  <2>7. Good(t, snt, a, r, own, {}, {}) /\ Taken(t) = Taken(v)
    BY <2>1, <2>3, <2>5, <2>6, PostPlain
  <2> QED
    BY <1>3, <2>7
<1> QED
  BY <1>0, <1>4, <1>5

\* What Td::request does with the request, in the state u in which it owes the
\* answer.
Outcomes(o, u, i, kind) ==
  \/ o = Outcome(Reply(u, i), "nothing")
  \/ /\ kind = "close"
     /\ o = Outcome(ReplyLater([u EXCEPT !.late = IF u.close_flag >= 4 THEN @ \cup {i} ELSE @],
                               i, <<Message("close", 0)>>), "nothing")
  \/ /\ u.state # "Close"
     /\ o = Outcome(ReplyLater(u, i, <<Message("destroy", 0)>>), "nothing")
  \/ u.state # "Close" /\ o = Outcome(ReplyLater(u, i, << >>), "nothing")
  \/ /\ u.state = "WaitParameters"
     /\ o = Outcome(ReplyLater([u EXCEPT !.state = "Decrypt"], i, << >>), "nothing")
  \/ /\ u.state = "Decrypt"
     /\ o = Outcome(ReplyLater([u EXCEPT !.state = "Run", !.actor_refcnt = @ + Managers,
                                         !.pending = {}], i, << >>), "managers")
  \/ u.state # "Close" /\ o = Outcome([u EXCEPT !.pending = @ \cup {i}], "nothing")
  \/ u.state # "Close" /\ o = Outcome(u, "promise")
  \/ /\ u.state # "Close"
     /\ o = Outcome([u EXCEPT !.request_actor_refcnt = @ + 1], "actor")

\* These are the cases of Td::request.
LEMMA RequestCases ==
  ASSUME NEW s \in TdRecords, NEW i \in Ids, NEW kind \in Kinds, NEW u, Asks(s, u, i),
         u.state \in States, NEW o \in Request(s, i, kind)
  PROVE  Outcomes(o, u, i, kind)
<1> DEFINE Now == {Outcome(Reply(u, i), "nothing")}
           Later == {Outcome(ReplyLater(u, i, << >>), "nothing")}
           Closes ==
             {Outcome(ReplyLater([u EXCEPT !.late = IF u.close_flag >= 4 THEN @ \cup {i} ELSE @],
                                 i, <<Message("close", 0)>>), "nothing")}
           Destroys == {Outcome(ReplyLater(u, i, <<Message("destroy", 0)>>), "nothing")}
           Waits == {Outcome([u EXCEPT !.pending = @ \cup {i}], "nothing")}
           Promises == {Outcome(u, "promise")}
           Makes == {Outcome([u EXCEPT !.request_actor_refcnt = @ + 1], "actor")}
<1>1. Request(s, i, kind) =
        CASE kind = "sync" -> Now
          [] kind = "close" -> Closes
          [] kind = "destroy" /\ u.state \in {"Decrypt", "Run"} -> Destroys
          [] kind = "params" /\ u.state = "WaitParameters" -> SetParameters(u, i)
          [] kind = "key" /\ u.state = "Decrypt" -> InitDatabase(u, i)
          [] kind = "option" /\ u.state \in {"WaitParameters", "Decrypt"} -> Waits
          [] kind \in {"params", "key"} /\ u.state = "Run" -> Later
          [] kind = "option" /\ u.state = "Run" -> Promises
          [] kind = "promise" /\ u.state # "Close" -> Promises \cup Now \cup Later
          [] kind = "actor" /\ u.state # "Close" -> Makes \cup Now \cup Later
          [] OTHER -> Now
  BY Zenon DEF Asks, Request
<1> HIDE DEF Now, Later, Closes, Destroys, Waits, Promises, Makes
<1>2. CASE kind = "sync"
  <2>1. Request(s, i, kind) = Now
    BY <1>1, <1>2
  <2> QED
    BY <1>2, <2>1 DEF Outcomes, Now
<1>3. CASE kind = "close"
  <2>1. Request(s, i, kind) = Closes
    BY <1>1, <1>3
  <2> QED
    BY <1>3, <2>1 DEF Outcomes, Closes
<1>4. CASE kind = "destroy"
  <2>1. CASE u.state \in {"Decrypt", "Run"}
    <3>1. Request(s, i, kind) = Destroys
      BY <1>1, <1>4, <2>1
    <3> QED
      BY <2>1, <3>1 DEF Outcomes, Destroys
  <2>2. CASE u.state \notin {"Decrypt", "Run"}
    <3>1. Request(s, i, kind) = Now
      BY <1>1, <1>4, <2>2
    <3> QED
      BY <2>2, <3>1 DEF Outcomes, Now
  <2> QED
    BY <2>1, <2>2
<1>5. CASE kind = "params"
  <2>1. CASE u.state = "WaitParameters"
    <3>1. Request(s, i, kind) = SetParameters(u, i)
      BY <1>1, <1>5, <2>1
    <3> QED
      BY <2>1, <3>1 DEF Outcomes, SetParameters
  <2>2. CASE u.state = "Run"
    <3>1. Request(s, i, kind) = Later
      BY <1>1, <1>5, <2>2
    <3> QED
      BY <2>2, <3>1 DEF Outcomes, Later
  <2>3. CASE u.state \notin {"WaitParameters", "Run"}
    <3>1. Request(s, i, kind) = Now
      BY <1>1, <1>5, <2>3
    <3> QED
      BY <2>3, <3>1 DEF Outcomes, Now
  <2> QED
    BY <2>1, <2>2, <2>3
<1>6. CASE kind = "key"
  <2>1. CASE u.state = "Decrypt"
    <3>1. Request(s, i, kind) = InitDatabase(u, i)
      BY <1>1, <1>6, <2>1
    <3> QED
      BY <2>1, <3>1 DEF Outcomes, InitDatabase
  <2>2. CASE u.state = "Run"
    <3>1. Request(s, i, kind) = Later
      BY <1>1, <1>6, <2>2
    <3> QED
      BY <2>2, <3>1 DEF Outcomes, Later
  <2>3. CASE u.state \notin {"Decrypt", "Run"}
    <3>1. Request(s, i, kind) = Now
      BY <1>1, <1>6, <2>3
    <3> QED
      BY <2>3, <3>1 DEF Outcomes, Now
  <2> QED
    BY <2>1, <2>2, <2>3
<1>7. CASE kind = "option"
  <2>1. CASE u.state \in {"WaitParameters", "Decrypt"}
    <3>1. Request(s, i, kind) = Waits
      BY <1>1, <1>7, <2>1
    <3> QED
      BY <2>1, <3>1 DEF Outcomes, Waits
  <2>2. CASE u.state = "Run"
    <3>1. Request(s, i, kind) = Promises
      BY <1>1, <1>7, <2>2
    <3> QED
      BY <2>2, <3>1 DEF Outcomes, Promises
  <2>3. CASE u.state \notin {"WaitParameters", "Decrypt", "Run"}
    <3>1. Request(s, i, kind) = Now
      BY <1>1, <1>7, <2>3
    <3> QED
      BY <2>3, <3>1 DEF Outcomes, Now
  <2> QED
    BY <2>1, <2>2, <2>3
<1>8. CASE kind = "promise"
  <2>1. CASE u.state # "Close"
    <3>1. Request(s, i, kind) = Promises \cup Now \cup Later
      BY <1>1, <1>8, <2>1
    <3> QED
      BY <2>1, <3>1 DEF Outcomes, Promises, Now, Later
  <2>2. CASE u.state = "Close"
    <3>1. Request(s, i, kind) = Now
      BY <1>1, <1>8, <2>2
    <3> QED
      BY <2>2, <3>1 DEF Outcomes, Now
  <2> QED
    BY <2>1, <2>2
<1>9. CASE kind = "actor"
  <2>1. CASE u.state # "Close"
    <3>1. Request(s, i, kind) = Makes \cup Now \cup Later
      BY <1>1, <1>9, <2>1
    <3> QED
      BY <2>1, <3>1 DEF Outcomes, Makes, Now, Later
  <2>2. CASE u.state = "Close"
    <3>1. Request(s, i, kind) = Now
      BY <1>1, <1>9, <2>2
    <3> QED
      BY <2>2, <3>1 DEF Outcomes, Now
  <2> QED
    BY <2>1, <2>2
<1> QED
  BY <1>2, <1>3, <1>4, <1>5, <1>6, <1>7, <1>8, <1>9 DEF Kinds

\* The references are the same; those with one more request actor; those with
\* the managers.
SameRefs(s, u) ==
  /\ u.actor_refcnt = s.actor_refcnt /\ u.request_actor_refcnt = s.request_actor_refcnt
  /\ u.state = s.state \/ (s.state = "WaitParameters" /\ u.state = "Decrypt")
ActorMade(s, u) ==
  /\ s.state # "Close" /\ u.state = s.state
  /\ u.actor_refcnt = s.actor_refcnt
  /\ u.request_actor_refcnt = s.request_actor_refcnt + 1
ManagersMade(s, u) ==
  /\ s.state = "Decrypt" /\ u.state = "Run"
  /\ u.actor_refcnt = s.actor_refcnt + Managers
  /\ u.request_actor_refcnt = s.request_actor_refcnt

\* A request that makes no reference, and leaves Td open or closed.
LEMMA AskSame ==
  ASSUME NEW s, NEW snt, NEW a, NEW r, NEW own, NEW i \in Ids,
         Good(s, snt, a, r, own, {i}, {}),
         NEW u \in TdRecords, TakesIn(s, snt, u, i), SameRefs(s, u)
  PROVE  /\ Good(u, snt, a, r, own, {}, {i}) /\ Taken(u) = Taken(s) \cup {i}
         /\ s.close_flag < 2 => Good(u, snt, a, r, own, {}, {})
<1>r. /\ u.actor_refcnt = s.actor_refcnt /\ u.request_actor_refcnt = s.request_actor_refcnt
      /\ u.state = s.state \/ (s.state = "WaitParameters" /\ u.state = "Decrypt")
  BY DEF SameRefs
<1>0. s \in TdRecords /\ Balance(s, a, r) /\ Once(s, snt, {i}) /\ a \in Nat /\ r \in Nat
  BY DEF Good
<1>1. i \notin Taken(s)
  BY <1>r, <1>0 DEF Once
<1>3. Taken(u) = Taken(s) \cup {i}
  BY DEF TakesIn, Kept, Taken
<1>2. Balance(u, a, r)
  <2>1. Cardinality(Taken(s)) \in Nat /\ Cardinality(Taken(u)) = Cardinality(Taken(s)) + 1
    BY <1>0, <1>1, <1>3, TakenFinite, FS_AddElement
  <2>2. u.request_actor_refcnt <= Cardinality(Taken(u)) + 1
    <3>1. s.request_actor_refcnt <= Cardinality(Taken(s)) + 1 /\ s.request_actor_refcnt \in Int
      BY <1>r, <1>0 DEF Balance, TdRecords
    <3> QED
      BY <1>r, <2>1, <3>1
  <2>3. ActorsRef(u) = ActorsRef(s) /\ DbRef(u) = DbRef(s) /\ OpenRef(u) = OpenRef(s)
    BY <1>r DEF ActorsRef, DbRef, OpenRef, TakesIn, Kept
  <2>4. /\ u.actor_refcnt = ActorsRef(u) + a + Count(u.mailbox, "actorGone") + DbRef(u)
        /\ u.request_actor_refcnt = r + Count(u.mailbox, "requestActorGone") + OpenRef(u)
        /\ u.close_flag < 2 => Count(u.mailbox, "actorGone") = 0 /\ ~ u.db
        /\ u.close_flag = 5 => u.actor_refcnt = 0
        /\ u.actor_refcnt <= Managers + 1 /\ ~ u.bad
    BY <1>r, <1>0, <2>3 DEF Balance, TakesIn, Kept
  <2>5. /\ u.state = "Close" <=> u.close_flag # 0
        /\ u.state \in {"WaitParameters", "Decrypt"} => a = 0
    BY <1>r, <1>0 DEF Balance, TakesIn, Kept
  <2> QED
    BY <1>r, <2>2, <2>4, <2>5 DEF Balance
<1> QED
  BY <1>0, <1>2, AskGood

\* A request actor is made.
LEMMA AskActor ==
  ASSUME NEW s, NEW snt, NEW a, NEW r, NEW own, NEW i \in Ids,
         Good(s, snt, a, r, own, {i}, {}),
         NEW u \in TdRecords, TakesIn(s, snt, u, i), ActorMade(s, u)
  PROVE  Good(u, snt, a, r + 1, own, {}, {}) /\ Taken(u) = Taken(s) \cup {i}
<1>r. /\ u.actor_refcnt = s.actor_refcnt /\ s.state # "Close" /\ u.state = s.state
      /\ u.request_actor_refcnt = s.request_actor_refcnt + 1
  BY DEF ActorMade
<1>0. s \in TdRecords /\ Balance(s, a, r) /\ Once(s, snt, {i}) /\ a \in Nat /\ r \in Nat
  BY DEF Good
<1>1. i \notin Taken(s)
  BY <1>r, <1>0 DEF Once
<1>2. s.close_flag = 0
  BY <1>r, <1>0 DEF Balance
<1>8. Taken(u) = Taken(s) \cup {i}
  BY DEF TakesIn, Kept, Taken
<1>3. Balance(u, a, r + 1)
  <2>1. Cardinality(Taken(s)) \in Nat /\ Cardinality(Taken(u)) = Cardinality(Taken(s)) + 1
    BY <1>0, <1>1, <1>8, TakenFinite, FS_AddElement
  <2>2. Count(s.mailbox, "requestActorGone") \in Nat /\ OpenRef(s) = 1 /\ OpenRef(u) = 1
    BY <1>r, <1>0, <1>2, TdCounts DEF OpenRef, TakesIn, Kept
  <2>3. s.request_actor_refcnt = r + Count(s.mailbox, "requestActorGone") + 1
    BY <1>r, <1>0, <2>2 DEF Balance
  <2>4. u.request_actor_refcnt <= Cardinality(Taken(u)) + 1
    <3>1. s.request_actor_refcnt <= Cardinality(Taken(s)) + 1 /\ s.request_actor_refcnt \in Int
      BY <1>r, <1>0 DEF Balance, TdRecords
    <3> QED
      BY <1>r, <2>1, <3>1
  <2>5. ActorsRef(u) = ActorsRef(s) /\ DbRef(u) = DbRef(s)
    <3>1. s.request_actor_refcnt > 0 /\ u.request_actor_refcnt > 0
      BY <1>r, <1>0, <2>2, <2>3
    <3> QED
      BY <1>r, <3>1 DEF ActorsRef, DbRef, TakesIn, Kept
  <2>6. u.request_actor_refcnt = (r + 1) + Count(u.mailbox, "requestActorGone") + OpenRef(u)
    <3>1. u.mailbox = s.mailbox
      BY DEF TakesIn, Kept
    <3> QED
      BY <1>r, <1>0, <2>2, <2>3, <3>1
  <2>7. /\ u.actor_refcnt = ActorsRef(u) + a + Count(u.mailbox, "actorGone") + DbRef(u)
        /\ u.close_flag < 2 => Count(u.mailbox, "actorGone") = 0 /\ ~ u.db
        /\ u.close_flag = 5 => u.actor_refcnt = 0
        /\ u.actor_refcnt <= Managers + 1 /\ ~ u.bad
    BY <1>r, <1>0, <2>5 DEF Balance, TakesIn, Kept
  <2>8. /\ u.state = "Close" <=> u.close_flag # 0
        /\ u.state \in {"WaitParameters", "Decrypt"} => a = 0
    BY <1>r, <1>0 DEF Balance, TakesIn, Kept
  <2> QED
    BY <1>r, <2>4, <2>6, <2>7, <2>8 DEF Balance
<1>4. r + 1 \in Nat
  BY <1>r, <1>0
<1>5. PICK c : c = r + 1
  OBVIOUS
<1>6. c \in Nat /\ Balance(u, a, c) /\ a \in Nat
  BY <1>r, <1>0, <1>3, <1>4, <1>5
<1>7. /\ Good(u, snt, a, c, own, {}, {i}) /\ Taken(u) = Taken(s) \cup {i}
      /\ s.close_flag < 2 => Good(u, snt, a, c, own, {}, {})
  BY <1>6, AskGood
<1> QED
  BY <1>2, <1>5, <1>7

\* The database was opened: the managers are made.
LEMMA AskManagers ==
  ASSUME NEW s, NEW snt, NEW a, NEW r, NEW own, NEW i \in Ids,
         Good(s, snt, a, r, own, {i}, {}),
         NEW u \in TdRecords, TakesIn(s, snt, u, i), ManagersMade(s, u)
  PROVE  a = 0 /\ Good(u, snt, Managers, r, own, {}, {i}) /\ Taken(u) = Taken(s) \cup {i}
<1>r. /\ s.state = "Decrypt" /\ u.state = "Run"
      /\ u.actor_refcnt = s.actor_refcnt + Managers
      /\ u.request_actor_refcnt = s.request_actor_refcnt
  BY DEF ManagersMade
<1>0. s \in TdRecords /\ Balance(s, a, r) /\ Once(s, snt, {i}) /\ a \in Nat /\ r \in Nat
  BY DEF Good
<1>1. i \notin Taken(s)
  BY <1>r, <1>0 DEF Once
<1>2. s.close_flag = 0 /\ a = 0 /\ Count(s.mailbox, "actorGone") = 0 /\ ~ s.db
  BY <1>r, <1>0 DEF Balance
<1>m. Managers \in Nat
  BY TdAssumption
<1>8. Taken(u) = Taken(s) \cup {i}
  BY DEF TakesIn, Kept, Taken
<1>3. Balance(u, Managers, r)
  <2>1. Cardinality(Taken(s)) \in Nat /\ Cardinality(Taken(u)) = Cardinality(Taken(s)) + 1
    BY <1>0, <1>1, <1>8, TakenFinite, FS_AddElement
  <2>2. u.request_actor_refcnt <= Cardinality(Taken(u)) + 1
    <3>1. s.request_actor_refcnt <= Cardinality(Taken(s)) + 1 /\ s.request_actor_refcnt \in Int
      BY <1>r, <1>0 DEF Balance, TdRecords
    <3> QED
      BY <1>r, <2>1, <3>1
  <2>3. ActorsRef(u) = ActorsRef(s) /\ DbRef(u) = 0 /\ DbRef(s) = 0 /\ OpenRef(u) = OpenRef(s)
    BY <1>r, <1>2 DEF ActorsRef, DbRef, OpenRef, TakesIn, Kept
  <2>4. ActorsRef(s) \in {0, 1} /\ u.mailbox = s.mailbox
    BY <1>r DEF ActorsRef, TakesIn, Kept
  <2>5. s.actor_refcnt = ActorsRef(s) + 0 + 0 + 0
    BY <1>r, <1>0, <1>2, <2>3 DEF Balance
  <2>6. /\ u.actor_refcnt = ActorsRef(u) + Managers + Count(u.mailbox, "actorGone") + DbRef(u)
        /\ u.actor_refcnt <= Managers + 1
    BY <1>r, <1>2, <1>m, <2>3, <2>4, <2>5
  <2>7. /\ u.request_actor_refcnt = r + Count(u.mailbox, "requestActorGone") + OpenRef(u)
        /\ u.close_flag = 0 /\ Count(u.mailbox, "actorGone") = 0 /\ ~ u.db /\ ~ u.bad
    BY <1>r, <1>0, <1>2, <2>3 DEF Balance, TakesIn, Kept
  <2> QED
    BY <1>r, <2>2, <2>6, <2>7 DEF Balance
<1>6. PICK b, c :
        b \in Nat /\ c \in Nat /\ b = Managers /\ c = r /\ Balance(u, b, c)
  BY <1>r, <1>0, <1>3, <1>m
<1>7. /\ Good(u, snt, b, c, own, {}, {i}) /\ Taken(u) = Taken(s) \cup {i}
      /\ s.close_flag < 2 => Good(u, snt, b, c, own, {}, {})
  BY <1>6, AskGood
<1> QED
  BY <1>2, <1>6, <1>7

\* The states Td may be in after it took the request i, and the references that
\* were made.
Served(o, s, snt, a, r, own, i) ==
  /\ \/ o.makes \in {"nothing", "promise"} /\ Good(o.td, snt, a, r, own, {}, {})
     \/ o.makes = "managers" /\ Good(o.td, snt, Managers, r, own, {}, {})
     \/ o.makes = "actor" /\ Good(o.td, snt, a, r + 1, own, {}, {})
  /\ Taken(o.td) = Taken(s) \cup {i}

\* Td::request keeps the invariant.
LEMMA RequestGood ==
  ASSUME NEW s, NEW snt, NEW a, NEW r, NEW own, NEW i \in Ids,
         Good(s, snt, a, r, own, {i}, {}), NEW kind \in Kinds, kind = snt[i],
         NEW o \in Request(s, i, kind)
  PROVE  Served(o, s, snt, a, r, own, i)
<1>0. /\ s \in TdRecords /\ Balance(s, a, r) /\ Owed(s, snt, {}) /\ Once(s, snt, {i})
      /\ a \in Nat /\ r \in Nat
  BY DEF Good
<1>1. PICK u : Asks(s, u, i)
  BY DEF Asks
<1>2. /\ u \in TdRecords /\ Kept(s, u) /\ u.request_set = s.request_set \cup {i}
      /\ u.pending = s.pending /\ u.late = s.late /\ u.state = s.state
      /\ u.actor_refcnt = s.actor_refcnt
      /\ u.request_actor_refcnt = s.request_actor_refcnt
  <2>1. s.request_set \cup {i} \in SUBSET Ids
    BY <1>0 DEF TdRecords
  <2>2. u \in TdRecords
    BY <1>0, <1>1, <2>1 DEF Asks, TdRecords
  <2>3. /\ u.request_set = s.request_set \cup {i}
        /\ u.pending = s.pending /\ u.late = s.late /\ u.state = s.state
        /\ u.actor_refcnt = s.actor_refcnt
        /\ u.request_actor_refcnt = s.request_actor_refcnt
    BY <1>0, <1>1, <2>1 DEF Asks, TdRecords
  <2>4. Kept(s, u)
    BY <1>0, <1>1 DEF Asks, Kept, TdRecords
  <2> QED
    BY <2>2, <2>3, <2>4
<1>3. u.state \in States /\ s.close_flag \in 0 .. 5 /\ u.close_flag = s.close_flag
  BY <1>0, <1>2 DEF TdRecords, Kept
<1>4. u.state # "Close" => s.close_flag = 0
  BY <1>0, <1>2 DEF Balance
<1>5. u.state # "Close" =>
        /\ TakesIn(s, snt, u, i)
        /\ Good(u, snt, a, r, own, {}, {i}) /\ Good(u, snt, a, r, own, {}, {})
        /\ Taken(u) = Taken(s) \cup {i}
  <2> SUFFICES ASSUME u.state # "Close"
               PROVE  /\ TakesIn(s, snt, u, i)
                      /\ Good(u, snt, a, r, own, {}, {i}) /\ Good(u, snt, a, r, own, {}, {})
                      /\ Taken(u) = Taken(s) \cup {i}
    OBVIOUS
  <2>1. TakesIn(s, snt, u, i)
    BY <1>2, <1>4 DEF TakesIn
  <2>2. s.close_flag < 2
    BY <1>4
  <2>3. SameRefs(s, u)
    BY <1>2 DEF SameRefs
  <2>4. u \in TdRecords
    BY <1>2
  <2>5. /\ Good(u, snt, a, r, own, {}, {i}) /\ Taken(u) = Taken(s) \cup {i}
        /\ s.close_flag < 2 => Good(u, snt, a, r, own, {}, {})
    BY <2>1, <2>3, <2>4, AskSame
  <2> QED
    BY <2>1, <2>2, <2>5
<1>6. CASE o = Outcome(Reply(u, i), "nothing")
  <2>1. PICK t : t = Reply(u, i)
    OBVIOUS
  <2>2. Good(t, snt, a, r, own, {}, {}) /\ Taken(t) = Taken(s) \cup {i}
    BY <1>1, <1>2, <2>1, NowGood
  <2>3. o.td = t /\ o.makes = "nothing"
    BY <1>6, <2>1 DEF Outcome
  <2> QED
    BY <2>2, <2>3 DEF Served
<1>7. CASE /\ kind = "close"
           /\ o = Outcome(ReplyLater([u EXCEPT !.late = IF u.close_flag >= 4 THEN @ \cup {i} ELSE @],
                                     i, <<Message("close", 0)>>), "nothing")
  <2>1. PICK l : l = IF u.close_flag >= 4 THEN u.late \cup {i} ELSE u.late
    OBVIOUS
  <2>2. PICK v : v = [u EXCEPT !.late = l]
    OBVIOUS
  <2>3. PICK t : t = ReplyLater(v, i, <<Message("close", 0)>>)
    OBVIOUS
  <2>4. o.td = t /\ o.makes = "nothing"
    BY <1>7, <2>1, <2>2, <2>3 DEF Outcome
  <2>5. l \in SUBSET Ids
    BY <1>2, <2>1 DEF TdRecords
  <2>6. v \in TdRecords
    BY <1>2, <2>2, <2>5 DEF TdRecords
  <2>7. /\ v.late = l /\ Kept(u, v) /\ v.request_set = u.request_set
        /\ v.pending = u.pending /\ v.state = u.state
        /\ v.actor_refcnt = u.actor_refcnt
        /\ v.request_actor_refcnt = u.request_actor_refcnt
    BY <1>2, <2>2, <2>5, <2>6 DEF Kept, TdRecords
  <2>8. Kept(s, v)
    BY <1>2, <2>7 DEF Kept
  <2>9. TakesIn(s, snt, v, i)
    BY <1>2, <1>3, <1>7, <2>1, <2>7, <2>8 DEF TakesIn
  <2>r. SameRefs(s, v)
    BY <1>2, <2>7 DEF SameRefs
  <2>10. Good(v, snt, a, r, own, {}, {i}) /\ Taken(v) = Taken(s) \cup {i}
    BY <2>6, <2>9, <2>r, AskSame
  <2>11. v.close_flag = 4 => i \in v.late
    BY <1>3, <2>1, <2>7, <2>8 DEF Kept
  <2>12. Good(t, snt, a, r, own, {}, {}) /\ Taken(t) = Taken(v)
    <3>1. AnswersLater(v, i, t)
      BY <2>3, <2>11 DEF AnswersLater
    <3> QED
      BY <1>0, <2>10, <3>1, LaterGood
  <2> QED
    BY <2>4, <2>10, <2>12 DEF Served
<1>8. CASE /\ u.state # "Close"
           /\ \/ o = Outcome(ReplyLater(u, i, <<Message("destroy", 0)>>), "nothing")
              \/ o = Outcome(ReplyLater(u, i, << >>), "nothing")
  <2>1. PICK t : /\ o.td = t /\ o.makes = "nothing"
                 /\ \/ t = ReplyLater(u, i, <<Message("destroy", 0)>>)
                    \/ t = ReplyLater(u, i, << >>)
    BY <1>8 DEF Outcome
  <2>2. \/ t = ReplyLater(u, i, << >>)
        \/ \E w \in {"close", "destroy"} : t = ReplyLater(u, i, <<Message(w, 0)>>)
    BY <2>1
  <2>3. u.close_flag = 4 => i \in u.late
    BY <1>3, <1>4, <1>8
  <2>4. Good(t, snt, a, r, own, {}, {}) /\ Taken(t) = Taken(u)
    <3>1. AnswersLater(u, i, t)
      BY <2>2, <2>3 DEF AnswersLater
    <3> QED
      BY <1>0, <1>5, <1>8, <3>1, LaterGood
  <2> QED
    BY <1>5, <1>8, <2>1, <2>4 DEF Served
<1>9. CASE /\ u.state = "WaitParameters"
           /\ o = Outcome(ReplyLater([u EXCEPT !.state = "Decrypt"], i, << >>), "nothing")
  <2>2. PICK v : v = [u EXCEPT !.state = "Decrypt"]
    OBVIOUS
  <2>3. PICK t : t = ReplyLater(v, i, << >>)
    OBVIOUS
  <2>4. o.td = t /\ o.makes = "nothing"
    BY <1>9, <2>2, <2>3 DEF Outcome
  <2>5. "Decrypt" \in States
    BY DEF States
  <2>6. v \in TdRecords
    BY <1>2, <2>2, <2>5 DEF TdRecords
  <2>7. /\ v.late = u.late /\ Kept(u, v) /\ v.request_set = u.request_set
        /\ v.pending = u.pending /\ v.state = "Decrypt"
        /\ v.actor_refcnt = u.actor_refcnt
        /\ v.request_actor_refcnt = u.request_actor_refcnt
    BY <1>2, <2>2, <2>5, <2>6 DEF Kept, TdRecords
  <2>8. Kept(s, v)
    BY <1>2, <2>7 DEF Kept
  <2>9. TakesIn(s, snt, v, i)
    BY <1>2, <1>4, <1>9, <2>7, <2>8 DEF TakesIn
  <2>r. SameRefs(s, v)
    BY <1>2, <1>9, <2>7 DEF SameRefs
  <2>10. Good(v, snt, a, r, own, {}, {i}) /\ Taken(v) = Taken(s) \cup {i}
    BY <2>6, <2>9, <2>r, AskSame
  <2>11. v.close_flag = 4 => i \in v.late
    BY <1>4, <1>9, <2>8 DEF Kept
  <2>12. Good(t, snt, a, r, own, {}, {}) /\ Taken(t) = Taken(v)
    <3>1. AnswersLater(v, i, t)
      BY <2>3, <2>11 DEF AnswersLater
    <3> QED
      BY <1>0, <2>10, <3>1, LaterGood
  <2> QED
    BY <2>4, <2>10, <2>12 DEF Served
<1>10. CASE /\ u.state = "Decrypt"
            /\ o = Outcome(ReplyLater([u EXCEPT !.state = "Run", !.actor_refcnt = @ + Managers,
                                                !.pending = {}], i, << >>), "managers")
  <2>1. PICK e : e = u.actor_refcnt + Managers
    OBVIOUS
  <2>2. PICK v : v = [u EXCEPT !.state = "Run", !.actor_refcnt = e, !.pending = {}]
    OBVIOUS
  <2>3. PICK t : t = ReplyLater(v, i, << >>)
    OBVIOUS
  <2>4. o.td = t /\ o.makes = "managers"
    BY <1>10, <2>1, <2>2, <2>3 DEF Outcome
  <2>5. "Run" \in States /\ {} \in SUBSET Ids /\ e \in Int
    BY <1>2, <2>1, TdAssumption DEF States, TdRecords
  <2>6. v \in TdRecords
    BY <1>2, <2>2, <2>5 DEF TdRecords
  <2>7. /\ v.late = u.late /\ Kept(u, v) /\ v.request_set = u.request_set
        /\ v.pending = {} /\ v.state = "Run"
        /\ v.actor_refcnt = e
        /\ v.request_actor_refcnt = u.request_actor_refcnt
    BY <1>2, <2>2, <2>5, <2>6 DEF Kept, TdRecords
  <2>8. Kept(s, v)
    BY <1>2, <2>7 DEF Kept
  <2>9. TakesIn(s, snt, v, i)
    BY <1>2, <1>4, <1>10, <2>7, <2>8 DEF TakesIn
  <2>10. a = 0 /\ Good(v, snt, Managers, r, own, {}, {i}) /\ Taken(v) = Taken(s) \cup {i}
    <3>1. ManagersMade(s, v)
      BY <1>2, <1>10, <2>1, <2>7 DEF ManagersMade
    <3> QED
      BY <2>6, <2>9, <3>1, AskManagers
  <2>11. v.close_flag = 4 => i \in v.late
    BY <1>4, <1>10, <2>8 DEF Kept
  <2>12. Good(t, snt, Managers, r, own, {}, {}) /\ Taken(t) = Taken(v)
    <3>1. Managers \in Nat
      BY TdAssumption
    <3>2. AnswersLater(v, i, t)
      BY <2>3, <2>11 DEF AnswersLater
    <3> QED
      BY <1>0, <2>10, <3>1, <3>2, LaterGood
  <2> QED
    BY <2>4, <2>10, <2>12 DEF Served
<1>11. CASE u.state # "Close" /\ o = Outcome([u EXCEPT !.pending = @ \cup {i}], "nothing")
  <2>1. PICK p : p = u.pending \cup {i}
    OBVIOUS
  <2>2. PICK v : v = [u EXCEPT !.pending = p]
    OBVIOUS
  <2>4. o.td = v /\ o.makes = "nothing"
    BY <1>11, <2>1, <2>2 DEF Outcome
  <2>5. p \in SUBSET Ids
    BY <1>2, <2>1 DEF TdRecords
  <2>6. v \in TdRecords
    BY <1>2, <2>2, <2>5 DEF TdRecords
  <2>7. /\ v.late = u.late /\ Kept(u, v) /\ v.request_set = u.request_set
        /\ v.pending = p /\ v.state = u.state
        /\ v.actor_refcnt = u.actor_refcnt
        /\ v.request_actor_refcnt = u.request_actor_refcnt
    BY <1>2, <2>2, <2>5, <2>6 DEF Kept, TdRecords
  <2>8. Kept(s, v)
    BY <1>2, <2>7 DEF Kept
  <2>9. TakesIn(s, snt, v, i)
    BY <1>2, <1>4, <1>11, <2>1, <2>7, <2>8 DEF TakesIn
  <2>10. s.close_flag < 2
    BY <1>4, <1>11
  <2>11. Good(v, snt, a, r, own, {}, {}) /\ Taken(v) = Taken(s) \cup {i}
    <3>1. SameRefs(s, v)
      BY <1>2, <2>7 DEF SameRefs
    <3> QED
      BY <2>6, <2>9, <2>10, <3>1, AskSame
  <2> QED
    BY <2>4, <2>11 DEF Served
<1>12. CASE u.state # "Close" /\ o = Outcome(u, "promise")
  <2>1. o.td = u /\ o.makes = "promise"
    BY <1>12 DEF Outcome
  <2> QED
    BY <1>5, <1>12, <2>1 DEF Served
<1>13. CASE u.state # "Close" /\ o = Outcome([u EXCEPT !.request_actor_refcnt = @ + 1], "actor")
  <2>1. PICK e : e = u.request_actor_refcnt + 1
    OBVIOUS
  <2>2. PICK v : v = [u EXCEPT !.request_actor_refcnt = e]
    OBVIOUS
  <2>4. o.td = v /\ o.makes = "actor"
    BY <1>13, <2>1, <2>2 DEF Outcome
  <2>5. e \in Int
    BY <1>2, <2>1 DEF TdRecords
  <2>6. v \in TdRecords
    BY <1>2, <2>2, <2>5 DEF TdRecords
  <2>7. /\ v.late = u.late /\ Kept(u, v) /\ v.request_set = u.request_set
        /\ v.pending = u.pending /\ v.state = u.state
        /\ v.actor_refcnt = u.actor_refcnt
        /\ v.request_actor_refcnt = e
    BY <1>2, <2>2, <2>5, <2>6 DEF Kept, TdRecords
  <2>8. Kept(s, v)
    BY <1>2, <2>7 DEF Kept
  <2>9. TakesIn(s, snt, v, i)
    BY <1>2, <1>4, <1>13, <2>7, <2>8 DEF TakesIn
  <2>10. Good(v, snt, a, r + 1, own, {}, {}) /\ Taken(v) = Taken(s) \cup {i}
    <3>1. ActorMade(s, v)
      BY <1>2, <1>13, <2>1, <2>7 DEF ActorMade
    <3> QED
      BY <2>6, <2>9, <3>1, AskActor
  <2> QED
    BY <2>4, <2>10 DEF Served
<1>14. Outcomes(o, u, i, kind)
  BY <1>0, <1>1, <1>3, RequestCases
<1> QED
  BY <1>6, <1>7, <1>8, <1>9, <1>10, <1>11, <1>12, <1>13, <1>14 DEF Outcomes

-----------------------------------------------------------------------------
(* The actions.                                                            *)

\* The part of the invariant that is about Td and those who hold a reference.
Held(own) == Good(td, sent, managers, Cardinality(actors), own, {}, {})
Rest == /\ actors \subseteq Taken(td) /\ promises \subseteq Ids
        /\ managers \in 0 .. Managers /\ owned \in BOOLEAN
        /\ \A i \in DOMAIN sent : sent[i] \in Kinds

\* The invariant in two parts.
LEMMA InvParts ==
  IInv <=> Held(IF owned THEN "yes" ELSE "no") /\ Rest
BY DEF IInv, Held, Rest

\* The number of request actors.
LEMMA ActorsCount ==
  ASSUME NEW s \in TdRecords, NEW A \in SUBSET Taken(s)
  PROVE  /\ IsFiniteSet(A) /\ Cardinality(A) \in Nat
         /\ \A i : i \notin Taken(s) => Cardinality(A \cup {i}) = Cardinality(A) + 1
         /\ \A i \in A : /\ Cardinality(A \ {i}) \in Nat
                         /\ Cardinality(A) = Cardinality(A \ {i}) + 1
<1>1. IsFiniteSet(Taken(s))
  BY TakenFinite
<1>2. IsFiniteSet(A) /\ Cardinality(A) \in Nat
  BY <1>1, FS_Subset, FS_CardinalityType
<1>3. \A i : i \notin Taken(s) => Cardinality(A \cup {i}) = Cardinality(A) + 1
  BY <1>2, FS_AddElement
<1>4. ASSUME NEW i \in A
      PROVE  Cardinality(A \ {i}) \in Nat /\ Cardinality(A) = Cardinality(A \ {i}) + 1
  <2>1. IsFiniteSet(A \ {i}) /\ Cardinality(A \ {i}) = Cardinality(A) - 1
    BY <1>2, FS_RemoveElement
  <2>2. Cardinality(A \ {i}) \in Nat
    BY <2>1, FS_CardinalityType
  <2> QED
    BY <1>2, <2>1, <2>2
<1> QED
  BY <1>2, <1>3, <1>4

\* Td takes a request, from the mailbox or at once.
LEMMA TakeRequestGood ==
  ASSUME NEW s, NEW snt, NEW own, NEW i \in Ids, NEW kind \in Kinds, kind = snt[i],
         Good(s, snt, managers, Cardinality(actors), own, {i}, {}),
         actors \subseteq Taken(s), promises \subseteq Ids, managers \in 0 .. Managers,
         TakeRequest(s, i, kind)
  PROVE  /\ Good(td', snt, managers', Cardinality(actors'), own, {}, {})
         /\ actors' \subseteq Taken(td') /\ promises' \subseteq Ids
         /\ managers' \in 0 .. Managers
<1>1. PICK o \in Request(s, i, kind) :
        /\ td' = o.td
        /\ actors' = IF o.makes = "actor" THEN actors \cup {i} ELSE actors
        /\ promises' = CASE o.makes = "promise" -> promises \cup {i}
                         [] o.makes = "managers" -> promises \cup s.pending
                         [] OTHER -> promises
        /\ managers' = IF o.makes = "managers" THEN Managers ELSE managers
  BY DEF TakeRequest
<1>2. Served(o, s, snt, managers, Cardinality(actors), own, i)
  BY RequestGood
<1>3. s \in TdRecords /\ i \notin Taken(s) /\ s.pending \subseteq Ids
  BY DEF Good, Once, TdRecords
<1>4. actors' \subseteq Taken(td')
  BY <1>1, <1>2 DEF Served
<1>5. promises' \subseteq Ids
  <2>1. CASE o.makes = "promise"
    <3>1. promises' = promises \cup {i}
      BY <1>1, <2>1
    <3> QED
      BY <3>1
  <2>2. CASE o.makes = "managers"
    <3>1. promises' = promises \cup s.pending
      BY <1>1, <2>2
    <3> QED
      BY <1>3, <3>1
  <2>3. CASE o.makes \notin {"promise", "managers"}
    <3>1. promises' = promises
      BY <1>1, <2>3
    <3> QED
      BY <3>1
  <2> QED
    BY <2>1, <2>2, <2>3
<1>6. managers' \in 0 .. Managers
  BY <1>1, TdAssumption
<1>7. Good(td', snt, managers', Cardinality(actors'), own, {}, {})
  <2>1. CASE o.makes \in {"nothing", "promise"}
    BY <1>1, <1>2, <2>1 DEF Served
  <2>2. CASE o.makes = "managers"
    BY <1>1, <1>2, <2>2 DEF Served
  <2>3. CASE o.makes = "actor"
    <3>1. Cardinality(actors') = Cardinality(actors) + 1
      BY <1>1, <1>3, <2>3, ActorsCount
    <3> QED
      BY <1>1, <1>2, <2>3, <3>1 DEF Served
  <2> QED
    BY <1>2, <2>1, <2>2, <2>3 DEF Served
<1> QED
  BY <1>4, <1>5, <1>6, <1>7

\* Td works off a message of its mailbox.
LEMMA FlushInv ==
  ASSUME IInv, Flush
  PROVE  IInv'
<1>1. PICK own : own = IF owned THEN "yes" ELSE "no"
  OBVIOUS
<1>2. Held(own) /\ Rest
  BY <1>1, InvParts
<1>3. /\ td \in TdRecords /\ td.mailbox # << >> /\ managers \in Nat
      /\ Cardinality(actors) \in Nat
  BY <1>2 DEF Held, Good, Flush
<1>5. PICK s : Took(td, s, Left(td))
  BY DEF Took
<1>6. PICK m : m = Head(td.mailbox)
  OBVIOUS
<1>7. /\ IF m[1] = "request" THEN TakeRequest(s, m[2], sent[m[2]])
         ELSE td' = Handle(s, m) /\ UNCHANGED <<actors, promises, managers>>
      /\ UNCHANGED <<sent, owned>>
  BY <1>5, <1>6 DEF Flush, Took, Left
<1>8. /\ m \in Messages /\ Taken(s) = Taken(td)
      /\ Handling(s, m, sent, managers, Cardinality(actors), own)
      /\ m[1] = "actorGone" => s.close_flag >= 2
      /\ m[1] = "hangup" => own = "no"
      /\ m[1] = "request" => m[2] \in Ids
  <2>1. PICK a \in Nat, r \in Nat : a = managers /\ r = Cardinality(actors)
    BY <1>3
  <2>2. Good(td, sent, a, r, own, {}, {})
    BY <1>2, <2>1 DEF Held
  <2>3. /\ m \in Messages /\ Handling(s, m, sent, a, r, own) /\ Taken(s) = Taken(td)
        /\ m[1] = "actorGone" => s.close_flag >= 2
        /\ m[1] = "hangup" => own = "no"
        /\ m[1] = "request" => m[2] \in Ids
    BY <1>3, <1>5, <1>6, <2>2, TakeGood
  <2> QED
    BY <2>1, <2>3
<1>9. CASE m[1] = "request"
  <2>1. PICK i \in Ids : i = m[2]
    BY <1>8, <1>9
  <2>2. Good(s, sent, managers, Cardinality(actors), own, {i}, {})
    <3>1. Is(m, "actorGone") = 0 /\ Is(m, "requestActorGone") = 0
      BY <1>9 DEF Is
    <3>2. managers + 0 = managers /\ Cardinality(actors) + 0 = Cardinality(actors)
      BY <1>3
    <3> QED
      BY <1>8, <1>9, <2>1, <3>1, <3>2 DEF Handling
  <2>3. sent[i] \in Kinds
    BY <1>2, <2>2 DEF Good, Once, Rest
  <2>4. PICK kind \in Kinds : kind = sent[i] /\ TakeRequest(s, i, kind)
    BY <1>7, <1>9, <2>1, <2>3
  <2>5. /\ Good(td', sent, managers', Cardinality(actors'), own, {}, {})
        /\ actors' \subseteq Taken(td') /\ promises' \subseteq Ids
        /\ managers' \in 0 .. Managers
    BY <1>2, <1>8, <2>2, <2>4, TakeRequestGood DEF Rest
  <2> QED
    BY <1>1, <1>2, <1>7, <2>5 DEF IInv, Rest
<1>10. CASE m[1] # "request"
  <2>1. td' = Handle(s, m) /\ UNCHANGED <<actors, promises, managers>>
    BY <1>7, <1>10
  <2>2. PICK t, a, r : t = Handle(s, m) /\ a = managers /\ r = Cardinality(actors)
    OBVIOUS
  <2>3. Good(t, sent, a, r, own, {}, {}) /\ Taken(t) = Taken(s)
    <3>1. a \in Nat /\ r \in Nat /\ Handling(s, m, sent, a, r, own)
      BY <1>3, <1>8, <2>2
    <3> QED
      BY <1>8, <1>10, <2>2, <3>1, HandleGood
  <2>4. /\ Good(td', sent', managers', Cardinality(actors'), own, {}, {})
        /\ Taken(td') = Taken(td)
    BY <1>7, <1>8, <2>1, <2>2, <2>3
  <2> QED
    BY <1>1, <1>2, <1>7, <2>1, <2>4 DEF IInv, Rest
<1> QED
  BY <1>9, <1>10

\* A request that was not sent before.
LEMMA SendNew ==
  ASSUME NEW s, NEW snt, NEW a, NEW r, NEW own, Good(s, snt, a, r, own, {}, {}),
         NEW i \in Ids, i \notin DOMAIN snt, NEW kind,
         NEW now, now = [j \in DOMAIN snt \cup {i} |-> IF j = i THEN kind ELSE snt[j]]
  PROVE  /\ Good(s, now, a, r, own, {i}, {}) /\ now[i] = kind
         /\ DOMAIN now = DOMAIN snt \cup {i} /\ \A j \in DOMAIN snt : now[j] = snt[j]
<1>1. /\ DOMAIN now = DOMAIN snt \cup {i} /\ now[i] = kind
      /\ \A j \in DOMAIN snt : now[j] = snt[j]
  OBVIOUS
<1>2. /\ s \in TdRecords /\ a \in Nat /\ r \in Nat /\ Balance(s, a, r) /\ Stops(s, own, 0)
      /\ Once(s, snt, {}) /\ Owed(s, snt, {}) /\ s.flushing <= Len(s.mailbox)
  BY DEF Good
<1>3. DOMAIN snt = Taken(s) \cup Asked(s)
  BY <1>2 DEF Once
<1>4. Once(s, now, {i})
  <2>1. /\ Taken(s) \cap (Asked(s) \cup {i}) = {} /\ Asked(s) \cap {i} = {}
        /\ DOMAIN now = Taken(s) \cup Asked(s) \cup {i}
    <3>1. Taken(s) \cap (Asked(s) \cup {}) = {}
      BY <1>2 DEF Once
    <3> QED
      BY <1>1, <1>3, <3>1
  <2> QED
    BY <1>2, <2>1 DEF Once
<1>5. Owed(s, now, {})
  <2>1. \A j \in s.request_set \cup s.behind : now[j] = snt[j]
    BY <1>1, <1>2, <1>3 DEF Owed, Taken
  <2> QED
    BY <1>2, <2>1 DEF Owed
<1> QED
  BY <1>1, <1>2, <1>4, <1>5 DEF Good

\* MultiTd::send.
LEMMA SendInv ==
  ASSUME IInv, NEW i \in Ids, NEW kind \in Kinds, Send(i, kind)
  PROVE  IInv'
<1>1. owned /\ i \notin DOMAIN sent /\ UNCHANGED owned
  BY DEF Send
<1>2. Held("yes") /\ Rest
  BY <1>1, InvParts
<1>3. PICK snt : /\ snt = sent'
                 /\ snt = [j \in DOMAIN sent \cup {i} |-> IF j = i THEN kind ELSE sent[j]]
  BY DEF Send
<1>4. /\ Good(td, snt, managers, Cardinality(actors), "yes", {i}, {}) /\ snt[i] = kind
      /\ DOMAIN snt = DOMAIN sent \cup {i} /\ \A j \in DOMAIN sent : snt[j] = sent[j]
  <2>1. Good(td, sent, managers, Cardinality(actors), "yes", {}, {})
    BY <1>2 DEF Held
  <2> QED
    BY <1>1, <1>3, <2>1, SendNew
<1>5. \A j \in DOMAIN snt : snt[j] \in Kinds
  BY <1>2, <1>4 DEF Rest
<1>6. /\ Good(td', snt, managers', Cardinality(actors'), "yes", {}, {})
      /\ actors' \subseteq Taken(td') /\ promises' \subseteq Ids
      /\ managers' \in 0 .. Managers
  <2>1. CASE td.mailbox = << >>
    <3>1. TakeRequest(td, i, kind)
      BY <2>1 DEF Send
    <3> QED
      BY <1>2, <1>4, <3>1, TakeRequestGood DEF Rest
  <2>2. CASE td.mailbox # << >>
    <3>1. td' = Post(td, <<Message("request", i)>>) /\ UNCHANGED <<actors, promises, managers>>
      BY <2>2 DEF Send
    <3>2. PICK m \in Messages : /\ m = Message("request", i) /\ m[1] = "request" /\ m[2] = i
                                /\ Is(m, "actorGone") = 0 /\ Is(m, "requestActorGone") = 0
      <4>1. "request" \in Words /\ i \in Ids \cup {0}
        BY DEF Words
      <4> QED
        BY <4>1, MessageFacts
    <3>3. PICK t, a, r, x : /\ t = Post(td, <<m>>) /\ a = managers /\ r = Cardinality(actors)
                            /\ x = {i} /\ x = {m[2]}
      BY <3>2
    <3>4. a \in Nat /\ r \in Nat /\ a + 0 = a /\ r + 0 = r
      BY <1>4, <3>3 DEF Good
    <3>5. Good(td, snt, a + Is(m, "actorGone"), r + Is(m, "requestActorGone"), "yes", x, {})
      BY <1>4, <3>2, <3>3, <3>4
    <3>6. m[2] \in Ids /\ m[1] # "actorGone" /\ m[1] # "hangup"
      BY <3>2
    <3>7. Good(t, snt, a, r, "yes", {}, {}) /\ Taken(t) = Taken(td)
      <4>1. PICK own, x2, y : own = "yes" /\ x2 = {} /\ y = {}
        OBVIOUS
      <4>2. Good(td, snt, a + Is(m, "actorGone"), r + Is(m, "requestActorGone"), own, x, y)
        BY <3>5, <4>1
      <4>3. m[1] = "request" => own = "yes" /\ x = {m[2]} /\ x2 = {} /\ m[2] \in Ids
        BY <3>2, <3>3, <4>1
      <4>4. /\ m[1] = "actorGone" => td.close_flag >= 2
            /\ m[1] = "hangup" => own # "no" /\ own = "no"
            /\ m[1] # "request" => x2 = x
            /\ t = Post(td, <<m>>)
        BY <3>2, <3>3
      <4>5. Good(t, snt, a, r, own, x2, y) /\ Taken(t) = Taken(td)
        BY <3>4, <4>2, <4>3, <4>4, PostGood
      <4> QED
        BY <4>1, <4>5
    <3>8. td' = t /\ managers' = a /\ Cardinality(actors') = r
      BY <3>1, <3>2, <3>3
    <3>9. Good(td', snt, managers', Cardinality(actors'), "yes", {}, {})
      BY <3>7, <3>8
    <3> QED
      BY <1>2, <3>1, <3>7, <3>8, <3>9 DEF Rest
  <2> QED
    BY <2>1, <2>2
<1> QED
  BY <1>1, <1>2, <1>3, <1>5, <1>6 DEF IInv, Rest

\* A message of another actor that is no hangup.
LEMMA TellGood ==
  ASSUME NEW m \in Messages, m[1] \notin {"request", "hangup"}, NEW a \in Nat, NEW r \in Nat,
         NEW own,
         Good(td, sent, a + Is(m, "actorGone"), r + Is(m, "requestActorGone"), own, {}, {}),
         m[1] = "actorGone" => td.close_flag >= 2,
         ~ td.stopped, Tell(m)
  PROVE  Good(td', sent, a, r, own, {}, {}) /\ Taken(td') = Taken(td)
<1>1. CASE td.mailbox = << >>
  <2>1. PICK t : t = Handle(td, m) /\ td' = t
    BY <1>1 DEF Tell
  <2>2. Handling(td, m, sent, a, r, own)
    <3>1. PICK y : y = IF m[1] = "reply" THEN {m[2]} ELSE {}
      OBVIOUS
    <3>2. Owed(td, sent, {})
      BY DEF Good
    <3>3. Owed(td, sent, y)
      BY <3>2 DEF Owed
    <3>4. Good(td, sent, a + Is(m, "actorGone"), r + Is(m, "requestActorGone"), own, {}, y)
      BY <3>3 DEF Good
    <3>5. m[1] # "hangup" /\ m[1] # "request"
      OBVIOUS
    <3> QED
      BY <3>1, <3>4, <3>5 DEF Handling
  <2>3. m[1] # "hangup" /\ m[1] # "request"
    OBVIOUS
  <2>4. Good(t, sent, a, r, own, {}, {}) /\ Taken(t) = Taken(td)
    BY <2>1, <2>2, <2>3, HandleGood
  <2> QED
    BY <2>1, <2>4
<1>2. CASE td.mailbox # << >>
  <2>1. PICK t : t = Post(td, <<m>>) /\ td' = t
    BY <1>2 DEF Tell
  <2>2. m[1] # "hangup" /\ m[1] # "request"
    OBVIOUS
  <2>3. Good(t, sent, a, r, own, {}, {}) /\ Taken(t) = Taken(td)
    BY <2>1, <2>2, PostPlain
  <2> QED
    BY <2>1, <2>3
<1> QED
  BY <1>1, <1>2

\* Td runs as long as it is owned or not closed.
LEMMA NotStopped ==
  ASSUME NEW s, NEW snt, NEW a, NEW r, NEW own, NEW x, NEW y, Good(s, snt, a, r, own, x, y),
         s.stopped
  PROVE  /\ s.close_flag = 5 /\ own = "no" /\ Places(s.mailbox, "hangup") = {}
         /\ a = 0
<1>1. /\ s \in TdRecords /\ a \in Nat /\ Balance(s, a, r) /\ Stops(s, own, 0)
  BY DEF Good
<1>2. s.stop_cnt = 0 + CloseEnd(s) + OwnerEnd(s, own) /\ s.stop_cnt = 0
  BY <1>1 DEF Stops
<1>3. CloseEnd(s) \in {0, 1} /\ OwnerEnd(s, own) \in {0, 1}
  BY DEF CloseEnd, OwnerEnd
<1>4. CloseEnd(s) = 0 /\ OwnerEnd(s, own) = 0
  BY <1>2, <1>3
<1>5. s.close_flag = 5 /\ own = "no" /\ Places(s.mailbox, "hangup") = {}
  BY <1>4 DEF CloseEnd, OwnerEnd
<1>6. Count(s.mailbox, "actorGone") \in Nat /\ ActorsRef(s) \in Nat /\ DbRef(s) \in Nat
  BY <1>1, TdCounts DEF ActorsRef, DbRef
<1>7. 0 = ActorsRef(s) + a + Count(s.mailbox, "actorGone") + DbRef(s)
  BY <1>1, <1>5 DEF Balance
<1>8. a = 0
  BY <1>1, <1>6, <1>7
<1> QED
  BY <1>5, <1>8

\* The owner lets Td go, closed or not.
LEMMA HangupInv ==
  ASSUME IInv, owned, ~ owned', owned' \in BOOLEAN, Tell(Message("hangup", 0)),
         UNCHANGED <<sent, actors, promises, managers>>
  PROVE  IInv'
<1>1. Held("yes") /\ Rest
  BY InvParts
<1>2. PICK a \in Nat, r \in Nat : a = managers /\ r = Cardinality(actors)
  BY <1>1 DEF Held, Good
<1>3. Good(td, sent, a, r, "yes", {}, {})
  BY <1>1, <1>2 DEF Held
<1>4. ~ td.stopped
  BY <1>3, NotStopped
<1>5. PICK m \in Messages : /\ m = Message("hangup", 0) /\ m[1] = "hangup"
                            /\ Is(m, "actorGone") = 0 /\ Is(m, "requestActorGone") = 0
  <2>1. "hangup" \in Words /\ 0 \in Ids \cup {0}
    BY DEF Words
  <2> QED
    BY <2>1, MessageFacts
<1>6. a + 0 = a /\ r + 0 = r
  OBVIOUS
<1>7. CASE td.mailbox = << >>
  <2>1. PICK t : t = Handle(td, m) /\ td' = t
    BY <1>4, <1>5, <1>7 DEF Tell
  <2>2. Good(td, sent, a, r, "hung", {}, {})
    <3>1. \A w : Places(td.mailbox, w) = {}
      BY <1>7 DEF Places
    <3>2. Stops(td, "yes", 0)
      BY <1>3 DEF Good
    <3>3. Stops(td, "hung", 0)
      BY <3>1, <3>2 DEF Stops, OwnerEnd
    <3> QED
      BY <1>3, <3>3 DEF Good
  <2>3. Handling(td, m, sent, a, r, "no")
    BY <1>5, <1>6, <2>2 DEF Handling
  <2>4. Good(t, sent, a, r, "no", {}, {}) /\ Taken(t) = Taken(td)
    <3>1. PICK own : own = "no" /\ Handling(td, m, sent, a, r, own)
      BY <2>3
    <3>2. Good(t, sent, a, r, own, {}, {}) /\ Taken(t) = Taken(td)
      <4>1. m[1] # "request" /\ m[1] # "actorGone"
        BY <1>5
      <4> QED
        BY <2>1, <3>1, <4>1, HandleGood
    <3> QED
      BY <3>1, <3>2
  <2>5. Good(td', sent', managers', Cardinality(actors'), "no", {}, {})
    BY <1>2, <2>1, <2>4
  <2> QED
    BY <1>1, <2>1, <2>4, <2>5 DEF IInv, Rest
<1>8. CASE td.mailbox # << >>
  <2>1. PICK t : t = Post(td, <<m>>) /\ td' = t
    BY <1>4, <1>5, <1>8 DEF Tell
  <2>2. PICK own, now, x, y : own = "yes" /\ now = "no" /\ x = {} /\ y = {}
    OBVIOUS
  <2>3. Good(td, sent, a + Is(m, "actorGone"), r + Is(m, "requestActorGone"), own, x, y)
    BY <1>3, <1>5, <1>6, <2>2
  <2>4. Good(t, sent, a, r, now, x, y) /\ Taken(t) = Taken(td)
    <3>1. /\ m[1] # "actorGone" /\ m[1] # "request"
          /\ own # "no" /\ now = "no" /\ m[1] = "hangup"
      BY <1>5, <2>2
    <3>2. t = Post(td, <<m>>)
      BY <2>1
    <3> QED
      BY <2>3, <3>1, <3>2, PostGood
  <2>5. Good(td', sent', managers', Cardinality(actors'), "no", {}, {})
    BY <1>2, <2>1, <2>2, <2>4
  <2> QED
    BY <1>1, <2>1, <2>4, <2>5 DEF IInv, Rest
<1> QED
  BY <1>7, <1>8

\* The answer of a promise.
LEMMA PromiseInv ==
  ASSUME IInv, NEW i \in Ids, PromiseAnswers(i)
  PROVE  IInv'
<1>1. PICK own : own = IF owned THEN "yes" ELSE "no"
  OBVIOUS
<1>2. Held(own) /\ Rest
  BY <1>1, InvParts
<1>3. /\ promises' = promises \ {i} /\ Tell(Message("reply", i))
      /\ UNCHANGED <<sent, actors, managers, owned>>
  BY DEF PromiseAnswers
<1>4. PICK a \in Nat, r \in Nat : a = managers /\ r = Cardinality(actors)
  BY <1>2 DEF Held, Good
<1>5. Good(td, sent, a, r, own, {}, {})
  BY <1>2, <1>4 DEF Held
<1>6. Good(td', sent, a, r, own, {}, {}) /\ Taken(td') = Taken(td)
  <2>1. CASE td.stopped
    <3>1. td' = td
      BY <1>3, <2>1 DEF Tell
    <3> QED
      BY <1>5, <3>1
  <2>2. CASE ~ td.stopped
    <3>1. PICK m \in Messages : /\ m = Message("reply", i) /\ m[1] = "reply"
                                /\ Is(m, "actorGone") = 0 /\ Is(m, "requestActorGone") = 0
      <4>1. "reply" \in Words /\ i \in Ids \cup {0}
        BY DEF Words
      <4> QED
        BY <4>1, MessageFacts
    <3>2. a + 0 = a /\ r + 0 = r
      OBVIOUS
    <3>3. /\ Good(td, sent, a + Is(m, "actorGone"), r + Is(m, "requestActorGone"), own, {}, {})
          /\ m[1] \notin {"request", "hangup"} /\ m[1] # "actorGone" /\ Tell(m)
      BY <1>3, <1>5, <3>1, <3>2
    <3> QED
      BY <2>2, <3>3, TellGood
  <2> QED
    BY <2>1, <2>2
<1>7. Good(td', sent', managers', Cardinality(actors'), own, {}, {})
  BY <1>3, <1>4, <1>6
<1> QED
  BY <1>1, <1>2, <1>3, <1>6, <1>7 DEF IInv, Rest

\* A manager is gone.
LEMMA ManagerInv ==
  ASSUME IInv, ManagerGone
  PROVE  IInv'
<1>1. PICK own : own = IF owned THEN "yes" ELSE "no"
  OBVIOUS
<1>2. Held(own) /\ Rest
  BY <1>1, InvParts
<1>3. /\ managers > 0 /\ td.close_flag >= 2 /\ managers' = managers - 1
      /\ Tell(Message("actorGone", 0)) /\ UNCHANGED <<sent, actors, promises, owned>>
  BY DEF ManagerGone
<1>4. PICK a \in Nat, r \in Nat : a + 1 = managers /\ a = managers - 1 /\ r = Cardinality(actors)
  <2>1. managers \in Nat /\ Cardinality(actors) \in Nat
    BY <1>2 DEF Held, Good
  <2>2. managers - 1 \in Nat /\ (managers - 1) + 1 = managers
    BY <1>3, <2>1
  <2> QED
    BY <2>1, <2>2
<1>5. Good(td, sent, a + 1, r, own, {}, {})
  BY <1>2, <1>4 DEF Held
<1>6. ~ td.stopped
  <2>1. a + 1 # 0
    OBVIOUS
  <2> QED
    BY <1>5, <2>1, NotStopped
<1>7. Good(td', sent, a, r, own, {}, {}) /\ Taken(td') = Taken(td)
  <2>1. PICK m \in Messages : /\ m = Message("actorGone", 0) /\ m[1] = "actorGone"
                              /\ Is(m, "actorGone") = 1 /\ Is(m, "requestActorGone") = 0
    <3>1. "actorGone" \in Words /\ 0 \in Ids \cup {0}
      BY DEF Words
    <3> QED
      BY <3>1, MessageFacts
  <2>2. r + 0 = r
    OBVIOUS
  <2>3. /\ Good(td, sent, a + Is(m, "actorGone"), r + Is(m, "requestActorGone"), own, {}, {})
        /\ m[1] \notin {"request", "hangup"} /\ Tell(m)
    BY <1>3, <1>5, <2>1, <2>2
  <2> QED
    BY <1>3, <1>6, <2>3, TellGood
<1>8. Good(td', sent', managers', Cardinality(actors'), own, {}, {})
  BY <1>3, <1>4, <1>7
<1>9. managers' \in 0 .. Managers
  BY <1>2, <1>3, TdAssumption DEF Rest
<1> QED
  BY <1>1, <1>2, <1>3, <1>7, <1>8, <1>9 DEF IInv, Rest

\* AuthManager asks for the destruction.
LEMMA LoggedOutInv ==
  ASSUME IInv, LoggedOut
  PROVE  IInv'
<1>1. PICK own : own = IF owned THEN "yes" ELSE "no"
  OBVIOUS
<1>2. Held(own) /\ Rest
  BY <1>1, InvParts
<1>3. PICK m \in Messages : /\ m = Message("destroy", 0) /\ m[1] = "destroy"
                            /\ Is(m, "actorGone") = 0 /\ Is(m, "requestActorGone") = 0
  <2>1. "destroy" \in Words /\ 0 \in Ids \cup {0}
    BY DEF Words
  <2> QED
    BY <2>1, MessageFacts
<1>4. PICK t : t = Post(td, <<m>>) /\ td' = t
  BY <1>3 DEF LoggedOut
<1>5. UNCHANGED <<sent, actors, promises, managers, owned>>
  BY DEF LoggedOut
<1>6. PICK a \in Nat, r \in Nat : a = managers /\ r = Cardinality(actors)
  BY <1>2 DEF Held, Good
<1>7. Good(td, sent, a + Is(m, "actorGone"), r + Is(m, "requestActorGone"), own, {}, {})
  <2>1. a + 0 = a /\ r + 0 = r
    OBVIOUS
  <2> QED
    BY <1>2, <1>3, <1>6, <2>1 DEF Held
<1>8. Good(t, sent, a, r, own, {}, {}) /\ Taken(t) = Taken(td)
  <2>1. m[1] # "hangup" /\ m[1] # "request" /\ m[1] # "actorGone"
    BY <1>3
  <2> QED
    BY <1>4, <1>7, <2>1, PostPlain
<1>9. Good(td', sent', managers', Cardinality(actors'), own, {}, {})
  BY <1>4, <1>5, <1>6, <1>8
<1> QED
  BY <1>1, <1>2, <1>4, <1>5, <1>8, <1>9 DEF IInv, Rest

\* A request actor answers and stops.
LEMMA ActorInv ==
  ASSUME IInv, NEW i \in Ids, ActorAnswers(i)
  PROVE  IInv'
<1>1. PICK own : own = IF owned THEN "yes" ELSE "no"
  OBVIOUS
<1>2. Held(own) /\ Rest
  BY <1>1, InvParts
<1>3. i \in actors /\ actors' = actors \ {i} /\ UNCHANGED <<sent, promises, managers, owned>>
  BY DEF ActorAnswers
<1>4. td \in TdRecords /\ actors \in SUBSET Taken(td) /\ managers \in Nat
  BY <1>2 DEF Held, Rest, Good
<1>5. PICK a \in Nat, r \in Nat :
        a = managers /\ r = Cardinality(actors') /\ r + 1 = Cardinality(actors)
  BY <1>3, <1>4, ActorsCount
<1>6. Good(td, sent, a, r + 1, own, {}, {})
  BY <1>2, <1>5 DEF Held
<1>7. Good(td', sent, a, r, own, {}, {}) /\ Taken(td') = Taken(td)
  <2>1. CASE td.mailbox = << >>
    <3>1. PICK t, u : u = Reply(td, i) /\ t = DecRequestActorRefcnt(u) /\ td' = t
      BY <2>1 DEF ActorAnswers
    <3>2. Good(u, sent, a, r + 1, own, {}, {}) /\ Taken(u) = Taken(td)
      <4>1. PICK y \in SUBSET {i} : y = {}
        OBVIOUS
      <4>2. PICK c : c = r + 1
        OBVIOUS
      <4>3. Good(td, sent, a, c, own, {}, y)
        BY <1>6, <4>1, <4>2
      <4>4. Good(u, sent, a, c, own, {}, {}) /\ Taken(u) = Taken(td)
        BY <3>1, <4>3, ReplyGood
      <4> QED
        BY <4>2, <4>4
    <3>3. Good(t, sent, a, r, own, {}, {}) /\ Taken(t) = Taken(u)
      BY <3>1, <3>2, DecRequestActorGood
    <3> QED
      BY <3>1, <3>2, <3>3
  <2>2. CASE td.mailbox # << >>
    <3>1. PICK m \in Messages : /\ m = Message("reply", i) /\ m[1] = "reply"
                                /\ Is(m, "actorGone") = 0 /\ Is(m, "requestActorGone") = 0
      <4>1. "reply" \in Words /\ i \in Ids \cup {0}
        BY DEF Words
      <4> QED
        BY <4>1, MessageFacts
    <3>2. PICK n \in Messages : /\ n = Message("requestActorGone", 0)
                                /\ n[1] = "requestActorGone"
                                /\ Is(n, "actorGone") = 0 /\ Is(n, "requestActorGone") = 1
      <4>1. "requestActorGone" \in Words /\ 0 \in Ids \cup {0}
        BY DEF Words
      <4> QED
        BY <4>1, MessageFacts
    <3>3. PICK u, t : u = Post(td, <<m>>) /\ t = Post(u, <<n>>) /\ td' = t
      <4>1. td' = Post(td, <<m, n>>)
        BY <2>2, <3>1, <3>2 DEF ActorAnswers
      <4>2. td' = Post(td, <<m>> \o <<n>>)
        BY <1>4, <4>1, PostTwo
      <4>3. td' = Post(Post(td, <<m>>), <<n>>)
        BY <1>4, <4>2, PostTwo
      <4> QED
        BY <4>3
    <3>4. a + 0 = a /\ (r + 1) + 0 = r + 1 /\ r + 1 \in Nat
      OBVIOUS
    <3>5. PICK c \in Nat : c = r + 1 /\ c + 0 = c
      BY <3>4
    <3>6. Good(td, sent, a + Is(m, "actorGone"), c + Is(m, "requestActorGone"), own, {}, {})
      BY <1>6, <3>1, <3>4, <3>5
    <3>7. Good(u, sent, a, c, own, {}, {}) /\ Taken(u) = Taken(td)
      <4>1. m[1] # "hangup" /\ m[1] # "request" /\ m[1] # "actorGone"
        BY <3>1
      <4>2. u = Post(td, <<m>>)
        BY <3>3
      <4> QED
        BY <3>6, <4>1, <4>2, PostPlain
    <3>8. Good(u, sent, a + Is(n, "actorGone"), r + Is(n, "requestActorGone"), own, {}, {})
      BY <3>2, <3>4, <3>5, <3>7
    <3>9. Good(t, sent, a, r, own, {}, {}) /\ Taken(t) = Taken(u)
      <4>1. n[1] # "hangup" /\ n[1] # "request" /\ n[1] # "actorGone"
        BY <3>2
      <4>2. t = Post(u, <<n>>)
        BY <3>3
      <4> QED
        BY <3>8, <4>1, <4>2, PostPlain
    <3> QED
      BY <3>3, <3>7, <3>9
  <2> QED
    BY <2>1, <2>2
<1>8. Good(td', sent', managers', Cardinality(actors'), own, {}, {})
  BY <1>3, <1>5, <1>7
<1> QED
  BY <1>1, <1>2, <1>3, <1>7, <1>8 DEF IInv, Rest

\* The databases are closed, and m, which gives their reference back, is sent.
Closes(s, u) == u = [s EXCEPT !.db = FALSE]
GoneOrPosted(u, m, t) ==
  t = IF u.mailbox = << >> THEN DecActorRefcnt(u) ELSE Post(u, <<m>>)

\* The databases are closed: their reference is given back at once, or by a
\* message that comes after the answers that are under way.
LEMMA DatabasesGood ==
  ASSUME NEW s, NEW snt, NEW a \in Nat, NEW r, NEW own, Good(s, snt, a, r, own, {}, {}), s.db,
         NEW u, Closes(s, u), NEW m \in Messages, m[1] = "actorGone",
         NEW t, GoneOrPosted(u, m, t)
  PROVE  Good(t, snt, a, r, own, {}, {}) /\ Taken(t) = Taken(s)
<1>0. /\ s \in TdRecords /\ r \in Nat /\ Balance(s, a, r) /\ Stops(s, own, 0)
      /\ Once(s, snt, {}) /\ Owed(s, snt, {}) /\ s.flushing <= Len(s.mailbox)
  BY DEF Good
<1>1. u \in TdRecords /\ ~ u.db
  BY <1>0 DEF TdRecords, Closes
<1>2. /\ u.close_flag = s.close_flag /\ u.behind = s.behind /\ u.stop_cnt = s.stop_cnt
      /\ u.request_set = s.request_set /\ u.answered = s.answered
      /\ u.twice = s.twice /\ u.state = s.state /\ u.pending = s.pending
      /\ u.actor_refcnt = s.actor_refcnt
      /\ u.request_actor_refcnt = s.request_actor_refcnt
      /\ u.mailbox = s.mailbox /\ u.flushing = s.flushing
      /\ u.stopped = s.stopped /\ u.bad = s.bad /\ u.late = s.late
  BY <1>0 DEF TdRecords, Closes
<1>3. Taken(u) = Taken(s) /\ Asked(u) = Asked(s)
  BY <1>2 DEF Taken, Asked
<1>4. s.close_flag >= 2 /\ u.close_flag >= 2
  <2>1. s.close_flag \in 0 .. 5
    BY <1>0 DEF TdRecords
  <2> QED
    BY <1>0, <1>2, <2>1 DEF Balance
<1>5. Balance(u, a + 1, r)
  <2>1. DbRef(s) = 1 /\ DbRef(u) = 0 /\ ActorsRef(u) = ActorsRef(s) /\ OpenRef(u) = OpenRef(s)
    BY <1>1, <1>2 DEF DbRef, ActorsRef, OpenRef
  <2>2. ActorsRef(s) \in Nat /\ Count(s.mailbox, "actorGone") \in Nat
    BY <1>0, TdCounts DEF ActorsRef
  <2>3. s.actor_refcnt = ActorsRef(s) + a + Count(s.mailbox, "actorGone") + 1
    BY <1>0, <2>1 DEF Balance
  <2>4. u.actor_refcnt = ActorsRef(u) + (a + 1) + Count(u.mailbox, "actorGone") + DbRef(u)
    <3>1. \A c, d \in Nat : c + a + d + 1 = c + (a + 1) + d + 0
      OBVIOUS
    <3> QED
      BY <1>2, <2>1, <2>2, <2>3, <3>1
  <2>5. u.request_actor_refcnt = r + Count(u.mailbox, "requestActorGone") + OpenRef(u)
    BY <1>0, <1>2, <2>1 DEF Balance
  <2>6. /\ ~ (u.close_flag < 2)
        /\ u.close_flag = 5 => u.actor_refcnt = 0
        /\ u.state = "Close" <=> u.close_flag # 0
        /\ u.state = "Close"
        /\ u.actor_refcnt <= Managers + 1
        /\ u.request_actor_refcnt <= Cardinality(Taken(u)) + 1
        /\ ~ u.bad
    <3>1. s.close_flag # 0 /\ ~ (s.close_flag < 2)
      BY <1>0, <1>4 DEF TdRecords
    <3> QED
      BY <1>0, <1>2, <1>3, <3>1 DEF Balance
  <2> QED
    BY <2>4, <2>5, <2>6 DEF Balance
<1>6. Stops(u, own, 0)
  BY <1>0, <1>2 DEF Stops, CloseEnd, OwnerEnd
<1>7. Once(u, snt, {})
  BY <1>0, <1>2, <1>3 DEF Once
<1>8. CASE u.mailbox = << >>
  <2>1. t = DecActorRefcnt(u)
    BY <1>8 DEF GoneOrPosted
  <2>2. \A i : ~ Answering(s, i)
    BY <1>2, <1>8 DEF Answering
  <2>3. Owed(u, snt, {})
    BY <1>0, <1>2, <1>3, <2>2 DEF Owed
  <2>4. a + 1 \in Nat
    OBVIOUS
  <2>5. Good(u, snt, a + 1, r, own, {}, {})
    BY <1>0, <1>1, <1>2, <1>5, <1>6, <1>7, <2>3, <2>4 DEF Good
  <2>6. Good(t, snt, a, r, own, {}, {}) /\ Taken(t) = Taken(u)
    BY <1>4, <2>1, <2>5, DecActorGood
  <2> QED
    BY <1>3, <2>6
<1>9. CASE u.mailbox # << >>
  <2>1. t = Post(u, <<m>>)
    BY <1>9 DEF GoneOrPosted
  <2>2. /\ t \in TdRecords /\ t.close_flag = u.close_flag /\ t.behind = u.behind
        /\ t.request_set = u.request_set /\ t.pending = u.pending /\ t.late = u.late
        /\ t.flushing = u.flushing /\ Taken(t) = Taken(u)
    BY <1>1, <2>1, PostFacts
  <2>3. Balance(t, a, r)
    <3>1. Is(m, "actorGone") = 1 /\ Is(m, "requestActorGone") = 0 /\ r + 0 = r
      BY <1>0 DEF Is
    <3>2. Balance(u, a + Is(m, "actorGone"), r + Is(m, "requestActorGone"))
      BY <1>5, <3>1
    <3> QED
      BY <1>0, <1>1, <1>4, <2>1, <3>2, PostBalance
  <2>4. Stops(t, own, 0)
    <3>1. m[1] # "hangup" /\ m[1] # "request" /\ 0 \in Nat
      OBVIOUS
    <3> QED
      BY <1>1, <1>6, <2>1, <3>1, PostStops
  <2>5. Once(t, snt, {})
    <3>1. m[1] # "request"
      OBVIOUS
    <3> QED
      BY <1>1, <1>7, <2>1, <3>1, PostOnce
  <2>6. /\ Len(s.mailbox) \in Nat /\ Len(t.mailbox) = Len(s.mailbox) + 1
        /\ \A k \in 1 .. Len(s.mailbox) :
             k \in 1 .. Len(t.mailbox) /\ t.mailbox[k] = s.mailbox[k]
    BY <1>1, <1>2, <2>1, PostPlaces
  <2>7. Len(s.mailbox) + 1 \in Places(t.mailbox, "actorGone")
    <3>1. Places(t.mailbox, "actorGone") =
            Places(u.mailbox, "actorGone") \cup {Len(u.mailbox) + 1}
      BY <1>1, <2>1, PostSame
    <3> QED
      BY <1>2, <3>1
  <2>8. \A i : Answering(s, i) => Answering(t, i)
    <3> SUFFICES ASSUME NEW i, Answering(s, i) PROVE Answering(t, i)
      OBVIOUS
    <3>1. PICK k \in 1 .. Len(s.mailbox) : s.mailbox[k] = <<"reply", i>>
      BY DEF Answering
    <3>2. k \in 1 .. Len(t.mailbox) /\ t.mailbox[k] = <<"reply", i>> /\ Len(s.mailbox) + 1 > k
      BY <2>6, <3>1
    <3> QED
      BY <2>7, <3>2 DEF Answering
  <2>9. Owed(t, snt, {})
    BY <1>0, <1>2, <1>3, <2>2, <2>8 DEF Owed
  <2>10. t.flushing <= Len(t.mailbox)
    <3>1. s.flushing \in Nat
      BY <1>0 DEF TdRecords
    <3> QED
      BY <1>0, <1>2, <2>2, <2>6, <3>1
  <2> QED
    BY <1>0, <1>3, <2>2, <2>3, <2>4, <2>5, <2>9, <2>10 DEF Good
<1> QED
  BY <1>8, <1>9

\* The databases are closed.
LEMMA DatabasesInv ==
  ASSUME IInv, DatabasesClosed
  PROVE  IInv'
<1>1. PICK own : own = IF owned THEN "yes" ELSE "no"
  OBVIOUS
<1>2. Held(own) /\ Rest
  BY <1>1, InvParts
<1>3. PICK m \in Messages : m = Message("actorGone", 0) /\ m[1] = "actorGone"
  <2>1. "actorGone" \in Words /\ 0 \in Ids \cup {0}
    BY DEF Words
  <2> QED
    BY <2>1, MessageFacts
<1>4. PICK u, t : /\ u = [td EXCEPT !.db = FALSE] /\ td' = t
                  /\ t = IF u.mailbox = << >> THEN Handle(u, m) ELSE Post(u, <<m>>)
  BY <1>3 DEF DatabasesClosed
<1>5. Handle(u, m) = DecActorRefcnt(u)
  BY <1>3 DEF Handle
<1>6. td.db /\ UNCHANGED <<sent, actors, promises, managers, owned>>
  BY DEF DatabasesClosed
<1>7. PICK a \in Nat, r \in Nat : a = managers /\ r = Cardinality(actors)
  BY <1>2 DEF Held, Good
<1>8. Good(td, sent, a, r, own, {}, {})
  BY <1>2, <1>7 DEF Held
<1>9. t = IF u.mailbox = << >> THEN DecActorRefcnt(u) ELSE Post(u, <<m>>)
  BY <1>4, <1>5
<1>10. Good(t, sent, a, r, own, {}, {}) /\ Taken(t) = Taken(td)
  <2>1. Closes(td, u)
    BY <1>4 DEF Closes
  <2>2. GoneOrPosted(u, m, t)
    BY <1>9 DEF GoneOrPosted
  <2> QED
    BY <1>3, <1>6, <1>8, <2>1, <2>2, DatabasesGood
<1>11. Good(td', sent', managers', Cardinality(actors'), own, {}, {})
  BY <1>4, <1>6, <1>7, <1>10
<1> QED
  BY <1>1, <1>2, <1>4, <1>6, <1>10, <1>11 DEF IInv, Rest

-----------------------------------------------------------------------------
(* The theorems.                                                           *)

\* At the start Td holds its own references, and nobody asked anything.
LEMMA InitInv == ASSUME Init PROVE IInv
<1>1. /\ td.state = "WaitParameters" /\ td.close_flag = 0 /\ td.destroy_flag = FALSE
      /\ td.request_set = {} /\ td.pending = {} /\ td.actor_refcnt = 1
      /\ td.request_actor_refcnt = 1 /\ td.stop_cnt = 2 /\ td.mailbox = << >>
      /\ td.flushing = 0 /\ td.stopped = FALSE /\ td.bad = FALSE /\ td.answered = {}
      /\ td.twice = {} /\ td.behind = {} /\ td.late = {} /\ td.db = FALSE
  BY DEF Init
<1>2. /\ actors = {} /\ promises = {} /\ managers = 0 /\ owned = TRUE
      /\ DOMAIN sent = {}
  BY DEF Init
<1>3. td \in TdRecords
  <2>1. << >> \in Seq(Messages)
    OBVIOUS
  <2> QED
    BY <2>1 DEF Init, TdRecords, States
<1>4. Managers \in Nat /\ 0 \in 0 .. Managers
  BY TdAssumption
<1>5. Cardinality(actors) = 0 /\ Cardinality(Taken(td)) = 0 /\ Taken(td) = {}
  BY <1>1, <1>2, FS_EmptySet DEF Taken
<1>6. \A w : Places(td.mailbox, w) = {} /\ Count(td.mailbox, w) = 0
  <2>1. Len(td.mailbox) = 0
    BY <1>1
  <2>2. \A w : Places(td.mailbox, w) = {}
    BY <2>1 DEF Places
  <2> QED
    BY <2>2, FS_EmptySet DEF Count
<1>7. Asked(td) = {}
  BY <1>1 DEF Asked
<1>8. Balance(td, 0, 0)
  <2>1. ActorsRef(td) = 1 /\ DbRef(td) = 0 /\ OpenRef(td) = 1
    BY <1>1 DEF ActorsRef, DbRef, OpenRef
  <2> QED
    BY <1>1, <1>4, <1>5, <1>6, <2>1 DEF Balance
<1>9. Stops(td, "yes", 0)
  <2>1. CloseEnd(td) = 1 /\ OwnerEnd(td, "yes") = 1
    BY <1>1 DEF CloseEnd, OwnerEnd
  <2> QED
    BY <1>1, <1>6, <2>1 DEF Stops
<1>10. Once(td, sent, {})
  BY <1>1, <1>2, <1>5, <1>6, <1>7 DEF Once
<1>11. Owed(td, sent, {})
  BY <1>1 DEF Owed
<1>12. td.flushing <= Len(td.mailbox)
  BY <1>1
<1>13. Good(td, sent, 0, 0, "yes", {}, {})
  BY <1>3, <1>8, <1>9, <1>10, <1>11, <1>12 DEF Good
<1> QED
  BY <1>2, <1>4, <1>5, <1>13 DEF IInv

\* The references of Td are accounted for, in every stage: the counters equal the
\* number of those who hold a reference or whose message about it is under way
\* (inc_actor_refcnt, dec_actor_refcnt, inc_request_actor_refcnt and
\* dec_request_actor_refcnt, td/telegram/Td.cpp).
THEOREM TdInvariant == Spec => []IInv
<1>1. Init => IInv
  BY InitInv
<1>2. IInv /\ [Next]_vars => IInv'
  <2> SUFFICES ASSUME IInv, [Next]_vars PROVE IInv'
    OBVIOUS
  <2>1. CASE Flush
    BY <2>1, FlushInv
  <2>2. ASSUME NEW i \in Ids, NEW kind \in Kinds, Send(i, kind) PROVE IInv'
    BY <2>2, SendInv
  <2>3. CASE LetGo
    BY <2>3, HangupInv DEF LetGo
  <2>4. CASE LetGoEarly
    BY <2>4, HangupInv DEF LetGoEarly
  <2>5. ASSUME NEW i \in Ids, ActorAnswers(i) PROVE IInv'
    BY <2>5, ActorInv
  <2>6. ASSUME NEW i \in Ids, PromiseAnswers(i) PROVE IInv'
    BY <2>6, PromiseInv
  <2>7. CASE ManagerGone
    BY <2>7, ManagerInv
  <2>8. CASE DatabasesClosed
    BY <2>8, DatabasesInv
  <2>9. CASE LoggedOut
    BY <2>9, LoggedOutInv
  <2>10. CASE UNCHANGED vars
    <3>1. /\ td' = td /\ sent' = sent /\ actors' = actors /\ promises' = promises
          /\ managers' = managers /\ owned' = owned
      BY <2>10 DEF vars
    <3> QED
      BY <3>1 DEF IInv
  <2> QED
    BY <2>1, <2>2, <2>3, <2>4, <2>5, <2>6, <2>7, <2>8, <2>9, <2>10 DEF Next
<1> QED
  BY <1>1, <1>2, PTL DEF Spec

\* No counter of Td falls to zero in a stage that does not expect it (UNREACHABLE in
\* dec_actor_refcnt), and Td stops in the last stage only (LOG_CHECK in tear_down),
\* for any number of requests and of actors that refer to it.
THEOREM ClosesInStages == Spec => []StagesInOrder
<1>1. IInv => StagesInOrder
  BY DEF IInv, Good, Balance, StagesInOrder
<1> QED
  BY <1>1, TdInvariant, PTL

\* The types and the bounds of the counters follow from the invariant.
LEMMA InvTypes == ASSUME IInv PROVE TypeOK
<1>1. PICK own, a, r :
        /\ own = (IF owned THEN "yes" ELSE "no") /\ a = managers /\ r = Cardinality(actors)
  OBVIOUS
<1>2. Good(td, sent, a, r, own, {}, {})
  BY <1>1 DEF IInv
<1>3. /\ td \in TdRecords /\ a \in Nat /\ r \in Nat /\ Balance(td, a, r) /\ Stops(td, own, 0)
      /\ Once(td, sent, {}) /\ Owed(td, sent, {}) /\ td.flushing <= Len(td.mailbox)
  BY <1>2 DEF Good
<1>4. td.state \in States /\ td.close_flag \in 0 .. 5 /\ td.destroy_flag \in BOOLEAN
  BY <1>3 DEF TdRecords
<1>5. td.request_set \subseteq DOMAIN sent /\ td.answered \subseteq DOMAIN sent
      /\ DOMAIN sent \subseteq Ids /\ Taken(td) \subseteq DOMAIN sent
  <2>1. Taken(td) \subseteq Ids /\ Asked(td) \subseteq Ids
    BY <1>3, TakenFinite DEF Asked
  <2>2. DOMAIN sent = Taken(td) \cup Asked(td) \cup {}
    BY <1>3 DEF Once
  <2> QED
    BY <2>1, <2>2 DEF Taken
<1>6. td.pending \cup td.late \cup td.behind \subseteq Taken(td)
  BY <1>3 DEF Owed
<1>7. td.twice = {}
  BY <1>3 DEF Once
<1>8. td.actor_refcnt \in 0 .. Managers + 1
  <2>1. ActorsRef(td) \in Nat /\ DbRef(td) \in Nat /\ Count(td.mailbox, "actorGone") \in Nat
    BY <1>3, TdCounts DEF ActorsRef, DbRef
  <2>2. /\ td.actor_refcnt = ActorsRef(td) + a + Count(td.mailbox, "actorGone") + DbRef(td)
        /\ td.actor_refcnt <= Managers + 1
    BY <1>3 DEF Balance
  <2>3. \A b, c, d, e \in Nat : b + c + d + e \in Nat
    OBVIOUS
  <2>4. td.actor_refcnt \in Nat /\ Managers \in Nat
    BY <1>3, <2>1, <2>2, <2>3, TdAssumption
  <2> QED
    BY <2>2, <2>4
<1>9. td.request_actor_refcnt \in 0 .. Cardinality(Ids) + 1
  <2>1. OpenRef(td) \in Nat /\ Count(td.mailbox, "requestActorGone") \in Nat
    BY <1>3, TdCounts DEF OpenRef
  <2>2. /\ td.request_actor_refcnt = r + Count(td.mailbox, "requestActorGone") + OpenRef(td)
        /\ td.request_actor_refcnt <= Cardinality(Taken(td)) + 1
    BY <1>3 DEF Balance
  <2>3. \A b, c, d \in Nat : b + c + d \in Nat
    OBVIOUS
  <2>4. td.request_actor_refcnt \in Nat
    BY <1>3, <2>1, <2>2, <2>3
  <2>5. Cardinality(Taken(td)) \in Nat /\ Cardinality(Taken(td)) <= Cardinality(Ids)
    BY <1>3, TakenFinite
  <2>6. Cardinality(Ids) \in Nat
    BY TdAssumption, FS_CardinalityType
  <2> QED
    BY <2>2, <2>4, <2>5, <2>6
<1>10. td.flushing \in 0 .. Len(td.mailbox)
  <2>1. td.flushing \in Nat /\ Len(td.mailbox) \in Nat
    BY <1>3, TdCounts DEF TdRecords
  <2> QED
    BY <1>3, <2>1
<1>11. td.stop_cnt \in 0 .. 2
  <2>1. CloseEnd(td) \in 0 .. 1 /\ OwnerEnd(td, own) \in 0 .. 1
    BY DEF CloseEnd, OwnerEnd
  <2>2. td.stop_cnt = 0 + CloseEnd(td) + OwnerEnd(td, own)
    BY <1>3 DEF Stops
  <2>3. \A b, c \in 0 .. 1 : 0 + b + c \in 0 .. 2
    OBVIOUS
  <2> QED
    BY <2>1, <2>2, <2>3
<1>12. td.stopped = (td.stop_cnt = 0)
  <2>1. td.stopped \in BOOLEAN
    BY <1>3 DEF TdRecords
  <2>2. td.stopped <=> td.stop_cnt = 0
    BY <1>3 DEF Stops
  <2> QED
    BY <2>1, <2>2
<1>13. actors \subseteq Ids
  BY <1>5 DEF IInv
<1>14. /\ promises \subseteq Ids /\ managers \in 0 .. Managers /\ owned \in BOOLEAN
       /\ \A i \in DOMAIN sent : sent[i] \in Kinds
  BY DEF IInv
<1>15. td.pending \subseteq DOMAIN sent
       /\ td.answered \cup td.twice \cup td.behind \cup td.late \subseteq DOMAIN sent
  BY <1>5, <1>6, <1>7
<1> QED
  BY <1>4, <1>5, <1>8, <1>9, <1>10, <1>11, <1>12, <1>13, <1>14, <1>15 DEF TypeOK

\* A Td that stopped has answered all, except for close requests that came late.
LEMMA InvStopped == ASSUME IInv PROVE StoppedAnsweredAll
<1> SUFFICES ASSUME td.stopped PROVE DOMAIN sent \subseteq td.answered \cup td.late
  BY DEF StoppedAnsweredAll
<1>1. PICK own, a, r : Good(td, sent, a, r, own, {}, {})
  BY DEF IInv
<1>2. td.close_flag = 5 /\ own = "no" /\ Places(td.mailbox, "hangup") = {}
  BY <1>1, NotStopped
<1>3. td \in TdRecords /\ Stops(td, own, 0) /\ Once(td, sent, {}) /\ Owed(td, sent, {})
  BY <1>1 DEF Good
<1>4. Places(td.mailbox, "request") = {}
  <2>1. \A k \in Places(td.mailbox, "request") :
          \E j \in Places(td.mailbox, "hangup") : j > k
    BY <1>2, <1>3 DEF Stops
  <2> QED
    BY <1>2, <2>1
<1>5. Asked(td) = {}
  <2> SUFFICES ASSUME NEW i \in Asked(td) PROVE FALSE
    OBVIOUS
  <2>1. PICK k \in 1 .. Len(td.mailbox) : td.mailbox[k] = <<"request", i>>
    BY DEF Asked
  <2>2. td.mailbox[k][1] = "request"
    BY <2>1
  <2>3. k \in Places(td.mailbox, "request")
    BY <2>2 DEF Places
  <2> QED
    BY <1>4, <2>3
<1>6. td.request_set \subseteq td.late
  BY <1>2, <1>3 DEF Owed
<1>7. DOMAIN sent = td.request_set \cup td.answered
  BY <1>3, <1>5 DEF Once, Taken
<1> QED
  BY <1>6, <1>7

\* Each request is answered at most once, by Td or by the actor or promise it was
\* handed to, and at the latest when Td closes (Td::clear_requests, send_result,
\* send_error_impl), for any number of requests.
THEOREM EachRequestAnswered == Spec => []RequestsAnswered
<1>1. IInv => RequestsAnswered
  <2> SUFFICES ASSUME IInv PROVE RequestsAnswered
    OBVIOUS
  <2>1. TypeOK
    BY InvTypes
  <2>2. StoppedAnsweredAll
    BY InvStopped
  <2>3. AnsweredOnce
    BY DEF IInv, Good, Once, AnsweredOnce
  <2>4. ClosedOwesNothing
    BY DEF IInv, Good, Owed, ClosedOwesNothing
  <2> QED
    BY <2>1, <2>2, <2>3, <2>4 DEF RequestsAnswered
<1> QED
  BY <1>1, TdInvariant, PTL
=============================================================================
