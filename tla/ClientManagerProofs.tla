------------------------ MODULE ClientManagerProofs ------------------------
(***************************************************************************)
(* ClientManager: no CHECK fails, every request is answered exactly once,  *)
(* and a client says nothing after it closed; for any number of clients    *)
(* and requests.  Then MpscPollableQueue, the queue its responses come     *)
(* through: no value is lost or reordered and no wakeup is lost, for any   *)
(* writers and any number of values.                                       *)
(***************************************************************************)
EXTENDS ClientManager, MpscPollableQueue, FiniteSetTheorems, SequenceTheorems, TLAPS

\* What receive has to handle: the response it holds, then the queue.
Queue == held \o out

Call == {<<"create">>, <<"close">>} \cup {<<"send", r>> : r \in Requests}
Words == {"result", "400", "500"}
Reports == {"update", "Closed", Nothing}
Responses ==
  [client : Ids, id : {0}, what : Reports] \cup [client : Ids, id : Requests, what : Words]
Instance ==
  [state : {"none", "open", "closing", "closed", "gone"}, pending : SUBSET Requests,
   hung : BOOLEAN, updates : 0 .. Updates]

Types ==
  /\ current_id \in 1 .. Clients + 1 /\ creating \subseteq 1 .. current_id - 1
  /\ DOMAIN impls \subseteq 1 .. current_id - 1
  /\ impls \in [DOMAIN impls -> [impl : BOOLEAN, is_closed : BOOLEAN]]
  /\ calls \in [Requests -> [client : 0 .. Clients, pc : {"idle", "create", "finish", "done"}]]
  /\ box \in [Ids -> Seq(Call)] /\ tds \in [Ids -> Instance]
  /\ out \in Seq(Responses) /\ held \in Seq(Responses) /\ Len(held) <= 1
  /\ answers \in [Requests -> Seq(Words)]
  /\ late \subseteq Requests /\ closed \subseteq Ids
  /\ stray \in BOOLEAN /\ bad \in BOOLEAN /\ destroying \in BOOLEAN

\* The instance was started, or will be by what is in the mailbox.
Started(c) == box[c] # << >> \/ tds[c].state # "none"

\* impls_ knows what it has started and closed.
ImplsOK ==
  \A c \in Ids :
    /\ c \in creating \/ c >= current_id => ~Known(c) /\ ~Started(c)
    /\ Known(c) => (impls[c].impl <=> Started(c))
    /\ Known(c) /\ impls[c].is_closed /\ ~impls[c].impl => destroying
    /\ Known(c) /\ ~impls[c].is_closed =>
         ~tds[c].hung /\ \A k \in DOMAIN box[c] : box[c][k] # <<"close">>
    /\ Started(c) => Known(c) \/ tds[c].state = "gone"

\* The mailbox of an instance begins with its creation and ends when it is let go.
BoxIn(s, td) ==
  /\ td.hung => s = << >> /\ td.state # "none"
  /\ td.state = "gone" => td.hung /\ td.pending = {}
  /\ \A k \in DOMAIN s :
       /\ s[k] = <<"create">> <=> k = 1 /\ td.state = "none"
       /\ s[k] = <<"close">> => k = Len(s)

BoxOK == \A c \in Ids : BoxIn(box[c], tds[c])

\* A call of send that is under way is about a client that has its entry, or
\* had it; no call is under way in the destructor.
CallsOK ==
  /\ destroying => creating = {}
  /\ \A r \in Requests :
       /\ destroying => calls[r].pc \in {"idle", "done"}
       /\ calls[r].pc # "idle" => calls[r].client \in Ids
       /\ calls[r].pc \in {"create", "finish"} =>
            calls[r].client < current_id /\ calls[r].client \notin creating
       /\ calls[r].pc = "finish" /\ Known(calls[r].client) => impls[calls[r].client].impl

\* The client of a report is known, and the end of an instance is its last report.
ReportsIn(q, im, td) ==
  \A k \in DOMAIN q :
    q[k].id = 0 =>
      /\ q[k].client \in DOMAIN im
      /\ q[k].what # Nothing => td[q[k].client].state # "none"
      /\ q[k].what = Nothing =>
           /\ im[q[k].client].is_closed
           /\ td[q[k].client].state = "gone" \/ ~im[q[k].client].impl
           /\ \A j \in DOMAIN q : q[j].id = 0 /\ q[j].client = q[k].client => j <= k

ReportsOK == ReportsIn(Queue, impls, tds)

ClosedOK == \A c \in closed : ~Known(c) /\ tds[c].state = "gone"

\* Where a request may be: in the mailbox, or answered in what receive has to handle.
WaitsIn(s, r) == {k \in DOMAIN s : s[k] = <<"send", r>>}
Waits(r, c) == WaitsIn(box[c], r)
RepliesIn(q, r) == {k \in DOMAIN q : q[k].id = r}
Replies(r) == RepliesIn(Queue, r)
Unanswered(r) == answers[r] = << >> /\ Replies(r) = {}

\* A request is in one place at a time.
PlaceOK(r) ==
  /\ calls[r].pc # "done" =>
       Unanswered(r) /\ \A c \in Ids : r \notin tds[c].pending /\ Waits(r, c) = {}
  /\ \A c \in Ids : Waits(r, c) # {} =>
       /\ c = calls[r].client /\ Unanswered(r) /\ r \notin tds[c].pending
       /\ \A j, k \in Waits(r, c) : j = k
  /\ \A c \in Ids : r \in tds[c].pending => c = calls[r].client /\ Unanswered(r)
  /\ Replies(r) # {} => answers[r] = << >> /\ \A j, k \in Replies(r) : j = k
  /\ Len(answers[r]) <= 1

OnePlace == \A r \in Requests : PlaceOK(r)

\* A request sent after the end of its client is only ever refused.
RefusedOnly(r) ==
  /\ calls[r].pc = "done" /\ calls[r].client \in closed
  /\ \A k \in Replies(r) : Queue[k].what = "500"
  /\ \A k \in DOMAIN answers[r] : answers[r][k] = "500"

LateOK == \A r \in late : RefusedOnly(r)

\* No request is lost before the destructor runs, but for one that closes.
SomePlace(r) ==
  calls[r].pc = "done" =>
    \/ Waits(r, calls[r].client) # {} \/ r \in tds[calls[r].client].pending
    \/ ~Unanswered(r)

Accounted == ~destroying => \A r \in Requests \ Closes : SomePlace(r)

\* The same positions, but for a shift.
Alike(A, B) == (A = {} <=> B = {}) /\ ((\A j, k \in A : j = k) => (\A j, k \in B : j = k))

IInv ==
  /\ Types /\ ImplsOK /\ BoxOK /\ CallsOK /\ ReportsOK /\ ClosedOK
  /\ OnePlace /\ LateOK /\ Accounted /\ ~bad /\ ~stray

-----------------------------------------------------------------------------
\* Sequences and calls

LEMMA AppendFacts ==
  ASSUME NEW S, NEW s \in Seq(S), NEW x \in S
  PROVE  /\ Append(s, x) \in Seq(S) /\ Append(s, x) # << >>
         /\ Len(s) \in Nat /\ DOMAIN s = 1 .. Len(s)
         /\ Len(Append(s, x)) = Len(s) + 1
         /\ DOMAIN Append(s, x) = 1 .. Len(s) + 1
         /\ \A k \in 1 .. Len(s) : Append(s, x)[k] = s[k]
         /\ Append(s, x)[Len(s) + 1] = x
<1>1. /\ Append(s, x) \in Seq(S) /\ Append(s, x) # << >>
      /\ Len(Append(s, x)) = Len(s) + 1
      /\ \A k \in 1 .. Len(s) : Append(s, x)[k] = s[k]
      /\ Append(s, x)[Len(s) + 1] = x
  BY AppendProperties
<1>2. Len(s) \in Nat /\ DOMAIN s = 1 .. Len(s) /\ DOMAIN Append(s, x) = 1 .. Len(Append(s, x))
  BY <1>1, LenProperties
<1> QED
  BY <1>1, <1>2

LEMMA TailFacts ==
  ASSUME NEW S, NEW s \in Seq(S), s # << >>
  PROVE  /\ Tail(s) \in Seq(S) /\ Head(s) = s[1] /\ s[1] \in S
         /\ Len(s) \in Nat \ {0} /\ DOMAIN s = 1 .. Len(s)
         /\ Len(Tail(s)) = Len(s) - 1
         /\ DOMAIN Tail(s) = 1 .. Len(s) - 1
         /\ \A k \in 1 .. Len(s) - 1 : Tail(s)[k] = s[k + 1]
<1>1. /\ Tail(s) \in Seq(S) /\ Len(Tail(s)) = Len(s) - 1
      /\ \A k \in 1 .. Len(Tail(s)) : Tail(s)[k] = s[k + 1]
      /\ Head(s) = s[1] /\ s[1] \in S
  BY HeadTailProperties, ElementOfSeq, EmptySeq
<1>2. Len(s) \in Nat \ {0} /\ DOMAIN s = 1 .. Len(s) /\ DOMAIN Tail(s) = 1 .. Len(Tail(s))
  BY <1>1, LenProperties, EmptySeq
<1> QED
  BY <1>1, <1>2

LEMMA ConcatFacts ==
  ASSUME NEW S, NEW s \in Seq(S), NEW t \in Seq(S)
  PROVE  /\ s \o t \in Seq(S) /\ Len(s) \in Nat /\ Len(t) \in Nat
         /\ DOMAIN s = 1 .. Len(s) /\ DOMAIN t = 1 .. Len(t)
         /\ Len(s \o t) = Len(s) + Len(t) /\ DOMAIN (s \o t) = 1 .. Len(s) + Len(t)
         /\ \A k \in 1 .. Len(s) : (s \o t)[k] = s[k]
         /\ \A k \in 1 .. Len(t) : (s \o t)[Len(s) + k] = t[k]
<1>1. /\ s \o t \in Seq(S) /\ Len(s) \in Nat /\ Len(t) \in Nat
      /\ DOMAIN s = 1 .. Len(s) /\ DOMAIN t = 1 .. Len(t)
      /\ Len(s \o t) = Len(s) + Len(t)
  BY ConcatProperties, LenProperties
<1>2. \A k \in 1 .. Len(s) + Len(t) : (s \o t)[k] = IF k <= Len(s) THEN s[k] ELSE t[k - Len(s)]
  BY ConcatProperties
<1>3. DOMAIN (s \o t) = 1 .. Len(s) + Len(t)
  BY <1>1, LenProperties
<1> QED
  BY <1>1, <1>2, <1>3

LEMMA ConcatRight ==
  ASSUME NEW S, NEW s \in Seq(S), NEW t \in Seq(S)
  PROVE  \A k \in 1 .. Len(t) : (s \o t)[Len(s) + k] = t[k]
BY ConcatFacts

LEMMA CallFacts ==
  /\ <<"create">> # <<"close">> /\ <<"create">>[1] = "create" /\ <<"close">>[1] = "close"
  /\ \A r : /\ <<"send", r>> # <<"create">> /\ <<"send", r>> # <<"close">>
            /\ <<"send", r>>[1] = "send" /\ <<"send", r>>[2] = r
            /\ \A q : <<"send", q>> = <<"send", r>> => q = r
OBVIOUS

\* What receive has to handle, when more is said and when one is taken.
LEMMA QueueFacts ==
  ASSUME Types
  PROVE  /\ Queue \in Seq(Responses) /\ Len(Queue) \in Nat /\ DOMAIN Queue = 1 .. Len(Queue)
         /\ \A k \in 1 .. Len(Queue) : Queue[k] \in Responses
<1>1. held \in Seq(Responses) /\ out \in Seq(Responses)
  BY DEF Types
<1>2. Queue \in Seq(Responses) /\ Len(Queue) \in Nat /\ DOMAIN Queue = 1 .. Len(Queue)
  BY <1>1, ConcatProperties, LenProperties DEF Queue
<1> QED
  BY <1>2, ElementOfSeq

LEMMA QueueGrows ==
  ASSUME Types, NEW ms \in Seq(Responses), held' = held, out' = out \o ms
  PROVE  Queue' = Queue \o ms
<1>1. held \in Seq(Responses) /\ out \in Seq(Responses)
  BY DEF Types
<1>2. (held \o out) \o ms = held \o (out \o ms)
  BY <1>1, ConcatAssociative
<1> QED
  BY <1>2 DEF Queue

LEMMA TakenHead ==
  ASSUME Types, held # << >>
  PROVE  Queue # << >> /\ Queue[1] = held[1] /\ held[1] \in Responses /\ Tail(Queue) = out
<1>1. /\ held \in Seq(Responses) /\ out \in Seq(Responses) /\ Len(held) = 1 /\ held[1] \in Responses
  <2>1. held \in Seq(Responses) /\ out \in Seq(Responses) /\ Len(held) <= 1
    BY DEF Types
  <2>2. Len(held) \in Nat /\ Len(held) # 0
    BY <2>1, LenProperties, EmptySeq
  <2>3. Len(held) = 1
    <3>1. \A n \in Nat : n <= 1 /\ n # 0 => n = 1
      OBVIOUS
    <3> QED
      BY <2>1, <2>2, <3>1, Zenon
  <2>4. held[1] \in Responses
    BY <2>1, <2>3, ElementOfSeq
  <2> QED
    BY <2>1, <2>3, <2>4
<1>2. held = <<held[1]>>
  BY <1>1
<1>3. Queue # << >> /\ Queue[1] = held[1]
  BY <1>1, ConcatFacts, EmptySeq DEF Queue
<1>4. Tail(Queue) = out
  <2>1. Queue \in Seq(Responses)
    BY QueueFacts
  <2>2. Len(Tail(Queue)) = Len(out) /\ Tail(Queue) \in Seq(Responses)
    BY <1>1, <1>3, <2>1, ConcatFacts, TailFacts DEF Queue
  <2>3. \A k \in 1 .. Len(out) : Tail(Queue)[k] = out[k]
    <3> SUFFICES ASSUME NEW k \in 1 .. Len(out) PROVE Tail(Queue)[k] = out[k]
      OBVIOUS
    <3>1. Tail(Queue)[k] = Queue[k + 1]
      BY <1>3, <2>1, <2>2, TailFacts
    <3>2. Queue[Len(held) + k] = out[k]
      <4>1. \A j \in 1 .. Len(out) : (held \o out)[Len(held) + j] = out[j]
        <5>1. held \in Seq(Responses) /\ out \in Seq(Responses)
          BY <1>1
        <5> QED
          BY <5>1, ConcatRight
      <4> QED
        BY <4>1 DEF Queue
    <3>3. Len(out) \in Nat /\ k + 1 = 1 + k
      BY <1>1, LenProperties
    <3> QED
      BY <1>1, <3>1, <3>2, <3>3
  <2> QED
    BY <1>1, <2>2, <2>3, SeqEqual
<1> QED
  BY <1>1, <1>3, <1>4

LEMMA QueueTakes ==
  ASSUME Types, NEW ms \in Seq(Responses), held' = << >>, out' = out \o ms
  PROVE  Queue' = out \o ms
<1>1. out \o ms \in Seq(Responses)
  BY ConcatProperties DEF Types
<1> QED
  BY <1>1, ConcatEmptySeq DEF Queue

LEMMA QueueShifts ==
  ASSUME Types, ReceiveNext
  PROVE  /\ Queue' = Queue /\ held' \in Seq(Responses) /\ out' \in Seq(Responses) /\ Len(held') = 1
<1>1. out \in Seq(Responses) /\ held = << >> /\ out # << >> /\ held' = <<Head(out)>> /\ out' = Tail(out)
  BY DEF Types, ReceiveNext
<1>2. out[1] \in Responses /\ Tail(out) \in Seq(Responses) /\ Head(out) = out[1]
  BY <1>1, TailFacts
<1>3. out = <<Head(out)>> \o Tail(out)
  BY <1>1, HeadTailProperties
<1> QED
  BY <1>1, <1>2, <1>3, ConcatEmptySeq DEF Queue

\* The reports and the replies, when more is said and when one is taken.
LEMMA SayFacts ==
  ASSUME NEW q \in Seq(Responses), NEW ms \in Seq(Responses)
  PROVE  /\ Len(q) \in Nat /\ Len(ms) \in Nat /\ DOMAIN q = 1 .. Len(q) /\ DOMAIN ms = 1 .. Len(ms)
         /\ DOMAIN (q \o ms) = 1 .. Len(q) + Len(ms)
         /\ \A k \in DOMAIN (q \o ms) :
              \/ k \in DOMAIN q /\ (q \o ms)[k] = q[k]
              \/ k > Len(q) /\ k - Len(q) \in DOMAIN ms /\ (q \o ms)[k] = ms[k - Len(q)]
<1>1. /\ Len(q) \in Nat /\ Len(ms) \in Nat /\ DOMAIN q = 1 .. Len(q) /\ DOMAIN ms = 1 .. Len(ms)
      /\ DOMAIN (q \o ms) = 1 .. Len(q) + Len(ms)
  BY ConcatFacts
<1>2. \A k \in 1 .. Len(q) + Len(ms) :
        (q \o ms)[k] = IF k <= Len(q) THEN q[k] ELSE ms[k - Len(q)]
  BY ConcatProperties
<1> QED
  BY <1>1, <1>2

LEMMA ReportsSaid ==
  ASSUME NEW q \in Seq(Responses), NEW ms \in Seq(Responses), NEW im, NEW td, ReportsIn(q, im, td),
         \A k \in DOMAIN ms : ms[k].id = 0 =>
           /\ ms[k].client \in DOMAIN im
           /\ ms[k].what # Nothing => td[ms[k].client].state # "none"
           /\ \A j \in DOMAIN q : q[j].id = 0 /\ q[j].client = ms[k].client => q[j].what # Nothing
           /\ ms[k].what = Nothing =>
                /\ im[ms[k].client].is_closed
                /\ td[ms[k].client].state = "gone" \/ ~im[ms[k].client].impl
                /\ \A j \in DOMAIN ms : ms[j].id = 0 /\ ms[j].client = ms[k].client => j <= k
  PROVE  ReportsIn(q \o ms, im, td)
<1> DEFINE qq == q \o ms
<1>1. /\ Len(q) \in Nat /\ Len(ms) \in Nat /\ DOMAIN q = 1 .. Len(q) /\ DOMAIN ms = 1 .. Len(ms)
      /\ \A k \in DOMAIN qq :
           \/ k \in DOMAIN q /\ qq[k] = q[k]
           \/ k > Len(q) /\ k - Len(q) \in DOMAIN ms /\ qq[k] = ms[k - Len(q)]
      /\ DOMAIN qq \subseteq Nat
  BY SayFacts
<1> HIDE DEF qq
<1> SUFFICES ASSUME NEW k \in DOMAIN qq, qq[k].id = 0
             PROVE  /\ qq[k].client \in DOMAIN im
                    /\ qq[k].what # Nothing => td[qq[k].client].state # "none"
                    /\ qq[k].what = Nothing =>
                         /\ im[qq[k].client].is_closed
                         /\ td[qq[k].client].state = "gone" \/ ~im[qq[k].client].impl
                         /\ \A j \in DOMAIN qq :
                              qq[j].id = 0 /\ qq[j].client = qq[k].client => j <= k
  BY DEF ReportsIn, qq
<1>2. CASE k \in DOMAIN q /\ qq[k] = q[k]
  <2>1. /\ q[k].client \in DOMAIN im
        /\ q[k].what # Nothing => td[q[k].client].state # "none"
        /\ q[k].what = Nothing =>
             /\ im[q[k].client].is_closed
             /\ td[q[k].client].state = "gone" \/ ~im[q[k].client].impl
             /\ \A j \in DOMAIN q : q[j].id = 0 /\ q[j].client = q[k].client => j <= k
    BY <1>2 DEF ReportsIn
  <2>2. ASSUME q[k].what = Nothing, NEW j \in DOMAIN qq, qq[j].id = 0, qq[j].client = qq[k].client
        PROVE  j <= k
    <3>1. CASE j \in DOMAIN q /\ qq[j] = q[j]
      BY <1>2, <2>1, <2>2, <3>1
    <3>2. CASE j - Len(q) \in DOMAIN ms /\ qq[j] = ms[j - Len(q)]
      BY <1>2, <2>2, <3>2
    <3> QED
      BY <1>1, <3>1, <3>2
  <2> QED
    BY <1>2, <2>1, <2>2
<1>3. CASE k > Len(q) /\ k - Len(q) \in DOMAIN ms /\ qq[k] = ms[k - Len(q)]
  <2> DEFINE i == k - Len(q)
  <2>1. /\ i \in DOMAIN ms /\ qq[k] = ms[i] /\ ms[i].client \in DOMAIN im
        /\ ms[i].what # Nothing => td[ms[i].client].state # "none"
        /\ \A j \in DOMAIN q : q[j].id = 0 /\ q[j].client = ms[i].client => q[j].what # Nothing
        /\ ms[i].what = Nothing =>
             /\ im[ms[i].client].is_closed
             /\ td[ms[i].client].state = "gone" \/ ~im[ms[i].client].impl
             /\ \A j \in DOMAIN ms : ms[j].id = 0 /\ ms[j].client = ms[i].client => j <= i
    BY <1>3
  <2>2. ASSUME ms[i].what = Nothing, NEW j \in DOMAIN qq, qq[j].id = 0, qq[j].client = qq[k].client
        PROVE  j <= k
    <3>1. CASE j \in DOMAIN q /\ qq[j] = q[j]
      BY <1>1, <1>3, <3>1
    <3>2. CASE j - Len(q) \in DOMAIN ms /\ qq[j] = ms[j - Len(q)]
      <4>1. j - Len(q) <= k - Len(q)
        BY <2>1, <2>2, <3>2
      <4>2. j \in Nat /\ k \in Nat /\ Len(q) \in Nat
        BY <1>1
      <4> QED
        BY <4>1, <4>2
    <3> QED
      BY <1>1, <3>1, <3>2
  <2> QED
    BY <2>1, <2>2
<1> QED
  BY <1>1, <1>2, <1>3

LEMMA ReportsTaken ==
  ASSUME NEW q \in Seq(Responses), q # << >>, NEW im, NEW td, ReportsIn(q, im, td)
  PROVE  ReportsIn(Tail(q), im, td)
<1> DEFINE t == Tail(q)
<1>1. /\ Len(q) \in Nat \ {0} /\ DOMAIN q = 1 .. Len(q) /\ DOMAIN t = 1 .. Len(q) - 1
      /\ \A k \in 1 .. Len(q) - 1 : t[k] = q[k + 1]
  BY TailFacts
<1> HIDE DEF t
<1>2. \A k \in DOMAIN t : k \in Nat /\ k + 1 \in DOMAIN q /\ t[k] = q[k + 1]
  BY <1>1
<1>3. ReportsIn(t, im, td)
  <2> SUFFICES ASSUME NEW k \in DOMAIN t, t[k].id = 0
               PROVE  /\ t[k].client \in DOMAIN im
                      /\ t[k].what # Nothing => td[t[k].client].state # "none"
                      /\ t[k].what = Nothing =>
                           /\ im[t[k].client].is_closed
                           /\ td[t[k].client].state = "gone" \/ ~im[t[k].client].impl
                           /\ \A j \in DOMAIN t : t[j].id = 0 /\ t[j].client = t[k].client => j <= k
    BY DEF ReportsIn
  <2> DEFINE i == k + 1
  <2>1. /\ i \in DOMAIN q /\ t[k] = q[i] /\ q[i].client \in DOMAIN im
        /\ q[i].what # Nothing => td[q[i].client].state # "none"
        /\ q[i].what = Nothing =>
             /\ im[q[i].client].is_closed
             /\ td[q[i].client].state = "gone" \/ ~im[q[i].client].impl
             /\ \A j \in DOMAIN q : q[j].id = 0 /\ q[j].client = q[i].client => j <= i
    BY <1>2 DEF ReportsIn
  <2>2. ASSUME q[i].what = Nothing, NEW j \in DOMAIN t, t[j].id = 0, t[j].client = t[k].client
        PROVE  j <= k
    <3>1. j + 1 <= k + 1
      BY <1>2, <2>1, <2>2
    <3> QED
      BY <1>2, <3>1
  <2> QED
    BY <2>1, <2>2
<1> QED
  BY <1>3 DEF t

\* Closing and ending keep what was reported true.
LEMMA ReportsLast ==
  ASSUME NEW q \in Seq(Responses), NEW im, NEW td, ReportsIn(q, im, td), NEW im2, NEW td2,
         \A k \in DOMAIN q : q[k].id = 0 /\ q[k].client \in DOMAIN im =>
           /\ q[k].client \in DOMAIN im2
           /\ td[q[k].client].state # "none" => td2[q[k].client].state # "none"
           /\ q[k].what = Nothing /\ im[q[k].client].is_closed =>
                /\ im2[q[k].client].is_closed
                /\ ~im[q[k].client].impl => ~im2[q[k].client].impl
                /\ td[q[k].client].state = "gone" => td2[q[k].client].state = "gone"
  PROVE  ReportsIn(q, im2, td2)
BY DEF ReportsIn

LEMMA RepliesSaid ==
  ASSUME NEW q \in Seq(Responses), NEW ms \in Seq(Responses), NEW r,
         \A k \in DOMAIN ms : ms[k].id # r
  PROVE  /\ RepliesIn(q \o ms, r) = RepliesIn(q, r)
         /\ \A k \in RepliesIn(q, r) : (q \o ms)[k] = q[k]
<1> DEFINE qq == q \o ms
<1>1. /\ Len(q) \in Nat /\ DOMAIN q = 1 .. Len(q) /\ DOMAIN q \subseteq DOMAIN qq
      /\ \A k \in DOMAIN qq :
           \/ k \in DOMAIN q /\ qq[k] = q[k]
           \/ k > Len(q) /\ k - Len(q) \in DOMAIN ms /\ qq[k] = ms[k - Len(q)]
      /\ DOMAIN qq \subseteq Nat
  BY SayFacts
<1> HIDE DEF qq
<1>2. \A k \in DOMAIN q : qq[k] = q[k]
  BY <1>1
<1>3. \A k \in DOMAIN qq : k \notin DOMAIN q => qq[k].id # r
  BY <1>1
<1>4. RepliesIn(qq, r) = RepliesIn(q, r)
  BY <1>1, <1>2, <1>3 DEF RepliesIn
<1> QED
  BY <1>2, <1>4 DEF RepliesIn, qq

LEMMA RepliesTaken ==
  ASSUME NEW q \in Seq(Responses), q # << >>, NEW r, q[1].id # r
  PROVE  /\ Alike(RepliesIn(q, r), RepliesIn(Tail(q), r))
         /\ \A k \in RepliesIn(Tail(q), r) : k + 1 \in RepliesIn(q, r) /\ Tail(q)[k] = q[k + 1]
<1> DEFINE t == Tail(q)
<1>1. /\ Len(q) \in Nat \ {0} /\ DOMAIN q = 1 .. Len(q) /\ DOMAIN t = 1 .. Len(q) - 1
      /\ \A k \in 1 .. Len(q) - 1 : t[k] = q[k + 1]
  BY TailFacts
<1> HIDE DEF t
<1>2. \A k \in RepliesIn(t, r) : k \in Nat /\ k + 1 \in RepliesIn(q, r) /\ t[k] = q[k + 1]
  BY <1>1 DEF RepliesIn
<1>3. \A k \in RepliesIn(q, r) : k - 1 \in RepliesIn(t, r)
  <2> SUFFICES ASSUME NEW k \in RepliesIn(q, r) PROVE k - 1 \in RepliesIn(t, r)
    OBVIOUS
  <2>1. k \in 1 .. Len(q) /\ q[k].id = r /\ k # 1
    BY <1>1 DEF RepliesIn
  <2>2. k - 1 \in 1 .. Len(q) - 1 /\ (k - 1) + 1 = k
    BY <1>1, <2>1
  <2>3. t[k - 1] = q[k]
    BY <1>1, <2>2
  <2> QED
    BY <1>1, <2>1, <2>2, <2>3 DEF RepliesIn
<1>4. ASSUME \A j, k \in RepliesIn(q, r) : j = k, NEW j \in RepliesIn(t, r), NEW k \in RepliesIn(t, r)
      PROVE  j = k
  <2>1. j + 1 = k + 1
    BY <1>2, <1>4
  <2> QED
    BY <1>2, <2>1
<1> QED
  BY <1>2, <1>3, <1>4 DEF Alike, t

\* The mailbox.
LEMMA WaitsAppend ==
  ASSUME NEW s \in Seq(Call), NEW x \in Call, NEW r
  PROVE  /\ x # <<"send", r>> => WaitsIn(Append(s, x), r) = WaitsIn(s, r)
         /\ x = <<"send", r>> => WaitsIn(Append(s, x), r) = WaitsIn(s, r) \cup {Len(s) + 1}
<1> DEFINE t == Append(s, x)
<1>1. /\ Len(s) \in Nat /\ DOMAIN s = 1 .. Len(s) /\ DOMAIN t = 1 .. Len(s) + 1
      /\ \A k \in 1 .. Len(s) : t[k] = s[k]
      /\ t[Len(s) + 1] = x
  BY AppendFacts
<1> HIDE DEF t
<1>2. DOMAIN t = DOMAIN s \cup {Len(s) + 1} /\ Len(s) + 1 \notin DOMAIN s
  BY <1>1
<1>3. WaitsIn(t, r) = {k \in DOMAIN s : s[k] = <<"send", r>>} \cup {k \in {Len(s) + 1} : x = <<"send", r>>}
  BY <1>1, <1>2 DEF WaitsIn
<1>4. x # <<"send", r>> => WaitsIn(t, r) = WaitsIn(s, r)
  BY <1>3 DEF WaitsIn
<1>5. x = <<"send", r>> => WaitsIn(t, r) = WaitsIn(s, r) \cup {Len(s) + 1}
  BY <1>3 DEF WaitsIn
<1> QED
  BY <1>4, <1>5 DEF t

LEMMA WaitsTail ==
  ASSUME NEW s \in Seq(Call), s # << >>, NEW r
  PROVE  /\ s[1] # <<"send", r>> => Alike(WaitsIn(s, r), WaitsIn(Tail(s), r))
         /\ s[1] = <<"send", r>> /\ (\A j, k \in WaitsIn(s, r) : j = k) =>
              WaitsIn(Tail(s), r) = {} /\ 1 \in WaitsIn(s, r)
<1> DEFINE t == Tail(s)
<1>1. /\ Len(s) \in Nat \ {0} /\ DOMAIN s = 1 .. Len(s) /\ DOMAIN t = 1 .. Len(s) - 1
      /\ \A k \in 1 .. Len(s) - 1 : t[k] = s[k + 1]
  BY TailFacts
<1> HIDE DEF t
<1>2. \A k \in WaitsIn(t, r) : k \in Nat \ {0} /\ k + 1 \in WaitsIn(s, r)
  BY <1>1 DEF WaitsIn
<1>3. \A k \in WaitsIn(s, r) : k # 1 => k - 1 \in WaitsIn(t, r)
  <2> SUFFICES ASSUME NEW k \in WaitsIn(s, r), k # 1 PROVE k - 1 \in WaitsIn(t, r)
    OBVIOUS
  <2>1. k \in 1 .. Len(s) /\ s[k] = <<"send", r>>
    BY <1>1 DEF WaitsIn
  <2>2. k - 1 \in 1 .. Len(s) - 1 /\ (k - 1) + 1 = k
    BY <1>1, <2>1
  <2>3. t[k - 1] = s[k]
    BY <1>1, <2>2
  <2> QED
    BY <1>1, <2>1, <2>2, <2>3 DEF WaitsIn
<1>4. ASSUME \A j, k \in WaitsIn(s, r) : j = k, NEW j \in WaitsIn(t, r), NEW k \in WaitsIn(t, r)
      PROVE  j = k
  <2>1. j + 1 = k + 1
    BY <1>2, <1>4
  <2> QED
    BY <1>2, <2>1
<1>5. s[1] # <<"send", r>> => 1 \notin WaitsIn(s, r)
  BY DEF WaitsIn
<1>6. ASSUME s[1] # <<"send", r>> PROVE Alike(WaitsIn(s, r), WaitsIn(t, r))
  BY <1>2, <1>3, <1>4, <1>5, <1>6 DEF Alike
<1>7. ASSUME s[1] = <<"send", r>>, \A j, k \in WaitsIn(s, r) : j = k
      PROVE  WaitsIn(t, r) = {} /\ 1 \in WaitsIn(s, r)
  <2>1. 1 \in WaitsIn(s, r)
    BY <1>1, <1>7 DEF WaitsIn
  <2>2. \A k \in WaitsIn(t, r) : k + 1 = 1 /\ k \in Nat \ {0}
    BY <1>2, <1>7, <2>1
  <2> QED
    BY <2>1, <2>2
<1> QED
  BY <1>6, <1>7 DEF t

LEMMA BoxAppend ==
  ASSUME NEW s \in Seq(Call), NEW x \in Call, NEW td, BoxIn(s, td), ~td.hung,
         \A k \in DOMAIN s : s[k] # <<"close">>,
         x = <<"create">> <=> s = << >> /\ td.state = "none"
  PROVE  BoxIn(Append(s, x), td)
<1> DEFINE t == Append(s, x)
<1>1. /\ Len(s) \in Nat /\ DOMAIN s = 1 .. Len(s) /\ DOMAIN t = 1 .. Len(s) + 1
      /\ \A k \in 1 .. Len(s) : t[k] = s[k]
      /\ t[Len(s) + 1] = x /\ Len(t) = Len(s) + 1
  BY AppendFacts
<1>2. s = << >> <=> Len(s) = 0
  BY EmptySeq
<1> HIDE DEF t
<1>3. td.state = "gone" => td.hung /\ td.pending = {}
  BY DEF BoxIn
<1>4. ASSUME NEW k \in DOMAIN t
      PROVE  /\ t[k] = <<"create">> <=> k = 1 /\ td.state = "none"
             /\ t[k] = <<"close">> => k = Len(t)
  <2>1. CASE k \in DOMAIN s
    BY <1>1, <2>1 DEF BoxIn
  <2>2. CASE k = Len(s) + 1
    <3>1. t[k] = x /\ k = Len(t) /\ (k = 1 <=> s = << >>)
      BY <1>1, <1>2, <2>2
    <3> QED
      BY <3>1, Zenon
  <2> QED
    BY <1>1, <2>1, <2>2
<1> QED
  BY <1>3, <1>4 DEF BoxIn, t

-----------------------------------------------------------------------------
\* Steps

LEMMA InitInv == Init => IInv
<1> SUFFICES ASSUME Init PROVE IInv
  OBVIOUS
<1> USE ClientManagerAssumption DEF Init
<1>1. << >> \in Seq(Call) /\ << >> \in Seq(Responses) /\ << >> \in Seq(Words) /\ Len(<< >>) = 0
  BY EmptySeq
<1>2. Queue = << >> /\ DOMAIN Queue = {}
  BY <1>1, ConcatEmptySeq DEF Queue
<1>3. Types
  <2>1. impls \in [DOMAIN impls -> [impl : BOOLEAN, is_closed : BOOLEAN]] /\ DOMAIN impls = {}
    OBVIOUS
  <2>2. calls \in [Requests -> [client : 0 .. Clients, pc : {"idle", "create", "finish", "done"}]]
    BY DEF NoCall
  <2>3. tds \in [Ids -> Instance] /\ box \in [Ids -> Seq(Call)] /\ answers \in [Requests -> Seq(Words)]
    BY <1>1 DEF Instance
  <2>4. current_id \in 1 .. Clients + 1 /\ creating \subseteq 1 .. current_id - 1
    OBVIOUS
  <2>5. /\ out \in Seq(Responses) /\ held \in Seq(Responses) /\ Len(held) <= 1
        /\ late \subseteq Requests /\ closed \subseteq Ids /\ DOMAIN impls \subseteq 1 .. current_id - 1
    BY <1>1
  <2> QED
    BY <1>1, <2>1, <2>2, <2>3, <2>4, <2>5, Zenon DEF Types
<1>4. ImplsOK /\ BoxOK /\ CallsOK
  BY DEF ImplsOK, BoxOK, BoxIn, CallsOK, Known, Started, Ids, NoCall
<1>5. ReportsOK /\ ClosedOK /\ LateOK
  BY <1>2 DEF ReportsOK, ReportsIn, ClosedOK, LateOK
<1>6. OnePlace /\ Accounted
  BY <1>1, <1>2 DEF OnePlace, PlaceOK, Unanswered, Waits, WaitsIn, Replies, RepliesIn, NoCall,
     Accounted, SomePlace
<1> QED
  BY <1>3, <1>4, <1>5, <1>6 DEF IInv

\* A request that a step does not touch, but for its position.
LEMMA PlaceKept ==
  ASSUME NEW r \in Requests, PlaceOK(r),
         calls'[r].client = calls[r].client, calls'[r].pc = "done" <=> calls[r].pc = "done",
         answers'[r] = answers[r], Alike(Replies(r), Replies(r)'),
         \A c \in Ids : Alike(Waits(r, c), Waits(r, c)'),
         \A c \in Ids : r \in tds'[c].pending => r \in tds[c].pending
  PROVE  PlaceOK(r)'
<1>1. Unanswered(r)' <=> Unanswered(r)
  BY DEF Unanswered, Alike
<1>2. /\ calls'[r].pc # "done" =>
           Unanswered(r)' /\ \A c \in Ids : r \notin tds'[c].pending /\ Waits(r, c)' = {}
      /\ Replies(r)' # {} => answers'[r] = << >> /\ \A j, k \in Replies(r)' : j = k
      /\ Len(answers'[r]) <= 1
  BY <1>1 DEF PlaceOK, Alike
<1>3. \A c \in Ids :
        /\ Waits(r, c)' # {} =>
             /\ c = calls'[r].client /\ Unanswered(r)' /\ r \notin tds'[c].pending
             /\ \A j, k \in Waits(r, c)' : j = k
        /\ r \in tds'[c].pending => c = calls'[r].client /\ Unanswered(r)'
  BY <1>1 DEF PlaceOK, Alike
<1> QED
  BY <1>2, <1>3 DEF PlaceOK

LEMMA SomePlaceKept ==
  ASSUME Types, NEW r \in Requests, SomePlace(r), calls[r].pc = "done" => calls[r].client \in Ids,
         calls'[r].client = calls[r].client, calls'[r].pc = "done" <=> calls[r].pc = "done",
         answers'[r] = answers[r], Alike(Replies(r), Replies(r)'),
         \A c \in Ids : Alike(Waits(r, c), Waits(r, c)'),
         \A c \in Ids : r \in tds[c].pending => r \in tds'[c].pending
  PROVE  SomePlace(r)'
<1>1. Unanswered(r)' <=> Unanswered(r)
  BY DEF Unanswered, Alike
<1>2. CASE calls[r].pc = "done"
  <2> DEFINE c == calls[r].client
  <2>1. c \in Ids /\ calls'[r].client = c
    BY <1>2
  <2>2. (Waits(r, c) # {} => Waits(r, c)' # {}) /\ (r \in tds[c].pending => r \in tds'[c].pending)
    BY <2>1 DEF Alike
  <2>3. Waits(r, c) # {} \/ r \in tds[c].pending \/ ~Unanswered(r)
    BY <1>2 DEF SomePlace
  <2> QED
    BY <1>1, <2>1, <2>2, <2>3 DEF SomePlace, Waits
<1>3. CASE calls[r].pc # "done"
  BY <1>3 DEF SomePlace
<1> QED
  BY <1>2, <1>3

LEMMA RefusedKept ==
  ASSUME NEW r \in Requests, RefusedOnly(r), answers'[r] = answers[r],
         calls'[r].client = calls[r].client, calls'[r].pc = "done" <=> calls[r].pc = "done",
         (\A k \in Replies(r) : Queue[k].what = "500")
           => (\A k \in Replies(r)' : Queue'[k].what = "500"),
         closed \subseteq closed'
  PROVE  RefusedOnly(r)'
BY DEF RefusedOnly

\* A step that does not touch a request.
Untouched(r) ==
  /\ calls'[r].client = calls[r].client /\ (calls'[r].pc = "done" <=> calls[r].pc = "done")
  /\ answers'[r] = answers[r] /\ Alike(Replies(r), Replies(r)')
  /\ (\A k \in Replies(r) : Queue[k].what = "500") => (\A k \in Replies(r)' : Queue'[k].what = "500")
  /\ \A c \in Ids :
       /\ Alike(Waits(r, c), Waits(r, c)')
       /\ r \in tds'[c].pending => r \in tds[c].pending
       /\ r \in tds[c].pending /\ r \notin Closes => r \in tds'[c].pending

LEMMA RequestsKept ==
  ASSUME Types, CallsOK, OnePlace, Accounted, LateOK, \A r \in Requests : Untouched(r),
         late' = late, closed \subseteq closed', destroying => destroying'
  PROVE  OnePlace' /\ Accounted' /\ LateOK'
<1>1. OnePlace'
  <2> SUFFICES ASSUME NEW r \in Requests PROVE PlaceOK(r)'
    BY DEF OnePlace
  <2>1. PlaceOK(r) /\ Untouched(r)
    BY DEF OnePlace
  <2>2. /\ calls'[r].client = calls[r].client /\ (calls'[r].pc = "done" <=> calls[r].pc = "done")
        /\ answers'[r] = answers[r] /\ Alike(Replies(r), Replies(r)')
    BY <2>1 DEF Untouched
  <2>3. \A c \in Ids : Alike(Waits(r, c), Waits(r, c)') /\ (r \in tds'[c].pending => r \in tds[c].pending)
    BY <2>1, Zenon DEF Untouched
  <2> QED
    BY <2>1, <2>2, <2>3, PlaceKept
<1>2. LateOK'
  <2> SUFFICES ASSUME NEW r \in late PROVE RefusedOnly(r)'
    BY DEF LateOK
  <2>1. r \in Requests /\ RefusedOnly(r) /\ Untouched(r)
    BY DEF Types, LateOK
  <2> QED
    BY <2>1, RefusedKept DEF Untouched
<1>3. Accounted'
  <2> SUFFICES ASSUME ~destroying, NEW r \in Requests \ Closes PROVE SomePlace(r)'
    BY DEF Accounted
  <2>1. SomePlace(r) /\ (calls[r].pc = "done" => calls[r].client \in Ids) /\ Untouched(r)
    BY DEF Accounted, CallsOK
  <2>2. /\ calls'[r].client = calls[r].client /\ (calls'[r].pc = "done" <=> calls[r].pc = "done")
        /\ answers'[r] = answers[r] /\ Alike(Replies(r), Replies(r)')
    BY <2>1 DEF Untouched
  <2>3. \A c \in Ids : Alike(Waits(r, c), Waits(r, c)') /\ (r \in tds[c].pending => r \in tds'[c].pending)
    BY <2>1, Zenon DEF Untouched
  <2> QED
    BY <2>1, <2>2, <2>3, SomePlaceKept
<1> QED
  BY <1>1, <1>2, <1>3

\* Steps that leave the requests where they are.
LEMMA RequestsUnmoved ==
  ASSUME OnePlace, Accounted, Queue' = Queue, UNCHANGED <<calls, box, tds, answers, destroying>>
  PROVE  OnePlace' /\ Accounted'
<1>1. OnePlace'
  <2> SUFFICES ASSUME NEW r \in Requests PROVE PlaceOK(r)'
    BY DEF OnePlace
  <2> QED
    BY PlaceKept DEF OnePlace, Replies, Waits, Alike
<1>2. Accounted'
  BY Zenon DEF Accounted, SomePlace, Unanswered, Replies, Waits
<1> QED
  BY <1>1, <1>2

LEMMA CreateIdInv ==
  ASSUME IInv, CreateId
  PROVE  IInv'
<1>1. /\ Types /\ ImplsOK /\ BoxOK /\ CallsOK /\ ReportsOK /\ ClosedOK
      /\ OnePlace /\ LateOK /\ Accounted /\ ~bad /\ ~stray
  BY DEF IInv
<1>2. /\ current_id \in 1 .. Clients /\ current_id' = current_id + 1 
      /\ creating' = creating \cup {current_id} /\ ~destroying
      /\ UNCHANGED <<impls, calls, box, tds, out, held, answers, late, closed, stray, bad, destroying>>
  BY <1>1, ClientManagerAssumption DEF CreateId, Types
<1>3. Types'
  BY <1>1, <1>2, ClientManagerAssumption DEF Types
<1>4. ImplsOK'
  BY <1>1, <1>2, ClientManagerAssumption DEF Types, ImplsOK, Known, Started, Ids
<1>5. BoxOK'
  BY <1>1, <1>2 DEF BoxOK
<1>6. CallsOK'
  BY <1>1, <1>2, ClientManagerAssumption DEF Types, CallsOK, Known, Ids
<1>7. Queue' = Queue
  BY <1>2 DEF Queue
<1>8. ReportsOK' /\ ClosedOK' /\ LateOK'
  BY <1>1, <1>2, <1>7 DEF ReportsOK, ReportsIn, ClosedOK, LateOK, RefusedOnly, Replies, Known
<1>9. OnePlace' /\ Accounted'
  BY <1>1, <1>2, <1>7, RequestsUnmoved
<1> QED
  BY <1>1, <1>2, <1>3, <1>4, <1>5, <1>6, <1>8, <1>9 DEF IInv

LEMMA CreateClientIdInv ==
  ASSUME IInv, NEW c \in Ids, CreateClientId(c)
  PROVE  IInv'
<1>1. /\ Types /\ ImplsOK /\ BoxOK /\ CallsOK /\ ReportsOK /\ ClosedOK
      /\ OnePlace /\ LateOK /\ Accounted /\ ~bad /\ ~stray
  BY DEF IInv
<1>2. /\ creating' = creating \ {c} /\ c \in creating
      /\ UNCHANGED <<current_id, calls, box, tds, out, held, answers, late, closed, stray, bad,
                     destroying>>
  BY DEF CreateClientId
<1>3. /\ DOMAIN impls' = DOMAIN impls \cup {c} /\ impls'[c] = [impl |-> FALSE, is_closed |-> FALSE]
      /\ \A d \in DOMAIN impls : impls'[d] = impls[d]
      /\ ~Known(c) /\ ~Started(c) /\ ~destroying
  <2>1. ~Known(c) /\ ~Started(c) /\ ~destroying
    BY <1>1, <1>2 DEF ImplsOK, CallsOK
  <2> QED
    BY <2>1 DEF CreateClientId, With, Known
<1>4. Types'
  <2>1. impls' \in [DOMAIN impls' -> [impl : BOOLEAN, is_closed : BOOLEAN]]
    BY <1>1 DEF CreateClientId, With, Types
  <2>2. DOMAIN impls' \subseteq 1 .. current_id' - 1 /\ creating' \subseteq 1 .. current_id' - 1
    BY <1>1, <1>2, <1>3 DEF Types
  <2> QED
    BY <1>1, <1>2, <2>1, <2>2 DEF Types
<1>5. ImplsOK'
  <2> SUFFICES ASSUME NEW d \in Ids
               PROVE  /\ d \in creating' \/ d >= current_id => ~Known(d)' /\ ~Started(d)
                      /\ Known(d)' => (impls'[d].impl <=> Started(d))
                      /\ Known(d)' /\ impls'[d].is_closed /\ ~impls'[d].impl => destroying
                      /\ Known(d)' /\ ~impls'[d].is_closed =>
                           ~tds[d].hung /\ \A k \in DOMAIN box[d] : box[d][k] # <<"close">>
                      /\ Started(d) => Known(d)' \/ tds[d].state = "gone"
    BY <1>2, Zenon DEF ImplsOK, Started
  <2>1. CASE d = c
    <3>1. c < current_id /\ c \in Nat /\ current_id \in Nat
      BY <1>1, <1>2, ClientManagerAssumption DEF Types, Ids
    <3>2. box[c] = << >> /\ tds[c].state = "none"
      BY <1>3 DEF Started
    <3>3. ~tds[c].hung
      BY <1>1, <3>2 DEF BoxOK, BoxIn
    <3> QED
      BY <1>2, <1>3, <2>1, <3>1, <3>2, <3>3, EmptySeq DEF Known
  <2>2. CASE d # c
    BY <1>1, <1>2, <1>3, <2>2 DEF ImplsOK, Known
  <2> QED
    BY <2>1, <2>2
<1>6. BoxOK'
  BY <1>1, <1>2 DEF BoxOK
<1>7. CallsOK'
  BY <1>1, <1>2, <1>3 DEF CallsOK, Known
<1>8. Queue' = Queue
  BY <1>2 DEF Queue
<1>9. ReportsOK' /\ ClosedOK' /\ LateOK'
  BY <1>1, <1>2, <1>3, <1>8 DEF ReportsOK, ReportsIn, ClosedOK, LateOK, RefusedOnly, Replies,
     Known, Started
<1>10. OnePlace' /\ Accounted'
  BY <1>1, <1>2, <1>8, RequestsUnmoved
<1> QED
  BY <1>1, <1>2, <1>4, <1>5, <1>6, <1>7, <1>9, <1>10 DEF IInv

\* send answers the request itself.
LEMMA RefuseInv ==
  ASSUME IInv, NEW r \in Requests, NEW c \in Ids, NEW w \in {"400", "500"},
         ~destroying, calls[r].pc # "done",
         out' = Append(out, Response(c, r, w)),
         calls' = [calls EXCEPT ![r] = [client |-> c, pc |-> "done"]],
         late' \subseteq late \cup {r}, r \in late' => c \in closed /\ w = "500",
         UNCHANGED <<current_id, creating, impls, box, tds, held, answers, closed, stray, bad,
                     destroying>>
  PROVE  IInv'
<1> DEFINE m == Response(c, r, w)
<1>1. /\ Types /\ ImplsOK /\ BoxOK /\ CallsOK /\ ReportsOK /\ ClosedOK
      /\ OnePlace /\ LateOK /\ Accounted /\ ~bad /\ ~stray
  BY DEF IInv
<1>2. m \in Responses /\ m.id = r /\ m.what = w /\ r # 0 /\ <<m>> \in Seq(Responses)
  BY RequestIdAssumption DEF Response, Responses, Words
<1>3. out' = out \o <<m>> /\ out' \in Seq(Responses)
  BY <1>1, <1>2, AppendIsConcat, AppendProperties DEF Types
<1>4. Queue' = Queue \o <<m>> /\ Queue \in Seq(Responses) /\ Queue \o <<m>> = Append(Queue, m)
  BY <1>1, <1>2, <1>3, QueueGrows, QueueFacts, AppendIsConcat
<1>5. /\ Len(Queue) \in Nat /\ DOMAIN Queue = 1 .. Len(Queue) /\ DOMAIN Queue' = 1 .. Len(Queue) + 1
      /\ \A k \in 1 .. Len(Queue) : Queue'[k] = Queue[k]
      /\ Queue'[Len(Queue) + 1] = m
  BY <1>2, <1>4, AppendFacts
<1>6. /\ calls'[r] = [client |-> c, pc |-> "done"]
      /\ \A q \in Requests : q # r => calls'[q] = calls[q]
      /\ calls' \in [Requests -> [client : 0 .. Clients, pc : {"idle", "create", "finish", "done"}]]
  BY <1>1, ClientManagerAssumption DEF Types, Ids
<1> HIDE DEF m
<1>7. Types'
  BY <1>1, <1>3, <1>6 DEF Types
<1>8. ImplsOK' /\ BoxOK' /\ ClosedOK'
  BY <1>1 DEF ImplsOK, BoxOK, ClosedOK, Known, Started
<1>9. CallsOK'
  BY <1>1, <1>6 DEF CallsOK, Known
<1>10. ReportsOK'
  <2>1. \A k \in DOMAIN <<m>> : <<m>>[k].id # 0
    BY <1>2
  <2> QED
    BY <1>1, <1>2, <1>4, <2>1, ReportsSaid DEF ReportsOK
<1>11. \A q : q # r => Replies(q)' = Replies(q)
  <2> SUFFICES ASSUME NEW q, q # r PROVE Replies(q)' = Replies(q)
    OBVIOUS
  <2>1. \A k \in DOMAIN <<m>> : <<m>>[k].id # q
    BY <1>2
  <2> QED
    BY <1>2, <1>4, <2>1, RepliesSaid DEF Replies
<1>12. Unanswered(r) /\ \A d \in Ids : r \notin tds[d].pending /\ Waits(r, d) = {}
  BY <1>1 DEF OnePlace, PlaceOK
<1>13. Replies(r)' = {Len(Queue) + 1}
  <2>1. Replies(r) = {}
    BY <1>12 DEF Unanswered
  <2> QED
    BY <1>2, <1>5, <2>1 DEF Replies, RepliesIn
<1>14. \A d \in Ids : \A q : Waits(q, d)' = Waits(q, d)
  BY DEF Waits
<1>15. OnePlace'
  <2> SUFFICES ASSUME NEW q \in Requests PROVE PlaceOK(q)'
    BY DEF OnePlace
  <2>1. CASE q # r
    <3>1. PlaceOK(q) /\ calls'[q] = calls[q] /\ answers'[q] = answers[q]
      BY <1>1, <1>6, <2>1 DEF OnePlace
    <3>2. Alike(Replies(q), Replies(q)') /\ \A d \in Ids : Alike(Waits(q, d), Waits(q, d)')
      BY <1>11, <1>14, <2>1 DEF Alike
    <3> QED
      BY <3>1, <3>2, PlaceKept
  <2>2. CASE q = r
    <3>1. answers'[r] = << >> /\ Len(answers'[r]) <= 1
      BY <1>12, EmptySeq DEF Unanswered
    <3> QED
      BY <1>6, <1>12, <1>13, <1>14, <2>2, <3>1 DEF PlaceOK
  <2> QED
    BY <2>1, <2>2
<1>16. LateOK'
  <2> SUFFICES ASSUME NEW q \in late' PROVE RefusedOnly(q)'
    BY DEF LateOK
  <2>1. CASE q # r
    <3>1. q \in late /\ q \in Requests
      BY <1>1, <2>1 DEF Types
    <3>2. \A k \in Replies(q) : Queue'[k] = Queue[k]
      BY <1>5 DEF Replies, RepliesIn
    <3> QED
      BY <1>1, <1>6, <1>11, <2>1, <3>1, <3>2, RefusedKept DEF LateOK
  <2>2. CASE q = r
    <3>1. answers'[r] = << >>
      BY <1>12 DEF Unanswered
    <3>2. Queue'[Len(Queue) + 1].what = "500" /\ c \in closed'
      BY <1>2, <1>5, <2>2
    <3> QED
      BY <1>6, <1>13, <2>2, <3>1, <3>2, EmptySeq DEF RefusedOnly
  <2> QED
    BY <2>1, <2>2
<1>17. Accounted'
  <2> SUFFICES ASSUME NEW q \in Requests \ Closes PROVE SomePlace(q)'
    BY DEF Accounted
  <2>1. CASE q # r
    <3>1. SomePlace(q) /\ (calls[q].pc = "done" => calls[q].client \in Ids)
      BY <1>1 DEF Accounted, CallsOK
    <3>2. Alike(Replies(q), Replies(q)') /\ \A d \in Ids : Alike(Waits(q, d), Waits(q, d)')
      BY <1>11, <1>14, <2>1 DEF Alike
    <3> QED
      BY <1>1, <1>6, <2>1, <3>1, <3>2, SomePlaceKept
  <2>2. CASE q = r
    BY <1>13, <2>2 DEF SomePlace, Unanswered
  <2> QED
    BY <2>1, <2>2
<1> QED
  BY <1>1, <1>7, <1>8, <1>9, <1>10, <1>15, <1>16, <1>17 DEF IInv

\* send hands the request over to MultiTd.
LEMMA AcceptInv ==
  ASSUME IInv, NEW r \in Requests, NEW c \in Ids,
         ~destroying, calls[r].pc # "done", Known(c), impls[c].impl, ~impls[c].is_closed,
         box' = [box EXCEPT ![c] = Append(@, <<"send", r>>)],
         calls' = [calls EXCEPT ![r] = [client |-> c, pc |-> "done"]],
         UNCHANGED <<current_id, creating, impls, tds, out, held, answers, late, closed, stray, bad,
                     destroying>>
  PROVE  IInv'
<1> DEFINE x == <<"send", r>>
<1>1. /\ Types /\ ImplsOK /\ BoxOK /\ CallsOK /\ ReportsOK /\ ClosedOK
      /\ OnePlace /\ LateOK /\ Accounted /\ ~bad /\ ~stray
  BY DEF IInv
<1>2. x \in Call /\ x # <<"create">> /\ x # <<"close">> /\ \A q : <<"send", q>> = x => q = r
  BY CallFacts DEF Call
<1>3. /\ box[c] \in Seq(Call) /\ box'[c] = Append(box[c], x)
      /\ \A d \in Ids : d # c => box'[d] = box[d]
  BY <1>1 DEF Types
<1> HIDE DEF x
<1>4. /\ Append(box[c], x) \in Seq(Call) /\ Append(box[c], x) # << >>
      /\ Len(box[c]) \in Nat /\ DOMAIN box[c] = 1 .. Len(box[c])
      /\ DOMAIN Append(box[c], x) = 1 .. Len(box[c]) + 1
      /\ \A k \in 1 .. Len(box[c]) : Append(box[c], x)[k] = box[c][k]
      /\ Append(box[c], x)[Len(box[c]) + 1] = x
  BY <1>2, <1>3, AppendFacts
<1>5. /\ calls'[r] = [client |-> c, pc |-> "done"]
      /\ \A q \in Requests : q # r => calls'[q] = calls[q]
      /\ calls' \in [Requests -> [client : 0 .. Clients, pc : {"idle", "create", "finish", "done"}]]
  BY <1>1, ClientManagerAssumption DEF Types, Ids
<1>6. Started(c) /\ ~tds[c].hung /\ \A k \in DOMAIN box[c] : box[c][k] # <<"close">>
  BY <1>1 DEF ImplsOK
<1>7. \A q \in Requests : \A d \in Ids : d # c \/ q # r => Waits(q, d)' = Waits(q, d)
  <2> SUFFICES ASSUME NEW q \in Requests, NEW d \in Ids, d # c \/ q # r
               PROVE  Waits(q, d)' = Waits(q, d)
    OBVIOUS
  <2>1. CASE d # c
    BY <1>3, <2>1 DEF Waits
  <2>2. CASE d = c
    <3>1. x # <<"send", q>>
      BY <1>2, <2>2
    <3>2. WaitsIn(Append(box[c], x), q) = WaitsIn(box[c], q)
      BY <1>2, <1>3, <3>1, WaitsAppend
    <3> QED
      BY <1>3, <2>2, <3>2 DEF Waits
  <2> QED
    BY <2>1, <2>2
<1>8. Unanswered(r) /\ \A d \in Ids : r \notin tds[d].pending /\ Waits(r, d) = {}
  BY <1>1 DEF OnePlace, PlaceOK
<1>9. Waits(r, c)' = {Len(box[c]) + 1}
  <2>1. WaitsIn(Append(box[c], x), r) = WaitsIn(box[c], r) \cup {Len(box[c]) + 1}
    BY <1>2, <1>3, WaitsAppend DEF x
  <2> QED
    BY <1>3, <1>8, <2>1 DEF Waits
<1>10. Queue' = Queue /\ \A q : Replies(q)' = Replies(q)
  BY DEF Queue, Replies
<1>11. Types'
  <2>1. box' \in [Ids -> Seq(Call)]
    BY <1>1, <1>3, <1>4 DEF Types
  <2> QED
    BY <1>1, <1>5, <2>1 DEF Types
<1>12. ImplsOK'
  <2> SUFFICES ASSUME NEW d \in Ids
               PROVE  /\ d \in creating \/ d >= current_id => ~Known(d) /\ ~Started(d)'
                      /\ Known(d) => (impls[d].impl <=> Started(d)')
                      /\ Known(d) /\ impls[d].is_closed /\ ~impls[d].impl => destroying
                      /\ Known(d) /\ ~impls[d].is_closed =>
                           ~tds[d].hung /\ \A k \in DOMAIN box'[d] : box'[d][k] # <<"close">>
                      /\ Started(d)' => Known(d) \/ tds[d].state = "gone"
    BY DEF ImplsOK, Known
  <2>1. CASE d # c
    BY <1>1, <1>3, <2>1 DEF ImplsOK, Started
  <2>2. CASE d = c
    <3>1. Started(c)'
      BY <1>3, <1>4 DEF Started
    <3>2. \A k \in DOMAIN box'[c] : box'[c][k] # <<"close">>
      BY <1>2, <1>3, <1>4, <1>6
    <3>3. ~(c \in creating \/ c >= current_id)
      BY <1>1 DEF ImplsOK
    <3> QED
      BY <1>6, <2>2, <3>1, <3>2, <3>3
  <2> QED
    BY <2>1, <2>2
<1>13. BoxOK'
  <2> SUFFICES ASSUME NEW d \in Ids PROVE BoxIn(box'[d], tds[d])
    BY DEF BoxOK
  <2>1. CASE d # c
    BY <1>1, <1>3, <2>1 DEF BoxOK
  <2>2. CASE d = c
    <3>1. ~(box[c] = << >> /\ tds[c].state = "none")
      BY <1>6 DEF Started
    <3> QED
      BY <1>1, <1>2, <1>3, <1>6, <2>2, <3>1, BoxAppend DEF BoxOK
  <2> QED
    BY <2>1, <2>2
<1>14. CallsOK'
  BY <1>1, <1>5 DEF CallsOK, Known
<1>15. ReportsOK' /\ ClosedOK'
  BY <1>1, <1>10 DEF ReportsOK, ClosedOK, Known
<1>16. OnePlace'
  <2> SUFFICES ASSUME NEW q \in Requests PROVE PlaceOK(q)'
    BY DEF OnePlace
  <2>1. CASE q # r
    <3>1. PlaceOK(q) /\ calls'[q] = calls[q] /\ answers'[q] = answers[q]
      BY <1>1, <1>5, <2>1 DEF OnePlace
    <3>2. Alike(Replies(q), Replies(q)') /\ \A d \in Ids : Alike(Waits(q, d), Waits(q, d)')
      BY <1>7, <1>10, <2>1 DEF Alike
    <3> QED
      BY <3>1, <3>2, PlaceKept
  <2>2. CASE q = r
    <3>1. answers'[r] = << >> /\ Len(answers'[r]) <= 1 /\ Replies(r)' = {} /\ Unanswered(r)'
      BY <1>8, <1>10, EmptySeq DEF Unanswered
    <3>2. \A d \in Ids : Waits(r, d)' # {} => d = c
      BY <1>7, <1>8
    <3> QED
      BY <1>5, <1>8, <1>9, <2>2, <3>1, <3>2 DEF PlaceOK
  <2> QED
    BY <2>1, <2>2
<1>17. LateOK'
  <2> SUFFICES ASSUME NEW q \in late PROVE RefusedOnly(q)'
    BY DEF LateOK
  <2>1. q \in Requests /\ RefusedOnly(q) /\ q # r
    BY <1>1 DEF Types, LateOK, RefusedOnly
  <2> QED
    BY <1>5, <1>10, <2>1, RefusedKept
<1>18. Accounted'
  <2> SUFFICES ASSUME NEW q \in Requests \ Closes PROVE SomePlace(q)'
    BY DEF Accounted
  <2>1. CASE q # r
    <3>1. SomePlace(q) /\ (calls[q].pc = "done" => calls[q].client \in Ids)
      BY <1>1 DEF Accounted, CallsOK
    <3>2. Alike(Replies(q), Replies(q)') /\ \A d \in Ids : Alike(Waits(q, d), Waits(q, d)')
      BY <1>7, <1>10, <2>1 DEF Alike
    <3> QED
      BY <1>1, <1>5, <2>1, <3>1, <3>2, SomePlaceKept
  <2>2. CASE q = r
    BY <1>5, <1>9, <2>2 DEF SomePlace, Waits
  <2> QED
    BY <2>1, <2>2
<1> QED
  BY <1>1, <1>11, <1>12, <1>13, <1>14, <1>15, <1>16, <1>17, <1>18 DEF IInv

\* The last section of send.
LEMMA FinishInv ==
  ASSUME IInv, NEW r \in Requests, NEW c \in Ids, Finish(r, c),
         ~destroying, calls[r].pc # "done", Known(c) => impls[c].impl,
         late' = late \/ late' = IF c \in closed THEN late \cup {r} ELSE late,
         UNCHANGED <<current_id, creating, impls, tds, held, answers, closed, stray, bad, destroying>>
  PROVE  IInv'
<1>1. late \subseteq Requests /\ \A q \in late : calls[q].pc = "done"
  BY DEF IInv, Types, LateOK, RefusedOnly
<1>2. CASE Refused(c)
  BY <1>1, <1>2, RefuseInv DEF Finish
<1>3. CASE ~Refused(c)
  <2>1. Known(c) /\ impls[c].impl /\ ~impls[c].is_closed
    BY <1>3 DEF Refused
  <2>2. late' = late
    BY <2>1 DEF IInv, ClosedOK
  <2> QED
    BY <1>3, <2>1, <2>2, AcceptInv DEF Finish
<1> QED
  BY <1>2, <1>3

LEMMA SendFinishInv ==
  ASSUME IInv, NEW r \in Requests, SendFinish(r)
  PROVE  IInv'
<1> DEFINE c == calls[r].client
<1>1. c \in Ids /\ ~destroying /\ (Known(c) => impls[c].impl) /\ calls[r].pc # "done"
  BY DEF IInv, CallsOK, SendFinish
<1> QED
  BY <1>1, FinishInv DEF SendFinish

\* The call waits for the write lock: nothing else changes.
LEMMA WaitForLockInv ==
  ASSUME IInv, NEW r \in Requests, NEW c \in Ids, ~destroying, calls[r].pc = "idle",
         Known(c), ~impls[c].impl, late' = late,
         calls' = [calls EXCEPT ![r] = [client |-> c, pc |-> "create"]],
         UNCHANGED <<current_id, creating, impls, box, tds, out, held, answers, closed, stray, bad,
                     destroying>>
  PROVE  IInv'
<1>1. /\ Types /\ ImplsOK /\ BoxOK /\ CallsOK /\ ReportsOK /\ ClosedOK
      /\ OnePlace /\ LateOK /\ Accounted /\ ~bad /\ ~stray
  BY DEF IInv
<1>2. /\ calls'[r] = [client |-> c, pc |-> "create"]
      /\ \A q \in Requests : q # r => calls'[q] = calls[q]
      /\ calls' \in [Requests -> [client : 0 .. Clients, pc : {"idle", "create", "finish", "done"}]]
  BY <1>1, ClientManagerAssumption DEF Types, Ids
<1>3. Queue' = Queue /\ (\A q : Replies(q)' = Replies(q)) /\ \A q : \A d : Waits(q, d)' = Waits(q, d)
  BY DEF Queue, Replies, Waits
<1>4. Types'
  BY <1>1, <1>2 DEF Types
<1>5. ImplsOK' /\ BoxOK' /\ ReportsOK' /\ ClosedOK'
  BY <1>1, <1>3 DEF ImplsOK, BoxOK, ReportsOK, ClosedOK, Known, Started
<1>6. CallsOK'
  <2>1. c < current_id /\ c \notin creating
    BY <1>1, ClientManagerAssumption DEF ImplsOK, Types, Ids
  <2> QED
    BY <1>1, <1>2, <2>1 DEF CallsOK, Known
<1>7. OnePlace'
  <2> SUFFICES ASSUME NEW q \in Requests PROVE PlaceOK(q)'
    BY DEF OnePlace
  <2>1. PlaceOK(q) /\ answers'[q] = answers[q]
    BY <1>1 DEF OnePlace
  <2>2. Alike(Replies(q), Replies(q)') /\ \A d \in Ids : Alike(Waits(q, d), Waits(q, d)')
    BY <1>3 DEF Alike
  <2>3. CASE q # r
    BY <1>2, <2>1, <2>2, <2>3, PlaceKept
  <2>4. CASE q = r
    <3>1. Unanswered(r) /\ \A d \in Ids : r \notin tds[d].pending /\ Waits(r, d) = {}
      BY <1>1 DEF OnePlace, PlaceOK
    <3>2. Unanswered(r)' /\ \A d \in Ids : r \notin tds'[d].pending /\ Waits(r, d)' = {}
      BY <1>3, <3>1 DEF Unanswered
    <3>3. Len(answers'[r]) <= 1 /\ Replies(r)' = {}
      BY <3>2, EmptySeq DEF Unanswered
    <3> QED
      BY <2>4, <3>2, <3>3 DEF PlaceOK
  <2> QED
    BY <2>3, <2>4
<1>8. LateOK'
  <2> SUFFICES ASSUME NEW q \in late PROVE RefusedOnly(q)'
    BY DEF LateOK
  <2>1. q \in Requests /\ RefusedOnly(q) /\ q # r
    BY <1>1 DEF Types, LateOK, RefusedOnly
  <2> QED
    BY <1>2, <1>3, <2>1, RefusedKept
<1>9. Accounted'
  <2> SUFFICES ASSUME NEW q \in Requests \ Closes PROVE SomePlace(q)'
    BY DEF Accounted
  <2>1. CASE q # r
    <3>1. SomePlace(q) /\ (calls[q].pc = "done" => calls[q].client \in Ids)
      BY <1>1 DEF Accounted, CallsOK
    <3>2. Alike(Replies(q), Replies(q)') /\ \A d \in Ids : Alike(Waits(q, d), Waits(q, d)')
      BY <1>3 DEF Alike
    <3> QED
      BY <1>1, <1>2, <2>1, <3>1, <3>2, SomePlaceKept
  <2>2. CASE q = r
    BY <1>2, <2>2 DEF SomePlace
  <2> QED
    BY <2>1, <2>2
<1> QED
  BY <1>1, <1>4, <1>5, <1>6, <1>7, <1>8, <1>9 DEF IInv

LEMMA SendInv ==
  ASSUME IInv, NEW r \in Requests, NEW c \in Ids, Send(r, c)
  PROVE  IInv'
<1>1. ~destroying /\ calls[r].pc = "idle" /\ late' = IF c \in closed THEN late \cup {r} ELSE late
  BY DEF Send
<1>2. /\ UNCHANGED <<current_id, creating, impls, tds, held, answers, closed, stray, bad, destroying>>
  BY DEF Send
<1>3. \A d \in closed : ~Known(d) /\ d < current_id
  <2> SUFFICES ASSUME NEW d \in closed PROVE ~Known(d) /\ d < current_id
    OBVIOUS
  <2>1. d \in Ids /\ tds[d].state = "gone" /\ ~Known(d) /\ current_id \in Nat
    BY ClientManagerAssumption DEF IInv, Types, ClosedOK
  <2>2. ~(d >= current_id)
    BY <2>1 DEF IInv, ImplsOK, Started
  <2> QED
    BY <2>1, <2>2 DEF Ids
<1>4. CASE c >= current_id
  <2>1. c \notin closed /\ late' = late
    <3>1. current_id \in Nat /\ c \in Nat
      BY ClientManagerAssumption DEF IInv, Types, Ids
    <3> QED
      BY <1>1, <1>3, <1>4, <3>1
  <2>2. r \notin late'
    BY <1>1, <2>1 DEF IInv, LateOK, RefusedOnly
  <2> QED
    BY <1>1, <1>2, <1>4, <2>1, <2>2, RefuseInv DEF Send
<1>5. CASE ~(c >= current_id) /\ Known(c) /\ ~impls[c].impl
  <2>1. late' = late
    BY <1>1, <1>3, <1>5
  <2> QED
    BY <1>1, <1>2, <1>5, <2>1, WaitForLockInv DEF Send
<1>6. CASE ~(c >= current_id) /\ ~(Known(c) /\ ~impls[c].impl)
  BY <1>1, <1>2, <1>6, FinishInv DEF Send
<1> QED
  BY <1>4, <1>5, <1>6

LEMMA ReceiveNextInv ==
  ASSUME IInv, ReceiveNext
  PROVE  IInv'
<1>1. /\ Types /\ ImplsOK /\ BoxOK /\ CallsOK /\ ReportsOK /\ ClosedOK
      /\ OnePlace /\ LateOK /\ Accounted /\ ~bad /\ ~stray
  BY DEF IInv
<1>2. UNCHANGED <<current_id, creating, impls, calls, box, tds, answers, late, closed, stray, bad,
                  destroying>>
  BY DEF ReceiveNext
<1>3. Queue' = Queue /\ held' \in Seq(Responses) /\ out' \in Seq(Responses) /\ Len(held') = 1
  BY <1>1, QueueShifts
<1>4. Types'
  BY <1>1, <1>2, <1>3 DEF Types
<1>5. ImplsOK' /\ BoxOK' /\ CallsOK' /\ ReportsOK' /\ ClosedOK'
  BY <1>1, <1>2, <1>3 DEF ImplsOK, BoxOK, CallsOK, ReportsOK, ClosedOK, Known, Started
<1>6. LateOK'
  BY <1>1, <1>2, <1>3 DEF LateOK, RefusedOnly, Replies
<1>7. OnePlace' /\ Accounted'
  BY <1>1, <1>2, <1>3, RequestsUnmoved
<1> QED
  BY <1>1, <1>2, <1>4, <1>5, <1>6, <1>7 DEF IInv

\* The second section of send.
LEMMA SendCreateInv ==
  ASSUME IInv, NEW r \in Requests, SendCreate(r)
  PROVE  IInv'
<1> DEFINE x == <<"create">>
<1> SUFFICES ASSUME NEW c, c = calls[r].client PROVE IInv'
  OBVIOUS
<1>1. /\ Types /\ ImplsOK /\ BoxOK /\ CallsOK /\ ReportsOK /\ ClosedOK
      /\ OnePlace /\ LateOK /\ Accounted /\ ~bad /\ ~stray
  BY DEF IInv
<1>2. /\ UNCHANGED <<current_id, creating, tds, out, held, answers, late, closed, stray, bad, destroying>>
      /\ calls[r].pc = "create"
  BY DEF SendCreate
<1>3. c \in Ids /\ c < current_id /\ c \notin creating /\ ~destroying
  BY <1>1, <1>2 DEF CallsOK
<1>4. /\ calls'[r] = [client |-> c, pc |-> "finish"]
      /\ \A q \in Requests : q # r => calls'[q] = calls[q]
      /\ calls' \in [Requests -> [client : 0 .. Clients, pc : {"idle", "create", "finish", "done"}]]
  BY <1>1 DEF SendCreate, Types
<1>5. x \in Call /\ x # <<"close">> /\ (\A q : x # <<"send", q>>) /\ x = <<"create">>
  BY CallFacts DEF Call
<1>6. Queue' = Queue /\ \A q : Replies(q)' = Replies(q)
  BY <1>2 DEF Queue, Replies
<1>7. \A d \in Ids : box[d] \in Seq(Call)
  BY <1>1 DEF Types
<1> HIDE DEF x
<1>8. CASE MustCreate(c)
  <2>1. Known(c) /\ ~impls[c].impl /\ ~impls[c].is_closed
    BY <1>1, <1>3, <1>8 DEF MustCreate, ImplsOK
  <2>2. box[c] = << >> /\ tds[c].state = "none" /\ ~tds[c].hung
    BY <1>1, <1>3, <2>1 DEF ImplsOK, Started
  <2>0. impls' = [impls EXCEPT ![c].impl = TRUE] /\ box' = [box EXCEPT ![c] = Append(@, x)]
    BY <1>8 DEF SendCreate, x
  <2>3. /\ box'[c] = Append(box[c], x) /\ \A d \in Ids : d # c => box'[d] = box[d]
        /\ DOMAIN impls' = DOMAIN impls /\ impls'[c].impl = TRUE
        /\ impls'[c].is_closed = impls[c].is_closed
        /\ \A d \in DOMAIN impls : d # c => impls'[d] = impls[d]
    BY <1>1, <1>3, <2>0, <2>1 DEF Types, Known
  <2>4. /\ Append(box[c], x) \in Seq(Call) /\ Append(box[c], x) # << >>
        /\ DOMAIN Append(box[c], x) = 1 .. Len(box[c]) + 1 /\ Append(box[c], x)[Len(box[c]) + 1] = x
        /\ Len(box[c]) = 0
    BY <1>3, <1>5, <1>7, <2>2, AppendFacts, EmptySeq
  <2>5. Types'
    <3>1. box' \in [Ids -> Seq(Call)]
      BY <1>1, <1>3, <2>0, <2>4 DEF Types
    <3>2. impls' \in [DOMAIN impls' -> [impl : BOOLEAN, is_closed : BOOLEAN]]
      BY <1>1, <2>0, <2>1 DEF Types, Known
    <3> QED
      BY <1>1, <1>2, <1>4, <2>3, <3>1, <3>2 DEF Types
  <2>6. ImplsOK'
    <3> SUFFICES ASSUME NEW d \in Ids
                 PROVE  /\ d \in creating \/ d >= current_id => ~Known(d) /\ ~Started(d)'
                        /\ Known(d) => (impls'[d].impl <=> Started(d)')
                        /\ Known(d) /\ impls'[d].is_closed /\ ~impls'[d].impl => destroying
                        /\ Known(d) /\ ~impls'[d].is_closed =>
                             ~tds[d].hung /\ \A k \in DOMAIN box'[d] : box'[d][k] # <<"close">>
                        /\ Started(d)' => Known(d) \/ tds[d].state = "gone"
      BY <1>2, <2>3 DEF ImplsOK, Known
    <3>1. CASE d # c
      BY <1>1, <1>2, <2>3, <3>1 DEF ImplsOK, Started, Known
    <3>2. CASE d = c
      <4>1. Started(c)'
        BY <2>3, <2>4 DEF Started
      <4>2. \A k \in DOMAIN box'[c] : box'[c][k] # <<"close">>
        BY <1>5, <2>3, <2>4
      <4>3. ~(c >= current_id)
        BY <1>1, <1>3, <2>1 DEF ImplsOK
      <4> QED
        BY <1>3, <2>1, <2>2, <2>3, <3>2, <4>1, <4>2, <4>3
    <3> QED
      BY <3>1, <3>2
  <2>7. BoxOK'
    <3> SUFFICES ASSUME NEW d \in Ids PROVE BoxIn(box'[d], tds[d])
      BY <1>2 DEF BoxOK
    <3>1. CASE d # c
      BY <1>1, <2>3, <3>1 DEF BoxOK
    <3>2. CASE d = c
      <4>1. \A k \in DOMAIN box[c] : box[c][k] # <<"close">>
        BY <2>2, EmptySeq
      <4>2. box[c] \in Seq(Call) /\ BoxIn(box[c], tds[c])
        BY <1>1, <1>3, <1>7 DEF BoxOK
      <4>3. BoxIn(Append(box[c], x), tds[c])
        BY <1>5, <2>2, <4>1, <4>2, BoxAppend
      <4> QED
        BY <2>3, <3>2, <4>3
    <3> QED
      BY <3>1, <3>2
  <2>8. CallsOK'
    BY <1>1, <1>2, <1>3, <1>4, <2>3 DEF CallsOK, Known
  <2>9. ReportsOK' /\ ClosedOK'
    <3>1. \A k \in DOMAIN Queue : Queue[k].id = 0 /\ Queue[k].client \in DOMAIN impls =>
            /\ Queue[k].client \in DOMAIN impls'
            /\ tds[Queue[k].client].state # "none" => tds'[Queue[k].client].state # "none"
            /\ Queue[k].what = Nothing /\ impls[Queue[k].client].is_closed =>
                 /\ impls'[Queue[k].client].is_closed
                 /\ ~impls[Queue[k].client].impl => ~impls'[Queue[k].client].impl
                 /\ tds[Queue[k].client].state = "gone" => tds'[Queue[k].client].state = "gone"
      BY <1>2, <2>1, <2>3
    <3>2. ReportsOK'
      BY <1>1, <1>6, <3>1, QueueFacts, ReportsLast DEF ReportsOK
    <3> QED
      BY <1>1, <1>2, <2>3, <3>2 DEF ClosedOK, Known
  <2>10. \A q \in Requests : Untouched(q)
    <3> SUFFICES ASSUME NEW q \in Requests PROVE Untouched(q)
      OBVIOUS
    <3>1. \A d \in Ids : Waits(q, d)' = Waits(q, d)
      <4> SUFFICES ASSUME NEW d \in Ids PROVE Waits(q, d)' = Waits(q, d)
        OBVIOUS
      <4>1. x # <<"send", q>> /\ box[c] \in Seq(Call) /\ x \in Call
        BY <1>3, <1>5, <1>7
      <4>2. WaitsIn(Append(box[c], x), q) = WaitsIn(box[c], q)
        BY <4>1, WaitsAppend
      <4> QED
        BY <2>3, <4>2 DEF Waits
    <3>2. calls'[q].client = calls[q].client /\ (calls'[q].pc = "done" <=> calls[q].pc = "done")
      BY <1>2, <1>4
    <3> QED
      BY <1>2, <1>6, <3>1, <3>2 DEF Untouched, Alike
  <2>11. OnePlace' /\ Accounted' /\ LateOK'
    BY <1>1, <1>2, <2>10, RequestsKept
  <2> QED
    BY <1>1, <1>2, <2>5, <2>6, <2>7, <2>8, <2>9, <2>11 DEF IInv
<1>9. CASE ~MustCreate(c)
  <2>1. impls' = impls /\ box' = box
    BY <1>9 DEF SendCreate
  <2>2. Types'
    BY <1>1, <1>2, <1>4, <2>1 DEF Types
  <2>3. ImplsOK' /\ BoxOK' /\ ReportsOK' /\ ClosedOK'
    BY <1>1, <1>2, <1>6, <2>1 DEF ImplsOK, BoxOK, ReportsOK, ClosedOK, Known, Started
  <2>4. CallsOK'
    BY <1>1, <1>2, <1>3, <1>4, <1>9, <2>1 DEF CallsOK, Known, MustCreate
  <2>5. \A q \in Requests : Untouched(q)
    <3> SUFFICES ASSUME NEW q \in Requests PROVE Untouched(q)
      OBVIOUS
    <3>1. \A d \in Ids : Waits(q, d)' = Waits(q, d)
      BY <2>1 DEF Waits
    <3>2. calls'[q].client = calls[q].client /\ (calls'[q].pc = "done" <=> calls[q].pc = "done")
      BY <1>2, <1>4
    <3> QED
      BY <1>2, <1>6, <3>1, <3>2 DEF Untouched, Alike
  <2>6. OnePlace' /\ Accounted' /\ LateOK'
    BY <1>1, <1>2, <2>5, RequestsKept
  <2> QED
    BY <1>1, <1>2, <2>2, <2>3, <2>4, <2>6 DEF IInv
<1> QED
  BY <1>8, <1>9

\* MultiTd takes a call: its CHECKs hold.
LEMMA MultiTdStepInv ==
  ASSUME IInv, NEW c \in Ids, MultiTdStep(c)
  PROVE  IInv'
<1> DEFINE s == box[c]
           m == Head(box[c])
           td == tds[c]
<1>1. /\ Types /\ ImplsOK /\ BoxOK /\ CallsOK /\ ReportsOK /\ ClosedOK
      /\ OnePlace /\ LateOK /\ Accounted /\ ~bad /\ ~stray
  BY DEF IInv
<1>2. /\ UNCHANGED <<current_id, creating, impls, calls, out, held, answers, late, closed, stray,
                     destroying>>
      /\ s # << >>
  BY DEF MultiTdStep
<1>3. s \in Seq(Call) /\ td \in Instance /\ BoxIn(s, td)
  BY <1>1 DEF Types, BoxOK
<1>4. /\ Tail(s) \in Seq(Call) /\ m = s[1] /\ m \in Call
      /\ Len(s) \in Nat \ {0} /\ DOMAIN s = 1 .. Len(s)
      /\ Len(Tail(s)) = Len(s) - 1 /\ DOMAIN Tail(s) = 1 .. Len(s) - 1
      /\ \A k \in 1 .. Len(s) - 1 : Tail(s)[k] = s[k + 1]
  BY <1>2, <1>3, TailFacts
<1>5. /\ box'[c] = Tail(s) /\ \A d \in Ids : d # c => box'[d] = box[d]
      /\ tds'[c] = MultiTd(td, m) /\ \A d \in Ids : d # c => tds'[d] = tds[d]
  BY <1>1 DEF MultiTdStep, Types
<1> HIDE DEF s, m, td
<1>6. ~td.hung /\ td.state # "gone" /\ (m = <<"create">> <=> td.state = "none")
      /\ (m = <<"close">> => Len(s) = 1)
  <2>1. 1 \in DOMAIN s /\ s[1] = m
    BY <1>4
  <2>2. ~td.hung /\ td.state # "gone"
    BY <1>2, <1>3 DEF BoxIn
  <2>3. (m = <<"create">> <=> td.state = "none") /\ (m = <<"close">> => 1 = Len(s))
    BY <1>3, <2>1 DEF BoxIn
  <2> QED
    BY <2>2, <2>3
<1>7. m = <<"create">> \/ m = <<"close">> \/ \E r \in Requests : m = <<"send", r>>
  BY <1>4 DEF Call
<1>8. /\ m = <<"create">> => MultiTd(td, m) = [td EXCEPT !.state = "open"]
      /\ m = <<"close">> => MultiTd(td, m) = [td EXCEPT !.hung = TRUE]
      /\ \A r : m = <<"send", r>> => MultiTd(td, m) = [td EXCEPT !.pending = @ \cup {r}]
  BY CallFacts DEF MultiTd
<1>9. Expects(td, m)
  <2>1. (m = <<"create">> => m[1] = "create") /\ (m # <<"create">> => m[1] # "create")
    BY <1>7, CallFacts
  <2> QED
    BY <1>6, <2>1 DEF Expects
<1>10. bad' = FALSE
  BY <1>1, <1>9 DEF MultiTdStep, m, td, s
<1>11. /\ tds'[c] \in Instance /\ tds'[c].state # "none" /\ tds'[c].state # "gone"
       /\ tds'[c].hung <=> m = <<"close">>
       /\ tds'[c].state # td.state => td.state = "none"
       /\ m # <<"create">> => tds'[c].state = td.state
  <2>1. CASE m = <<"create">>
    BY <1>3, <1>5, <1>6, <1>8, <2>1, CallFacts DEF Instance
  <2>2. CASE m = <<"close">>
    <3>1. tds'[c] = [td EXCEPT !.hung = TRUE] /\ m # <<"create">>
      BY <1>5, <1>8, <2>2, CallFacts
    <3> QED
      BY <1>3, <1>6, <2>2, <3>1 DEF Instance
  <2>3. CASE \E r \in Requests : m = <<"send", r>>
    <3> PICK r \in Requests : m = <<"send", r>>
      BY <2>3
    <3>1. tds'[c] = [td EXCEPT !.pending = @ \cup {r}] /\ m # <<"create">> /\ m # <<"close">>
      BY <1>5, <1>8, CallFacts
    <3> QED
      BY <1>3, <1>6, <3>1 DEF Instance
  <2> QED
    BY <1>7, <2>1, <2>2, <2>3
<1>12. /\ \A r : (r \in tds'[c].pending <=> r \in td.pending \/ m = <<"send", r>>)
  <2>1. CASE m = <<"create">>
    BY <1>3, <1>5, <1>8, <2>1, CallFacts DEF Instance
  <2>2. CASE m = <<"close">>
    BY <1>3, <1>5, <1>8, <2>2, CallFacts DEF Instance
  <2>3. CASE \E r \in Requests : m = <<"send", r>>
    <3> PICK r \in Requests : m = <<"send", r>>
      BY <2>3
    <3>1. tds'[c] = [td EXCEPT !.pending = @ \cup {r}] /\ \A q : m = <<"send", q>> <=> q = r
      BY <1>5, <1>8, CallFacts
    <3> QED
      BY <1>3, <3>1 DEF Instance
  <2> QED
    BY <1>7, <2>1, <2>2, <2>3
<1>13. Types'
  <2>1. box' \in [Ids -> Seq(Call)] /\ tds' \in [Ids -> Instance]
    <3>1. box' = [box EXCEPT ![c] = Tail(s)] /\ tds' = [tds EXCEPT ![c] = tds'[c]]
      BY <1>1, <1>5 DEF MultiTdStep, Types, s
    <3> QED
      BY <1>1, <1>4, <1>11, <3>1 DEF Types
  <2> QED
    BY <1>1, <1>2, <1>10, <2>1 DEF Types
<1>14. ImplsOK'
  <2> SUFFICES ASSUME NEW d \in Ids
               PROVE  /\ d \in creating \/ d >= current_id => ~Known(d) /\ ~Started(d)'
                      /\ Known(d) => (impls[d].impl <=> Started(d)')
                      /\ Known(d) /\ impls[d].is_closed /\ ~impls[d].impl => destroying
                      /\ Known(d) /\ ~impls[d].is_closed =>
                           ~tds'[d].hung /\ \A k \in DOMAIN box'[d] : box'[d][k] # <<"close">>
                      /\ Started(d)' => Known(d) \/ tds'[d].state = "gone"
    BY <1>2 DEF ImplsOK, Known
  <2>1. CASE d # c
    BY <1>1, <1>2, <1>5, <2>1 DEF ImplsOK, Started, Known
  <2>2. CASE d = c
    <3>1. Started(c) /\ Started(c)' /\ Known(c)
      <4>1. Started(c)
        BY <1>2 DEF Started, s
      <4> QED
        BY <1>1, <1>6, <1>11, <4>1 DEF Started, ImplsOK, td
    <3>2. ASSUME ~impls[c].is_closed
          PROVE  ~tds'[c].hung /\ \A k \in DOMAIN box'[c] : box'[c][k] # <<"close">>
      <4>1. \A k \in DOMAIN s : s[k] # <<"close">>
        BY <1>1, <3>1, <3>2 DEF ImplsOK, s
      <4>2. m # <<"close">> /\ \A k \in DOMAIN Tail(s) : Tail(s)[k] # <<"close">>
        BY <1>4, <4>1
      <4> QED
        BY <1>5, <1>11, <4>2
    <3> QED
      BY <1>1, <2>2, <3>1, <3>2 DEF ImplsOK
  <2> QED
    BY <2>1, <2>2
<1>15. BoxOK'
  <2> SUFFICES ASSUME NEW d \in Ids PROVE BoxIn(box'[d], tds'[d])
    BY DEF BoxOK
  <2>1. CASE d # c
    BY <1>1, <1>5, <2>1 DEF BoxOK
  <2>2. CASE d = c
    <3>1. ASSUME m = <<"close">> PROVE Tail(s) = << >>
      <4>1. Len(Tail(s)) = 0
        <5>1. Len(s) = 1 /\ Len(Tail(s)) = Len(s) - 1
          BY <1>4, <1>6, <3>1
        <5>2. 1 - 1 = 0
          OBVIOUS
        <5> QED
          BY <5>1, <5>2
      <4> QED
        BY <1>4, <4>1, EmptySeq
    <3>2. ASSUME NEW k \in DOMAIN Tail(s)
          PROVE  Tail(s)[k] # <<"create">> /\ (Tail(s)[k] = <<"close">> => k = Len(Tail(s)))
      <4>1. k + 1 \in DOMAIN s /\ k + 1 # 1 /\ Tail(s)[k] = s[k + 1]
        BY <1>4
      <4>2. s[k + 1] # <<"create">> /\ (s[k + 1] = <<"close">> => k + 1 = Len(s))
        BY <1>3, <4>1 DEF BoxIn
      <4> QED
        BY <1>4, <4>1, <4>2
    <3> QED
      BY <1>5, <1>11, <2>2, <3>1, <3>2 DEF BoxIn
  <2> QED
    BY <2>1, <2>2
<1>16. CallsOK'
  BY <1>1, <1>2 DEF CallsOK, Known
<1>17. Queue' = Queue /\ \A q : Replies(q)' = Replies(q)
  BY <1>2 DEF Queue, Replies
<1>18. \A d \in Ids : /\ tds[d].state # "none" => tds'[d].state # "none"
                      /\ tds[d].state = "gone" => tds'[d].state = "gone"
  BY <1>5, <1>6, <1>11 DEF td
<1>19. ReportsOK'
  <2>1. \A k \in DOMAIN Queue : Queue[k].id = 0 /\ Queue[k].client \in DOMAIN impls => Queue[k].client \in Ids
    BY <1>1, ClientManagerAssumption DEF Types, Ids
  <2> QED
    BY <1>1, <1>2, <1>17, <1>18, <2>1, QueueFacts, ReportsLast DEF ReportsOK
<1>20. ClosedOK'
  BY <1>1, <1>2, <1>18 DEF ClosedOK, Types, Known
<1>21. ASSUME NEW q \in Requests, m # <<"send", q>> PROVE Untouched(q)
  <2>1. \A d \in Ids : Alike(Waits(q, d), Waits(q, d)')
    <3> SUFFICES ASSUME NEW d \in Ids PROVE Alike(Waits(q, d), Waits(q, d)')
      OBVIOUS
    <3>1. CASE d # c
      BY <1>5, <3>1 DEF Waits, Alike
    <3>2. CASE d = c
      <4>1. Alike(WaitsIn(s, q), WaitsIn(Tail(s), q))
        BY <1>2, <1>3, <1>4, <1>21, WaitsTail DEF s
      <4> QED
        BY <1>5, <3>2, <4>1 DEF Waits, s
    <3> QED
      BY <3>1, <3>2
  <2>2. \A d \in Ids : q \in tds'[d].pending <=> q \in tds[d].pending
    BY <1>5, <1>12, <1>21 DEF td
  <2>3. Alike(Replies(q), Replies(q)')
    BY <1>17 DEF Alike
  <2> QED
    BY <1>2, <1>17, <2>1, <2>2, <2>3 DEF Untouched
<1>22. CASE \A q \in Requests : m # <<"send", q>>
  <2>1. OnePlace' /\ Accounted' /\ LateOK'
    BY <1>1, <1>2, <1>21, <1>22, RequestsKept
  <2> QED
    BY <1>1, <1>2, <1>10, <1>13, <1>14, <1>15, <1>16, <1>19, <1>20, <2>1 DEF IInv
<1>23. ASSUME NEW r \in Requests, m = <<"send", r>> PROVE IInv'
  <2>1. /\ c = calls[r].client /\ Unanswered(r) /\ r \notin td.pending /\ calls[r].pc = "done"
        /\ \A j, k \in Waits(r, c) : j = k
        /\ 1 \in Waits(r, c)
    <3>1. 1 \in Waits(r, c)
      <4>1. 1 \in DOMAIN s /\ s[1] = <<"send", r>>
        BY <1>4, <1>23
      <4> QED
        BY <4>1 DEF Waits, WaitsIn, s
    <3> QED
      BY <1>1, <3>1 DEF OnePlace, PlaceOK, td
  <2>2. Waits(r, c)' = {}
    <3>1. WaitsIn(Tail(s), r) = {}
      <4>1. s[1] = <<"send", r>> /\ \A j, k \in WaitsIn(s, r) : j = k
        BY <1>4, <1>23, <2>1 DEF Waits, s
      <4> QED
        BY <1>2, <1>3, <4>1, WaitsTail
    <3> QED
      BY <1>5, <3>1 DEF Waits
  <2>3. r \in tds'[c].pending /\ Unanswered(r)'
    BY <1>2, <1>12, <1>17, <1>23, <2>1 DEF Unanswered
  <2>4. \A d \in Ids : d # c => Waits(r, d)' = {} /\ r \notin tds'[d].pending
    <3> SUFFICES ASSUME NEW d \in Ids, d # c PROVE Waits(r, d)' = {} /\ r \notin tds'[d].pending
      OBVIOUS
    <3>1. Waits(r, d) = {} /\ r \notin tds[d].pending
      BY <1>1, <2>1 DEF OnePlace, PlaceOK
    <3> QED
      BY <1>5, <3>1 DEF Waits
  <2>5. \A q \in Requests : q # r => Untouched(q)
    <3> SUFFICES ASSUME NEW q \in Requests, q # r PROVE Untouched(q)
      OBVIOUS
    <3>1. m # <<"send", q>>
      BY <1>23, CallFacts
    <3> QED
      BY <1>21, <3>1
  <2>6. OnePlace'
    <3> SUFFICES ASSUME NEW q \in Requests PROVE PlaceOK(q)'
      BY DEF OnePlace
    <3>1. CASE q # r
      <4>1. PlaceOK(q) /\ Untouched(q)
        BY <1>1, <2>5, <3>1 DEF OnePlace
      <4> QED
        BY <4>1, PlaceKept DEF Untouched
    <3>2. CASE q = r
      <4>1. calls'[r] = calls[r] /\ Replies(r)' = {} /\ Len(answers'[r]) <= 1
        BY <1>2, <2>3, EmptySeq DEF Unanswered
      <4> QED
        BY <2>1, <2>2, <2>3, <2>4, <3>2, <4>1 DEF PlaceOK
    <3> QED
      BY <3>1, <3>2
  <2>7. LateOK'
    BY <1>1, <1>2, <1>17 DEF LateOK, RefusedOnly
  <2>8. Accounted'
    <3> SUFFICES ASSUME ~destroying, NEW q \in Requests \ Closes PROVE SomePlace(q)'
      BY <1>2 DEF Accounted
    <3>1. CASE q # r
      <4>1. SomePlace(q) /\ Untouched(q) /\ (calls[q].pc = "done" => calls[q].client \in Ids)
        BY <1>1, <2>5, <3>1 DEF Accounted, CallsOK
      <4> QED
        BY <1>1, <4>1, SomePlaceKept DEF Untouched
    <3>2. CASE q = r
      BY <1>2, <2>1, <2>3, <3>2 DEF SomePlace
    <3> QED
      BY <3>1, <3>2
  <2> QED
    BY <1>1, <1>2, <1>10, <1>13, <1>14, <1>15, <1>16, <1>19, <1>20, <2>6, <2>7, <2>8 DEF IInv
<1> QED
  BY <1>22, <1>23

\* What an instance does to itself: it keeps running, or ends when it was let go.
LEMMA SaysFacts ==
  ASSUME IInv, NEW c \in Ids, NEW td \in Instance, NEW ms \in Seq(Responses), Says(c, td, ms),
         tds[c].state \in {"open", "closing", "closed"}, td.state # "none",
         td.hung = tds[c].hung, td.state = "gone" => td.hung /\ td.pending = {}
  PROVE  /\ Types' /\ ImplsOK' /\ BoxOK' /\ CallsOK' /\ ClosedOK' /\ ~bad' /\ ~stray'
         /\ tds'[c] = td /\ \A d \in Ids : d # c => tds'[d] = tds[d]
         /\ Queue' = Queue \o ms /\ Queue \in Seq(Responses) /\ c \notin closed
         /\ UNCHANGED <<current_id, creating, impls, calls, box, held, answers, late, closed,
                        destroying>>
<1>1. /\ Types /\ ImplsOK /\ BoxOK /\ CallsOK /\ ClosedOK /\ ~bad /\ ~stray
  BY DEF IInv
<1>2. /\ UNCHANGED <<current_id, creating, impls, calls, box, held, answers, late, closed, stray, bad,
                     destroying>>
      /\ tds' = [tds EXCEPT ![c] = td] /\ out' = out \o ms
  BY DEF Says
<1>3. tds'[c] = td /\ (\A d \in Ids : d # c => tds'[d] = tds[d]) /\ tds' \in [Ids -> Instance]
  BY <1>1, <1>2 DEF Types
<1>4. Queue' = Queue \o ms /\ Queue \in Seq(Responses) /\ out' \in Seq(Responses)
  BY <1>1, <1>2, QueueGrows, QueueFacts, ConcatProperties DEF Types
<1>5. Types'
  BY <1>1, <1>2, <1>3, <1>4 DEF Types
<1>6. c \notin closed /\ ClosedOK'
  BY <1>1, <1>2, <1>3 DEF ClosedOK, Types, Known
<1>7. CallsOK'
  BY <1>1, <1>2 DEF CallsOK, Known
<1>8. BoxOK'
  <2> SUFFICES ASSUME NEW d \in Ids PROVE BoxIn(box[d], tds'[d])
    BY <1>2 DEF BoxOK
  <2>1. BoxIn(box[d], tds[d])
    BY <1>1 DEF BoxOK
  <2>2. CASE d # c
    BY <1>3, <2>1, <2>2
  <2>3. CASE d = c
    BY <1>3, <2>1, <2>3 DEF BoxIn
  <2> QED
    BY <2>2, <2>3
<1>9. ImplsOK'
  <2> SUFFICES ASSUME NEW d \in Ids
               PROVE  /\ d \in creating \/ d >= current_id => ~Known(d) /\ ~Started(d)'
                      /\ Known(d) => (impls[d].impl <=> Started(d)')
                      /\ Known(d) /\ impls[d].is_closed /\ ~impls[d].impl => destroying
                      /\ Known(d) /\ ~impls[d].is_closed =>
                           ~tds'[d].hung /\ \A k \in DOMAIN box[d] : box[d][k] # <<"close">>
                      /\ Started(d)' => Known(d) \/ tds'[d].state = "gone"
    BY <1>2 DEF ImplsOK, Known
  <2>1. Started(d)' <=> Started(d)
    BY <1>2, <1>3 DEF Started
  <2>2. tds'[d].hung = tds[d].hung /\ (tds[d].state = "gone" => tds'[d].state = "gone")
    BY <1>3
  <2> QED
    BY <1>1, <2>1, <2>2 DEF ImplsOK
<1> QED
  BY <1>1, <1>2, <1>3, <1>4, <1>5, <1>6, <1>7, <1>8, <1>9

LEMMA ReportInv ==
  ASSUME IInv, NEW c \in Ids, NEW td \in Instance, NEW ms \in Seq(Responses), Says(c, td, ms),
         tds[c].state \in {"open", "closing", "closed"}, td.state # "none",
         td.hung = tds[c].hung, td.state = "gone" => td.hung /\ td.pending = {},
         td.pending \subseteq tds[c].pending, tds[c].pending \subseteq td.pending \cup Closes,
         Len(ms) <= 1,
         \A k \in DOMAIN ms :
           ms[k].id = 0 /\ ms[k].client = c /\ (ms[k].what = Nothing => td.state = "gone")
  PROVE  IInv'
<1>1. /\ Types /\ ImplsOK /\ BoxOK /\ CallsOK /\ ReportsOK /\ ClosedOK
      /\ OnePlace /\ LateOK /\ Accounted
  BY DEF IInv
<1>2. /\ Types' /\ ImplsOK' /\ BoxOK' /\ CallsOK' /\ ClosedOK' /\ ~bad' /\ ~stray'
      /\ tds'[c] = td /\ \A d \in Ids : d # c => tds'[d] = tds[d]
  BY SaysFacts
<1>3. /\ Queue' = Queue \o ms /\ Queue \in Seq(Responses) /\ c \notin closed
      /\ UNCHANGED <<current_id, creating, impls, calls, box, held, answers, late, closed,
                     destroying>>
  BY SaysFacts
<1>4. Known(c) /\ impls[c].impl /\ (tds[c].hung => impls[c].is_closed)
  BY <1>1 DEF ImplsOK, Started
<1>5. ReportsOK'
  <2>1. \A d \in Ids : /\ tds[d].state # "none" => tds'[d].state # "none"
                       /\ tds[d].state = "gone" => tds'[d].state = "gone"
    BY <1>2
  <2>2. \A k \in DOMAIN Queue : Queue[k].id = 0 /\ Queue[k].client \in DOMAIN impls => Queue[k].client \in Ids
    BY <1>1, ClientManagerAssumption DEF Types, Ids
  <2>3. ReportsIn(Queue, impls, tds')
    BY <1>1, <1>3, <2>1, <2>2, ReportsLast DEF ReportsOK
  <2>4. \A j \in DOMAIN Queue : Queue[j].id = 0 /\ Queue[j].client = c => Queue[j].what # Nothing
    BY <1>1, <1>4 DEF ReportsOK, ReportsIn
  <2>5. \A k \in DOMAIN ms : \A j \in DOMAIN ms : j <= k
    <3>1. Len(ms) \in Nat /\ DOMAIN ms = 1 .. Len(ms)
      BY LenProperties
    <3> QED
      BY <3>1
  <2>6. \A k \in DOMAIN ms : ms[k].id = 0 =>
          /\ ms[k].client \in DOMAIN impls
          /\ ms[k].what # Nothing => tds'[ms[k].client].state # "none"
          /\ \A j \in DOMAIN Queue :
               Queue[j].id = 0 /\ Queue[j].client = ms[k].client => Queue[j].what # Nothing
          /\ ms[k].what = Nothing =>
               /\ impls[ms[k].client].is_closed
               /\ tds'[ms[k].client].state = "gone" \/ ~impls[ms[k].client].impl
               /\ \A j \in DOMAIN ms : ms[j].id = 0 /\ ms[j].client = ms[k].client => j <= k
    BY <1>2, <1>4, <2>4, <2>5 DEF Known
  <2> QED
    BY <1>3, <2>3, <2>6, ReportsSaid DEF ReportsOK
<1>6. \A q \in Requests : Untouched(q)
  <2> SUFFICES ASSUME NEW q \in Requests PROVE Untouched(q)
    OBVIOUS
  <2>1. \A k \in DOMAIN ms : ms[k].id # q
    BY RequestIdAssumption
  <2>2. Replies(q)' = Replies(q) /\ \A k \in Replies(q) : Queue'[k] = Queue[k]
    <3>1. /\ RepliesIn(Queue \o ms, q) = RepliesIn(Queue, q)
          /\ \A k \in RepliesIn(Queue, q) : (Queue \o ms)[k] = Queue[k]
      <4>1. Queue \in Seq(Responses)
        BY <1>3
      <4> QED
        BY <2>1, <4>1, RepliesSaid, Zenon
    <3> QED
      BY <1>3, <3>1 DEF Replies
  <2>3. \A d \in Ids : Waits(q, d)' = Waits(q, d)
    BY <1>3 DEF Waits
  <2>4. \A d \in Ids : /\ q \in tds'[d].pending => q \in tds[d].pending
                       /\ q \in tds[d].pending /\ q \notin Closes => q \in tds'[d].pending
    BY <1>2
  <2>5. Alike(Replies(q), Replies(q)') /\ \A d \in Ids : Alike(Waits(q, d), Waits(q, d)')
    BY <2>2, <2>3 DEF Alike
  <2>6. /\ calls'[q] = calls[q] /\ answers'[q] = answers[q]
        /\ (\A k \in Replies(q) : Queue[k].what = "500")
             => (\A k \in Replies(q)' : Queue'[k].what = "500")
    BY <1>3, <2>2
  <2> QED
    BY <2>4, <2>5, <2>6 DEF Untouched
<1>7. OnePlace' /\ Accounted' /\ LateOK'
  BY <1>1, <1>3, <1>6, RequestsKept
<1> QED
  BY <1>2, <1>5, <1>7 DEF IInv

LEMMA TdUpdatesInv ==
  ASSUME IInv, NEW c \in Ids, TdUpdates(c)
  PROVE  IInv'
<1> DEFINE td == [tds[c] EXCEPT !.updates = @ + 1]
           m == Response(c, 0, "update")
<1>1. tds[c] \in Instance /\ (tds[c].state = "gone" => tds[c].hung /\ tds[c].pending = {})
  BY DEF IInv, Types, BoxOK, BoxIn
<1>2. tds[c].state \in {"open", "closing"} /\ tds[c].updates < Updates /\ Says(c, td, <<m>>)
  BY DEF TdUpdates
<1>3. /\ td \in Instance /\ td.state = tds[c].state /\ td.hung = tds[c].hung
      /\ td.pending = tds[c].pending
  BY <1>1, <1>2, ClientManagerAssumption DEF Instance
<1>4. /\ m \in Responses /\ m.id = 0 /\ m.client = c /\ m.what # Nothing
  BY DEF Response, Responses, Reports, Nothing
<1> HIDE DEF td, m
<1>5. <<m>> \in Seq(Responses) /\ Len(<<m>>) <= 1 /\ \A k \in DOMAIN <<m>> : <<m>>[k] = m
  BY <1>4
<1>6. /\ tds[c].state \in {"open", "closing", "closed"} /\ td.state # "none"
      /\ td.state = "gone" => td.hung /\ td.pending = {}
  BY <1>2, <1>3
<1>7. \A k \in DOMAIN <<m>> :
        <<m>>[k].id = 0 /\ <<m>>[k].client = c /\ (<<m>>[k].what = Nothing => td.state = "gone")
  BY <1>4, <1>5
<1>8. /\ td.pending \subseteq tds[c].pending /\ tds[c].pending \subseteq td.pending \cup Closes
      /\ td.hung = tds[c].hung /\ td \in Instance /\ Says(c, td, <<m>>)
      /\ <<m>> \in Seq(Responses) /\ Len(<<m>>) <= 1
  BY <1>2, <1>3, <1>5
<1> HIDE <1>2, <1>3, <1>4, <1>5
<1> QED
  BY <1>6, <1>7, <1>8, ReportInv

LEMMA TdBeginsToCloseInv ==
  ASSUME IInv, NEW c \in Ids, TdBeginsToClose(c)
  PROVE  IInv'
<1> DEFINE td == [tds[c] EXCEPT !.state = "closing"]
<1>1. tds[c] \in Instance
  BY DEF IInv, Types
<1>2. tds[c].state = "open" /\ Says(c, td, << >>)
  BY DEF TdBeginsToClose
<1>3. td \in Instance /\ td.state = "closing" /\ td.hung = tds[c].hung /\ td.pending = tds[c].pending
  BY <1>1 DEF Instance
<1> HIDE DEF td
<1>4. << >> \in Seq(Responses) /\ Len(<< >>) <= 1 /\ DOMAIN << >> = {}
  BY EmptySeq
<1> QED
  BY <1>1, <1>2, <1>3, <1>4, ReportInv

LEMMA TdClosedInv ==
  ASSUME IInv, NEW c \in Ids, TdClosed(c)
  PROVE  IInv'
<1> DEFINE td == [tds[c] EXCEPT !.state = "closed"]
           m == Response(c, 0, "Closed")
<1>1. tds[c] \in Instance
  BY DEF IInv, Types
<1>2. tds[c].state = "closing" /\ Says(c, td, <<m>>)
  BY DEF TdClosed
<1>3. td \in Instance /\ td.state = "closed" /\ td.hung = tds[c].hung /\ td.pending = tds[c].pending
  BY <1>1 DEF Instance
<1>4. m \in Responses /\ m.id = 0 /\ m.client = c /\ m.what # Nothing
  BY DEF Response, Responses, Reports, Nothing
<1> HIDE DEF td, m
<1>5. <<m>> \in Seq(Responses) /\ Len(<<m>>) <= 1 /\ \A k \in DOMAIN <<m>> : <<m>>[k] = m
  BY <1>4
<1> QED
  BY <1>1, <1>2, <1>3, <1>4, <1>5, ReportInv

LEMMA TdStopsInv ==
  ASSUME IInv, NEW c \in Ids, TdStops(c)
  PROVE  IInv'
<1> DEFINE td == [tds[c] EXCEPT !.state = "gone", !.pending = {}]
           m == Response(c, 0, Nothing)
<1>1. tds[c] \in Instance
  BY DEF IInv, Types
<1>2. /\ tds[c].state = "closed" /\ tds[c].hung /\ tds[c].pending \subseteq Closes
      /\ Says(c, td, <<m>>)
  BY DEF TdStops
<1>3. td \in Instance /\ td.state = "gone" /\ td.hung = tds[c].hung /\ td.pending = {}
  BY <1>1 DEF Instance
<1>4. m \in Responses /\ m.id = 0 /\ m.client = c
  BY DEF Response, Responses, Reports
<1> HIDE DEF td, m
<1>5. <<m>> \in Seq(Responses) /\ Len(<<m>>) <= 1 /\ \A k \in DOMAIN <<m>> : <<m>>[k] = m
  BY <1>4
<1> QED
  BY <1>1, <1>2, <1>3, <1>4, <1>5, ReportInv

\* An instance answers a request.
LEMMA TdAnswersInv ==
  ASSUME IInv, NEW c \in Ids, NEW r \in Requests, TdAnswers(c, r)
  PROVE  IInv'
<1>1. /\ Types /\ ImplsOK /\ BoxOK /\ CallsOK /\ ReportsOK /\ ClosedOK
      /\ OnePlace /\ LateOK /\ Accounted
  BY DEF IInv
<1>2. tds[c] \in Instance /\ r \in tds[c].pending /\ tds[c].state \in {"open", "closing", "closed"}
  BY <1>1 DEF Types, TdAnswers
<1>3. \E td \in Instance, w \in {"result", "500"} :
        /\ Says(c, td, <<Response(c, r, w)>>)
        /\ td.pending = tds[c].pending \ {r} /\ td.hung = tds[c].hung
        /\ td.state \in {"open", "closing", "closed"}
  <2> DEFINE td == [tds[c] EXCEPT !.pending = @ \ {r}]
  <2>1. /\ td \in Instance /\ td.pending = tds[c].pending \ {r} /\ td.hung = tds[c].hung
        /\ td.state = tds[c].state
    BY <1>2 DEF Instance
  <2>2. CASE tds[c].state = "open"
    <3> DEFINE u == [td EXCEPT !.state = IF r \in Closes THEN "closing" ELSE "open"]
    <3>1. Says(c, u, <<Response(c, r, "result")>>)
      BY <2>2 DEF TdAnswers
    <3>2. /\ u \in Instance /\ u.pending = tds[c].pending \ {r} /\ u.hung = tds[c].hung
          /\ u.state \in {"open", "closing", "closed"}
      BY <2>1 DEF Instance
    <3> HIDE DEF u
    <3> QED
      BY <3>1, <3>2
  <2>3. CASE tds[c].state # "open"
    <3> DEFINE w == IF r \in Closes THEN "result" ELSE "500"
    <3>1. Says(c, td, <<Response(c, r, w)>>)
      BY <2>3 DEF TdAnswers
    <3>2. w \in {"result", "500"}
      OBVIOUS
    <3> HIDE DEF td, w
    <3> QED
      BY <1>2, <2>1, <3>1, <3>2
  <2> QED
    BY <2>2, <2>3
<1> PICK td \in Instance, w \in {"result", "500"} :
        /\ Says(c, td, <<Response(c, r, w)>>)
        /\ td.pending = tds[c].pending \ {r} /\ td.hung = tds[c].hung
        /\ td.state \in {"open", "closing", "closed"}
  BY <1>3
<1> DEFINE m == Response(c, r, w)
<1>4. m \in Responses /\ m.id = r /\ m.id # 0
  BY RequestIdAssumption DEF Response, Responses, Words
<1>5. Says(c, td, <<m>>)
  OBVIOUS
<1> HIDE DEF m
<1>6. <<m>> \in Seq(Responses) /\ \A k \in DOMAIN <<m>> : <<m>>[k] = m
  BY <1>4
<1>7. td.state # "none" /\ (td.state = "gone" => td.hung /\ td.pending = {})
  OBVIOUS
<1>8. /\ Types' /\ ImplsOK' /\ BoxOK' /\ CallsOK' /\ ClosedOK' /\ ~bad' /\ ~stray'
      /\ tds'[c] = td /\ \A d \in Ids : d # c => tds'[d] = tds[d]
  BY <1>2, <1>5, <1>6, <1>7, SaysFacts
<1>9. /\ Queue' = Queue \o <<m>> /\ Queue \in Seq(Responses) /\ c \notin closed
      /\ UNCHANGED <<current_id, creating, impls, calls, box, held, answers, late, closed,
                     destroying>>
  BY <1>2, <1>5, <1>6, <1>7, SaysFacts
<1>10. ReportsOK'
  <2>1. \A d \in Ids : /\ tds[d].state # "none" => tds'[d].state # "none"
                       /\ tds[d].state = "gone" => tds'[d].state = "gone"
    BY <1>2, <1>7, <1>8
  <2>2. \A k \in DOMAIN Queue : Queue[k].id = 0 /\ Queue[k].client \in DOMAIN impls => Queue[k].client \in Ids
    BY <1>1, ClientManagerAssumption DEF Types, Ids
  <2>3. ReportsIn(Queue, impls, tds')
    BY <1>1, <1>9, <2>1, <2>2, ReportsLast DEF ReportsOK
  <2>4. \A k \in DOMAIN <<m>> : <<m>>[k].id # 0
    BY <1>4, <1>6
  <2> QED
    BY <1>6, <1>9, <2>3, <2>4, ReportsSaid DEF ReportsOK
<1>11. c = calls[r].client /\ Unanswered(r) /\ calls[r].pc = "done" /\ Waits(r, c) = {}
  BY <1>1, <1>2 DEF OnePlace, PlaceOK
<1>12. Replies(r)' = {Len(Queue) + 1}
  <2>1. Replies(r) = {}
    BY <1>11 DEF Unanswered
  <2>2. /\ Len(Queue) \in Nat /\ DOMAIN Queue = 1 .. Len(Queue) /\ DOMAIN Queue' = 1 .. Len(Queue) + 1
        /\ \A k \in 1 .. Len(Queue) : Queue'[k] = Queue[k]
        /\ Queue'[Len(Queue) + 1] = m
    <3>1. Queue \o <<m>> = Append(Queue, m)
      BY <1>4, <1>9, AppendIsConcat
    <3> QED
      BY <1>4, <1>9, <3>1, AppendFacts
  <2> QED
    BY <1>4, <2>1, <2>2 DEF Replies, RepliesIn
<1>13. \A q \in Requests : q # r => Untouched(q)
  <2> SUFFICES ASSUME NEW q \in Requests, q # r PROVE Untouched(q)
    OBVIOUS
  <2>1. \A k \in DOMAIN <<m>> : <<m>>[k].id # q
    BY <1>4, <1>6
  <2>2. Replies(q)' = Replies(q) /\ \A k \in Replies(q) : Queue'[k] = Queue[k]
    <3>1. /\ RepliesIn(Queue \o <<m>>, q) = RepliesIn(Queue, q)
          /\ \A k \in RepliesIn(Queue, q) : (Queue \o <<m>>)[k] = Queue[k]
      BY <1>6, <1>9, <2>1, RepliesSaid
    <3> QED
      BY <1>9, <3>1 DEF Replies
  <2>3. \A d \in Ids : Waits(q, d)' = Waits(q, d)
    BY <1>9 DEF Waits
  <2>4. \A d \in Ids : q \in tds'[d].pending <=> q \in tds[d].pending
    BY <1>8
  <2>5. Alike(Replies(q), Replies(q)') /\ \A d \in Ids : Alike(Waits(q, d), Waits(q, d)')
    BY <2>2, <2>3 DEF Alike
  <2> QED
    BY <1>9, <2>2, <2>4, <2>5 DEF Untouched
<1>14. OnePlace'
  <2> SUFFICES ASSUME NEW q \in Requests PROVE PlaceOK(q)'
    BY DEF OnePlace
  <2>1. CASE q # r
    <3>1. PlaceOK(q) /\ Untouched(q)
      BY <1>1, <1>13, <2>1 DEF OnePlace
    <3> QED
      BY <3>1, PlaceKept DEF Untouched
  <2>2. CASE q = r
    <3>1. answers'[r] = << >> /\ Len(answers'[r]) <= 1 /\ calls'[r].pc = "done"
      BY <1>9, <1>11, EmptySeq DEF Unanswered
    <3>2. \A d \in Ids : Waits(r, d)' = {} /\ r \notin tds'[d].pending
      <4> SUFFICES ASSUME NEW d \in Ids PROVE Waits(r, d)' = {} /\ r \notin tds'[d].pending
        OBVIOUS
      <4>1. Waits(r, d)' = Waits(r, d)
        BY <1>9 DEF Waits
      <4>2. PlaceOK(r)
        BY <1>1 DEF OnePlace
      <4>3. d # c => Waits(r, d) = {} /\ r \notin tds[d].pending
        BY <1>11, <4>2 DEF PlaceOK
      <4> QED
        BY <1>8, <1>11, <4>1, <4>3
    <3> QED
      BY <1>12, <2>2, <3>1, <3>2 DEF PlaceOK
  <2> QED
    BY <2>1, <2>2
<1>15. LateOK'
  <2> SUFFICES ASSUME NEW q \in late PROVE RefusedOnly(q)'
    BY <1>9 DEF LateOK
  <2>1. q \in Requests /\ RefusedOnly(q)
    BY <1>1 DEF Types, LateOK
  <2>2. q # r
    BY <1>9, <1>11, <2>1 DEF RefusedOnly
  <2>3. Untouched(q)
    BY <1>13, <2>1, <2>2
  <2> QED
    BY <1>9, <2>1, <2>3, RefusedKept DEF Untouched
<1>16. Accounted'
  <2> SUFFICES ASSUME ~destroying, NEW q \in Requests \ Closes PROVE SomePlace(q)'
    BY <1>9 DEF Accounted
  <2>1. CASE q # r
    <3>1. SomePlace(q) /\ Untouched(q) /\ (calls[q].pc = "done" => calls[q].client \in Ids)
      BY <1>1, <1>13, <2>1 DEF Accounted, CallsOK
    <3> QED
      BY <1>1, <3>1, SomePlaceKept DEF Untouched
  <2>2. CASE q = r
    BY <1>12, <2>2 DEF SomePlace, Unanswered
  <2> QED
    BY <2>1, <2>2
<1> QED
  BY <1>8, <1>10, <1>14, <1>15, <1>16 DEF IInv

-----------------------------------------------------------------------------
\* close_impl and receive

\* The mailboxes that close_impl adds to, and those it leaves alone.
LEMMA ClosedBoxes ==
  ASSUME IInv, NEW cs, NEW keep, CloseImpl(cs, keep)
  PROVE  /\ box' \in [Ids -> Seq(Call)] /\ DOMAIN impls' = DOMAIN impls
         /\ impls' \in [DOMAIN impls' -> [impl : BOOLEAN, is_closed : BOOLEAN]]
         /\ \A c \in DOMAIN impls : impls'[c].impl = impls[c].impl
         /\ \A c \in DOMAIN impls : impls'[c].is_closed = (impls[c].is_closed \/ c \in ToClose(cs))
         /\ \A c \in Ids : ~(c \in ToClose(cs) /\ impls[c].impl) => box'[c] = box[c]
         /\ \A c \in Ids : c \in ToClose(cs) /\ impls[c].impl => box'[c] = Append(box[c], <<"close">>)
<1> DEFINE todo == ToClose(cs)
           empty == {c \in todo : ~impls[c].impl}
<1>1. /\ impls' = [c \in DOMAIN impls |-> IF c \in todo THEN [impls[c] EXCEPT !.is_closed = TRUE]
                                          ELSE impls[c]]
      /\ box' = [c \in Ids |-> IF c \in todo \ empty THEN Append(box[c], <<"close">>) ELSE box[c]]
  BY Zenon DEF CloseImpl
<1>2. /\ impls \in [DOMAIN impls -> [impl : BOOLEAN, is_closed : BOOLEAN]]
      /\ box \in [Ids -> Seq(Call)]
  BY DEF IInv, Types
<1>3. todo \subseteq DOMAIN impls
  BY DEF ToClose
<1> HIDE DEF todo
<1>4. \A c \in DOMAIN impls :
        /\ impls'[c] \in [impl : BOOLEAN, is_closed : BOOLEAN]
        /\ impls'[c].impl = impls[c].impl
        /\ impls'[c].is_closed = (impls[c].is_closed \/ c \in todo)
  <2> SUFFICES ASSUME NEW c \in DOMAIN impls
               PROVE  /\ impls'[c] \in [impl : BOOLEAN, is_closed : BOOLEAN]
                      /\ impls'[c].impl = impls[c].impl
                      /\ impls'[c].is_closed = (impls[c].is_closed \/ c \in todo)
    OBVIOUS
  <2>1. impls[c] \in [impl : BOOLEAN, is_closed : BOOLEAN]
    BY <1>2
  <2>2. CASE c \in todo
    BY <1>1, <2>1, <2>2
  <2>3. CASE c \notin todo
    BY <1>1, <2>1, <2>3
  <2> QED
    BY <2>2, <2>3
<1>5. DOMAIN impls' = DOMAIN impls /\ impls' \in [DOMAIN impls' -> [impl : BOOLEAN, is_closed : BOOLEAN]]
  BY <1>1, <1>4
<1>6. \A c \in Ids : /\ ~(c \in todo /\ impls[c].impl) => box'[c] = box[c]
                     /\ c \in todo /\ impls[c].impl => box'[c] = Append(box[c], <<"close">>)
  BY <1>1
<1>7. box' \in [Ids -> Seq(Call)]
  <2>1. <<"close">> \in Call
    BY DEF Call
  <2>2. \A c \in Ids : Append(box[c], <<"close">>) \in Seq(Call)
    BY <1>2, <2>1, AppendProperties
  <2> QED
    BY <1>1, <1>2, <2>2
<1> QED
  BY <1>4, <1>5, <1>6, <1>7 DEF todo

\* The clients that were never started are reported as gone, each once.
LEMMA ClosedReports ==
  ASSUME IInv, NEW cs, CloseImpl(cs, out)
  PROVE  \E ms \in Seq(Responses) :
           /\ out' = out \o ms
           /\ \A k \in DOMAIN ms :
                /\ ms[k].id = 0 /\ ms[k].what = Nothing
                /\ ms[k].client \in ToClose(cs) /\ ~impls[ms[k].client].impl
                /\ \A j \in DOMAIN ms : ms[j].client = ms[k].client => j = k
<1> DEFINE empty == {c \in ToClose(cs) : ~impls[c].impl}
<1>1. \E s \in {t \in [1 .. Cardinality(empty) -> empty] : IsInjective(t)} :
        out' = out \o [k \in DOMAIN s |-> Response(s[k], 0, Nothing)]
  BY Zenon DEF CloseImpl
<1>2. Cardinality(empty) \in Nat /\ empty \subseteq Ids
  <2>1. IsFiniteSet(Ids)
    BY ClientManagerAssumption, FS_Interval DEF Ids
  <2>2. empty \subseteq Ids
    BY ClientManagerAssumption DEF ToClose, IInv, Types, Ids
  <2>3. IsFiniteSet(empty)
    BY <2>1, <2>2, FS_Subset
  <2> QED
    BY <2>2, <2>3, FS_CardinalityType
<1> PICK s \in {t \in [1 .. Cardinality(empty) -> empty] : IsInjective(t)} :
      out' = out \o [k \in DOMAIN s |-> Response(s[k], 0, Nothing)]
  BY <1>1
<1> DEFINE n == Cardinality(empty)
           ms == [k \in DOMAIN s |-> Response(s[k], 0, Nothing)]
<1> HIDE DEF empty
<1>3. s \in [1 .. n -> empty] /\ IsInjective(s)
  OBVIOUS
<1>4. DOMAIN s = 1 .. n /\ n \in Nat
  BY <1>2, <1>3
<1>5. \A k \in 1 .. n : ms[k] = Response(s[k], 0, Nothing) /\ s[k] \in empty
  BY <1>3, <1>4
<1>6. ms \in Seq(Responses)
  <2>1. \A k \in 1 .. n : Response(s[k], 0, Nothing) \in Responses
    BY <1>2, <1>5 DEF Response, Responses, Reports
  <2>2. ms \in [1 .. n -> Responses]
    BY <1>4, <2>1
  <2> QED
    BY <1>4, <2>2, SeqDef
<1>7. DOMAIN ms = 1 .. n
  BY <1>4
<1>8. out' = out \o ms
  OBVIOUS
<1> HIDE DEF ms, n
<1>9. ASSUME NEW k \in DOMAIN ms
      PROVE  /\ ms[k].id = 0 /\ ms[k].what = Nothing
             /\ ms[k].client \in ToClose(cs) /\ ~impls[ms[k].client].impl
             /\ \A j \in DOMAIN ms : ms[j].client = ms[k].client => j = k
  <2>1. \A j \in DOMAIN ms : ms[j].id = 0 /\ ms[j].what = Nothing /\ ms[j].client = s[j] /\ s[j] \in empty
    BY <1>5, <1>7 DEF Response
  <2>2. \A j \in DOMAIN ms : s[j] = s[k] => j = k
    BY <1>3, <1>4, <1>7 DEF IsInjective
  <2> QED
    BY <2>1, <2>2 DEF empty
<1> QED
  BY <1>6, <1>8, <1>9

\* Reports are no replies.
LEMMA NoReplySaid ==
  ASSUME NEW q \in Seq(Responses), NEW ms \in Seq(Responses), NEW r \in Requests,
         \A k \in DOMAIN ms : ms[k].id = 0, Queue' = q \o ms, Alike(Replies(r), RepliesIn(q, r)),
         (\A k \in Replies(r) : Queue[k].what = "500") => (\A k \in RepliesIn(q, r) : q[k].what = "500")
  PROVE  /\ Alike(Replies(r), Replies(r)')
         /\ (\A k \in Replies(r) : Queue[k].what = "500")
              => (\A k \in Replies(r)' : Queue'[k].what = "500")
<1>1. \A k \in DOMAIN ms : ms[k].id # r
  BY RequestIdAssumption
<1>2. /\ RepliesIn(q \o ms, r) = RepliesIn(q, r)
      /\ \A k \in RepliesIn(q, r) : (q \o ms)[k] = q[k]
  BY <1>1, RepliesSaid
<1>3. Replies(r)' = RepliesIn(q, r) /\ \A k \in RepliesIn(q, r) : Queue'[k] = q[k]
  BY <1>2 DEF Replies
<1> QED
  BY <1>3

\* close_impl, when q is what is left to handle.
LEMMA CloseImplInv ==
  ASSUME IInv, NEW cs, CloseImpl(cs, out),
         NEW q \in Seq(Responses), ReportsIn(q, impls, tds),
         \A ms \in Seq(Responses) : out' = out \o ms => Queue' = q \o ms,
         held' \in Seq(Responses), Len(held') <= 1,
         \A r \in Requests :
           /\ Alike(Replies(r), RepliesIn(q, r))
           /\ (\A k \in Replies(r) : Queue[k].what = "500") => (\A k \in RepliesIn(q, r) : q[k].what = "500"),
         destroying' \in BOOLEAN, destroying => destroying',
         destroying' \/ \A c \in ToClose(cs) : impls[c].impl,
         destroying' => creating = {} /\ \A r \in Requests : calls[r].pc \in {"idle", "done"},
         ~bad', bad' \in BOOLEAN,
         UNCHANGED <<current_id, creating, calls, tds, answers, late, closed, stray>>
  PROVE  IInv'
<1> DEFINE todo == ToClose(cs)
           x == <<"close">>
<1>1. /\ Types /\ ImplsOK /\ BoxOK /\ CallsOK /\ ReportsOK /\ ClosedOK
      /\ OnePlace /\ LateOK /\ Accounted /\ ~stray
  BY DEF IInv
<1>2. /\ box' \in [Ids -> Seq(Call)] /\ DOMAIN impls' = DOMAIN impls
      /\ impls' \in [DOMAIN impls' -> [impl : BOOLEAN, is_closed : BOOLEAN]]
      /\ \A c \in DOMAIN impls : impls'[c].impl = impls[c].impl
      /\ \A c \in DOMAIN impls : impls'[c].is_closed = (impls[c].is_closed \/ c \in todo)
      /\ \A c \in Ids : ~(c \in todo /\ impls[c].impl) => box'[c] = box[c]
      /\ \A c \in Ids : c \in todo /\ impls[c].impl => box'[c] = Append(box[c], x)
  BY ClosedBoxes
<1>3. todo \subseteq DOMAIN impls /\ (\A c \in todo : ~impls[c].is_closed) /\ DOMAIN impls \subseteq Ids
  BY <1>1, ClientManagerAssumption DEF ToClose, Types, Ids
<1>4. \E ms \in Seq(Responses) :
        /\ out' = out \o ms
        /\ \A k \in DOMAIN ms :
             /\ ms[k].id = 0 /\ ms[k].what = Nothing
             /\ ms[k].client \in todo /\ ~impls[ms[k].client].impl
             /\ \A j \in DOMAIN ms : ms[j].client = ms[k].client => j = k
  BY ClosedReports
<1> PICK ms \in Seq(Responses) :
        /\ out' = out \o ms
        /\ \A k \in DOMAIN ms :
             /\ ms[k].id = 0 /\ ms[k].what = Nothing
             /\ ms[k].client \in todo /\ ~impls[ms[k].client].impl
             /\ \A j \in DOMAIN ms : ms[j].client = ms[k].client => j = k
  BY <1>4
<1>5. Queue' = q \o ms /\ out' \in Seq(Responses)
  BY <1>1, ConcatProperties DEF Types
<1>6. x \in Call /\ x # <<"create">> /\ (\A r : x # <<"send", r>>) /\ x = <<"close">>
  BY CallFacts DEF Call
<1>7. \A c \in Ids : box[c] \in Seq(Call) /\ BoxIn(box[c], tds[c])
  BY <1>1 DEF Types, BoxOK
<1> HIDE DEF todo, x
<1>8. ASSUME NEW c \in Ids, c \in todo, impls[c].impl
      PROVE  /\ ~tds[c].hung /\ (\A k \in DOMAIN box[c] : box[c][k] # <<"close">>) /\ Started(c)
             /\ box'[c] = Append(box[c], x) /\ Append(box[c], x) # << >>
  <2>1. Known(c) /\ ~impls[c].is_closed
    BY <1>3, <1>8 DEF Known
  <2>2. ~tds[c].hung /\ (\A k \in DOMAIN box[c] : box[c][k] # <<"close">>) /\ Started(c)
    BY <1>1, <1>8, <2>1 DEF ImplsOK
  <2>3. Append(box[c], x) # << >>
    <3>1. box[c] \in Seq(Call) /\ x \in Call
      BY <1>6, <1>7
    <3> QED
      BY <3>1, AppendProperties
  <2> QED
    BY <1>2, <1>8, <2>2, <2>3
<1>9. Types'
  BY <1>1, <1>2, <1>5 DEF Types
<1>10. ImplsOK'
  <2> SUFFICES ASSUME NEW d \in Ids
               PROVE  /\ d \in creating \/ d >= current_id => ~Known(d) /\ ~Started(d)'
                      /\ Known(d) => (impls'[d].impl <=> Started(d)')
                      /\ Known(d) /\ impls'[d].is_closed /\ ~impls'[d].impl => destroying'
                      /\ Known(d) /\ ~impls'[d].is_closed =>
                           ~tds[d].hung /\ \A k \in DOMAIN box'[d] : box'[d][k] # <<"close">>
                      /\ Started(d)' => Known(d) \/ tds[d].state = "gone"
    BY <1>2 DEF ImplsOK, Known
  <2>1. Started(d)' <=> Started(d)
    <3>1. CASE d \in todo /\ impls[d].impl
      BY <1>8, <3>1 DEF Started
    <3>2. CASE ~(d \in todo /\ impls[d].impl)
      BY <1>2, <3>2 DEF Started
    <3> QED
      BY <3>1, <3>2
  <2>2. Known(d) /\ ~impls'[d].is_closed => d \notin todo /\ ~impls[d].is_closed /\ box'[d] = box[d]
    BY <1>2 DEF Known
  <2>3. Known(d) /\ impls'[d].is_closed /\ ~impls'[d].impl => destroying'
    BY <1>1, <1>2 DEF Known, ImplsOK, todo
  <2>4. Known(d) => impls'[d].impl = impls[d].impl
    BY <1>2 DEF Known
  <2>5. /\ d \in creating \/ d >= current_id => ~Known(d) /\ ~Started(d)
        /\ Known(d) => (impls[d].impl <=> Started(d))
        /\ Known(d) /\ ~impls[d].is_closed =>
             ~tds[d].hung /\ \A k \in DOMAIN box[d] : box[d][k] # <<"close">>
        /\ Started(d) => Known(d) \/ tds[d].state = "gone"
    BY <1>1 DEF ImplsOK
  <2>6. Known(d) /\ ~impls'[d].is_closed =>
          ~tds[d].hung /\ \A k \in DOMAIN box'[d] : box'[d][k] # <<"close">>
    BY <2>2, <2>5
  <2>7. Known(d) => (impls'[d].impl <=> Started(d)')
    BY <2>1, <2>4, <2>5
  <2> QED
    BY <2>1, <2>3, <2>5, <2>6, <2>7
<1>11. BoxOK'
  <2> SUFFICES ASSUME NEW d \in Ids PROVE BoxIn(box'[d], tds[d])
    BY DEF BoxOK
  <2>1. CASE d \in todo /\ impls[d].impl
    <3>1. x # <<"create">> /\ ~(box[d] = << >> /\ tds[d].state = "none")
      BY <1>6, <1>8, <2>1 DEF Started
    <3>2. BoxIn(Append(box[d], x), tds[d])
      BY <1>6, <1>7, <1>8, <2>1, <3>1, BoxAppend
    <3> QED
      BY <1>8, <2>1, <3>2
  <2>2. CASE ~(d \in todo /\ impls[d].impl)
    BY <1>2, <1>7, <2>2
  <2> QED
    BY <2>1, <2>2
<1>12. CallsOK'
  BY <1>1, <1>2 DEF CallsOK, Known
<1>13. ReportsOK'
  <2>1. ReportsIn(q, impls', tds)
    BY <1>2, ReportsLast
  <2>2. \A k \in DOMAIN ms : \A j \in DOMAIN q :
          q[j].id = 0 /\ q[j].client = ms[k].client => q[j].what # Nothing
    BY <1>3 DEF ReportsIn
  <2>3. \A k \in DOMAIN ms : k \in Nat
    BY LenProperties
  <2>4. \A k \in DOMAIN ms : ms[k].id = 0 =>
          /\ ms[k].client \in DOMAIN impls'
          /\ ms[k].what # Nothing => tds[ms[k].client].state # "none"
          /\ \A j \in DOMAIN q : q[j].id = 0 /\ q[j].client = ms[k].client => q[j].what # Nothing
          /\ ms[k].what = Nothing =>
               /\ impls'[ms[k].client].is_closed
               /\ tds[ms[k].client].state = "gone" \/ ~impls'[ms[k].client].impl
               /\ \A j \in DOMAIN ms : ms[j].id = 0 /\ ms[j].client = ms[k].client => j <= k
    <3> SUFFICES ASSUME NEW k \in DOMAIN ms
                 PROVE  /\ ms[k].client \in DOMAIN impls'
                        /\ ms[k].what = Nothing
                        /\ \A j \in DOMAIN q :
                             q[j].id = 0 /\ q[j].client = ms[k].client => q[j].what # Nothing
                        /\ impls'[ms[k].client].is_closed /\ ~impls'[ms[k].client].impl
                        /\ \A j \in DOMAIN ms : ms[j].client = ms[k].client => j <= k
      OBVIOUS
    <3>1. \A j \in DOMAIN ms : ms[j].client = ms[k].client => j <= k
      <4>1. \A j \in DOMAIN ms : ms[j].client = ms[k].client => j = k
        OBVIOUS
      <4> QED
        BY <2>3, <4>1
    <3> QED
      BY <1>2, <1>3, <2>2, <3>1
  <2>5. ReportsIn(q \o ms, impls', tds)
    BY <2>1, <2>4, ReportsSaid
  <2> QED
    BY <1>5, <2>5 DEF ReportsOK
<1>14. ClosedOK'
  BY <1>1, <1>2 DEF ClosedOK, Known
<1>15. \A r \in Requests : Untouched(r)
  <2> SUFFICES ASSUME NEW r \in Requests PROVE Untouched(r)
    OBVIOUS
  <2>4. /\ Alike(Replies(r), Replies(r)')
        /\ (\A k \in Replies(r) : Queue[k].what = "500")
             => (\A k \in Replies(r)' : Queue'[k].what = "500")
    <3>1. \A k \in DOMAIN ms : ms[k].id = 0
      OBVIOUS
    <3> QED
      BY <1>5, <3>1, NoReplySaid
  <2>6. \A d \in Ids : Alike(Waits(r, d), Waits(r, d)')
    <3> SUFFICES ASSUME NEW d \in Ids PROVE Alike(Waits(r, d), Waits(r, d)')
      OBVIOUS
    <3>1. x # <<"send", r>> /\ box[d] \in Seq(Call) /\ x \in Call
      BY <1>6, <1>7
    <3>2. WaitsIn(Append(box[d], x), r) = WaitsIn(box[d], r)
      BY <3>1, WaitsAppend
    <3>3. box'[d] = box[d] \/ box'[d] = Append(box[d], x)
      BY <1>2
    <3> QED
      BY <3>2, <3>3 DEF Waits, Alike
  <2> QED
    BY <2>4, <2>6 DEF Untouched
<1>16. OnePlace' /\ Accounted' /\ LateOK'
  BY <1>1, <1>15, RequestsKept
<1> QED
  BY <1>1, <1>9, <1>10, <1>11, <1>12, <1>13, <1>14, <1>16 DEF IInv

LEMMA DestroyInv ==
  ASSUME IInv, Destroy
  PROVE  IInv'
<1>1. Types /\ ReportsOK /\ ~bad
  BY DEF IInv
<1>2. /\ ~destroying /\ creating = {} /\ destroying' = TRUE /\ CloseImpl(DOMAIN impls, out)
      /\ \A r \in Requests : calls[r].pc \in {"idle", "done"}
      /\ UNCHANGED <<current_id, creating, calls, tds, held, answers, late, closed, stray, bad>>
  BY DEF Destroy
<1>3. Queue \in Seq(Responses)
  BY <1>1, QueueFacts
<1>4. \A ms \in Seq(Responses) : out' = out \o ms => Queue' = Queue \o ms
  BY <1>1, <1>2, QueueGrows
<1>5. \A r \in Requests :
        /\ Alike(Replies(r), RepliesIn(Queue, r))
        /\ (\A k \in Replies(r) : Queue[k].what = "500")
             => (\A k \in RepliesIn(Queue, r) : Queue[k].what = "500")
  BY DEF Alike, Replies
<1>6. held' \in Seq(Responses) /\ Len(held') <= 1 /\ bad' \in BOOLEAN
  BY <1>1, <1>2 DEF Types
<1>7. ReportsIn(Queue, impls, tds)
  BY <1>1 DEF ReportsOK
<1> QED
  BY <1>1, <1>2, <1>3, <1>4, <1>5, <1>6, <1>7, CloseImplInv

\* receive takes what it holds; q is what is left.
LEMMA TakenFacts ==
  ASSUME Types, ReportsOK, held # << >>, held' = << >>
  PROVE  /\ Queue \in Seq(Responses) /\ Queue # << >> /\ Queue[1] = held[1] /\ held[1] \in Responses
         /\ 1 \in DOMAIN Queue
         /\ Tail(Queue) = out /\ out \in Seq(Responses) /\ held' \in Seq(Responses) /\ Len(held') <= 1
         /\ \A ms \in Seq(Responses) : out' = out \o ms => Queue' = out \o ms
         /\ out' = out => Queue' = out
         /\ ReportsIn(out, impls, tds)
<1>1. out \in Seq(Responses) /\ << >> \in Seq(Responses) /\ Len(<< >>) <= 1
  BY EmptySeq DEF Types
<1>2. Queue \in Seq(Responses)
  BY QueueFacts
<1>3. Queue # << >> /\ Queue[1] = held[1] /\ held[1] \in Responses /\ Tail(Queue) = out
  BY TakenHead
<1>4. ASSUME NEW ms \in Seq(Responses), out' = out \o ms PROVE Queue' = out \o ms
  BY <1>3, <1>4, QueueTakes
<1>5. out' = out => Queue' = out
  BY <1>1, <1>4, ConcatEmptySeq
<1>6. ReportsIn(out, impls, tds)
  BY <1>2, <1>3, ReportsTaken DEF ReportsOK
<1>7. 1 \in DOMAIN Queue
  BY <1>2, <1>3, TailFacts
<1> QED
  BY <1>1, <1>2, <1>3, <1>4, <1>5, <1>6, <1>7

\* A request that is not the one of the response keeps its replies.
LEMMA TakenReplies ==
  ASSUME Types, ReportsOK, held # << >>, held' = << >>, NEW r \in Requests, held[1].id # r
  PROVE  /\ Alike(Replies(r), RepliesIn(out, r))
         /\ (\A k \in Replies(r) : Queue[k].what = "500") => (\A k \in RepliesIn(out, r) : out[k].what = "500")
<1>1. Queue \in Seq(Responses) /\ Queue # << >> /\ Queue[1].id # r /\ Tail(Queue) = out
  BY TakenFacts
<1>2. /\ Alike(RepliesIn(Queue, r), RepliesIn(out, r))
      /\ \A k \in RepliesIn(out, r) : k + 1 \in RepliesIn(Queue, r) /\ out[k] = Queue[k + 1]
  BY <1>1, RepliesTaken
<1> QED
  BY <1>2 DEF Replies

\* An instance is closed: its client is, too.
LEMMA ReceiveClosedInv ==
  ASSUME IInv, held # << >>, held' = << >>, IsClosedReport(held[1]),
         CloseImpl({held[1].client}, out), bad' = (bad \/ ~Known(held[1].client)),
         UNCHANGED <<current_id, creating, calls, tds, answers, late, closed, stray, destroying>>
  PROVE  IInv'
<1> DEFINE m == held[1]
<1>1. Types /\ ImplsOK /\ ReportsOK /\ CallsOK /\ ~bad
  BY DEF IInv
<1>2. /\ Queue[1] = m /\ 1 \in DOMAIN Queue /\ out \in Seq(Responses)
      /\ held' \in Seq(Responses) /\ Len(held') <= 1 /\ ReportsIn(out, impls, tds)
      /\ \A ms \in Seq(Responses) : out' = out \o ms => Queue' = out \o ms
  BY <1>1, TakenFacts
<1>3. m.id = 0 /\ m.what = "Closed"
  BY DEF IsClosedReport
<1>4. Known(m.client) /\ tds[m.client].state # "none"
  <2>1. m.what # Nothing
    BY <1>3 DEF Nothing
  <2> QED
    BY <1>1, <1>2, <1>3, <2>1 DEF ReportsOK, ReportsIn, Known
<1>5. impls[m.client].impl
  <2>1. m.client \in Ids
    BY <1>1, <1>4, ClientManagerAssumption DEF Types, Ids, Known
  <2> QED
    BY <1>1, <1>4, <2>1 DEF ImplsOK, Started
<1>6. \A c \in ToClose({m.client}) : impls[c].impl
  BY <1>5 DEF ToClose
<1>7. ~bad' /\ bad' \in BOOLEAN
  BY <1>1, <1>4
<1>8. \A r \in Requests :
        /\ Alike(Replies(r), RepliesIn(out, r))
        /\ (\A k \in Replies(r) : Queue[k].what = "500") => (\A k \in RepliesIn(out, r) : out[k].what = "500")
  <2> SUFFICES ASSUME NEW r \in Requests
               PROVE  /\ Alike(Replies(r), RepliesIn(out, r))
                      /\ (\A k \in Replies(r) : Queue[k].what = "500")
                           => (\A k \in RepliesIn(out, r) : out[k].what = "500")
    OBVIOUS
  <2>1. held[1].id # r
    BY <1>3, RequestIdAssumption
  <2> QED
    BY <1>1, <2>1, TakenReplies
<1>9. /\ destroying' \in BOOLEAN /\ (destroying => destroying')
      /\ destroying' => creating = {} /\ \A r \in Requests : calls[r].pc \in {"idle", "done"}
  BY <1>1 DEF Types, CallsOK
<1> QED
  BY <1>2, <1>6, <1>7, <1>8, <1>9, CloseImplInv

\* What Receive does in its other branches.
LEMMA TakenFrame ==
  ASSUME IInv, held # << >>, held' = << >>, out' = out,
         answers' \in [Requests -> Seq(Words)], closed' \subseteq Ids, stray' \in BOOLEAN, bad' \in BOOLEAN,
         impls' \in [DOMAIN impls' -> [impl : BOOLEAN, is_closed : BOOLEAN]],
         DOMAIN impls' \subseteq DOMAIN impls, \A c \in DOMAIN impls' : impls'[c] = impls[c],
         UNCHANGED <<current_id, creating, calls, box, tds, late, destroying>>
  PROVE  /\ Types' /\ BoxOK' /\ CallsOK' /\ Queue' = out
         /\ \A c \in Ids : \A r : Waits(r, c)' = Waits(r, c)
<1>1. Types /\ BoxOK /\ CallsOK /\ ReportsOK
  BY DEF IInv
<1>2. Queue' = out /\ held' \in Seq(Responses) /\ Len(held') <= 1
  BY <1>1, TakenFacts
<1>3. Types'
  BY <1>1, <1>2 DEF Types
<1>4. BoxOK'
  BY <1>1 DEF BoxOK
<1>5. CallsOK'
  BY <1>1 DEF CallsOK, Known
<1> QED
  BY <1>2, <1>3, <1>4, <1>5 DEF Waits

\* An instance is gone: so is its client.
LEMMA ReceiveGoneInv ==
  ASSUME IInv, held # << >>, held' = << >>, IsGone(held[1]),
         bad' = (bad \/ ~Known(held[1].client) \/ ~impls[held[1].client].is_closed),
         impls' = [c \in DOMAIN impls \ {held[1].client} |-> impls[c]], ToUser(held[1]),
         UNCHANGED <<current_id, creating, calls, box, tds, out, late, destroying>>
  PROVE  IInv'
<1> SUFFICES ASSUME NEW m, m = held[1], NEW c, c = m.client PROVE IInv'
  OBVIOUS
<1>1. /\ Types /\ ImplsOK /\ BoxOK /\ CallsOK /\ ReportsOK /\ ClosedOK
      /\ OnePlace /\ LateOK /\ Accounted /\ ~bad /\ ~stray
  BY DEF IInv
<1>2. /\ Queue[1] = m /\ 1 \in DOMAIN Queue /\ out \in Seq(Responses) /\ Queue \in Seq(Responses)
      /\ ReportsIn(out, impls, tds) /\ Queue # << >> /\ Tail(Queue) = out
  BY <1>1, TakenFacts
<1>3. m.id = 0 /\ m.what = Nothing
  BY DEF IsGone
<1>4. /\ Known(c) /\ impls[c].is_closed /\ (tds[c].state = "gone" \/ ~impls[c].impl)
      /\ \A j \in DOMAIN Queue : Queue[j].id = 0 /\ Queue[j].client = c => j <= 1
  BY <1>1, <1>2, <1>3 DEF ReportsOK, ReportsIn, Known
<1>5. c \in Ids
  BY <1>1, <1>4, ClientManagerAssumption DEF Types, Ids, Known
<1>6. ~bad' /\ bad' \in BOOLEAN
  BY <1>1, <1>4
<1>7. c \notin closed /\ (~destroying => tds[c].state = "gone")
  BY <1>1, <1>4, <1>5 DEF ClosedOK, ImplsOK
<1>8. /\ answers' = answers /\ ~stray' /\ stray' \in BOOLEAN
      /\ closed' = IF destroying THEN closed ELSE closed \cup {c}
  <2>1. stray \in BOOLEAN
    BY <1>1 DEF Types
  <2>2. CASE destroying
    BY <1>1, <2>1, <2>2 DEF ToUser
  <2>3. CASE ~destroying
    <3>1. /\ answers' = answers /\ closed' = closed \cup {c}
          /\ stray' = (stray \/ (m.id = 0 /\ m.client \in closed))
      BY <1>3, <2>3 DEF ToUser
    <3> QED
      BY <1>1, <1>7, <2>3, <3>1
  <2> QED
    BY <2>2, <2>3
<1>9. /\ DOMAIN impls' = DOMAIN impls \ {c} /\ \A d \in DOMAIN impls' : impls'[d] = impls[d]
      /\ impls' \in [DOMAIN impls' -> [impl : BOOLEAN, is_closed : BOOLEAN]]
  BY <1>1 DEF Types
<1>10. /\ Types' /\ BoxOK' /\ CallsOK' /\ Queue' = out
       /\ \A d \in Ids : \A r : Waits(r, d)' = Waits(r, d)
  <2>1. /\ answers' \in [Requests -> Seq(Words)] /\ closed' \subseteq Ids /\ stray' \in BOOLEAN
        /\ DOMAIN impls' \subseteq DOMAIN impls
    BY <1>1, <1>5, <1>8, <1>9 DEF Types
  <2> QED
    BY <1>6, <1>9, <2>1, TakenFrame
<1>11. ImplsOK'
  <2> SUFFICES ASSUME NEW d \in Ids
               PROVE  /\ d \in creating \/ d >= current_id => ~Known(d)' /\ ~Started(d)
                      /\ Known(d)' => (impls'[d].impl <=> Started(d))
                      /\ Known(d)' /\ impls'[d].is_closed /\ ~impls'[d].impl => destroying
                      /\ Known(d)' /\ ~impls'[d].is_closed =>
                           ~tds[d].hung /\ \A k \in DOMAIN box[d] : box[d][k] # <<"close">>
                      /\ Started(d) => Known(d)' \/ tds[d].state = "gone"
    BY DEF ImplsOK, Started
  <2>1. CASE d # c
    BY <1>1, <1>9, <2>1 DEF ImplsOK, Known
  <2>2. CASE d = c
    <3>1. ~Known(c)'
      BY <1>9 DEF Known
    <3>2. Started(c) => tds[c].state = "gone"
      BY <1>1, <1>4, <1>5 DEF ImplsOK
    <3>3. ~(c \in creating \/ c >= current_id)
      BY <1>1, <1>4, <1>5 DEF ImplsOK
    <3> QED
      BY <2>2, <3>1, <3>2, <3>3
  <2> QED
    BY <2>1, <2>2
<1>12. ReportsOK'
  <2>1. /\ Len(Queue) \in Nat \ {0} /\ DOMAIN Queue = 1 .. Len(Queue) /\ DOMAIN out = 1 .. Len(Queue) - 1
        /\ \A k \in 1 .. Len(Queue) - 1 : out[k] = Queue[k + 1]
    BY <1>2, TailFacts
  <2>2. \A k \in DOMAIN out : out[k].id = 0 => out[k].client # c
    <3> SUFFICES ASSUME NEW k \in DOMAIN out, out[k].id = 0, out[k].client = c PROVE FALSE
      OBVIOUS
    <3>1. k + 1 \in DOMAIN Queue /\ out[k] = Queue[k + 1] /\ k \in Nat \ {0}
      BY <2>1
    <3>2. k + 1 <= 1
      BY <1>4, <3>1
    <3> QED
      BY <3>1, <3>2
  <2>3. ReportsIn(out, impls', tds)
    BY <1>2, <1>9, <2>2, ReportsLast
  <2> QED
    BY <1>10, <2>3 DEF ReportsOK
<1>13. ClosedOK'
  BY <1>1, <1>7, <1>8, <1>9 DEF ClosedOK, Known
<1>14. \A r \in Requests : Untouched(r)
  <2> SUFFICES ASSUME NEW r \in Requests PROVE Untouched(r)
    OBVIOUS
  <2>1. held[1].id # r
    BY <1>3, RequestIdAssumption
  <2>2. /\ Alike(Replies(r), RepliesIn(out, r))
        /\ (\A k \in Replies(r) : Queue[k].what = "500") => (\A k \in RepliesIn(out, r) : out[k].what = "500")
    BY <1>1, <2>1, TakenReplies
  <2>3. Replies(r)' = RepliesIn(out, r)
    BY <1>10 DEF Replies
  <2>4. \A d \in Ids : Alike(Waits(r, d), Waits(r, d)')
    BY <1>10 DEF Alike
  <2> QED
    BY <1>8, <1>10, <2>2, <2>3, <2>4 DEF Untouched
<1>15. OnePlace' /\ Accounted' /\ LateOK'
  BY <1>1, <1>8, <1>14, RequestsKept
<1> QED
  BY <1>1, <1>6, <1>8, <1>10, <1>11, <1>12, <1>13, <1>15 DEF IInv

\* An update or an answer goes to the user.
LEMMA ReceiveOtherInv ==
  ASSUME IInv, held # << >>, held' = << >>, ~IsClosedReport(held[1]), ~IsGone(held[1]),
         ToUser(held[1]),
         UNCHANGED <<current_id, creating, impls, calls, box, tds, out, late, bad, destroying>>
  PROVE  IInv'
<1> SUFFICES ASSUME NEW m, m = held[1] PROVE IInv'
  OBVIOUS
<1>1. /\ Types /\ ImplsOK /\ BoxOK /\ CallsOK /\ ReportsOK /\ ClosedOK
      /\ OnePlace /\ LateOK /\ Accounted /\ ~bad /\ ~stray /\ stray \in BOOLEAN /\ bad \in BOOLEAN
  BY DEF IInv, Types
<1>2. /\ Queue[1] = m /\ m \in Responses /\ 1 \in DOMAIN Queue /\ out \in Seq(Responses)
      /\ ReportsIn(out, impls, tds)
  BY <1>1, TakenFacts
<1>3. \/ m.id = 0 /\ m.what = "update"
      \/ m.id \in Requests /\ m.what \in Words
  BY <1>2, ClientManagerAssumption DEF IsClosedReport, IsGone, Responses, Reports, Ids
<1>4. /\ closed' = closed /\ ~stray' /\ stray' \in BOOLEAN
      /\ answers' = IF m.id = 0 \/ destroying THEN answers ELSE [answers EXCEPT ![m.id] = Append(@, m.what)]
  <2>1. CASE destroying
    BY <1>1, <2>1 DEF ToUser
  <2>2. CASE ~destroying
    <3>1. m.id = 0 => m.client \notin closed /\ m.what \notin {"Closed", Nothing}
      <4>1. m.id = 0 => m.what = "update"
        BY <1>3, RequestIdAssumption
      <4>2. m.id = 0 => Known(m.client)
        BY <1>1, <1>2 DEF ReportsOK, ReportsIn, Known
      <4> QED
        BY <1>1, <4>1, <4>2 DEF ClosedOK, Nothing
    <3>2. /\ answers' = IF m.id = 0 THEN answers ELSE [answers EXCEPT ![m.id] = Append(@, m.what)]
          /\ stray' = (stray \/ (m.id = 0 /\ m.client \in closed))
          /\ closed' = IF m.id = 0 /\ m.what \in {"Closed", Nothing} THEN closed \cup {m.client} ELSE closed
      BY <2>2 DEF ToUser
    <3> QED
      BY <1>1, <2>2, <3>1, <3>2
  <2> QED
    BY <2>1, <2>2
<1>5. answers' \in [Requests -> Seq(Words)]
  <2>1. CASE m.id = 0 \/ destroying
    BY <1>1, <1>4, <2>1 DEF Types
  <2>2. CASE ~(m.id = 0 \/ destroying)
    <3>1. m.id \in Requests /\ m.what \in Words /\ answers \in [Requests -> Seq(Words)]
      BY <1>1, <1>3, <2>2 DEF Types
    <3>2. Append(answers[m.id], m.what) \in Seq(Words)
      BY <3>1, AppendProperties
    <3> QED
      BY <1>4, <2>2, <3>1, <3>2
  <2> QED
    BY <2>1, <2>2
<1>6. /\ Types' /\ BoxOK' /\ CallsOK' /\ Queue' = out
      /\ \A d \in Ids : \A r : Waits(r, d)' = Waits(r, d)
  <2>1. /\ closed' \subseteq Ids /\ DOMAIN impls' \subseteq DOMAIN impls
        /\ impls' \in [DOMAIN impls' -> [impl : BOOLEAN, is_closed : BOOLEAN]] /\ bad' \in BOOLEAN
    BY <1>1, <1>4 DEF Types
  <2> QED
    BY <1>4, <1>5, <2>1, TakenFrame
<1>7. ImplsOK' /\ ClosedOK' /\ ReportsOK'
  BY <1>1, <1>2, <1>4, <1>6 DEF ImplsOK, ClosedOK, ReportsOK, Known, Started
<1>8. ASSUME NEW r \in Requests, m.id # r PROVE Untouched(r)
  <2>1. /\ Alike(Replies(r), RepliesIn(out, r))
        /\ (\A k \in Replies(r) : Queue[k].what = "500") => (\A k \in RepliesIn(out, r) : out[k].what = "500")
    BY <1>1, <1>8, TakenReplies
  <2>2. Replies(r)' = RepliesIn(out, r)
    BY <1>6 DEF Replies
  <2>3. \A d \in Ids : Alike(Waits(r, d), Waits(r, d)')
    BY <1>6 DEF Alike
  <2>4. answers'[r] = answers[r]
    BY <1>1, <1>4, <1>8 DEF Types
  <2> QED
    BY <1>6, <2>1, <2>2, <2>3, <2>4 DEF Untouched
<1>9. CASE m.id = 0
  <2>1. \A r \in Requests : Untouched(r)
    BY <1>8, <1>9, RequestIdAssumption
  <2>2. OnePlace' /\ Accounted' /\ LateOK'
    BY <1>1, <1>4, <2>1, RequestsKept
  <2> QED
    BY <1>1, <1>4, <1>6, <1>7, <2>2 DEF IInv
<1>10. ASSUME NEW r \in Requests, m.id = r PROVE IInv'
  <2>0. r # 0 /\ m.what \in Words
    BY <1>3, <1>10, RequestIdAssumption
  <2>1. 1 \in Replies(r)
    BY <1>2, <1>10 DEF Replies, RepliesIn
  <2>2. /\ answers[r] = << >> /\ (\A j, k \in Replies(r) : j = k) /\ calls[r].pc = "done"
        /\ \A d \in Ids : r \notin tds[d].pending /\ Waits(r, d) = {}
    <3>1. PlaceOK(r) /\ ~Unanswered(r)
      BY <1>1, <2>1 DEF OnePlace, Unanswered
    <3> QED
      BY <2>1, <3>1 DEF PlaceOK
  <2>3. Replies(r)' = {}
    <3>1. /\ Queue \in Seq(Responses) /\ Queue # << >> /\ Tail(Queue) = out
      BY <1>1, TakenFacts
    <3>2. /\ Len(Queue) \in Nat \ {0} /\ DOMAIN Queue = 1 .. Len(Queue) /\ DOMAIN out = 1 .. Len(Queue) - 1
          /\ \A k \in 1 .. Len(Queue) - 1 : out[k] = Queue[k + 1]
      BY <3>1, TailFacts
    <3>3. \A k \in DOMAIN out : out[k].id # r
      <4> SUFFICES ASSUME NEW k \in DOMAIN out, out[k].id = r PROVE FALSE
        OBVIOUS
      <4>1. k \in Nat \ {0} /\ k + 1 \in DOMAIN Queue /\ out[k] = Queue[k + 1]
        BY <3>2
      <4>2. k + 1 \in Replies(r)
        BY <4>1 DEF Replies, RepliesIn
      <4>3. k + 1 = 1
        BY <2>1, <2>2, <4>2
      <4> QED
        BY <4>1, <4>3
    <3> QED
      BY <1>6, <3>3 DEF Replies, RepliesIn
  <2>4. answers'[r] = IF destroying THEN << >> ELSE <<m.what>>
    <3>1. CASE destroying
      BY <1>4, <2>2, <3>1
    <3>2. CASE ~destroying
      <4>1. answers'[r] = Append(answers[r], m.what)
        BY <1>1, <1>4, <1>10, <2>0, <3>2 DEF Types
      <4>2. Append(<< >>, m.what) = <<m.what>>
        OBVIOUS
      <4> QED
        BY <2>2, <3>2, <4>1, <4>2
    <3> QED
      BY <3>1, <3>2
  <2>5. Len(answers'[r]) <= 1
    <3>1. Len(<< >>) <= 1 /\ Len(<<m.what>>) <= 1
      BY EmptySeq
    <3> QED
      BY <2>4, <3>1
  <2>6. OnePlace'
    <3> SUFFICES ASSUME NEW q \in Requests PROVE PlaceOK(q)'
      BY DEF OnePlace
    <3>1. CASE q # r
      <4>1. PlaceOK(q) /\ Untouched(q)
        BY <1>1, <1>8, <1>10, <3>1 DEF OnePlace
      <4> QED
        BY <4>1, PlaceKept DEF Untouched
    <3>2. CASE q = r
      <4>1. \A d \in Ids : r \notin tds'[d].pending /\ Waits(r, d)' = {}
        BY <1>6, <2>2
      <4>2. calls'[r].pc = "done"
        BY <2>2
      <4> QED
        BY <2>3, <2>5, <3>2, <4>1, <4>2 DEF PlaceOK
    <3> QED
      BY <3>1, <3>2
  <2>7. LateOK'
    <3> SUFFICES ASSUME NEW q \in late PROVE RefusedOnly(q)'
      BY DEF LateOK
    <3>1. q \in Requests /\ RefusedOnly(q)
      BY <1>1 DEF Types, LateOK
    <3>2. CASE q # r
      <4>1. Untouched(q)
        BY <1>8, <1>10, <3>1, <3>2
      <4> QED
        BY <1>4, <3>1, <4>1, RefusedKept DEF Untouched
    <3>3. CASE q = r
      <4>1. m.what = "500"
        BY <1>2, <2>1, <3>1, <3>3 DEF RefusedOnly
      <4>2. \A k \in DOMAIN answers'[r] : answers'[r][k] = "500"
        <5>1. \A k \in DOMAIN <<m.what>> : <<m.what>>[k] = m.what
          OBVIOUS
        <5>2. DOMAIN << >> = {}
          BY EmptySeq
        <5> QED
          BY <2>4, <4>1, <5>1, <5>2
      <4>3. calls'[r].pc = "done" /\ calls'[r].client \in closed'
        BY <1>4, <3>1, <3>3 DEF RefusedOnly
      <4> QED
        BY <2>3, <3>3, <4>2, <4>3 DEF RefusedOnly
    <3> QED
      BY <3>2, <3>3
  <2>8. Accounted'
    <3> SUFFICES ASSUME ~destroying, NEW q \in Requests \ Closes PROVE SomePlace(q)'
      BY DEF Accounted
    <3>1. CASE q # r
      <4>1. SomePlace(q) /\ Untouched(q) /\ (calls[q].pc = "done" => calls[q].client \in Ids)
        BY <1>1, <1>8, <1>10, <3>1 DEF Accounted, CallsOK
      <4> QED
        BY <1>1, <4>1, SomePlaceKept DEF Untouched
    <3>2. CASE q = r
      <4>1. <<m.what>> # << >>
        OBVIOUS
      <4> QED
        BY <2>4, <3>2, <4>1 DEF SomePlace, Unanswered
    <3> QED
      BY <3>1, <3>2
  <2> QED
    BY <1>1, <1>4, <1>6, <1>7, <2>6, <2>7, <2>8 DEF IInv
<1> QED
  BY <1>3, <1>9, <1>10

LEMMA ReceiveInv ==
  ASSUME IInv, Receive
  PROVE  IInv'
<1>1. /\ held # << >> /\ held' = << >>
      /\ UNCHANGED <<current_id, creating, calls, tds, late, destroying>>
  BY DEF Receive
<1>2. CASE /\ IsClosedReport(held[1])
           /\ CloseImpl({held[1].client}, out)
           /\ bad' = (bad \/ ~Known(held[1].client))
           /\ UNCHANGED <<answers, closed, stray>>
  BY <1>1, <1>2, ReceiveClosedInv
<1>3. CASE /\ IsGone(held[1])
           /\ bad' = (bad \/ ~Known(held[1].client) \/ ~impls[held[1].client].is_closed)
           /\ impls' = [c \in DOMAIN impls \ {held[1].client} |-> impls[c]]
           /\ ToUser(held[1])
           /\ UNCHANGED <<box, out>>
  BY <1>1, <1>3, ReceiveGoneInv
<1>4. CASE /\ ~IsClosedReport(held[1]) /\ ~IsGone(held[1])
           /\ ToUser(held[1])
           /\ UNCHANGED <<impls, box, out, bad>>
  BY <1>1, <1>4, ReceiveOtherInv
<1> QED
  BY <1>2, <1>3, <1>4 DEF Receive

-----------------------------------------------------------------------------
\* Theorems

LEMMA NextInv == IInv /\ [Next]_vars => IInv'
<1> SUFFICES ASSUME IInv, [Next]_vars PROVE IInv'
  OBVIOUS
<1>1. CASE UNCHANGED vars
  <2>1. Queue' = Queue
    BY <1>1 DEF vars, Queue
  <2>2. Types' /\ ImplsOK' /\ BoxOK' /\ CallsOK'
    BY <1>1 DEF IInv, vars, Types, ImplsOK, BoxOK, CallsOK, Known, Started
  <2>3. ReportsOK' /\ ClosedOK' /\ LateOK'
    BY <1>1, <2>1 DEF IInv, vars, ReportsOK, ClosedOK, LateOK, RefusedOnly, Replies, Known
  <2>4. OnePlace' /\ Accounted'
    BY <1>1, <2>1, RequestsUnmoved DEF IInv, vars
  <2> QED
    BY <1>1, <2>2, <2>3, <2>4 DEF IInv, vars
<1>2. CASE CreateId
  BY <1>2, CreateIdInv
<1>3. ASSUME NEW c \in Ids, CreateClientId(c) PROVE IInv'
  BY <1>3, CreateClientIdInv
<1>4. ASSUME NEW c \in Ids, MultiTdStep(c) PROVE IInv'
  BY <1>4, MultiTdStepInv
<1>5. ASSUME NEW c \in Ids, TdUpdates(c) PROVE IInv'
  BY <1>5, TdUpdatesInv
<1>6. ASSUME NEW c \in Ids, TdBeginsToClose(c) PROVE IInv'
  BY <1>6, TdBeginsToCloseInv
<1>7. ASSUME NEW c \in Ids, TdClosed(c) PROVE IInv'
  BY <1>7, TdClosedInv
<1>8. ASSUME NEW c \in Ids, TdStops(c) PROVE IInv'
  BY <1>8, TdStopsInv
<1>9. ASSUME NEW c \in Ids, NEW r \in Requests, Send(r, c) PROVE IInv'
  BY <1>9, SendInv
<1>10. ASSUME NEW c \in Ids, NEW r \in Requests, TdAnswers(c, r) PROVE IInv'
  BY <1>10, TdAnswersInv
<1>11. ASSUME NEW r \in Requests, SendCreate(r) PROVE IInv'
  BY <1>11, SendCreateInv
<1>12. ASSUME NEW r \in Requests, SendFinish(r) PROVE IInv'
  BY <1>12, SendFinishInv
<1>13. CASE ReceiveNext
  BY <1>13, ReceiveNextInv
<1>14. CASE Receive
  BY <1>14, ReceiveInv
<1>15. CASE Destroy
  BY <1>15, DestroyInv
<1> QED
  BY <1>1, <1>2, <1>3, <1>4, <1>5, <1>6, <1>7, <1>8, <1>9, <1>10, <1>11, <1>12, <1>13, <1>14,
     <1>15 DEF Next

\* In every behaviour the inductive invariant holds.
THEOREM ManagerInvariant == Spec => []IInv
<1> QED
  BY InitInv, NextInv, PTL DEF Spec

\* No CHECK of create, send and close of MultiTd, of close_impl and of receive can fail.
THEOREM ChecksNeverFail == Spec => []ChecksHold
<1>1. IInv => ChecksHold
  BY DEF IInv, ChecksHold
<1> QED
  BY <1>1, ManagerInvariant, PTL

LEMMA AnsweredFromInv == IInv => RequestsAnswered
<1> SUFFICES ASSUME IInv PROVE RequestsAnswered
  OBVIOUS
<1>1. /\ Types /\ CallsOK /\ ClosedOK /\ OnePlace /\ LateOK /\ Accounted /\ BoxOK /\ ~stray
  BY DEF IInv
<1>2. TypeOK
  <2>1. \A r \in Requests : \A k \in DOMAIN answers[r] : answers[r][k] \in {"result", "400", "500"}
    <3> SUFFICES ASSUME NEW r \in Requests, NEW k \in DOMAIN answers[r] PROVE answers[r][k] \in Words
      BY DEF Words
    <3>1. answers[r] \in Seq(Words)
      BY <1>1 DEF Types
    <3> QED
      BY <3>1, LenProperties, ElementOfSeq
  <2>2. \A c \in DOMAIN impls : impls[c] \in [impl : BOOLEAN, is_closed : BOOLEAN]
    BY <1>1 DEF Types
  <2>3. \A c \in Ids : tds[c] \in Instance
    BY <1>1 DEF Types
  <2> QED
    BY <1>1, <2>1, <2>2, <2>3 DEF Types, TypeOK, Instance
<1>3. AnsweredOnce
  BY <1>1 DEF OnePlace, PlaceOK, AnsweredOnce
<1>4. ClosedIsFinal
  BY <1>1 DEF LateOK, RefusedOnly, ClosedIsFinal
<1>5. ClosedAnsweredAll
  <2> SUFFICES ASSUME NEW r \in Requests \ Closes, calls[r].pc = "done", calls[r].client \in closed,
                      answers[r] = << >>, ~destroying
               PROVE  r \in {out[k].id : k \in DOMAIN out} \cup {held[k].id : k \in DOMAIN held}
    BY DEF ClosedAnsweredAll
  <2> DEFINE c == calls[r].client
  <2>1. c \in Ids /\ tds[c].state = "gone" /\ SomePlace(r)
    BY <1>1 DEF CallsOK, ClosedOK, Accounted
  <2>2. tds[c].pending = {} /\ box[c] = << >>
    BY <1>1, <2>1 DEF BoxOK, BoxIn
  <2>3. Waits(r, c) = {}
    BY <2>2, EmptySeq DEF Waits, WaitsIn
  <2>4. ~Unanswered(r)
    BY <2>1, <2>2, <2>3 DEF SomePlace
  <2>5. PICK k \in DOMAIN Queue : Queue[k].id = r
    BY <2>4 DEF Unanswered, Replies, RepliesIn
  <2>6. held \in Seq(Responses) /\ out \in Seq(Responses)
    BY <1>1 DEF Types
  <2>7. \/ k \in DOMAIN held /\ Queue[k] = held[k]
        \/ k - Len(held) \in DOMAIN out /\ Queue[k] = out[k - Len(held)]
    BY <2>6, SayFacts DEF Queue
  <2> QED
    BY <2>5, <2>7
<1> QED
  BY <1>2, <1>3, <1>4, <1>5 DEF RequestsAnswered

\* Whatever the threads of the user, MultiTd and the instances do, each request is answered at
\* most once; what the user sees of a closed client is its last word; and what the client was
\* given before it closed has been answered.
THEOREM RequestsAreAnswered == Spec => []RequestsAnswered
<1> QED
  BY AnsweredFromInv, ManagerInvariant, PTL

-----------------------------------------------------------------------------
(* MpscPollableQueue, the queue between the Td instances and receive(), for *)
(* any set of writers and any number of values.                             *)

\* The inductive invariant of the queue: the theorems below follow from its
\* parts.
QInv == QueueTypeOK /\ CountMatches /\ NothingLost /\ WakeupArmed

-----------------------------------------------------------------------------
\* Sequences

\* The last value of a queue may as well be appended to the whole of it.
LEMMA AppendRight ==
  ASSUME NEW S, NEW a \in Seq(S), NEW b \in Seq(S), NEW c \in Seq(S), NEW v \in S
  PROVE  a \o b \o Append(c, v) = Append(a \o b \o c, v)
<1>1. a \o b \in Seq(S)
  BY ConcatProperties
<1>2. Append(c, v) = c \o <<v>>
  BY AppendIsConcat
<1>3. Append(a \o b \o c, v) = (a \o b \o c) \o <<v>>
  BY <1>1, ConcatProperties, AppendIsConcat
<1>4. <<v>> \in Seq(S)
  OBVIOUS
<1>5. (a \o b) \o (c \o <<v>>) = ((a \o b) \o c) \o <<v>>
  BY <1>1, <1>4, ConcatAssociative
<1> QED
  BY <1>2, <1>3, <1>5

\* Concatenation may be bracketed either way.
LEMMA Regroup ==
  ASSUME NEW S, NEW x \in Seq(S), NEW y \in Seq(S), NEW z \in Seq(S)
  PROVE  x \o (y \o z) = (x \o y) \o z
BY ConcatAssociative

\* The unread values are values.
LEMMA UnreadType == QueueTypeOK => Unread \in Seq(Value)
<1> SUFFICES ASSUME QueueTypeOK PROVE Unread \in Seq(Value)
  OBVIOUS
<1>1. reader_vector_ \in Seq(Value) /\ Len(reader_vector_) \in Nat /\ reader_pos_ \in Nat
  BY DEF QueueTypeOK
<1>2. \A k \in reader_pos_ + 1 .. Len(reader_vector_) : reader_vector_[k] \in Value
  BY <1>1, ElementOfSeq
<1> QED
  BY <1>1, <1>2, SubSeqProperties DEF Unread

-----------------------------------------------------------------------------
\* Steps

LEMMA InitQInv == QueueInit => QInv
<1> SUFFICES ASSUME QueueInit PROVE QInv
  OBVIOUS
<1>1. QueueTypeOK
  <2>1. puts \in [Writers -> 0 .. MaxPuts]
    BY MaxPutsAssumption DEF QueueInit
  <2>2. <<>> \in Seq(Value) /\ Len(<<>>) = 0
    BY EmptySeq
  <2> QED
    <3>1. reader_pos_ \in 0 .. Len(reader_vector_) /\ ready_cnt \in Nat
      BY <2>2 DEF QueueInit
    <3> QED
      BY <2>1, <2>2, <3>1, Zenon DEF QueueInit, QueueTypeOK, Places
<1>2. CountMatches
  BY DEF QueueInit, CountMatches, Ready
<1>3. Unread = <<>>
  BY SubSeqEmpty DEF QueueInit, Unread
<1>4. NothingLost
  BY <1>3 DEF QueueInit, NothingLost
<1>5. WakeupArmed
  BY DEF QueueInit, WakeupArmed
<1> QED
  BY <1>1, <1>2, <1>4, <1>5 DEF QInv

LEMMA WriterPutQInv ==
  ASSUME QInv, NEW w \in Writers, WriterPut(w)
  PROVE  QInv'
<1> DEFINE v == [from |-> w, no |-> puts[w] + 1]
<1>1. QueueTypeOK /\ CountMatches /\ NothingLost /\ WakeupArmed
  BY DEF QInv
<1>2. v \in Value
  BY <1>1, MaxPutsAssumption DEF WriterPut, QueueTypeOK, Value
<1>3. /\ writer_vector_' = Append(writer_vector_, v) /\ sent' = Append(sent, v)
      /\ UNCHANGED <<reader_vector_, reader_pos_, event_fd, at, timeout, ready_cnt, got>>
  BY DEF WriterPut, reader
<1>4. writer_vector_' \in Seq(Value) /\ sent' \in Seq(Value)
  BY <1>1, <1>2, <1>3, AppendProperties DEF QueueTypeOK
<1>5. QueueTypeOK'
  <2>1. puts' \in [Writers -> 0 .. MaxPuts]
    BY <1>1, MaxPutsAssumption DEF WriterPut, QueueTypeOK
  <2>2. releasing' \subseteq Writers /\ wait_event_fd_' = FALSE
    BY <1>1 DEF WriterPut, QueueTypeOK
  <2> QED
    BY <1>1, <1>3, <1>4, <2>1, <2>2 DEF QueueTypeOK
<1>6. CountMatches'
  BY <1>1, <1>3 DEF CountMatches, Ready
<1>7. NothingLost'
  <2>1. Unread' = Unread
    BY <1>3 DEF Unread
  <2>2. got \o Unread \o Append(writer_vector_, v) = Append(got \o Unread \o writer_vector_, v)
    <3>1. got \in Seq(Value) /\ Unread \in Seq(Value) /\ writer_vector_ \in Seq(Value)
      BY <1>1, UnreadType DEF QueueTypeOK
    <3> HIDE DEF v
    <3> QED
      BY <1>2, <3>1, AppendRight
  <2> QED
    BY <1>1, <1>3, <2>1, <2>2 DEF NothingLost
<1>8. WakeupArmed'
  BY <1>1, <1>3 DEF WriterPut, WakeupArmed
<1> QED
  BY <1>5, <1>6, <1>7, <1>8 DEF QInv

\* A step that leaves both vectors alone and returns nothing keeps the values.
LEMMA ValuesKept ==
  ASSUME NothingLost,
         UNCHANGED <<writer_vector_, reader_vector_, reader_pos_, sent, got>>
  PROVE  NothingLost'
BY DEF NothingLost, Unread

LEMMA ReleaseQInv ==
  ASSUME QInv, NEW w \in Writers, Release(w)
  PROVE  QInv'
<1>1. NothingLost'
  BY ValuesKept DEF QInv, Release
<1>2. QueueTypeOK' /\ CountMatches' /\ WakeupArmed'
  BY DEF QInv, QueueTypeOK, CountMatches, Ready, WakeupArmed, Release, reader
<1> QED
  BY <1>1, <1>2 DEF QInv

LEMMA ReceiveQInv ==
  ASSUME QInv, NEW wait \in BOOLEAN, CallReceive(wait)
  PROVE  QInv'
<1>1. NothingLost'
  BY ValuesKept DEF QInv, CallReceive, queue
<1>2. QueueTypeOK'
  BY DEF QInv, QueueTypeOK, CallReceive, queue, Places
<1>3. CountMatches' /\ WakeupArmed'
  BY DEF QInv, QueueTypeOK, CountMatches, Ready, WakeupArmed, CallReceive, queue
<1> QED
  BY <1>1, <1>2, <1>3 DEF QInv

\* The swap: everything that was swapped in before has been taken.
LEMMA FindValuesQInv ==
  ASSUME QInv, at \in {"first", "second"}, FindValues
  PROVE  QInv'
<1>1. QueueTypeOK /\ CountMatches /\ NothingLost /\ WakeupArmed
  BY DEF QInv
<1>2. /\ reader_vector_' = writer_vector_ /\ writer_vector_' = <<>> /\ reader_pos_' = 0
      /\ UNCHANGED <<sent, got>> /\ ready_cnt' = Len(writer_vector_) /\ at' = "take"
      /\ writer_vector_ \in Seq(Value) /\ writer_vector_ # <<>>
  BY <1>1 DEF FindValues, Swap, QueueTypeOK
<1>3. QueueTypeOK'
  BY <1>1, <1>2 DEF FindValues, QueueTypeOK, Places
<1>4. CountMatches'
  BY <1>2, EmptySeq DEF CountMatches, Ready
<1>5. NothingLost'
  <2>1. Unread = <<>>
    BY <1>1, SubSeqEmpty DEF CountMatches, Ready, QueueTypeOK, Unread
  <2>2. Unread' = writer_vector_
    BY <1>2, SubSeqFull DEF Unread
  <2>3. sent = got \o writer_vector_
    BY <1>1, <2>1, ConcatEmptySeq DEF NothingLost, QueueTypeOK
  <2>4. got \o writer_vector_ \in Seq(Value)
    BY <1>1, ConcatProperties DEF QueueTypeOK
  <2>5. sent' = got' \o Unread' \o writer_vector_'
    BY <1>2, <2>2, <2>3, <2>4, ConcatEmptySeq
  <2> QED
    BY <2>5 DEF NothingLost
<1>6. WakeupArmed'
  BY <1>1, <1>2 DEF FindValues, WakeupArmed
<1> QED
  BY <1>3, <1>4, <1>5, <1>6 DEF QInv

\* A pass that finds nothing, and the end of a wait.
LEMMA FirstQInv ==
  ASSUME QInv, FirstFindsNothing
  PROVE  QInv'
<1>1. NothingLost'
  BY ValuesKept DEF QInv, FirstFindsNothing
<1>2. QueueTypeOK' /\ CountMatches' /\ WakeupArmed'
  BY DEF QInv, QueueTypeOK, CountMatches, Ready, WakeupArmed, FirstFindsNothing, Places
<1> QED
  BY <1>1, <1>2 DEF QInv

LEMMA SecondQInv ==
  ASSUME QInv, SecondFindsNothing
  PROVE  QInv'
<1>1. NothingLost'
  BY ValuesKept DEF QInv, SecondFindsNothing
<1>2. QueueTypeOK' /\ CountMatches' /\ WakeupArmed'
  BY DEF QInv, QueueTypeOK, CountMatches, Ready, WakeupArmed, SecondFindsNothing, Places
<1> QED
  BY <1>1, <1>2 DEF QInv

LEMMA ResumeQInv ==
  ASSUME QInv, Resume
  PROVE  QInv'
<1>1. NothingLost'
  BY ValuesKept DEF QInv, Resume, queue
<1>2. QueueTypeOK' /\ CountMatches' /\ WakeupArmed'
  BY DEF QInv, QueueTypeOK, CountMatches, Ready, WakeupArmed, Resume, queue, Places
<1> QED
  BY <1>1, <1>2 DEF QInv

LEMMA TakeQInv ==
  ASSUME QInv, Take
  PROVE  QInv'
<1>1. QueueTypeOK /\ CountMatches /\ NothingLost /\ WakeupArmed
  BY DEF QInv
<1>2. /\ reader_vector_ \in Seq(Value) /\ Len(reader_vector_) \in Nat
      /\ reader_pos_ + 1 \in 1 .. Len(reader_vector_)
  BY <1>1 DEF QueueTypeOK, CountMatches, Ready, Take
<1>3. /\ got' = Append(got, reader_vector_[reader_pos_ + 1])
      /\ reader_pos_' = reader_pos_ + 1
      /\ ready_cnt' = ready_cnt - 1
      /\ at' = "out"
      /\ UNCHANGED <<writer_vector_, reader_vector_, wait_event_fd_, event_fd, releasing,
                     timeout, puts, sent>>
  BY DEF Take
<1>4. reader_vector_[reader_pos_ + 1] \in Value
  BY <1>2, ElementOfSeq
<1>5. got' \in Seq(Value)
  BY <1>1, <1>3, <1>4, AppendProperties DEF QueueTypeOK
<1>6. QueueTypeOK'
  BY <1>1, <1>2, <1>3, <1>5 DEF QueueTypeOK, CountMatches, Ready, Take, Places
<1>7. CountMatches'
  BY <1>1, <1>2, <1>3 DEF QueueTypeOK, CountMatches, Ready
<1>8. NothingLost'
  <2>1. got \o Unread \o writer_vector_
          = got' \o SubSeq(reader_vector_, reader_pos_ + 1 + 1, Len(reader_vector_)) \o writer_vector_
    <3> DEFINE i == reader_pos_ + 1
               x == reader_vector_[i]
               rest == SubSeq(reader_vector_, i + 1, Len(reader_vector_))
    <3>1. got \in Seq(Value) /\ x \in Value /\ <<x>> \in Seq(Value)
      BY <1>1, <1>4 DEF QueueTypeOK
    <3>2. i \in 1 .. Len(reader_vector_) /\ Len(reader_vector_) \in i .. Len(reader_vector_)
      BY <1>2
    <3> HIDE DEF i
    <3>3. rest \in Seq(Value)
      <4>1. \A k \in i + 1 .. Len(reader_vector_) : reader_vector_[k] \in Value
        BY <1>2, <3>2, ElementOfSeq
      <4> QED
        BY <1>2, <3>2, <4>1, SubSeqProperties
    <3>4. SubSeq(reader_vector_, i, Len(reader_vector_)) = <<x>> \o rest
      BY <1>2, <3>2, SubSeqRecursiveFirst
    <3> HIDE DEF x, rest
    <3>5. Append(got, x) = got \o <<x>>
      BY <3>1, AppendIsConcat
    <3>6. got \o (<<x>> \o rest) = (got \o <<x>>) \o rest
      BY <3>1, <3>3, Regroup
    <3>7. got \o SubSeq(reader_vector_, i, Len(reader_vector_)) = Append(got, x) \o rest
      BY <3>4, <3>5, <3>6, Zenon
    <3> QED
      BY <1>3, <3>7, Zenon DEF Unread, i, x, rest
  <2>2. Unread' = SubSeq(reader_vector_, reader_pos_ + 1 + 1, Len(reader_vector_))
    BY <1>3 DEF Unread
  <2> QED
    BY <1>1, <1>3, <2>1, <2>2 DEF NothingLost
<1>9. WakeupArmed'
  BY <1>1, <1>3 DEF WakeupArmed
<1> QED
  BY <1>6, <1>7, <1>8, <1>9 DEF QInv

LEMMA NextQInv == QInv /\ [QueueNext]_queue_vars => QInv'
<1> SUFFICES ASSUME QInv, [QueueNext]_queue_vars PROVE QInv'
  OBVIOUS
<1>1. CASE UNCHANGED queue_vars
  BY <1>1 DEF QInv, QueueTypeOK, CountMatches, Ready, NothingLost, Unread, WakeupArmed,
     queue_vars, queue, reader
<1>2. CASE \E w \in Writers : WriterPut(w)
  BY <1>2, WriterPutQInv
<1>3. CASE \E w \in Writers : Release(w)
  BY <1>3, ReleaseQInv
<1>4. CASE \E wait \in BOOLEAN : CallReceive(wait)
  BY <1>4, ReceiveQInv
<1>5. CASE at \in {"first", "second"} /\ FindValues
  BY <1>5, FindValuesQInv
<1>6. CASE FirstFindsNothing
  BY <1>6, FirstQInv
<1>7. CASE SecondFindsNothing
  BY <1>7, SecondQInv
<1>8. CASE WakeUp \/ TimeoutExpired
  BY <1>8, ResumeQInv DEF WakeUp, TimeoutExpired
<1>9. CASE Take
  BY <1>9, TakeQInv
<1> QED
  BY <1>1, <1>2, <1>3, <1>4, <1>5, <1>6, <1>7, <1>8, <1>9 DEF QueueNext, ReaderStep

LEMMA AlwaysQInv == QueueSpec => []QInv
<1>1. QueueInit => QInv
  BY InitQInv
<1>2. QInv /\ [QueueNext]_queue_vars => QInv'
  BY NextQInv
<1> QED
  BY <1>1, <1>2, PTL DEF QueueSpec

-----------------------------------------------------------------------------
\* Theorems

\* reader_wait_nonblock() and writer_put() lose no wakeup, whatever the number
\* of writers: a reader that sleeps in poll() while values wait is about to be
\* woken.
THEOREM NoWakeupIsLost == QueueSpec => []NoLostWakeup
<1>1. QInv => NoLostWakeup
  BY DEF QInv, WakeupArmed, NoLostWakeup
<1> QED
  BY <1>1, AlwaysQInv, PTL

\* What receive() returned, what it may still return and what waits in
\* writer_vector_ are together all the values put, in their order.
THEOREM NoValueIsLost == QueueSpec => []NothingLost
<1>1. QInv => NothingLost
  BY DEF QInv
<1> QED
  BY <1>1, AlwaysQInv, PTL

\* The reader's count is the number of values in reader_vector_ it has not
\* taken, so reader_get_unsafe() never reads past the vector.
THEOREM CountsAgree == QueueSpec => [](QueueTypeOK /\ CountMatches)
<1>1. QInv => QueueTypeOK /\ CountMatches
  BY DEF QInv
<1> QED
  BY <1>1, AlwaysQInv, PTL
=============================================================================
