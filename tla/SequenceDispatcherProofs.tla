---------------------- MODULE SequenceDispatcherProofs ----------------------
(***************************************************************************)
(* Proofs about SequenceDispatcher: every token finds its query, no query  *)
(* is passed over or left behind, and the server executes the queries of a *)
(* sequence in their order; for any number of queries and failures.        *)
(***************************************************************************)
EXTENDS SequenceDispatcher, SequenceTheorems, FiniteSetTheorems, WellFoundedInduction, TLAPS

Entries ==
  [query : Queries, state : {"Start", "Wait", "Finish", "Dummy"}, generation : Nat,
   total_timeout : Nat]
Sendings == [token : Int, query : Queries, after : 0 .. MaxQueries]
Handles == [token : Int, query : Queries, ok : BOOLEAN]
Dispatchers ==
  [data : Seq(Entries), finish_i : Int, next_i : Int, last_sent_i : Int, generation : Nat,
   id_offset : Int, wait_cnt : Int, sent : SUBSET Sendings]
Outcomes == {"idle", "pending", "ok", "error", "wait_failed"}

Slots(s) == 1 .. Len(s.data)
Waiting(s) == {p \in Slots(s) : s.data[p].state = "Wait"}

-----------------------------------------------------------------------------
(* The inductive invariant, of a dispatcher s whose first entry is the     *)
(* query base + 1, the queries N and H outside it, the answers SV of the   *)
(* server and the finished queries D.  x are the entries under work.       *)

\* The entries are consecutive queries, and the tokens never run ahead of them.
Lined(s, base) ==
  /\ base \in Nat /\ s.id_offset \in 1 .. base + 1
  /\ \A p \in Slots(s) : s.data[p].query = base + p

Bounds(s) ==
  /\ 1 <= s.finish_i /\ s.finish_i <= s.next_i /\ s.next_i <= Len(s.data) + 1
  /\ 0 <= s.last_sent_i /\ s.last_sent_i < s.next_i /\ s.generation >= 1

\* What is behind finish_i is finished; what is behind next_i is finished or of
\* the chain that is being sent; what is between the last query sent and next_i
\* is finished.
Ordered(s) ==
  \A p \in Slots(s) :
    /\ p < s.finish_i => s.data[p].state = "Finish"
    /\ p < s.next_i => s.data[p].state # "Start"
    /\ p < s.next_i => s.data[p].state = "Finish" \/ s.data[p].generation = s.generation
    /\ s.last_sent_i < p /\ p < s.next_i => s.data[p].state = "Finish"

Dummies(s, x) == \A p \in Slots(s) : s.data[p].state = "Dummy" <=> p \in x

Counted(s) == s.wait_cnt = Cardinality(Waiting(s))

\* Every query outside is waited for, with its token, and the other way round.
Tokens(s, base, N, H) ==
  /\ \A m \in N \cup H : m.query - base \in Waiting(s) /\ m.token = m.query - base - 1 + s.id_offset
  /\ \A p \in Waiting(s) : \E m \in N \cup H : m.query = base + p
  /\ \A m, n \in N : m.query = n.query => m = n
  /\ \A m, n \in H : m.query = n.query => m = n
  /\ \A m \in N, n \in H : m.query # n.query

\* What was executed is not sent again, and what was sent last and has ended was
\* answered by the server: it did not run out of time in the queue.
Judged(s, base, H, SV) ==
  /\ \A p \in Slots(s) : s.data[p].state = "Start" => SV[base + p] # "ok"
  /\ \A q \in Queries : q > base + Len(s.data) => SV[q] = "idle"
  /\ \A h \in H : /\ h.ok <=> SV[h.query] = "ok"
                  /\ h.query - base < s.next_i => SV[h.query] \in {"ok", "error"}
  /\ s.last_sent_i # 0 /\ s.data[s.last_sent_i].state = "Finish" =>
       SV[base + s.last_sent_i] \in {"ok", "error"}

Finished(s, base, D) ==
  \A q \in 1 .. base + Len(s.data) :
    q \in D <=> q <= base \/ s.data[q - base].state = "Finish"

Good(s, base, N, H, SV, D, x) ==
  /\ s \in Dispatchers /\ s.sent = {} /\ N \subseteq Sendings /\ H \subseteq Handles
  /\ SV \in [Queries -> Outcomes] /\ D \subseteq 1 .. base + Len(s.data)
  /\ Lined(s, base) /\ Bounds(s) /\ Ordered(s) /\ Dummies(s, x) /\ Counted(s)
  /\ Tokens(s, base, N, H) /\ Judged(s, base, H, SV) /\ Finished(s, base, D)

\* The server is done with the query: it was executed, or nobody waits for it.
Settled(q, SV, D) == q \in D \/ SV[q] = "ok"

\* A query that the server answered has only settled queries before it, and so has
\* one under way, back to the query it has to be invoked after.
Chained(N, SV, D) ==
  /\ \A q \in Queries :
       SV[q] \in {"ok", "error"} => \A r \in 1 .. q - 1 : Settled(r, SV, D)
  /\ \A m \in N :
       m.after < m.query /\ \A r \in 1 .. m.query - 1 : r > m.after => Settled(r, SV, D)

Base == asked - Len(inbox) - Len(d.data)

InboxOK ==
  /\ inbox \in Seq(Queries) /\ asked \in 0 .. MaxQueries
  /\ \A i \in 1 .. Len(inbox) : inbox[i] = asked - Len(inbox) + i

\* The parent counts the queries that are not finished and those it was not told of.
Undone == (1 .. asked) \ done
Said(w) == {k \in 1 .. Len(to_parent) : to_parent[k] = w}

ParentOK ==
  /\ to_parent \in Seq({"on_result", "ready_to_close"})
  /\ cnt = Cardinality(Undone) + Cardinality(Said("on_result"))
  /\ \A j, k \in Said("ready_to_close") : j = k
  /\ ~exists => cnt = 0 /\ to_parent = << >> /\ ~timer

ExecutedOK ==
  /\ executed \in Seq(Queries)
  /\ \A i \in 1 .. Len(executed) : srv[executed[i]] = "ok"
  /\ ~local => \A i, j \in 1 .. Len(executed) : i < j => executed[i] < executed[j]

IInv ==
  /\ Good(d, Base, net, hands, srv, done, {})
  /\ ~local => Chained(net, srv, done)
  /\ InboxOK /\ ParentOK /\ ExecutedOK
  /\ timer \in BOOLEAN /\ exists \in BOOLEAN /\ local \in BOOLEAN /\ failures \in Nat

-----------------------------------------------------------------------------
(* Sequences and sets.                                                     *)

\* A function on 1 .. n, made a sequence by SubSeq.
LEMMA EachFacts ==
  ASSUME NEW S, NEW n \in Nat, NEW f, \A p \in 1 .. n : f[p] \in S, NEW q, q = SubSeq(f, 1, n)
  PROVE  q \in Seq(S) /\ Len(q) = n /\ \A p \in 1 .. n : q[p] = f[p]
<1>1. /\ q \in Seq(S) /\ Len(q) = IF 1 <= n THEN n - 1 + 1 ELSE 0
      /\ \A i \in 1 .. n - 1 + 1 : q[i] = f[1 + i - 1]
  BY SubSeqProperties
<1>2. \A i \in 1 .. n : 1 + i - 1 = i /\ i \in 1 .. n - 1 + 1
  OBVIOUS
<1> QED
  BY <1>1, <1>2

\* A set of natural numbers that is not empty has a least element.
LEMMA LeastNat ==
  ASSUME NEW S \in SUBSET Nat, S # {}
  PROVE  \E n \in S : \A m \in S : n <= m
<1>1. PICK n \in S : \A m \in S : ~ (<<m, n>> \in OpToRel(<, Nat))
  <2>1. S \subseteq Nat
    OBVIOUS
  <2> QED
    BY <2>1, NatLessThanWellFounded, WFMin
<1>2. \A m \in S : ~ (m < n)
  BY <1>1 DEF OpToRel
<1> QED
  BY <1>2

\* Min and Max of sets of integers with a bound.
LEMMA MinFacts ==
  ASSUME NEW S, S # {}, NEW lo \in Int, \A k \in S : k \in Int /\ lo <= k, NEW n, n = Min(S)
  PROVE  n \in S /\ \A k \in S : n <= k
<1>1. \E k \in S : \A j \in S : k <= j
  <2> DEFINE T == {k \in Nat : lo + k \in S}
  <2>1. T # {}
    <3>1. PICK k \in S : k \in Int /\ lo <= k
      OBVIOUS
    <3>2. k - lo \in Nat /\ lo + (k - lo) = k
      BY <3>1
    <3> QED
      BY <3>1, <3>2
  <2>2. PICK k \in T : \A j \in T : k <= j
    BY <2>1, LeastNat
  <2>3. \A j \in S : lo + k <= j
    <3> SUFFICES ASSUME NEW j \in S PROVE lo + k <= j
      OBVIOUS
    <3>1. j - lo \in Nat /\ lo + (j - lo) = j
      OBVIOUS
    <3>2. k <= j - lo
      BY <2>2, <3>1
    <3> QED
      BY <3>1, <3>2
  <2> QED
    BY <2>3
<1> QED
  BY <1>1 DEF Min

\* The same for Max.
LEMMA MaxFacts ==
  ASSUME NEW S, S # {}, NEW hi \in Int, \A k \in S : k \in Int /\ k <= hi, NEW n, n = Max(S)
  PROVE  n \in S /\ \A k \in S : k <= n
<1>1. \E k \in S : \A j \in S : j <= k
  <2> DEFINE T == {k \in Nat : hi - k \in S}
  <2>1. T # {}
    <3>1. PICK k \in S : k \in Int /\ k <= hi
      OBVIOUS
    <3>2. hi - k \in Nat /\ hi - (hi - k) = k
      BY <3>1
    <3> QED
      BY <3>1, <3>2
  <2>2. PICK k \in T : \A j \in T : k <= j
    BY <2>1, LeastNat
  <2>3. \A j \in S : j <= hi - k
    <3> SUFFICES ASSUME NEW j \in S PROVE j <= hi - k
      OBVIOUS
    <3>1. hi - j \in Nat /\ hi - (hi - j) = j
      OBVIOUS
    <3>2. k <= hi - j
      BY <2>2, <3>1
    <3> QED
      BY <3>1, <3>2
  <2> QED
    BY <2>3
<1>2. \E k \in S : \A j \in S : k >= j
  BY <1>1
<1> QED
  BY <1>2 DEF Max

\* Cardinalities of sets that lose or gain elements.
LEMMA CardLess ==
  ASSUME NEW S, IsFiniteSet(S), NEW x \in S, NEW T, T = S \ {x}
  PROVE  IsFiniteSet(T) /\ Cardinality(T) = Cardinality(S) - 1
BY FS_RemoveElement

\* Two sets that do not meet.
LEMMA CardMore ==
  ASSUME NEW S, IsFiniteSet(S), NEW T, IsFiniteSet(T), S \cap T = {}, NEW U, U = S \cup T
  PROVE  IsFiniteSet(U) /\ Cardinality(U) = Cardinality(S) + Cardinality(T)
<1>1. /\ IsFiniteSet(U) /\ Cardinality(U) = Cardinality(S) + Cardinality(T) - Cardinality(S \cap T)
  BY FS_Union
<1>2. Cardinality(S \cap T) = 0 /\ Cardinality(S) \in Nat /\ Cardinality(T) \in Nat
  BY FS_EmptySet, FS_CardinalityType
<1> QED
  BY <1>1, <1>2

\* Sets with a bijection between them.
LEMMA CardSame ==
  ASSUME NEW A, IsFiniteSet(A), NEW B, NEW f \in [A -> B],
         \A a, c \in A : f[a] = f[c] => a = c, \A b \in B : \E a \in A : f[a] = b
  PROVE  IsFiniteSet(B) /\ Cardinality(B) = Cardinality(A)
<1>1. f \in Bijection(A, B)
  BY DEF Bijection, Injection, Surjection, IsInjective
<1>2. ExistsBijection(A, B)
  BY <1>1 DEF ExistsBijection
<1> QED
  BY <1>2, FS_Bijection

\* The entries that wait are finitely many.
LEMMA WaitingFacts ==
  ASSUME NEW s \in Dispatchers
  PROVE  /\ Len(s.data) \in Nat /\ s.data \in Seq(Entries)
         /\ \A p \in Slots(s) : s.data[p] \in Entries /\ p \in Nat
         /\ IsFiniteSet(Slots(s)) /\ IsFiniteSet(Waiting(s)) /\ Cardinality(Waiting(s)) \in Nat
         /\ \A ps : ps \subseteq Slots(s) => IsFiniteSet(ps) /\ Cardinality(ps) \in Nat
<1>1. s.data \in Seq(Entries)
  BY DEF Dispatchers
<1>2. Len(s.data) \in Nat /\ \A p \in Slots(s) : s.data[p] \in Entries /\ p \in Nat
  BY <1>1 DEF Slots
<1>3. IsFiniteSet(Slots(s))
  BY <1>2, FS_Interval DEF Slots
<1>4. \A ps : ps \subseteq Slots(s) => IsFiniteSet(ps) /\ Cardinality(ps) \in Nat
  BY <1>3, FS_Subset, FS_CardinalityType
<1>5. Waiting(s) \subseteq Slots(s)
  BY DEF Waiting
<1> QED
  BY <1>1, <1>2, <1>3, <1>4, <1>5

-----------------------------------------------------------------------------
(* What the helpers of the class change.                                   *)

\* Everything but the entries and their number is as it was.
Beside(s, t) ==
  /\ t.finish_i = s.finish_i /\ t.next_i = s.next_i /\ t.last_sent_i = s.last_sent_i
  /\ t.generation = s.generation /\ t.id_offset = s.id_offset /\ t.sent = s.sent

\* The entries are the same queries, of the same chains.
Alike(s, t) ==
  /\ Len(t.data) = Len(s.data)
  /\ \A p \in Slots(s) : /\ t.data[p].query = s.data[p].query
                         /\ t.data[p].generation = s.data[p].generation

\* Only the entry p changed its state, to st.
Put(s, t, p, st) ==
  /\ Alike(s, t) /\ t.data[p].state = st
  /\ \A k \in Slots(s) : k # p => t.data[k].state = s.data[k].state

\* An entry with another state.
LEMMA EntryFacts ==
  ASSUME NEW e \in Entries, NEW st \in {"Start", "Wait", "Finish", "Dummy"},
         NEW g, g = [e EXCEPT !.state = st]
  PROVE  /\ g \in Entries /\ g.query = e.query /\ g.generation = e.generation
         /\ g.total_timeout = e.total_timeout /\ g.state = st
BY DEF Entries

\* An entry gets a state.
Restated(q, s, p, st) == q = [s.data EXCEPT ![p].state = st]
LEMMA PutFacts ==
  ASSUME NEW s \in Dispatchers, NEW p \in Slots(s), NEW st \in {"Start", "Wait", "Finish", "Dummy"},
         NEW q, Restated(q, s, p, st)
  PROVE  /\ q \in Seq(Entries) /\ Len(q) = Len(s.data)
         /\ \A k \in Slots(s) : /\ q[k].query = s.data[k].query
                                /\ q[k].generation = s.data[k].generation
                                /\ k # p => q[k].state = s.data[k].state
         /\ q[p].state = st
<1>1. /\ s.data \in Seq(Entries) /\ Len(s.data) \in Nat
      /\ \A k \in Slots(s) : s.data[k] \in Entries
  BY WaitingFacts
<1>2. s.data[p] \in Entries
  BY <1>1
<1>a. PICK e : e = [s.data[p] EXCEPT !.state = st]
  OBVIOUS
<1>3. /\ e \in Entries /\ e.query = s.data[p].query
      /\ e.generation = s.data[p].generation /\ e.state = st
  BY <1>2, <1>a, EntryFacts
<1>4. q = [s.data EXCEPT ![p] = e]
  BY <1>a DEF Restated
<1>5. p \in 1 .. Len(s.data)
  BY DEF Slots
<1>6. /\ q \in Seq(Entries) /\ Len(q) = Len(s.data) /\ q[p] = e
      /\ \A k \in Slots(s) : k # p => q[k] = s.data[k]
  BY <1>1, <1>3, <1>4, <1>5, ExceptSeq DEF Slots
<1> QED
  BY <1>3, <1>6

\* data_from_token.
LEMMA FromTokenFacts ==
  ASSUME NEW s \in Dispatchers, NEW p \in Slots(s), NEW t, t = FromToken(s, p)
  PROVE  /\ t \in Dispatchers /\ Beside(s, t) /\ Put(s, t, p, "Dummy")
         /\ t.wait_cnt = s.wait_cnt - 1
<1>1. PICK q : Restated(q, s, p, "Dummy")
  BY DEF Restated
<1>2. /\ q \in Seq(Entries) /\ Len(q) = Len(s.data)
      /\ \A k \in Slots(s) : /\ q[k].query = s.data[k].query
                             /\ q[k].generation = s.data[k].generation
                             /\ k # p => q[k].state = s.data[k].state
      /\ q[p].state = "Dummy"
  BY <1>1, PutFacts
<1>3. t = [s EXCEPT !.wait_cnt = s.wait_cnt - 1, !.data = q]
  BY <1>1 DEF FromToken, Dispatchers, Restated
<1>4. t.data = q /\ t.wait_cnt = s.wait_cnt - 1 /\ Beside(s, t)
  BY <1>3 DEF Dispatchers, Beside
<1>5. t \in Dispatchers
  <2>1. s.wait_cnt - 1 \in Int
    BY DEF Dispatchers
  <2>2. q \in Seq(Entries)
    BY <1>2
  <2> QED
    BY <1>3, <2>1, <2>2 DEF Dispatchers
<1> QED
  BY <1>2, <1>4, <1>5 DEF Put, Alike

\* do_finish, and the answer that goes to the callback.
Ended(s, p, st, c, t) == t = [s EXCEPT !.data[p].state = st, !.wait_cnt = c]
LEMMA EndFacts ==
  ASSUME NEW s \in Dispatchers, NEW p \in Slots(s), NEW c \in Int,
         NEW st \in {"Start", "Wait", "Finish"},
         NEW t, Ended(s, p, st, c, t)
  PROVE  /\ t \in Dispatchers /\ Beside(s, t) /\ Put(s, t, p, st) /\ t.wait_cnt = c
<1>1. PICK q : Restated(q, s, p, st)
  BY DEF Restated
<1>2. /\ q \in Seq(Entries) /\ Len(q) = Len(s.data)
      /\ \A k \in Slots(s) : /\ q[k].query = s.data[k].query
                             /\ q[k].generation = s.data[k].generation
                             /\ k # p => q[k].state = s.data[k].state
      /\ q[p].state = st
  BY <1>1, PutFacts
<1>3. t = [s EXCEPT !.data = q, !.wait_cnt = c]
  BY <1>1 DEF Dispatchers, Restated, Ended
<1>4. t.data = q /\ t.wait_cnt = c /\ Beside(s, t)
  BY <1>3 DEF Dispatchers, Beside
<1>5. t \in Dispatchers
  BY <1>2, <1>3 DEF Dispatchers
<1> QED
  BY <1>2, <1>4, <1>5 DEF Put, Alike

\* A new chain.
NewChain(b, f, g, t) == t = [b EXCEPT !.next_i = f, !.generation = g, !.last_sent_i = 0]
LEMMA NewChainFacts ==
  ASSUME NEW b \in Dispatchers, NEW f \in Int, NEW g \in Nat, NEW t, NewChain(b, f, g, t)
  PROVE  /\ t \in Dispatchers /\ t.data = b.data /\ t.wait_cnt = b.wait_cnt
         /\ t.finish_i = b.finish_i /\ t.id_offset = b.id_offset /\ t.sent = b.sent
         /\ t.next_i = f /\ t.generation = g /\ t.last_sent_i = 0
<1>1. 0 \in Int
  OBVIOUS
<1>2. t \in Dispatchers
  BY <1>1 DEF Dispatchers, NewChain
<1>3. /\ t.data = b.data /\ t.wait_cnt = b.wait_cnt
      /\ t.finish_i = b.finish_i /\ t.id_offset = b.id_offset /\ t.sent = b.sent
  BY DEF Dispatchers, NewChain
<1>4. t.next_i = f /\ t.generation = g /\ t.last_sent_i = 0
  BY DEF Dispatchers, NewChain
<1> QED
  BY <1>2, <1>3, <1>4

\* do_resend begins a new chain when the query is of the current one.
LEMMA RestartFacts ==
  ASSUME NEW s \in Dispatchers, NEW p \in Slots(s), NEW t, t = Restart(s, p)
  PROVE  /\ t \in Dispatchers /\ Put(s, t, p, "Start")
         /\ t.wait_cnt = s.wait_cnt /\ t.finish_i = s.finish_i /\ t.id_offset = s.id_offset
         /\ t.sent = s.sent
         /\ s.data[p].generation = s.generation =>
              t.next_i = s.finish_i /\ t.generation = s.generation + 1 /\ t.last_sent_i = 0
         /\ s.data[p].generation # s.generation => Beside(s, t)
<1>1. PICK q : Restated(q, s, p, "Start")
  BY DEF Restated
<1>2. /\ q \in Seq(Entries) /\ Len(q) = Len(s.data)
      /\ \A k \in Slots(s) : /\ q[k].query = s.data[k].query
                             /\ q[k].generation = s.data[k].generation
                             /\ k # p => q[k].state = s.data[k].state
      /\ q[p].state = "Start"
  BY <1>1, PutFacts
<1>3. PICK b : b = [s EXCEPT !.data = q]
  OBVIOUS
<1>4. /\ b \in Dispatchers /\ b.data = q /\ Beside(s, b) /\ b.wait_cnt = s.wait_cnt
  BY <1>2, <1>3 DEF Dispatchers, Beside
<1>5. [s EXCEPT !.data[p].state = "Start"] = b
  BY <1>1, <1>3 DEF Dispatchers, Restated
<1>6. t = IF s.data[p].generation = s.generation
          THEN [b EXCEPT !.next_i = s.finish_i, !.generation = @ + 1, !.last_sent_i = 0] ELSE b
  BY <1>5 DEF Restart
<1>7. CASE s.data[p].generation = s.generation
  <2>1. t = [b EXCEPT !.next_i = s.finish_i, !.generation = b.generation + 1, !.last_sent_i = 0]
    BY <1>4, <1>6, <1>7 DEF Dispatchers
  <2>2. s.finish_i \in Int /\ b.generation + 1 \in Nat /\ b.generation = s.generation
    BY <1>4 DEF Dispatchers, Beside
  <2>3. PICK g \in Nat, f \in Int : g = b.generation + 1 /\ f = s.finish_i
    BY <2>2
  <2>4. NewChain(b, f, g, t)
    BY <2>1, <2>3 DEF NewChain
  <2>5. /\ t \in Dispatchers /\ t.data = b.data /\ t.wait_cnt = b.wait_cnt
        /\ t.finish_i = b.finish_i /\ t.id_offset = b.id_offset /\ t.sent = b.sent
        /\ t.next_i = f /\ t.generation = g /\ t.last_sent_i = 0
    BY <1>4, <2>4, NewChainFacts
  <2>6. /\ t \in Dispatchers /\ t.data = q /\ t.wait_cnt = s.wait_cnt /\ t.finish_i = s.finish_i
        /\ t.id_offset = s.id_offset /\ t.sent = s.sent
        /\ t.next_i = s.finish_i /\ t.generation = s.generation + 1 /\ t.last_sent_i = 0
    BY <1>4, <2>2, <2>3, <2>5 DEF Beside
  <2> QED
    BY <1>2, <1>7, <2>6 DEF Put, Alike
<1>8. CASE s.data[p].generation # s.generation
  BY <1>2, <1>4, <1>6, <1>8 DEF Put, Alike, Beside
<1> QED
  BY <1>7, <1>8

\* Only the states of the entries in ps changed, to Wait.
PutAll(s, t, ps) ==
  /\ Alike(s, t)
  /\ \A k \in Slots(s) : t.data[k].state = IF k \in ps THEN "Wait" ELSE s.data[k].state

\* check_timeout.
LEMMA CheckTimeoutFacts ==
  ASSUME NEW s \in Dispatchers, NEW ps, ps \subseteq Slots(s), NEW t, t = CheckTimeout(s, ps)
  PROVE  /\ t \in Dispatchers /\ Beside(s, t) /\ PutAll(s, t, TooLong(s, ps))
         /\ t.wait_cnt = s.wait_cnt + Cardinality(TooLong(s, ps))
         /\ TooLong(s, ps) \subseteq Slots(s)
         /\ \A k \in TooLong(s, ps) : s.data[k].state = "Start"
<1>1. PICK T : T = TooLong(s, ps)
  OBVIOUS
<1>2. T \subseteq Slots(s) /\ \A k \in T : s.data[k].state = "Start"
  BY <1>1 DEF TooLong
<1>3. /\ s.data \in Seq(Entries) /\ Len(s.data) \in Nat /\ DOMAIN s.data = 1 .. Len(s.data)
      /\ \A k \in 1 .. Len(s.data) : s.data[k] \in Entries
  BY WaitingFacts, LenProperties DEF Slots
<1>4. PICK f : f = [p \in DOMAIN s.data |->
                      [s.data[p] EXCEPT !.state = IF p \in T THEN "Wait" ELSE @]]
  OBVIOUS
<1>5. \A k \in 1 .. Len(s.data) :
        /\ f[k] \in Entries /\ f[k].query = s.data[k].query
        /\ f[k].generation = s.data[k].generation
        /\ f[k].state = IF k \in T THEN "Wait" ELSE s.data[k].state
  <2> SUFFICES ASSUME NEW k \in 1 .. Len(s.data)
               PROVE  /\ f[k] \in Entries /\ f[k].query = s.data[k].query
                      /\ f[k].generation = s.data[k].generation
                      /\ f[k].state = IF k \in T THEN "Wait" ELSE s.data[k].state
    OBVIOUS
  <2>1. PICK e, st : e = s.data[k] /\ st = IF k \in T THEN "Wait" ELSE e.state
    OBVIOUS
  <2>2. e \in Entries /\ st \in {"Start", "Wait", "Finish", "Dummy"}
    BY <1>3, <2>1 DEF Entries
  <2>3. f[k] = [e EXCEPT !.state = st]
    BY <1>3, <1>4, <2>1, <2>2 DEF Entries
  <2>4. /\ f[k] \in Entries /\ f[k].query = e.query /\ f[k].generation = e.generation
        /\ f[k].state = st
    BY <2>2, <2>3, EntryFacts
  <2> QED
    BY <2>1, <2>4
<1>6. PICK q : q = SubSeq(f, 1, Len(s.data))
  OBVIOUS
<1>7. q \in Seq(Entries) /\ Len(q) = Len(s.data) /\ \A k \in 1 .. Len(s.data) : q[k] = f[k]
  BY <1>3, <1>5, <1>6, EachFacts
<1>8. t = [s EXCEPT !.data = q, !.wait_cnt = s.wait_cnt + Cardinality(T)]
  BY <1>1, <1>4, <1>6 DEF CheckTimeout, Each, Dispatchers
<1>9. Cardinality(T) \in Nat
  BY <1>2, WaitingFacts
<1>10. t \in Dispatchers /\ t.data = q /\ t.wait_cnt = s.wait_cnt + Cardinality(T) /\ Beside(s, t)
  <2>1. s.wait_cnt + Cardinality(T) \in Int
    BY <1>9 DEF Dispatchers
  <2>2. t.data = q /\ t.wait_cnt = s.wait_cnt + Cardinality(T) /\ Beside(s, t)
    BY <1>8 DEF Dispatchers, Beside
  <2> QED
    BY <1>7, <1>8, <2>1, <2>2 DEF Dispatchers
<1>11. PutAll(s, t, T)
  BY <1>5, <1>7, <1>10 DEF PutAll, Alike, Slots
<1> QED
  BY <1>1, <1>2, <1>10, <1>11

\* The answer took longer: no state changes.
LEMMA DelayFacts ==
  ASSUME NEW s \in Dispatchers, NEW p, NEW lt \in Nat, NEW t, t = Delay(s, p, lt)
  PROVE  t \in Dispatchers /\ Beside(s, t) /\ PutAll(s, t, {}) /\ t.wait_cnt = s.wait_cnt
<1>3. /\ s.data \in Seq(Entries) /\ Len(s.data) \in Nat /\ DOMAIN s.data = 1 .. Len(s.data)
      /\ \A k \in 1 .. Len(s.data) : s.data[k] \in Entries
  BY WaitingFacts, LenProperties DEF Slots
<1>4. PICK f : f = [i \in DOMAIN s.data |->
                      [s.data[i] EXCEPT !.total_timeout = IF i >= p THEN @ + lt ELSE @]]
  OBVIOUS
<1>5. \A k \in 1 .. Len(s.data) :
        /\ f[k] \in Entries /\ f[k].query = s.data[k].query
        /\ f[k].generation = s.data[k].generation /\ f[k].state = s.data[k].state
  <2> SUFFICES ASSUME NEW k \in 1 .. Len(s.data)
               PROVE  /\ f[k] \in Entries /\ f[k].query = s.data[k].query
                      /\ f[k].generation = s.data[k].generation /\ f[k].state = s.data[k].state
    OBVIOUS
  <2>1. PICK e, n : e = s.data[k] /\ n = IF k >= p THEN e.total_timeout + lt ELSE e.total_timeout
    OBVIOUS
  <2>2. e \in Entries /\ n \in Nat
    BY <1>3, <2>1 DEF Entries
  <2>3. f[k] = [e EXCEPT !.total_timeout = n]
    BY <1>3, <1>4, <2>1, <2>2 DEF Entries
  <2> QED
    BY <2>1, <2>2, <2>3 DEF Entries
<1>6. PICK q : q = SubSeq(f, 1, Len(s.data))
  OBVIOUS
<1>7. q \in Seq(Entries) /\ Len(q) = Len(s.data) /\ \A k \in 1 .. Len(s.data) : q[k] = f[k]
  BY <1>3, <1>5, <1>6, EachFacts
<1>8. t = [s EXCEPT !.data = q]
  BY <1>4, <1>6 DEF Delay, Each, Dispatchers
<1>9. t \in Dispatchers /\ t.data = q /\ t.wait_cnt = s.wait_cnt /\ Beside(s, t)
  BY <1>7, <1>8 DEF Dispatchers, Beside
<1> QED
  BY <1>5, <1>7, <1>9 DEF PutAll, Alike, Slots

-----------------------------------------------------------------------------
(* The helpers keep the invariant.                                         *)

\* The types of the members, taken apart.
LEMMA MemberFacts ==
  ASSUME NEW s \in Dispatchers
  PROVE  /\ Len(s.data) \in Nat /\ s.finish_i \in Int /\ s.next_i \in Int /\ s.last_sent_i \in Int
         /\ s.generation \in Nat /\ s.id_offset \in Int /\ s.wait_cnt \in Int
         /\ \A p \in Slots(s) : /\ p \in Nat /\ p >= 1 /\ p <= Len(s.data)
                                /\ s.data[p].query \in Queries /\ s.data[p].generation \in Nat
                                /\ s.data[p].state \in {"Start", "Wait", "Finish", "Dummy"}
<1>1. \A p \in Slots(s) : s.data[p] \in Entries
  BY WaitingFacts
<1>2. \A p \in Slots(s) : /\ s.data[p].query \in Queries /\ s.data[p].generation \in Nat
                          /\ s.data[p].state \in {"Start", "Wait", "Finish", "Dummy"}
  BY <1>1 DEF Entries
<1>3. /\ s.finish_i \in Int /\ s.next_i \in Int /\ s.last_sent_i \in Int
      /\ s.generation \in Nat /\ s.id_offset \in Int /\ s.wait_cnt \in Int
  BY DEF Dispatchers
<1>4. Len(s.data) \in Nat
  BY WaitingFacts
<1> QED
  BY <1>2, <1>3, <1>4 DEF Slots

\* New states leave the order of the queries and the bounds alone.
LEMMA SameLine ==
  ASSUME NEW s \in Dispatchers, NEW t \in Dispatchers, NEW base,
         Lined(s, base), Bounds(s), Beside(s, t), Alike(s, t)
  PROVE  Lined(t, base) /\ Bounds(t) /\ Slots(t) = Slots(s)
<1>1. Slots(t) = Slots(s)
  BY DEF Slots, Alike
<1>2. Lined(t, base)
  BY <1>1 DEF Lined, Beside, Alike
<1>3. Bounds(t)
  BY DEF Bounds, Beside, Alike
<1> QED
  BY <1>1, <1>2, <1>3

\* A query outside, as one of Sendings or Handles.
LEMMA OutsideFacts ==
  ASSUME NEW m, m \in Sendings \cup Handles
  PROVE  m.query \in Queries /\ m.token \in Int /\ m.query \in Nat
<1>1. m.query \in Queries /\ m.token \in Int
  BY DEF Sendings, Handles
<1> QED
  BY <1>1 DEF Queries

\* The token of m comes back from N or H; x is its entry.
TakesBack(s, m, p, t, N, H, N2, H2, x) ==
  /\ m \in N \/ m \in H
  /\ p = Pos(s, m.token) /\ t = FromToken(s, p) /\ x = {p}
  /\ N2 = N \ {m} /\ H2 = H \ {m}

\* data_from_token: the token finds the query, which is no longer outside.
LEMMA FromTokenGood ==
  ASSUME NEW s, NEW base, NEW N, NEW H, NEW SV, NEW D, Good(s, base, N, H, SV, D, {}),
         NEW m, NEW p, NEW t, NEW N2, NEW H2, NEW x, TakesBack(s, m, p, t, N, H, N2, H2, x)
  PROVE  /\ p = m.query - base /\ p \in Slots(s) /\ s.data[p].state = "Wait"
         /\ m.query = base + p
         /\ Good(t, base, N2, H2, SV, D, x) /\ Len(t.data) = Len(s.data)
         /\ m \in N => H2 = H
         /\ m \in H => N2 = N
         /\ t.next_i = s.next_i /\ t.id_offset = s.id_offset
         /\ m.token = p - 1 + s.id_offset
<1>a. /\ m \in N \cup H
      /\ p = Pos(s, m.token) /\ t = FromToken(s, p) /\ x = {p}
      /\ N2 = N \ {m} /\ H2 = H \ {m}
  BY DEF TakesBack
<1>1. /\ s \in Dispatchers /\ s.sent = {} /\ N \subseteq Sendings /\ H \subseteq Handles
      /\ SV \in [Queries -> Outcomes] /\ D \subseteq 1 .. base + Len(s.data)
      /\ Lined(s, base) /\ Bounds(s) /\ Ordered(s) /\ Dummies(s, {}) /\ Counted(s)
      /\ Tokens(s, base, N, H) /\ Judged(s, base, H, SV) /\ Finished(s, base, D)
  BY DEF Good
<1>2. m.query \in Nat /\ m.token \in Int
  BY <1>a, <1>1, OutsideFacts
<1>3. /\ base \in Nat /\ s.id_offset \in Int
  BY <1>1, MemberFacts DEF Lined
<1>4. /\ m.query - base \in Waiting(s) /\ m.token = m.query - base - 1 + s.id_offset
  BY <1>a, <1>1 DEF Tokens
<1>5. p = m.query - base /\ m.query = base + p
  BY <1>a, <1>2, <1>3, <1>4 DEF Pos
<1>6. p \in Slots(s) /\ s.data[p].state = "Wait" /\ p \in Waiting(s)
  BY <1>4, <1>5 DEF Waiting
<1>7. /\ t \in Dispatchers /\ Beside(s, t) /\ Put(s, t, p, "Dummy")
      /\ t.wait_cnt = s.wait_cnt - 1
  BY <1>a, <1>1, <1>6, FromTokenFacts
<1>8. Alike(s, t) /\ t.data[p].state = "Dummy"
      /\ \A k \in Slots(s) : k # p => t.data[k].state = s.data[k].state
  BY <1>7 DEF Put
<1>9. Lined(t, base) /\ Bounds(t) /\ Slots(t) = Slots(s)
  BY <1>1, <1>7, <1>8, SameLine
<1>10. Len(t.data) = Len(s.data) /\ t.sent = {} /\ t.next_i = s.next_i /\ t.id_offset = s.id_offset
  BY <1>1, <1>7, <1>8 DEF Alike, Beside
<1>11. Ordered(t)
  <2> SUFFICES ASSUME NEW k \in Slots(s)
               PROVE  /\ k < s.finish_i => t.data[k].state = "Finish"
                      /\ k < s.next_i => t.data[k].state # "Start"
                      /\ k < s.next_i => t.data[k].state = "Finish" \/ t.data[k].generation = s.generation
                      /\ s.last_sent_i < k /\ k < s.next_i => t.data[k].state = "Finish"
    BY <1>7, <1>9 DEF Ordered, Beside
  <2>1. /\ k < s.finish_i => s.data[k].state = "Finish"
        /\ k < s.next_i => s.data[k].state # "Start"
        /\ k < s.next_i => s.data[k].state = "Finish" \/ s.data[k].generation = s.generation
        /\ s.last_sent_i < k /\ k < s.next_i => s.data[k].state = "Finish"
    BY <1>1 DEF Ordered
  <2>2. t.data[k].generation = s.data[k].generation
    BY <1>8 DEF Alike
  <2>3. CASE k = p
    BY <1>6, <1>8, <2>1, <2>2, <2>3
  <2>4. CASE k # p
    BY <1>8, <2>1, <2>2, <2>4
  <2> QED
    BY <2>3, <2>4
<1>12. Dummies(t, {p})
  BY <1>1, <1>8, <1>9 DEF Dummies
<1>13. Waiting(t) = Waiting(s) \ {p}
  BY <1>8, <1>9 DEF Waiting
<1>14. Counted(t)
  <2>1. IsFiniteSet(Waiting(s)) /\ Cardinality(Waiting(s)) \in Nat
    BY <1>1, WaitingFacts
  <2>2. Cardinality(Waiting(t)) = Cardinality(Waiting(s)) - 1
    BY <1>6, <1>13, <2>1, CardLess
  <2> QED
    BY <1>1, <1>7, <2>2 DEF Counted
<1>15. \A n \in N \cup H : n.query = m.query => n = m
  BY <1>a, <1>1 DEF Tokens
<1>16. Tokens(t, base, N \ {m}, H \ {m})
  <2>1. \A n \in (N \ {m}) \cup (H \ {m}) :
          n.query - base \in Waiting(t) /\ n.token = n.query - base - 1 + t.id_offset
    <3> SUFFICES ASSUME NEW n \in (N \ {m}) \cup (H \ {m})
                 PROVE  n.query - base \in Waiting(t) /\ n.token = n.query - base - 1 + t.id_offset
      OBVIOUS
    <3>1. n.query - base \in Waiting(s) /\ n.token = n.query - base - 1 + s.id_offset
      BY <1>1 DEF Tokens
    <3>2. n.query # m.query /\ n.query \in Nat
      BY <1>1, <1>15, OutsideFacts
    <3>3. n.query - base # p
      BY <1>2, <1>3, <1>5, <3>2
    <3> QED
      BY <1>7, <1>13, <3>1, <3>3 DEF Beside
  <2>2. \A k \in Waiting(t) : \E n \in (N \ {m}) \cup (H \ {m}) : n.query = base + k
    <3> SUFFICES ASSUME NEW k \in Waiting(t)
                 PROVE  \E n \in (N \ {m}) \cup (H \ {m}) : n.query = base + k
      OBVIOUS
    <3>1. k \in Waiting(s) /\ k # p /\ k \in Int
      BY <1>13 DEF Waiting, Slots
    <3>2. PICK n \in N \cup H : n.query = base + k
      BY <1>1, <3>1 DEF Tokens
    <3>3. p \in Int
      BY <1>6 DEF Slots
    <3>4. n.query # m.query
      BY <1>3, <1>5, <3>1, <3>2, <3>3
    <3> QED
      BY <3>2, <3>4
  <2> QED
    BY <1>1, <2>1, <2>2 DEF Tokens
<1>17. Judged(t, base, H \ {m}, SV)
  <2>1. \A k \in Slots(t) : t.data[k].state = "Start" => SV[base + k] # "ok"
    BY <1>1, <1>8, <1>9 DEF Judged
  <2>2. s.last_sent_i # 0 /\ t.data[s.last_sent_i].state = "Finish" =>
          SV[base + s.last_sent_i] \in {"ok", "error"}
    <3> SUFFICES ASSUME s.last_sent_i # 0, t.data[s.last_sent_i].state = "Finish"
                 PROVE  SV[base + s.last_sent_i] \in {"ok", "error"}
      OBVIOUS
    <3>1. s.last_sent_i \in Slots(s) /\ s.last_sent_i # p
      BY <1>1, <1>8, MemberFacts DEF Bounds, Slots
    <3> QED
      BY <1>1, <1>8, <3>1 DEF Judged
  <2>3. \A q \in Queries : q > base + Len(t.data) => SV[q] = "idle"
    BY <1>1, <1>10 DEF Judged
  <2>4. \A h \in H \ {m} : /\ h.ok <=> SV[h.query] = "ok"
                           /\ h.query - base < t.next_i => SV[h.query] \in {"ok", "error"}
    BY <1>1, <1>10 DEF Judged
  <2> QED
    BY <1>7, <2>1, <2>2, <2>3, <2>4 DEF Judged, Beside
<1>18. Finished(t, base, D)
  <2> SUFFICES ASSUME NEW q \in 1 .. base + Len(s.data)
               PROVE  q \in D <=> q <= base \/ t.data[q - base].state = "Finish"
    BY <1>10 DEF Finished
  <2>1. q \in D <=> q <= base \/ s.data[q - base].state = "Finish"
    BY <1>1 DEF Finished
  <2>2. q <= base \/ q - base \in Slots(s)
    BY <1>1, <1>3, MemberFacts DEF Slots
  <2>3. q - base \in Slots(s) => (t.data[q - base].state = "Finish" <=> s.data[q - base].state = "Finish")
    BY <1>6, <1>8
  <2> QED
    BY <2>1, <2>2, <2>3
<1>19. Good(t, base, N \ {m}, H \ {m}, SV, D, {p})
  BY <1>1, <1>7, <1>9, <1>10, <1>11, <1>12, <1>14, <1>16, <1>17, <1>18 DEF Good
<1>20. /\ m \in N => H \ {m} = H
       /\ m \in H => N \ {m} = N
  BY <1>a, <1>1 DEF Tokens
<1> QED
  <2>1. Good(t, base, N2, H2, SV, D, x)
    BY <1>a, <1>19
  <2>2. (m \in N => H2 = H) /\ (m \in H => N2 = N)
    BY <1>a, <1>20
  <2> QED
    BY <1>4, <1>5, <1>6, <1>10, <2>1, <2>2

\* K are the queries at T, in the hands of their callbacks.
Handing(s, base, SV, T, K) ==
  /\ K \subseteq Handles
  /\ \A h \in K : /\ h.query - base \in T /\ h.token = h.query - base - 1 + s.id_offset
                  /\ h.ok <=> SV[h.query] = "ok"
                  /\ h.query - base < s.next_i => SV[h.query] \in {"ok", "error"}
  /\ \A k \in T : /\ \E h \in K : h.query = base + k
                  /\ s.data[k].state \in {"Start", "Dummy"}
  /\ \A g, h \in K : g.query = h.query => g = h

\* Entries that start to wait, and the callbacks that have them now.
LEMMA WaitGood ==
  ASSUME NEW s, NEW base, NEW N, NEW H, NEW SV, NEW D, NEW x, Good(s, base, N, H, SV, D, x),
         NEW t \in Dispatchers, NEW T, Beside(s, t), PutAll(s, t, T), T \subseteq Slots(s),
         t.wait_cnt = s.wait_cnt + Cardinality(T),
         NEW K, Handing(s, base, SV, T, K)
  PROVE  /\ Good(t, base, N, H \cup K, SV, D, x \ T) /\ Len(t.data) = Len(s.data)
<1>1. /\ s \in Dispatchers /\ s.sent = {} /\ N \subseteq Sendings /\ H \subseteq Handles
      /\ SV \in [Queries -> Outcomes] /\ D \subseteq 1 .. base + Len(s.data)
      /\ Lined(s, base) /\ Bounds(s) /\ Ordered(s) /\ Dummies(s, x) /\ Counted(s)
      /\ Tokens(s, base, N, H) /\ Judged(s, base, H, SV) /\ Finished(s, base, D)
  BY DEF Good
<1>a. /\ K \subseteq Handles
      /\ \A h \in K : /\ h.query - base \in T /\ h.token = h.query - base - 1 + s.id_offset
                      /\ h.ok <=> SV[h.query] = "ok"
                      /\ h.query - base < s.next_i => SV[h.query] \in {"ok", "error"}
      /\ \A k \in T : \E h \in K : h.query = base + k
      /\ \A g, h \in K : g.query = h.query => g = h
  BY DEF Handing
<1>b. \A k \in T : s.data[k].state \in {"Start", "Dummy"}
  BY DEF Handing
<1>2. /\ Alike(s, t)
      /\ \A k \in Slots(s) : t.data[k].state = IF k \in T THEN "Wait" ELSE s.data[k].state
  BY DEF PutAll
<1>3. Lined(t, base) /\ Bounds(t) /\ Slots(t) = Slots(s)
  BY <1>1, <1>2, SameLine
<1>4. Len(t.data) = Len(s.data) /\ t.sent = {} /\ t.next_i = s.next_i /\ base \in Nat
  BY <1>1, <1>2 DEF Alike, Beside, Lined
<1>5. Ordered(t)
  <2> SUFFICES ASSUME NEW k \in Slots(s)
               PROVE  /\ k < s.finish_i => t.data[k].state = "Finish"
                      /\ k < s.next_i => t.data[k].state # "Start"
                      /\ k < s.next_i => t.data[k].state = "Finish" \/ t.data[k].generation = s.generation
                      /\ s.last_sent_i < k /\ k < s.next_i => t.data[k].state = "Finish"
    BY <1>3 DEF Ordered, Beside
  <2>1. /\ k < s.finish_i => s.data[k].state = "Finish"
        /\ k < s.next_i => s.data[k].state # "Start"
        /\ k < s.next_i => s.data[k].state = "Finish" \/ s.data[k].generation = s.generation
        /\ s.last_sent_i < k /\ k < s.next_i => s.data[k].state = "Finish"
    BY <1>1 DEF Ordered
  <2>2. t.data[k].generation = s.data[k].generation
    BY <1>2 DEF Alike
  <2>3. CASE k \in T
    <3>1. s.data[k].state # "Finish" /\ t.data[k].state = "Wait"
      BY <1>2, <1>b, <2>3
    <3> QED
      BY <2>1, <2>2, <3>1
  <2>4. CASE k \notin T
    <3>1. t.data[k].state = s.data[k].state
      BY <1>2, <2>4
    <3> QED
      BY <2>1, <2>2, <3>1
  <2> QED
    BY <2>3, <2>4
<1>6. Dummies(t, x \ T)
  BY <1>1, <1>2, <1>3, <1>b DEF Dummies
<1>7. Waiting(t) = Waiting(s) \cup T /\ Waiting(s) \cap T = {}
  BY <1>2, <1>3, <1>b DEF Waiting
<1>8. Counted(t)
  <2>1. IsFiniteSet(Waiting(s)) /\ IsFiniteSet(T)
    BY <1>1, WaitingFacts
  <2>2. Cardinality(Waiting(t)) = Cardinality(Waiting(s)) + Cardinality(T)
    BY <1>7, <2>1, CardMore
  <2> QED
    BY <1>1, <2>2 DEF Counted
<1>9. \A m \in N \cup H : m.query - base \in Waiting(s) /\ m.token = m.query - base - 1 + s.id_offset
  BY <1>1 DEF Tokens
<1>10. Tokens(t, base, N, H \cup K)
  <2>1. \A m \in N \cup H, h \in K : m.query # h.query
    BY <1>7, <1>9, <1>a
  <2>2. \A m \in N \cup (H \cup K) :
          m.query - base \in Waiting(t) /\ m.token = m.query - base - 1 + t.id_offset
    BY <1>7, <1>9, <1>a DEF Beside
  <2>3. \A k \in Waiting(t) : \E m \in N \cup (H \cup K) : m.query = base + k
    BY <1>1, <1>7, <1>a DEF Tokens
  <2>4. \A g, h \in H \cup K : g.query = h.query => g = h
    BY <1>1, <1>a, <2>1 DEF Tokens
  <2>5. \A m \in N, h \in H \cup K : m.query # h.query
    BY <1>1, <1>a, <2>1 DEF Tokens
  <2>6. \A m, n \in N : m.query = n.query => m = n
    BY <1>1 DEF Tokens
  <2> QED
    BY <2>2, <2>3, <2>4, <2>5, <2>6 DEF Tokens
<1>11. Judged(t, base, H \cup K, SV)
  <2>1. \A k \in Slots(t) : t.data[k].state = "Start" => SV[base + k] # "ok"
    BY <1>1, <1>2, <1>3, <1>b DEF Judged
  <2>2. s.last_sent_i # 0 /\ t.data[s.last_sent_i].state = "Finish" =>
          SV[base + s.last_sent_i] \in {"ok", "error"}
    <3> SUFFICES ASSUME s.last_sent_i # 0, t.data[s.last_sent_i].state = "Finish"
                 PROVE  SV[base + s.last_sent_i] \in {"ok", "error"}
      OBVIOUS
    <3>1. s.last_sent_i \in Slots(s)
      BY <1>1, MemberFacts DEF Bounds, Slots
    <3>2. s.data[s.last_sent_i].state = "Finish"
      BY <1>2, <1>b, <3>1
    <3> QED
      BY <1>1, <3>2 DEF Judged
  <2>3. \A q \in Queries : q > base + Len(t.data) => SV[q] = "idle"
    BY <1>1, <1>4 DEF Judged
  <2>4. \A h \in H \cup K : /\ h.ok <=> SV[h.query] = "ok"
                            /\ h.query - base < t.next_i => SV[h.query] \in {"ok", "error"}
    BY <1>1, <1>4, <1>a DEF Judged
  <2> QED
    BY <2>1, <2>2, <2>3, <2>4 DEF Judged, Beside
<1>12. Finished(t, base, D)
  <2> SUFFICES ASSUME NEW q \in 1 .. base + Len(s.data)
               PROVE  q \in D <=> q <= base \/ t.data[q - base].state = "Finish"
    BY <1>4 DEF Finished
  <2>1. q \in D <=> q <= base \/ s.data[q - base].state = "Finish"
    BY <1>1 DEF Finished
  <2>2. q <= base \/ q - base \in Slots(s)
    BY <1>1, <1>4, MemberFacts DEF Slots
  <2>3. q - base \in Slots(s) => (t.data[q - base].state = "Finish" <=> s.data[q - base].state = "Finish")
    BY <1>2, <1>b
  <2> QED
    BY <2>1, <2>2, <2>3
<1>13. H \cup K \subseteq Handles
  BY <1>1, <1>a
<1> QED
  BY <1>1, <1>3, <1>4, <1>5, <1>6, <1>8, <1>10, <1>11, <1>12, <1>13 DEF Good

\* Waiting longer changes no state.
LEMMA DelayGood ==
  ASSUME NEW s, NEW base, NEW N, NEW H, NEW SV, NEW D, NEW x, Good(s, base, N, H, SV, D, x),
         NEW p, NEW lt \in Nat, NEW t, t = Delay(s, p, lt)
  PROVE  Good(t, base, N, H, SV, D, x) /\ Len(t.data) = Len(s.data) /\ Beside(s, t) /\ PutAll(s, t, {})
<1>1. s \in Dispatchers
  BY DEF Good
<1>2. t \in Dispatchers /\ Beside(s, t) /\ PutAll(s, t, {}) /\ t.wait_cnt = s.wait_cnt
  BY <1>1, DelayFacts
<1>3. PICK T : T = {}
  OBVIOUS
<1>4. /\ t.wait_cnt = s.wait_cnt + Cardinality(T) /\ PutAll(s, t, T) /\ T \subseteq Slots(s)
      /\ Handing(s, base, SV, T, T)
  BY <1>1, <1>2, <1>3, FS_EmptySet, MemberFacts DEF Handing
<1>5. Good(t, base, N, H \cup T, SV, D, x \ T) /\ Len(t.data) = Len(s.data)
  BY <1>2, <1>4, WaitGood
<1>6. H \cup T = H /\ x \ T = x
  BY <1>3
<1> QED
  BY <1>2, <1>5, <1>6

\* check_timeout: who waited too long is in the hands of its callback.
LEMMA CheckTimeoutGood ==
  ASSUME NEW s, NEW base, NEW N, NEW H, NEW SV, NEW D, NEW x, Good(s, base, N, H, SV, D, x),
         NEW ps, ps \subseteq Slots(s), NEW t, t = CheckTimeout(s, ps), NEW K, K = Handed(s, ps)
  PROVE  /\ Good(t, base, N, H \cup K, SV, D, x) /\ Len(t.data) = Len(s.data)
         /\ Beside(s, t) /\ PutAll(s, t, TooLong(s, ps))
<1>1. /\ s \in Dispatchers /\ Dummies(s, x) /\ Judged(s, base, H, SV) /\ Lined(s, base)
      /\ Ordered(s)
  BY DEF Good
<1>2. PICK T : T = TooLong(s, ps)
  OBVIOUS
<1>3. /\ t \in Dispatchers /\ Beside(s, t) /\ PutAll(s, t, T)
      /\ t.wait_cnt = s.wait_cnt + Cardinality(T)
      /\ T \subseteq Slots(s) /\ \A k \in T : s.data[k].state = "Start"
  BY <1>1, <1>2, CheckTimeoutFacts
<1>4. \A h \in K : \E k \in T :
        h = [token |-> Token(s, k), query |-> s.data[k].query, ok |-> FALSE]
  BY <1>2 DEF Handed
<1>5. \A k \in T : \E h \in K :
        h = [token |-> Token(s, k), query |-> s.data[k].query, ok |-> FALSE]
  BY <1>2 DEF Handed
<1>6. /\ base \in Nat /\ s.id_offset \in Int /\ s.next_i \in Int
      /\ \A k \in T : k \in Nat /\ s.data[k].query \in Queries /\ s.data[k].query = base + k
  BY <1>1, <1>3, MemberFacts DEF Lined
<1>7. ASSUME NEW h \in K
      PROVE  /\ h \in Handles
             /\ h.query - base \in T /\ h.token = h.query - base - 1 + s.id_offset
             /\ h.ok <=> SV[h.query] = "ok"
             /\ h.query - base < s.next_i => SV[h.query] \in {"ok", "error"}
  <2>1. PICK k \in T : h = [token |-> Token(s, k), query |-> s.data[k].query, ok |-> FALSE]
    BY <1>4
  <2>2. h.token = k - 1 + s.id_offset /\ h.query = base + k /\ h.ok = FALSE /\ h.query \in Queries
    BY <1>6, <2>1 DEF Token
  <2>3. h \in Handles
    BY <1>6, <2>1, <2>2 DEF Handles
  <2>4. h.query - base = k
    BY <1>6, <2>2
  <2>5. s.data[k].state = "Start" /\ k \in Slots(s)
    BY <1>3
  <2>6. SV[base + k] # "ok" /\ ~ (k < s.next_i)
    BY <1>1, <2>5 DEF Judged, Ordered
  <2>7. h.ok <=> SV[h.query] = "ok"
    BY <2>2, <2>6
  <2> QED
    BY <2>2, <2>3, <2>4, <2>6, <2>7
<1>8. \A k \in T : \E h \in K : h.query = base + k
  BY <1>5, <1>6
<1>9. \A g, h \in K : g.query = h.query => g = h
  <2> SUFFICES ASSUME NEW g \in K, NEW h \in K, g.query = h.query PROVE g = h
    OBVIOUS
  <2>1. PICK k \in T : g = [token |-> Token(s, k), query |-> s.data[k].query, ok |-> FALSE]
    BY <1>4
  <2>2. PICK l \in T : h = [token |-> Token(s, l), query |-> s.data[l].query, ok |-> FALSE]
    BY <1>4
  <2>3. s.data[k].query = s.data[l].query
    BY <2>1, <2>2
  <2>4. k = l
    BY <1>6, <2>3
  <2> QED
    BY <2>1, <2>2, <2>4
<1>10. x \ T = x
  BY <1>1, <1>3 DEF Dummies
<1>11. Good(t, base, N, H \cup K, SV, D, x \ T) /\ Len(t.data) = Len(s.data)
  <2>1. \A k \in T : s.data[k].state \in {"Start", "Dummy"}
    BY <1>3
  <2>2. Handing(s, base, SV, T, K)
    BY <1>7, <1>8, <1>9, <2>1 DEF Handing
  <2> QED
    BY <1>3, <2>2, WaitGood
<1> QED
  BY <1>2, <1>3, <1>10, <1>11

\* The server has answered the query at p, and h is its callback.
HandsOn(s, base, SV, p, h) ==
  /\ h \in Handles /\ h.query = base + p /\ h.token = p - 1 + s.id_offset
  /\ h.ok <=> SV[h.query] = "ok"
  /\ SV[h.query] \in {"ok", "error"}

\* The answer goes to the callback: the entry waits again.
LEMMA WaitAgainGood ==
  ASSUME NEW s, NEW base, NEW N, NEW H, NEW SV, NEW D, NEW p \in Slots(s),
         NEW x, x = {p}, Good(s, base, N, H, SV, D, x),
         NEW h, HandsOn(s, base, SV, p, h),
         NEW c, c = s.wait_cnt + 1, NEW t, Ended(s, p, "Wait", c, t), NEW K, K = H \cup {h}
  PROVE  Good(t, base, N, K, SV, D, {}) /\ Len(t.data) = Len(s.data)
<1>a. /\ h \in Handles /\ h.query = base + p /\ h.token = p - 1 + s.id_offset
      /\ h.ok <=> SV[h.query] = "ok"
      /\ SV[h.query] \in {"ok", "error"}
  BY DEF HandsOn
<1>1. s \in Dispatchers /\ Dummies(s, {p}) /\ Lined(s, base)
  BY DEF Good
<1>2. s.wait_cnt \in Int /\ p \in Nat /\ base \in Nat /\ s.data[p].state = "Dummy"
  BY <1>1, MemberFacts DEF Dummies, Lined
<1>3. c \in Int
  BY <1>2
<1>5. t \in Dispatchers /\ Beside(s, t) /\ Put(s, t, p, "Wait") /\ t.wait_cnt = c
  BY <1>1, <1>3, EndFacts
<1>6. PICK T : T = {p}
  OBVIOUS
<1>7. PutAll(s, t, T) /\ T \subseteq Slots(s)
  BY <1>5, <1>6 DEF PutAll, Put
<1>8. t.wait_cnt = s.wait_cnt + Cardinality(T)
  BY <1>5, <1>6, FS_Singleton
<1>9. PICK J : J = {h}
  OBVIOUS
<1>10. h.query - base = p
  BY <1>a, <1>2
<1>11. Good(t, base, N, H \cup J, SV, D, {p} \ T) /\ Len(t.data) = Len(s.data)
  <2>1. \A k \in T : s.data[k].state \in {"Start", "Dummy"}
    BY <1>2, <1>6
  <2>2. \A g \in J : /\ g.query - base \in T /\ g.token = g.query - base - 1 + s.id_offset
                     /\ g.ok <=> SV[g.query] = "ok"
                     /\ g.query - base < s.next_i => SV[g.query] \in {"ok", "error"}
    BY <1>a, <1>6, <1>9, <1>10
  <2>3. /\ J \subseteq Handles /\ \A k \in T : \E g \in J : g.query = base + k
        /\ \A g, f \in J : g.query = f.query => g = f
    BY <1>a, <1>6, <1>9
  <2>4. Handing(s, base, SV, T, J)
    BY <2>1, <2>2, <2>3 DEF Handing
  <2>7. Good(t, base, N, H \cup J, SV, D, x \ T) /\ Len(t.data) = Len(s.data)
    BY <1>5, <1>7, <1>8, <2>4, WaitGood
  <2> QED
    BY <2>7
<1> QED
  BY <1>6, <1>9, <1>11

\* do_finish: the query is done.
Finishing(s, base, SV, p, D, E, t) ==
  /\ p < s.next_i => SV[base + p] \in {"ok", "error"}
  /\ Ended(s, p, "Finish", s.wait_cnt, t) /\ E = D \cup {base + p}
LEMMA FinishGood ==
  ASSUME NEW s, NEW base, NEW N, NEW H, NEW SV, NEW D, NEW p \in Slots(s),
         NEW x, x = {p}, Good(s, base, N, H, SV, D, x),
         NEW t, NEW E, Finishing(s, base, SV, p, D, E, t)
  PROVE  Good(t, base, N, H, SV, E, {}) /\ Len(t.data) = Len(s.data)
<1>a. p < s.next_i => SV[base + p] \in {"ok", "error"}
  BY DEF Finishing
<1>b. Ended(s, p, "Finish", s.wait_cnt, t)
  BY DEF Finishing
<1>c. E = D \cup {base + p}
  BY DEF Finishing
<1>1. /\ s \in Dispatchers /\ s.sent = {} /\ N \subseteq Sendings /\ H \subseteq Handles
      /\ SV \in [Queries -> Outcomes] /\ D \subseteq 1 .. base + Len(s.data)
      /\ Lined(s, base) /\ Bounds(s) /\ Ordered(s) /\ Dummies(s, {p}) /\ Counted(s)
      /\ Tokens(s, base, N, H) /\ Judged(s, base, H, SV) /\ Finished(s, base, D)
  BY DEF Good
<1>2. s.wait_cnt \in Int /\ p \in Nat /\ base \in Nat /\ s.data[p].state = "Dummy"
      /\ p >= 1 /\ p <= Len(s.data) /\ Len(s.data) \in Nat
  BY <1>1, MemberFacts DEF Dummies, Lined
<1>3. PICK c \in Int : c = s.wait_cnt
  BY <1>2
<1>4. Ended(s, p, "Finish", c, t)
  BY <1>3, <1>b
<1>5. t \in Dispatchers /\ Beside(s, t) /\ Put(s, t, p, "Finish") /\ t.wait_cnt = s.wait_cnt
  BY <1>1, <1>3, <1>4, EndFacts
<1>8. Alike(s, t) /\ t.data[p].state = "Finish"
      /\ \A k \in Slots(s) : k # p => t.data[k].state = s.data[k].state
  BY <1>5 DEF Put
<1>9. Lined(t, base) /\ Bounds(t) /\ Slots(t) = Slots(s)
  BY <1>1, <1>5, <1>8, SameLine
<1>10. Len(t.data) = Len(s.data) /\ t.sent = {} /\ t.next_i = s.next_i
  BY <1>1, <1>5, <1>8 DEF Alike, Beside
<1>11. Ordered(t)
  <2> SUFFICES ASSUME NEW k \in Slots(s)
               PROVE  /\ k < s.finish_i => t.data[k].state = "Finish"
                      /\ k < s.next_i => t.data[k].state # "Start"
                      /\ k < s.next_i => t.data[k].state = "Finish" \/ t.data[k].generation = s.generation
                      /\ s.last_sent_i < k /\ k < s.next_i => t.data[k].state = "Finish"
    BY <1>5, <1>9 DEF Ordered, Beside
  <2>1. /\ k < s.finish_i => s.data[k].state = "Finish"
        /\ k < s.next_i => s.data[k].state # "Start"
        /\ k < s.next_i => s.data[k].state = "Finish" \/ s.data[k].generation = s.generation
        /\ s.last_sent_i < k /\ k < s.next_i => s.data[k].state = "Finish"
    BY <1>1 DEF Ordered
  <2>2. t.data[k].generation = s.data[k].generation
    BY <1>8 DEF Alike
  <2>3. CASE k = p
    BY <1>8, <2>3
  <2>4. CASE k # p
    BY <1>8, <2>1, <2>2, <2>4
  <2> QED
    BY <2>3, <2>4
<1>12. Dummies(t, {})
  BY <1>1, <1>8, <1>9 DEF Dummies
<1>13. Waiting(t) = Waiting(s)
  BY <1>2, <1>8, <1>9 DEF Waiting
<1>14. Counted(t)
  BY <1>1, <1>5, <1>13 DEF Counted
<1>15. Tokens(t, base, N, H)
  BY <1>1, <1>5, <1>13 DEF Tokens, Beside
<1>17. Judged(t, base, H, SV)
  <2>1. \A k \in Slots(t) : t.data[k].state = "Start" => SV[base + k] # "ok"
    BY <1>1, <1>8, <1>9 DEF Judged
  <2>2. s.last_sent_i # 0 /\ t.data[s.last_sent_i].state = "Finish" =>
          SV[base + s.last_sent_i] \in {"ok", "error"}
    <3> SUFFICES ASSUME s.last_sent_i # 0, t.data[s.last_sent_i].state = "Finish"
                 PROVE  SV[base + s.last_sent_i] \in {"ok", "error"}
      OBVIOUS
    <3>1. s.last_sent_i \in Slots(s) /\ s.last_sent_i < s.next_i
      BY <1>1, MemberFacts DEF Bounds, Slots
    <3>2. CASE s.last_sent_i = p
      BY <1>a, <3>1, <3>2
    <3>3. CASE s.last_sent_i # p
      BY <1>1, <1>8, <3>1, <3>3 DEF Judged
    <3> QED
      BY <3>2, <3>3
  <2>3. \A q \in Queries : q > base + Len(t.data) => SV[q] = "idle"
    BY <1>1, <1>10 DEF Judged
  <2>4. \A h \in H : /\ h.ok <=> SV[h.query] = "ok"
                     /\ h.query - base < t.next_i => SV[h.query] \in {"ok", "error"}
    BY <1>1, <1>10 DEF Judged
  <2> QED
    BY <1>5, <2>1, <2>2, <2>3, <2>4 DEF Judged, Beside
<1>18. Finished(t, base, D \cup {base + p})
  <2> SUFFICES ASSUME NEW q \in 1 .. base + Len(s.data)
               PROVE  q \in D \cup {base + p} <=> q <= base \/ t.data[q - base].state = "Finish"
    BY <1>10 DEF Finished
  <2>1. q \in D <=> q <= base \/ s.data[q - base].state = "Finish"
    BY <1>1 DEF Finished
  <2>2. q <= base \/ q - base \in Slots(s)
    BY <1>2 DEF Slots
  <2>3. CASE q = base + p
    <3>1. q - base = p
      BY <1>2, <2>3
    <3> QED
      BY <1>8, <2>3, <3>1
  <2>4. CASE q # base + p
    <3>1. q - base # p
      BY <1>2, <2>4
    <3> QED
      BY <1>8, <2>1, <2>2, <2>4, <3>1
  <2> QED
    BY <2>3, <2>4
<1>19. D \cup {base + p} \subseteq 1 .. base + Len(t.data)
  <2>1. base + p \in 1 .. base + Len(s.data)
    BY <1>2
  <2> QED
    BY <1>1, <1>10, <2>1
<1> QED
  BY <1>1, <1>5, <1>9, <1>10, <1>11, <1>12, <1>14, <1>15, <1>17, <1>18, <1>19, <1>c DEF Good

\* do_resend: the query has to be sent again, alone or with all behind it.
LEMMA RestartGood ==
  ASSUME NEW s, NEW base, NEW N, NEW H, NEW SV, NEW D, NEW p \in Slots(s),
         NEW x, x = {p}, Good(s, base, N, H, SV, D, x), SV[base + p] # "ok",
         NEW t, t = Restart(s, p)
  PROVE  Good(t, base, N, H, SV, D, {}) /\ Len(t.data) = Len(s.data)
<1>1. /\ s \in Dispatchers /\ s.sent = {} /\ N \subseteq Sendings /\ H \subseteq Handles
      /\ SV \in [Queries -> Outcomes] /\ D \subseteq 1 .. base + Len(s.data)
      /\ Lined(s, base) /\ Bounds(s) /\ Ordered(s) /\ Dummies(s, {p}) /\ Counted(s)
      /\ Tokens(s, base, N, H) /\ Judged(s, base, H, SV) /\ Finished(s, base, D)
  BY DEF Good
<1>2. p \in Nat /\ base \in Nat /\ s.data[p].state = "Dummy"
      /\ p >= 1 /\ p <= Len(s.data) /\ Len(s.data) \in Nat
  BY <1>1, MemberFacts DEF Dummies, Lined
<1>3. /\ t \in Dispatchers /\ Put(s, t, p, "Start")
      /\ t.wait_cnt = s.wait_cnt /\ t.finish_i = s.finish_i /\ t.id_offset = s.id_offset
      /\ t.sent = s.sent
      /\ s.data[p].generation = s.generation =>
           t.next_i = s.finish_i /\ t.generation = s.generation + 1 /\ t.last_sent_i = 0
      /\ s.data[p].generation # s.generation => Beside(s, t)
  BY <1>1, RestartFacts
<1>4. Alike(s, t) /\ t.data[p].state = "Start"
      /\ \A k \in Slots(s) : k # p => t.data[k].state = s.data[k].state
  BY <1>3 DEF Put
<1>5. Slots(t) = Slots(s) /\ Len(t.data) = Len(s.data)
      /\ \A k \in Slots(s) : t.data[k].query = s.data[k].query
                             /\ t.data[k].generation = s.data[k].generation
  BY <1>4 DEF Slots, Alike
<1>6. Lined(t, base)
  BY <1>1, <1>3, <1>5 DEF Lined
<1>7. /\ s.finish_i \in Int /\ s.next_i \in Int /\ s.last_sent_i \in Int /\ s.generation \in Nat
      /\ 1 <= s.finish_i /\ s.finish_i <= s.next_i /\ s.next_i <= Len(s.data) + 1
      /\ 0 <= s.last_sent_i /\ s.last_sent_i < s.next_i /\ s.generation >= 1
  BY <1>1, MemberFacts DEF Bounds
<1>8. t.next_i \in {s.finish_i, s.next_i}
  BY <1>3 DEF Beside
<1>9. Bounds(t)
  BY <1>3, <1>5, <1>7 DEF Bounds, Beside
<1>10. Ordered(t)
  <2> SUFFICES ASSUME NEW k \in Slots(s)
               PROVE  /\ k < t.finish_i => t.data[k].state = "Finish"
                      /\ k < t.next_i => t.data[k].state # "Start"
                      /\ k < t.next_i => t.data[k].state = "Finish" \/ t.data[k].generation = t.generation
                      /\ t.last_sent_i < k /\ k < t.next_i => t.data[k].state = "Finish"
    BY <1>5 DEF Ordered
  <2>1. /\ k < s.finish_i => s.data[k].state = "Finish"
        /\ k < s.next_i => s.data[k].state # "Start"
        /\ k < s.next_i => s.data[k].state = "Finish" \/ s.data[k].generation = s.generation
        /\ s.last_sent_i < k /\ k < s.next_i => s.data[k].state = "Finish"
    BY <1>1 DEF Ordered
  <2>2. t.data[k].generation = s.data[k].generation
    BY <1>5
  <2>3. CASE k = p
    <3>1. ~ (k < s.finish_i)
      BY <1>2, <2>1, <2>3
    <3>2. ~ (k < t.next_i)
      <4>1. CASE s.data[p].generation = s.generation
        BY <1>3, <3>1, <4>1
      <4>2. CASE s.data[p].generation # s.generation
        BY <1>2, <1>3, <2>1, <2>3, <4>2 DEF Beside
      <4> QED
        BY <4>1, <4>2
    <3> QED
      BY <1>3, <3>1, <3>2
  <2>4. CASE k # p
    <3>1. t.data[k].state = s.data[k].state
      BY <1>4, <2>4
    <3>2. CASE s.data[p].generation = s.generation
      BY <1>3, <2>1, <3>1, <3>2
    <3>3. CASE s.data[p].generation # s.generation
      BY <1>3, <2>1, <2>2, <3>1, <3>3 DEF Beside
    <3> QED
      BY <3>2, <3>3
  <2> QED
    BY <2>3, <2>4
<1>12. Dummies(t, {})
  BY <1>1, <1>4, <1>5 DEF Dummies
<1>13. Waiting(t) = Waiting(s)
  BY <1>2, <1>4, <1>5 DEF Waiting
<1>14. Counted(t)
  BY <1>1, <1>3, <1>13 DEF Counted
<1>15. Tokens(t, base, N, H)
  BY <1>1, <1>3, <1>13 DEF Tokens
<1>17. Judged(t, base, H, SV)
  <2>1. \A k \in Slots(t) : t.data[k].state = "Start" => SV[base + k] # "ok"
    BY <1>1, <1>4, <1>5 DEF Judged
  <2>2. t.last_sent_i # 0 /\ t.data[t.last_sent_i].state = "Finish" =>
          SV[base + t.last_sent_i] \in {"ok", "error"}
    <3> SUFFICES ASSUME t.last_sent_i # 0, t.data[t.last_sent_i].state = "Finish"
                 PROVE  SV[base + t.last_sent_i] \in {"ok", "error"}
      OBVIOUS
    <3>1. t.last_sent_i = s.last_sent_i
      BY <1>3 DEF Beside
    <3>2. s.last_sent_i \in Slots(s) /\ s.last_sent_i # p
      BY <1>2, <1>4, <1>7, <3>1 DEF Slots
    <3> QED
      BY <1>1, <1>4, <3>1, <3>2 DEF Judged
  <2>3. \A q \in Queries : q > base + Len(t.data) => SV[q] = "idle"
    BY <1>1, <1>5 DEF Judged
  <2>4. \A h \in H : /\ h.ok <=> SV[h.query] = "ok"
                     /\ h.query - base < t.next_i => SV[h.query] \in {"ok", "error"}
    <3> SUFFICES ASSUME NEW h \in H
                 PROVE  /\ h.ok <=> SV[h.query] = "ok"
                        /\ h.query - base < t.next_i => SV[h.query] \in {"ok", "error"}
      OBVIOUS
    <3>1. /\ h.ok <=> SV[h.query] = "ok"
          /\ h.query - base < s.next_i => SV[h.query] \in {"ok", "error"}
      BY <1>1 DEF Judged
    <3>2. h.query \in Nat
      BY <1>1, OutsideFacts
    <3>3. h.query - base < t.next_i => h.query - base < s.next_i
      BY <1>2, <1>7, <1>8, <3>2
    <3> QED
      BY <3>1, <3>3
  <2> QED
    BY <2>1, <2>2, <2>3, <2>4 DEF Judged
<1>18. Finished(t, base, D)
  <2> SUFFICES ASSUME NEW q \in 1 .. base + Len(s.data)
               PROVE  q \in D <=> q <= base \/ t.data[q - base].state = "Finish"
    BY <1>5 DEF Finished
  <2>1. q \in D <=> q <= base \/ s.data[q - base].state = "Finish"
    BY <1>1 DEF Finished
  <2>2. q <= base \/ q - base \in Slots(s)
    BY <1>2 DEF Slots
  <2>3. q - base \in Slots(s) => (t.data[q - base].state = "Finish" <=> s.data[q - base].state = "Finish")
    BY <1>2, <1>4
  <2> QED
    BY <2>1, <2>2, <2>3
<1> QED
  BY <1>1, <1>3, <1>5, <1>6, <1>9, <1>10, <1>12, <1>14, <1>15, <1>17, <1>18 DEF Good

\* The first loop of loop() passes finished entries only.
Skipped(s, f, n, t) == t = [s EXCEPT !.finish_i = f, !.next_i = n]
LEMMA SkippedFacts ==
  ASSUME NEW s \in Dispatchers, NEW f \in Int, NEW n \in Int, NEW t, Skipped(s, f, n, t)
  PROVE  /\ t \in Dispatchers /\ t.data = s.data /\ t.finish_i = f /\ t.next_i = n
         /\ t.last_sent_i = s.last_sent_i /\ t.generation = s.generation
         /\ t.id_offset = s.id_offset /\ t.sent = s.sent /\ t.wait_cnt = s.wait_cnt
<1>1. t \in Dispatchers
  BY DEF Dispatchers, Skipped
<1>2. /\ t.data = s.data /\ t.finish_i = f /\ t.next_i = n
      /\ t.last_sent_i = s.last_sent_i /\ t.generation = s.generation
      /\ t.id_offset = s.id_offset /\ t.sent = s.sent /\ t.wait_cnt = s.wait_cnt
  BY DEF Dispatchers, Skipped
<1> QED
  BY <1>1, <1>2

\* The first loop of loop() keeps the invariant.
LEMMA SkipFinishedGood ==
  ASSUME NEW s, NEW base, NEW N, NEW H, NEW SV, NEW D, Good(s, base, N, H, SV, D, {}),
         NEW t, t = SkipFinished(s)
  PROVE  Good(t, base, N, H, SV, D, {}) /\ t.data = s.data
<1>1. /\ s \in Dispatchers /\ s.sent = {} /\ N \subseteq Sendings /\ H \subseteq Handles
      /\ SV \in [Queries -> Outcomes] /\ D \subseteq 1 .. base + Len(s.data)
      /\ Lined(s, base) /\ Bounds(s) /\ Ordered(s) /\ Dummies(s, {}) /\ Counted(s)
      /\ Tokens(s, base, N, H) /\ Judged(s, base, H, SV) /\ Finished(s, base, D)
  BY DEF Good
<1>2. /\ s.finish_i \in Int /\ s.next_i \in Int /\ s.last_sent_i \in Int /\ Len(s.data) \in Nat
      /\ 1 <= s.finish_i /\ s.finish_i <= s.next_i /\ s.next_i <= Len(s.data) + 1
      /\ 0 <= s.last_sent_i /\ s.last_sent_i < s.next_i /\ base \in Nat
  BY <1>1, MemberFacts DEF Bounds, Lined
<1>3. PICK open : open = {p \in s.finish_i .. Len(s.data) : s.data[p].state # "Finish"}
  OBVIOUS
<1>4. PICK f : f = Min(open \cup {Len(s.data) + 1})
  OBVIOUS
<1>5. f \in open \cup {Len(s.data) + 1} /\ \A k \in open \cup {Len(s.data) + 1} : f <= k
  <2>1. PICK S : S = open \cup {Len(s.data) + 1}
    OBVIOUS
  <2>2. S # {} /\ \A k \in S : k \in Int /\ 0 <= k
    BY <1>2, <1>3, <2>1
  <2>3. f = Min(S) /\ 0 \in Int
    BY <1>4, <2>1
  <2>4. f \in S /\ \A k \in S : f <= k
    BY <2>2, <2>3, MinFacts
  <2> QED
    BY <2>1, <2>4
<1>6. f \in Int /\ s.finish_i <= f /\ f <= Len(s.data) + 1
  BY <1>2, <1>3, <1>5
<1>7. \A p \in Slots(s) : s.finish_i <= p /\ p < f => s.data[p].state = "Finish"
  <2> SUFFICES ASSUME NEW p \in Slots(s), s.finish_i <= p, p < f, s.data[p].state # "Finish"
               PROVE  FALSE
    OBVIOUS
  <2>1. p \in open
    BY <1>2, <1>3 DEF Slots
  <2>2. f <= p /\ p \in Int
    BY <1>5, <2>1 DEF Slots
  <2> QED
    BY <1>6, <2>2
<1>8. PICK n : n = IF s.next_i < f THEN f ELSE s.next_i
  OBVIOUS
<1>9. n \in Int /\ f <= n /\ s.next_i <= n /\ n <= Len(s.data) + 1 /\ (n = s.next_i \/ n = f)
  BY <1>2, <1>6, <1>8
<1>10. Skipped(s, f, n, t)
  BY <1>1, <1>3, <1>4, <1>8 DEF Skipped, SkipFinished, Dispatchers
<1>11. /\ t \in Dispatchers /\ t.data = s.data /\ t.finish_i = f /\ t.next_i = n
       /\ t.last_sent_i = s.last_sent_i /\ t.generation = s.generation
       /\ t.id_offset = s.id_offset /\ t.sent = s.sent /\ t.wait_cnt = s.wait_cnt
  BY <1>1, <1>6, <1>9, <1>10, SkippedFacts
<1>12. Slots(t) = Slots(s) /\ Waiting(t) = Waiting(s)
  BY <1>11 DEF Slots, Waiting
<1>13. Lined(t, base) /\ Dummies(t, {}) /\ Counted(t) /\ Tokens(t, base, N, H) /\ Finished(t, base, D)
  <2>1. Lined(t, base) /\ Dummies(t, {})
    BY <1>1, <1>11, <1>12 DEF Lined, Dummies
  <2>2. Counted(t) /\ Tokens(t, base, N, H)
    BY <1>1, <1>11, <1>12 DEF Counted, Tokens
  <2>3. Finished(t, base, D)
    BY <1>1, <1>11 DEF Finished
  <2> QED
    BY <2>1, <2>2, <2>3
<1>14. Bounds(t)
  <2>1. s.generation \in Nat /\ s.generation >= 1
    BY <1>1, MemberFacts DEF Bounds
  <2> QED
    BY <1>2, <1>6, <1>9, <1>11, <2>1 DEF Bounds
<1>15. \A p \in Slots(s) : p < f => s.data[p].state = "Finish"
  <2> SUFFICES ASSUME NEW p \in Slots(s), p < f PROVE s.data[p].state = "Finish"
    OBVIOUS
  <2>1. p \in Int
    BY DEF Slots
  <2>2. CASE p < s.finish_i
    BY <1>1, <2>2 DEF Ordered
  <2>3. CASE ~ (p < s.finish_i)
    BY <1>2, <1>7, <2>1, <2>3
  <2> QED
    BY <2>2, <2>3
<1>16. \A p \in Slots(s) : p < n => p < s.next_i \/ s.data[p].state = "Finish"
  BY <1>9, <1>15
<1>17. Ordered(t)
  <2> SUFFICES ASSUME NEW p \in Slots(s)
               PROVE  /\ p < f => s.data[p].state = "Finish"
                      /\ p < n => s.data[p].state # "Start"
                      /\ p < n => s.data[p].state = "Finish" \/ s.data[p].generation = s.generation
                      /\ s.last_sent_i < p /\ p < n => s.data[p].state = "Finish"
    BY <1>11, <1>12 DEF Ordered
  <2>1. /\ p < s.next_i => s.data[p].state # "Start"
        /\ p < s.next_i => s.data[p].state = "Finish" \/ s.data[p].generation = s.generation
        /\ s.last_sent_i < p /\ p < s.next_i => s.data[p].state = "Finish"
    BY <1>1 DEF Ordered
  <2> QED
    BY <1>15, <1>16, <2>1
<1>18. Judged(t, base, H, SV)
  <2>1. \A h \in H : /\ h.ok <=> SV[h.query] = "ok"
                     /\ h.query - base < n => SV[h.query] \in {"ok", "error"}
    <3> SUFFICES ASSUME NEW h \in H
                 PROVE  /\ h.ok <=> SV[h.query] = "ok"
                        /\ h.query - base < n => SV[h.query] \in {"ok", "error"}
      OBVIOUS
    <3>1. /\ h.ok <=> SV[h.query] = "ok"
          /\ h.query - base < s.next_i => SV[h.query] \in {"ok", "error"}
      BY <1>1 DEF Judged
    <3>2. h.query - base \in Waiting(s)
      BY <1>1 DEF Tokens
    <3>3. h.query - base \in Slots(s) /\ s.data[h.query - base].state # "Finish"
      BY <3>2 DEF Waiting
    <3> QED
      BY <1>16, <3>1, <3>3
  <2> QED
    BY <1>1, <1>11, <1>12, <2>1 DEF Judged
<1> QED
  BY <1>1, <1>11, <1>13, <1>14, <1>17, <1>18 DEF Good

-----------------------------------------------------------------------------
(* The second loop of loop().                                              *)

\* It does not pass a query that waits.
LEMMA PassedFacts ==
  ASSUME NEW s \in Dispatchers, Bounds(s), NEW n, n = Passed(s)
  PROVE  /\ n \in Int /\ s.next_i <= n /\ n <= Len(s.data) + 1
         /\ \A p \in Slots(s) : s.next_i <= p /\ p < n => s.data[p].state # "Wait"
<1>1. s.next_i \in Int /\ Len(s.data) \in Nat /\ s.next_i <= Len(s.data) + 1 /\ 1 <= s.next_i
  BY MemberFacts DEF Bounds
<1> DEFINE Free(k) == \A p \in s.next_i .. k - 1 :
             /\ s.data[p].state # "Wait"
             /\ s.wait_cnt + Cardinality({r \in s.next_i .. p - 1 : s.data[r].state = "Start"})
                  < MaxSimultaneousWait
<1>2. PICK S : S = {k \in s.next_i .. Len(s.data) + 1 : Free(k)}
  OBVIOUS
<1>3. n = Max(S)
  BY <1>2 DEF Passed
<1>4. s.next_i \in S
  <2>1. s.next_i \in s.next_i .. Len(s.data) + 1
    BY <1>1
  <2>2. s.next_i .. s.next_i - 1 = {}
    BY <1>1
  <2> QED
    BY <1>2, <2>1, <2>2
<1>5. \A k \in S : k \in Int /\ k <= Len(s.data) + 1
  <2>1. \A k \in S : k \in s.next_i .. Len(s.data) + 1
    BY <1>2
  <2> QED
    BY <1>1, <2>1
<1>6. n \in S
  <2>1. PICK hi \in Int : hi = Len(s.data) + 1
    BY <1>1
  <2>2. S # {} /\ \A k \in S : k \in Int /\ k <= hi
    BY <1>4, <1>5, <2>1
  <2> QED
    BY <1>3, <2>2, MaxFacts
<1>7. n \in s.next_i .. Len(s.data) + 1 /\ Free(n)
  BY <1>2, <1>6
<1>8. \A p \in s.next_i .. n - 1 : s.data[p].state # "Wait"
  BY <1>7
<1> QED
  BY <1>1, <1>7, <1>8 DEF Slots

\* What is sent.
LEMMA SentFacts ==
  ASSUME NEW s \in Dispatchers, Bounds(s), Dummies(s, {}), NEW n, n = Passed(s), NEW ps, ps = Sent(s)
  PROVE  /\ n \in Int /\ s.next_i <= n /\ n <= Len(s.data) + 1 /\ ps \subseteq Slots(s)
         /\ \A p \in ps : s.data[p].state = "Start" /\ s.next_i <= p /\ p < n
         /\ \A p \in Slots(s) : s.next_i <= p /\ p < n /\ p \notin ps => s.data[p].state = "Finish"
         /\ \A p \in Slots(s) : s.next_i <= p /\ p < n => s.data[p].state # "Wait"
<1>1. /\ n \in Int /\ s.next_i <= n /\ n <= Len(s.data) + 1
      /\ \A p \in Slots(s) : s.next_i <= p /\ p < n => s.data[p].state # "Wait"
  BY PassedFacts
<1>2. s.next_i \in Int /\ Len(s.data) \in Nat /\ 1 <= s.next_i
  BY MemberFacts DEF Bounds
<1>3. ps = {p \in s.next_i .. n - 1 : s.data[p].state = "Start"}
  BY DEF Sent
<1>4. ps \subseteq Slots(s) /\ \A p \in ps : s.data[p].state = "Start" /\ s.next_i <= p /\ p < n
  BY <1>1, <1>2, <1>3 DEF Slots
<1>5. \A p \in Slots(s) : s.next_i <= p /\ p < n /\ p \notin ps => s.data[p].state = "Finish"
  <2> SUFFICES ASSUME NEW p \in Slots(s), s.next_i <= p, p < n, p \notin ps
               PROVE  s.data[p].state = "Finish"
    OBVIOUS
  <2>1. p \in s.next_i .. n - 1
    BY <1>1, <1>2 DEF Slots
  <2>2. s.data[p].state \notin {"Start", "Wait", "Dummy"}
    BY <1>1, <1>3, <2>1 DEF Dummies
  <2> QED
    BY <2>2, MemberFacts
<1> QED
  BY <1>1, <1>4, <1>5

\* What the query at p has to be invoked after.
AfterOf(s, p) ==
  LET earlier == {r \in Sent(s) : r < p}
  IN IF earlier = {} THEN InvokeAfter(s) ELSE s.data[Max(earlier)].query

\* All between the query k and p is finished, where k is the one before p, or
\* the last one sent that has ended, or there is none.
Behind(s, base, p, k, a) ==
  /\ \A j \in Slots(s) : k < j /\ j < p => s.data[j].state = "Finish"
  /\ \/ k = 0 /\ a = 0
     \/ k \in Slots(s) /\ a = base + k
     \/ k \in Slots(s) /\ a = 0 /\ k = s.last_sent_i /\ s.data[k].state = "Finish"

\* The query that a sending has to be invoked after, in terms of the queries before it.
LEMMA AfterFacts ==
  ASSUME NEW s \in Dispatchers, NEW base, Lined(s, base), Bounds(s), Ordered(s), Dummies(s, {}),
         NEW p \in Sent(s), NEW a, a = AfterOf(s, p)
  PROVE  a \in 0 .. MaxQueries /\ a < base + p /\ \E k \in 0 .. p - 1 : Behind(s, base, p, k, a)
<1>1. /\ s.next_i \in Int /\ Len(s.data) \in Nat /\ 1 <= s.next_i /\ base \in Nat
      /\ s.last_sent_i \in Int /\ 0 <= s.last_sent_i /\ s.last_sent_i < s.next_i
      /\ s.next_i <= Len(s.data) + 1
  BY MemberFacts DEF Bounds, Lined
<1>2. PICK n, ps : n = Passed(s) /\ ps = Sent(s)
  OBVIOUS
<1>3. /\ n \in Int /\ s.next_i <= n /\ n <= Len(s.data) + 1 /\ ps \subseteq Slots(s)
      /\ \A k \in ps : s.data[k].state = "Start" /\ s.next_i <= k /\ k < n
      /\ \A k \in Slots(s) : s.next_i <= k /\ k < n /\ k \notin ps => s.data[k].state = "Finish"
  BY <1>2, SentFacts
<1>4. p \in ps /\ p \in Nat /\ s.next_i <= p /\ p < n /\ p <= Len(s.data)
  BY <1>2, <1>3 DEF Slots
<1>5. \A k \in Slots(s) : k \in Nat /\ s.data[k].query = base + k /\ s.data[k].query \in 1 .. MaxQueries
  BY MemberFacts DEF Lined, Queries
<1>6. PICK earlier : earlier = {r \in ps : r < p}
  OBVIOUS
<1>7. CASE earlier # {}
  <2>1. PICK k : k = Max(earlier)
    OBVIOUS
  <2>2. k \in earlier /\ \A j \in earlier : j <= k
    <3>1. \A j \in earlier : j \in Int /\ j <= p
      BY <1>3, <1>4, <1>6 DEF Slots
    <3> QED
      BY <1>4, <1>7, <2>1, <3>1, MaxFacts
  <2>3. k \in Slots(s) /\ k < p /\ s.next_i <= k
    BY <1>3, <1>6, <2>2
  <2>4. a = s.data[k].query
    BY <1>2, <1>6, <1>7, <2>1 DEF AfterOf
  <2>5. a \in 0 .. MaxQueries /\ a = base + k /\ a < base + p
    BY <1>1, <1>4, <1>5, <2>3, <2>4
  <2>6. \A j \in Slots(s) : k < j /\ j < p => s.data[j].state = "Finish"
    <3> SUFFICES ASSUME NEW j \in Slots(s), k < j, j < p PROVE s.data[j].state = "Finish"
      OBVIOUS
    <3>1. j \in Nat /\ k \in Nat
      BY <1>5, <2>3
    <3>2. j \notin ps
      BY <1>6, <2>2, <3>1
    <3> QED
      BY <1>1, <1>3, <1>4, <2>3, <3>1, <3>2
  <2>7. k \in 0 .. p - 1
    BY <1>4, <1>5, <2>3
  <2> QED
    BY <2>3, <2>5, <2>6, <2>7 DEF Behind
<1>8. CASE earlier = {}
  <2>1. a = InvokeAfter(s)
    BY <1>2, <1>6, <1>8 DEF AfterOf
  <2>2. PICK k : k = s.last_sent_i
    OBVIOUS
  <2>3. \A j \in Slots(s) : k < j /\ j < p => s.data[j].state = "Finish"
    <3> SUFFICES ASSUME NEW j \in Slots(s), k < j, j < p PROVE s.data[j].state = "Finish"
      OBVIOUS
    <3>1. j \in Nat /\ j \notin ps
      BY <1>5, <1>6, <1>8
    <3>2. CASE j < s.next_i
      BY <2>2, <3>2 DEF Ordered
    <3>3. CASE ~ (j < s.next_i)
      BY <1>1, <1>3, <1>4, <3>1, <3>3
    <3> QED
      BY <3>2, <3>3
  <2>4. k \in 0 .. p - 1
    BY <1>1, <1>4, <2>2
  <2>5. CASE k = 0
    <3>1. a = 0
      BY <2>1, <2>2, <2>5 DEF InvokeAfter
    <3>2. 0 \in 0 .. MaxQueries /\ 0 < base + p
      BY <1>1, <1>4, ConstantsOK
    <3> QED
      BY <2>3, <2>4, <2>5, <3>1, <3>2 DEF Behind
  <2>6. CASE k # 0
    <3>1. k \in Slots(s) /\ k < s.next_i
      BY <1>1, <2>2, <2>6 DEF Slots
    <3>2. s.data[k].state \in {"Wait", "Finish"}
      BY <3>1, MemberFacts DEF Ordered, Dummies
    <3>3. CASE s.data[k].state = "Wait"
      <4>1. a = s.data[k].query
        BY <2>1, <2>2, <2>6, <3>3 DEF InvokeAfter
      <4>2. a \in 0 .. MaxQueries /\ a = base + k /\ a < base + p
        BY <1>1, <1>4, <1>5, <3>1, <4>1
      <4> QED
        BY <2>3, <2>4, <3>1, <4>2 DEF Behind
    <3>4. CASE s.data[k].state = "Finish"
      <4>1. a = 0
        BY <2>1, <2>2, <3>4 DEF InvokeAfter
      <4>2. 0 \in 0 .. MaxQueries /\ 0 < base + p
        BY <1>1, <1>4, ConstantsOK
      <4> QED
        BY <2>2, <2>3, <2>4, <3>1, <3>4, <4>1, <4>2 DEF Behind
    <3> QED
      BY <3>2, <3>3, <3>4
  <2> QED
    BY <2>5, <2>6
<1> QED
  BY <1>7, <1>8

\* The query at p as it is sent.
Sending(s, p) == [token |-> Token(s, p), query |-> s.data[p].query, after |-> AfterOf(s, p)]

SendingsOf(s, ps) == {Sending(s, p) : p \in ps}

\* The members after the second loop.
SentAs(s, q, n, w, l, S, t) ==
  /\ q \in Seq(Entries) /\ n \in Int /\ w \in Int /\ l \in Int /\ S \subseteq Sendings
  /\ t = [s EXCEPT !.data = q, !.next_i = n, !.wait_cnt = w, !.last_sent_i = l, !.sent = S]
LEMMA SentAsFacts ==
  ASSUME NEW s \in Dispatchers, NEW q, NEW n, NEW w, NEW l, NEW S, NEW t,
         SentAs(s, q, n, w, l, S, t)
  PROVE  /\ t \in Dispatchers /\ t.data = q /\ t.next_i = n /\ t.wait_cnt = w /\ t.last_sent_i = l
         /\ t.sent = S /\ t.finish_i = s.finish_i /\ t.generation = s.generation
         /\ t.id_offset = s.id_offset
<1>1. t \in Dispatchers
  BY DEF Dispatchers, SentAs
<1>2. /\ t.data = q /\ t.next_i = n /\ t.wait_cnt = w /\ t.last_sent_i = l /\ t.sent = S
  BY DEF Dispatchers, SentAs
<1>3. /\ t.finish_i = s.finish_i /\ t.generation = s.generation /\ t.id_offset = s.id_offset
  BY DEF Dispatchers, SentAs
<1> QED
  BY <1>1, <1>2, <1>3

\* The second loop moves exactly the entries in ps to the state Wait of this chain.
SendsAll(s, t, ps) ==
  /\ Len(t.data) = Len(s.data)
  /\ \A k \in Slots(s) : t.data[k].query = s.data[k].query
  /\ \A k \in Slots(s) : k \notin ps => /\ t.data[k].state = s.data[k].state
                                        /\ t.data[k].generation = s.data[k].generation
  /\ \A k \in ps : t.data[k].state = "Wait" /\ t.data[k].generation = s.generation
  /\ t.finish_i = s.finish_i /\ t.generation = s.generation /\ t.id_offset = s.id_offset
  /\ t.next_i = Passed(s) /\ t.wait_cnt = s.wait_cnt + Cardinality(ps)
  /\ t.last_sent_i = IF ps = {} THEN s.last_sent_i ELSE Max(ps)
  /\ t.sent = SendingsOf(s, ps)

\* The second loop of loop(), field by field.
LEMMA SendAllFacts ==
  ASSUME NEW s \in Dispatchers, NEW base, Lined(s, base), Bounds(s), Ordered(s), Dummies(s, {}),
         NEW ps, ps = Sent(s), NEW t, t = SendAll(s)
  PROVE  t \in Dispatchers /\ SendsAll(s, t, ps)
<1>1. /\ s.data \in Seq(Entries) /\ Len(s.data) \in Nat /\ DOMAIN s.data = 1 .. Len(s.data)
      /\ \A k \in 1 .. Len(s.data) : s.data[k] \in Entries
  BY WaitingFacts, LenProperties DEF Slots
<1>2. ps \subseteq Slots(s) /\ Passed(s) \in Int
  BY SentFacts
<1>3. PICK f : f = [p \in DOMAIN s.data |->
                      IF p \in ps
                      THEN [s.data[p] EXCEPT !.state = "Wait", !.generation = s.generation]
                      ELSE s.data[p]]
  OBVIOUS
<1>4. \A k \in 1 .. Len(s.data) :
        /\ f[k] \in Entries /\ f[k].query = s.data[k].query
        /\ k \notin ps => f[k].state = s.data[k].state /\ f[k].generation = s.data[k].generation
        /\ k \in ps => f[k].state = "Wait" /\ f[k].generation = s.generation
  <2> SUFFICES ASSUME NEW k \in 1 .. Len(s.data)
               PROVE  /\ f[k] \in Entries /\ f[k].query = s.data[k].query
                      /\ k \notin ps => f[k].state = s.data[k].state /\ f[k].generation = s.data[k].generation
                      /\ k \in ps => f[k].state = "Wait" /\ f[k].generation = s.generation
    OBVIOUS
  <2>1. PICK e, g : e = s.data[k] /\ g = s.generation
    OBVIOUS
  <2>2. e \in Entries /\ g \in Nat
    BY <1>1, <2>1, MemberFacts
  <2>3. CASE k \in ps
    <3>1. f[k] = [e EXCEPT !.state = "Wait", !.generation = g]
      BY <1>1, <1>3, <2>1, <2>3
    <3>2. f[k] \in Entries /\ f[k].query = e.query /\ f[k].state = "Wait" /\ f[k].generation = g
      BY <2>2, <3>1 DEF Entries
    <3> QED
      BY <2>1, <2>3, <3>2
  <2>4. CASE k \notin ps
    <3>1. f[k] = s.data[k]
      BY <1>1, <1>3, <2>4
    <3> QED
      BY <1>1, <2>4, <3>1
  <2> QED
    BY <2>3, <2>4
<1>5. PICK q : q = SubSeq(f, 1, Len(s.data))
  OBVIOUS
<1>6. q \in Seq(Entries) /\ Len(q) = Len(s.data) /\ \A k \in 1 .. Len(s.data) : q[k] = f[k]
  BY <1>1, <1>4, <1>5, EachFacts
<1>7. PICK l : l = IF ps = {} THEN s.last_sent_i ELSE Max(ps)
  OBVIOUS
<1>8. l \in Int
  <2>1. CASE ps = {}
    BY <1>7, <2>1, MemberFacts
  <2>2. CASE ps # {}
    <3>1. \A k \in ps : k \in Int /\ k <= Len(s.data)
      BY <1>1, <1>2 DEF Slots
    <3>2. PICK hi \in Int : hi = Len(s.data)
      BY <1>1
    <3>3. \A k \in ps : k \in Int /\ k <= hi
      BY <3>1, <3>2
    <3>4. l \in ps
      BY <1>7, <2>2, <3>3, MaxFacts
    <3> QED
      BY <3>1, <3>4
  <2> QED
    BY <2>1, <2>2
<1>9. PICK S : S = {Sending(s, p) : p \in ps}
  OBVIOUS
<1>10. S \subseteq Sendings
  <2> SUFFICES ASSUME NEW p \in ps PROVE Sending(s, p) \in Sendings
    BY <1>9
  <2>1. p \in Slots(s) /\ p \in Int
    BY <1>2 DEF Slots
  <2>2. Token(s, p) \in Int
    BY <2>1, MemberFacts DEF Token
  <2>3. s.data[p].query \in Queries
    BY <2>1, MemberFacts
  <2>4. AfterOf(s, p) \in 0 .. MaxQueries
    BY AfterFacts
  <2> QED
    BY <2>2, <2>3, <2>4 DEF Sending, Sendings
<1>11. PICK n, w : n = Passed(s) /\ w = s.wait_cnt + Cardinality(ps)
  OBVIOUS
<1>12. n \in Int /\ w \in Int
  BY <1>2, <1>11, WaitingFacts, MemberFacts
<1>13. SentAs(s, q, n, w, l, S, t)
  <2>1. t = [s EXCEPT !.data = q, !.next_i = n, !.wait_cnt = w, !.last_sent_i = l, !.sent = S]
    BY <1>3, <1>5, <1>7, <1>9, <1>11 DEF SendAll, Each, Sending, AfterOf, Dispatchers
  <2> QED
    BY <1>6, <1>8, <1>10, <1>12, <2>1 DEF SentAs
<1>14. /\ t \in Dispatchers /\ t.data = q /\ t.next_i = n /\ t.wait_cnt = w /\ t.last_sent_i = l
       /\ t.sent = S /\ t.finish_i = s.finish_i /\ t.generation = s.generation
       /\ t.id_offset = s.id_offset
  BY <1>13, SentAsFacts
<1>15. /\ \A k \in Slots(s) : t.data[k].query = s.data[k].query
       /\ \A k \in Slots(s) : k \notin ps => /\ t.data[k].state = s.data[k].state
                                             /\ t.data[k].generation = s.data[k].generation
       /\ \A k \in ps : t.data[k].state = "Wait" /\ t.data[k].generation = s.generation
  <2>1. \A k \in Slots(s) : t.data[k] = f[k] /\ k \in 1 .. Len(s.data)
    BY <1>6, <1>14 DEF Slots
  <2> QED
    BY <1>2, <1>4, <2>1
<1> QED
  BY <1>6, <1>7, <1>9, <1>11, <1>14, <1>15 DEF SendsAll, SendingsOf

\* The messages of the loop are sent.
Emptied(b, u) == u = [b EXCEPT !.sent = {}]
LEMMA EmptiedFacts ==
  ASSUME NEW b \in Dispatchers, NEW u, Emptied(b, u)
  PROVE  /\ u \in Dispatchers /\ u.sent = {} /\ u.data = b.data /\ u.finish_i = b.finish_i
         /\ u.next_i = b.next_i /\ u.last_sent_i = b.last_sent_i /\ u.generation = b.generation
         /\ u.id_offset = b.id_offset /\ u.wait_cnt = b.wait_cnt
<1>1. u \in Dispatchers
  BY DEF Dispatchers, Emptied
<1>2. /\ u.sent = {} /\ u.data = b.data /\ u.finish_i = b.finish_i
      /\ u.next_i = b.next_i /\ u.last_sent_i = b.last_sent_i /\ u.generation = b.generation
      /\ u.id_offset = b.id_offset /\ u.wait_cnt = b.wait_cnt
  BY DEF Dispatchers, Emptied
<1> QED
  BY <1>1, <1>2

\* The answers at the server, once the queries of S are sent.
Resent(SV, S) == [q \in Queries |-> IF \E m \in S : m.query = q THEN "pending" ELSE SV[q]]

\* The queries sent, by their positions.
LEMMA SendingFacts ==
  ASSUME NEW s \in Dispatchers, NEW base, Lined(s, base), Bounds(s), Ordered(s), Dummies(s, {}),
         NEW ps, ps = Sent(s), NEW S, S = SendingsOf(s, ps)
  PROVE  /\ S \subseteq Sendings
         /\ \A m \in S : \E p \in ps : m = Sending(s, p) /\ m.query = base + p
                                       /\ m.token = p - 1 + s.id_offset /\ m.after = AfterOf(s, p)
         /\ \A p \in ps : \E m \in S : m.query = base + p
         /\ \A m, n \in S : m.query = n.query => m = n
<1>1. ps \subseteq Slots(s) /\ base \in Nat
  BY SentFacts DEF Lined
<1>2. \A p \in ps : /\ p \in Nat /\ s.data[p].query = base + p /\ s.data[p].query \in Queries
                    /\ Token(s, p) \in Int /\ Token(s, p) = p - 1 + s.id_offset
  BY <1>1, MemberFacts DEF Lined, Token
<1>3. \A p \in ps : /\ Sending(s, p).query = base + p /\ Sending(s, p).token = p - 1 + s.id_offset
                    /\ Sending(s, p).after = AfterOf(s, p)
  BY <1>2 DEF Sending
<1>4. S \subseteq Sendings
  <2> SUFFICES ASSUME NEW p \in ps PROVE Sending(s, p) \in Sendings
    BY DEF SendingsOf
  <2>1. AfterOf(s, p) \in 0 .. MaxQueries
    BY AfterFacts
  <2> QED
    BY <1>2, <2>1 DEF Sending, Sendings
<1>5. \A m \in S : \E p \in ps : m = Sending(s, p)
  BY DEF SendingsOf
<1>6. \A p \in ps : Sending(s, p) \in S
  BY DEF SendingsOf
<1>7. \A m, n \in S : m.query = n.query => m = n
  <2> SUFFICES ASSUME NEW m \in S, NEW n \in S, m.query = n.query PROVE m = n
    OBVIOUS
  <2>1. PICK p \in ps : m = Sending(s, p)
    BY <1>5
  <2>2. PICK r \in ps : n = Sending(s, r)
    BY <1>5
  <2>3. base + p = base + r
    BY <1>3, <2>1, <2>2
  <2>4. p = r
    BY <1>1, <1>2, <2>3
  <2> QED
    BY <2>1, <2>2, <2>4
<1> QED
  BY <1>3, <1>4, <1>5, <1>6, <1>7

\* The second loop keeps the invariant: what it sends is under way.
LEMMA SendAllGood ==
  ASSUME NEW s, NEW base, NEW N, NEW H, NEW SV, NEW D, Good(s, base, N, H, SV, D, {}),
         NEW b, b = SendAll(s), NEW u, Emptied(b, u)
  PROVE  /\ Good(u, base, N \cup b.sent, H, Resent(SV, b.sent), D, {})
         /\ Len(u.data) = Len(s.data) /\ b \in Dispatchers
<1>1. /\ s \in Dispatchers /\ s.sent = {} /\ N \subseteq Sendings /\ H \subseteq Handles
      /\ SV \in [Queries -> Outcomes] /\ D \subseteq 1 .. base + Len(s.data)
      /\ Lined(s, base) /\ Bounds(s) /\ Ordered(s) /\ Dummies(s, {}) /\ Counted(s)
      /\ Tokens(s, base, N, H) /\ Judged(s, base, H, SV) /\ Finished(s, base, D)
  BY DEF Good
<1>2. PICK n, ps, S : n = Passed(s) /\ ps = Sent(s) /\ S = SendingsOf(s, ps)
  OBVIOUS
<1>3. /\ n \in Int /\ s.next_i <= n /\ n <= Len(s.data) + 1 /\ ps \subseteq Slots(s)
      /\ \A p \in ps : s.data[p].state = "Start" /\ s.next_i <= p /\ p < n
      /\ \A p \in Slots(s) : s.next_i <= p /\ p < n /\ p \notin ps => s.data[p].state = "Finish"
      /\ \A p \in Slots(s) : s.next_i <= p /\ p < n => s.data[p].state # "Wait"
  BY <1>1, <1>2, SentFacts
<1>4. b \in Dispatchers /\ SendsAll(s, b, ps)
  BY <1>1, <1>2, SendAllFacts
<1>5. /\ u \in Dispatchers /\ u.sent = {} /\ u.data = b.data /\ u.finish_i = b.finish_i
      /\ u.next_i = b.next_i /\ u.last_sent_i = b.last_sent_i /\ u.generation = b.generation
      /\ u.id_offset = b.id_offset /\ u.wait_cnt = b.wait_cnt
  BY <1>4, EmptiedFacts
<1>6. /\ Len(u.data) = Len(s.data) /\ b.sent = S
      /\ u.finish_i = s.finish_i /\ u.generation = s.generation /\ u.id_offset = s.id_offset
      /\ u.next_i = n /\ u.wait_cnt = s.wait_cnt + Cardinality(ps)
      /\ u.last_sent_i = IF ps = {} THEN s.last_sent_i ELSE Max(ps)
  BY <1>2, <1>4, <1>5 DEF SendsAll
<1>7. /\ \A k \in Slots(s) : u.data[k].query = s.data[k].query
      /\ \A k \in Slots(s) : k \notin ps => /\ u.data[k].state = s.data[k].state
                                            /\ u.data[k].generation = s.data[k].generation
      /\ \A k \in ps : u.data[k].state = "Wait" /\ u.data[k].generation = s.generation
  BY <1>4, <1>5 DEF SendsAll
<1>8. /\ S \subseteq Sendings
      /\ \A m \in S : \E p \in ps : m.query = base + p /\ m.token = p - 1 + s.id_offset
      /\ \A p \in ps : \E m \in S : m.query = base + p
      /\ \A m, k \in S : m.query = k.query => m = k
  BY <1>1, <1>2, SendingFacts
<1>9. Slots(u) = Slots(s)
  BY <1>6 DEF Slots
<1>10. /\ s.next_i \in Int /\ s.last_sent_i \in Int /\ s.finish_i \in Int /\ Len(s.data) \in Nat
       /\ 1 <= s.finish_i /\ s.finish_i <= s.next_i /\ s.next_i <= Len(s.data) + 1
       /\ 0 <= s.last_sent_i /\ s.last_sent_i < s.next_i /\ base \in Nat
       /\ s.generation \in Nat /\ s.generation >= 1
  BY <1>1, MemberFacts DEF Bounds, Lined
<1>11. PICK l : l = u.last_sent_i
  OBVIOUS
<1>12. /\ ps = {} => l = s.last_sent_i
       /\ ps # {} => l \in ps /\ \A k \in ps : k <= l
  <2>1. ASSUME ps # {} PROVE l \in ps /\ \A k \in ps : k <= l
    <3>1. PICK hi \in Int : hi = Len(s.data)
      BY <1>10
    <3>2. \A k \in ps : k \in Int /\ k <= hi
      BY <1>3, <3>1 DEF Slots
    <3>3. l = Max(ps)
      BY <1>6, <1>11, <2>1
    <3> QED
      BY <2>1, <3>2, <3>3, MaxFacts
  <2> QED
    BY <1>6, <1>11, <2>1
<1>13. l \in Int /\ 0 <= l /\ l < n /\ (ps # {} => s.next_i <= l)
  <2>1. CASE ps = {}
    BY <1>3, <1>10, <1>12, <2>1
  <2>2. CASE ps # {}
    <3>1. l \in Slots(s) /\ s.next_i <= l /\ l < n
      BY <1>3, <1>12, <2>2
    <3> QED
      BY <1>10, <3>1 DEF Slots
  <2> QED
    BY <2>1, <2>2
<1>14. Lined(u, base) /\ Bounds(u)
  <2>1. Lined(u, base)
    BY <1>1, <1>6, <1>7, <1>9 DEF Lined
  <2> QED
    BY <1>3, <1>6, <1>10, <1>11, <1>13, <2>1 DEF Bounds
<1>15. Ordered(u)
  <2> SUFFICES ASSUME NEW k \in Slots(s)
               PROVE  /\ k < s.finish_i => u.data[k].state = "Finish"
                      /\ k < n => u.data[k].state # "Start"
                      /\ k < n => u.data[k].state = "Finish" \/ u.data[k].generation = s.generation
                      /\ l < k /\ k < n => u.data[k].state = "Finish"
    BY <1>6, <1>9, <1>11 DEF Ordered
  <2>0. k \in Int
    BY DEF Slots
  <2>1. /\ k < s.finish_i => s.data[k].state = "Finish"
        /\ k < s.next_i => s.data[k].state # "Start"
        /\ k < s.next_i => s.data[k].state = "Finish" \/ s.data[k].generation = s.generation
        /\ s.last_sent_i < k /\ k < s.next_i => s.data[k].state = "Finish"
    BY <1>1 DEF Ordered
  <2>2. CASE k \in ps
    <3>1. u.data[k].state = "Wait" /\ u.data[k].generation = s.generation
      BY <1>7, <2>2
    <3>2. ~ (k < s.finish_i) /\ k <= l
      BY <1>3, <1>10, <1>12, <2>0, <2>2
    <3> QED
      BY <1>13, <2>0, <3>1, <3>2
  <2>3. CASE k \notin ps
    <3>1. /\ u.data[k].state = s.data[k].state
          /\ u.data[k].generation = s.data[k].generation
      BY <1>7, <2>3
    <3>2. CASE k < s.next_i
      BY <1>10, <1>12, <1>13, <2>0, <2>1, <3>1, <3>2
    <3>3. CASE ~ (k < s.next_i)
      <4>1. k < n => s.data[k].state = "Finish"
        BY <1>3, <1>10, <2>0, <2>3, <3>3
      <4>2. ~ (k < s.finish_i)
        BY <1>10, <2>0, <3>3
      <4> QED
        BY <3>1, <4>1, <4>2
    <3> QED
      BY <3>2, <3>3
  <2> QED
    BY <2>2, <2>3
<1>16. Dummies(u, {})
  BY <1>1, <1>7, <1>9 DEF Dummies
<1>17. Waiting(u) = Waiting(s) \cup ps /\ Waiting(s) \cap ps = {}
  BY <1>3, <1>7, <1>9 DEF Waiting
<1>18. Counted(u)
  <2>1. IsFiniteSet(Waiting(s)) /\ IsFiniteSet(ps)
    BY <1>1, <1>3, WaitingFacts
  <2>2. Cardinality(Waiting(u)) = Cardinality(Waiting(s)) + Cardinality(ps)
    BY <1>17, <2>1, CardMore
  <2> QED
    BY <1>1, <1>6, <2>2 DEF Counted
<1>19. \A m \in S : /\ m.query - base \in ps /\ m.token = m.query - base - 1 + s.id_offset
                    /\ m.query \in Queries
  <2> SUFFICES ASSUME NEW m \in S
               PROVE  /\ m.query - base \in ps /\ m.token = m.query - base - 1 + s.id_offset
                      /\ m.query \in Queries
    OBVIOUS
  <2>1. PICK p \in ps : m.query = base + p /\ m.token = p - 1 + s.id_offset
    BY <1>8
  <2>2. m.query - base = p
    BY <1>3, <1>10, <2>1 DEF Slots
  <2> QED
    BY <1>8, <2>1, <2>2, OutsideFacts
<1>20. \A m \in N \cup H : m.query - base \in Waiting(s) /\ m.token = m.query - base - 1 + s.id_offset
  BY <1>1 DEF Tokens
<1>21. Tokens(u, base, N \cup S, H)
  <2>1. \A m \in N \cup H, h \in S : m.query # h.query
    BY <1>17, <1>19, <1>20
  <2>2. \A m \in (N \cup S) \cup H :
          m.query - base \in Waiting(u) /\ m.token = m.query - base - 1 + u.id_offset
    BY <1>6, <1>17, <1>19, <1>20
  <2>3. \A k \in Waiting(u) : \E m \in (N \cup S) \cup H : m.query = base + k
    BY <1>1, <1>8, <1>17 DEF Tokens
  <2>4. \A g, h \in N \cup S : g.query = h.query => g = h
    BY <1>1, <1>8, <2>1 DEF Tokens
  <2>5. \A m \in N \cup S, h \in H : m.query # h.query
    BY <1>1, <2>1 DEF Tokens
  <2>6. \A m, k \in H : m.query = k.query => m = k
    BY <1>1 DEF Tokens
  <2> QED
    BY <2>2, <2>3, <2>4, <2>5, <2>6 DEF Tokens
<1>22. PICK SV2 : SV2 = Resent(SV, S)
  OBVIOUS
<1>23. /\ SV2 \in [Queries -> Outcomes]
       /\ \A q \in Queries : (\E m \in S : m.query = q) => SV2[q] = "pending"
       /\ \A q \in Queries : ~ (\E m \in S : m.query = q) => SV2[q] = SV[q]
  BY <1>1, <1>22 DEF Resent, Outcomes
<1>24. Judged(u, base, H, SV2)
  <2>1. \A k \in Slots(u) : u.data[k].state = "Start" => SV2[base + k] # "ok"
    <3> SUFFICES ASSUME NEW k \in Slots(s), u.data[k].state = "Start" PROVE SV2[base + k] # "ok"
      BY <1>9
    <3>1. k \notin ps
      BY <1>7
    <3>2. SV[base + k] # "ok"
      BY <1>1, <1>7, <3>1 DEF Judged
    <3>3. base + k \in Queries
      BY <1>1, MemberFacts DEF Lined
    <3> QED
      BY <1>23, <3>2, <3>3
  <2>2. l # 0 /\ u.data[l].state = "Finish" => SV2[base + l] \in {"ok", "error"}
    <3> SUFFICES ASSUME l # 0, u.data[l].state = "Finish" PROVE SV2[base + l] \in {"ok", "error"}
      OBVIOUS
    <3>1. l \notin ps /\ l = s.last_sent_i
      BY <1>7, <1>12
    <3>2. l \in Slots(s)
      BY <1>10, <3>1 DEF Slots
    <3>3. SV[base + l] \in {"ok", "error"}
      BY <1>1, <1>7, <3>1, <3>2 DEF Judged
    <3>4. base + l \in Queries
      BY <1>1, <3>2, MemberFacts DEF Lined
    <3>5. ~ \E m \in S : m.query = base + l
      <4> SUFFICES ASSUME NEW m \in S, m.query = base + l PROVE FALSE
        OBVIOUS
      <4>1. m.query - base = l
        BY <1>10, <1>13
      <4> QED
        BY <1>19, <3>1, <4>1
    <3> QED
      BY <1>23, <3>3, <3>4, <3>5
  <2>3. \A q \in Queries : q > base + Len(u.data) => SV2[q] = "idle"
    <3> SUFFICES ASSUME NEW q \in Queries, q > base + Len(s.data) PROVE SV2[q] = "idle"
      BY <1>6
    <3>1. SV[q] = "idle"
      BY <1>1 DEF Judged
    <3>2. ~ \E m \in S : m.query = q
      <4> SUFFICES ASSUME NEW m \in S, m.query = q PROVE FALSE
        OBVIOUS
      <4>1. q - base \in Slots(s) /\ q \in Int
        BY <1>3, <1>19 DEF Queries
      <4> QED
        BY <1>10, <4>1 DEF Slots
    <3> QED
      BY <1>23, <3>1, <3>2
  <2>4. \A h \in H : /\ h.ok <=> SV2[h.query] = "ok"
                     /\ h.query - base < n => SV2[h.query] \in {"ok", "error"}
    <3> SUFFICES ASSUME NEW h \in H
                 PROVE  /\ h.ok <=> SV2[h.query] = "ok"
                        /\ h.query - base < n => SV2[h.query] \in {"ok", "error"}
      OBVIOUS
    <3>1. /\ h.ok <=> SV[h.query] = "ok"
          /\ h.query - base < s.next_i => SV[h.query] \in {"ok", "error"}
      BY <1>1 DEF Judged
    <3>2. h.query - base \in Slots(s) /\ s.data[h.query - base].state = "Wait"
      BY <1>20 DEF Waiting
    <3>3. h.query - base < n => h.query - base < s.next_i
      BY <1>3, <1>10, <3>2 DEF Slots
    <3>4. h.query \in Queries
      BY <1>1, OutsideFacts
    <3>5. ~ \E m \in S : m.query = h.query
      BY <1>3, <1>19, <3>2
    <3>6. SV2[h.query] = SV[h.query]
      BY <1>23, <3>4, <3>5
    <3> QED
      BY <3>1, <3>3, <3>6
  <2> QED
    BY <1>6, <1>11, <2>1, <2>2, <2>3, <2>4 DEF Judged
<1>25. Finished(u, base, D)
  <2> SUFFICES ASSUME NEW q \in 1 .. base + Len(s.data)
               PROVE  q \in D <=> q <= base \/ u.data[q - base].state = "Finish"
    BY <1>6 DEF Finished
  <2>1. q \in D <=> q <= base \/ s.data[q - base].state = "Finish"
    BY <1>1 DEF Finished
  <2>2. q <= base \/ q - base \in Slots(s)
    BY <1>10 DEF Slots
  <2>3. q - base \in Slots(s) => (u.data[q - base].state = "Finish" <=> s.data[q - base].state = "Finish")
    BY <1>3, <1>7
  <2> QED
    BY <2>1, <2>2, <2>3
<1>26. N \cup S \subseteq Sendings /\ D \subseteq 1 .. base + Len(u.data)
  BY <1>1, <1>6, <1>8
<1>27. Good(u, base, N \cup S, H, SV2, D, {})
  BY <1>1, <1>5, <1>14, <1>15, <1>16, <1>18, <1>21, <1>23, <1>24, <1>25, <1>26 DEF Good
<1> QED
  BY <1>4, <1>6, <1>22, <1>27

\* The second loop keeps the order of execution: what it sends has only settled
\* queries before it, back to the one it has to be invoked after.
LEMMA SendAllChained ==
  ASSUME NEW s, NEW base, NEW N, NEW H, NEW SV, NEW D, Good(s, base, N, H, SV, D, {}),
         NEW S, S = SendingsOf(s, Sent(s))
  PROVE  /\ Chained(N, SV, D) => Chained(N \cup S, Resent(SV, S), D)
         /\ \A q \in Queries : SV[q] = "ok" => Resent(SV, S)[q] = "ok"
<1>1. /\ s \in Dispatchers /\ N \subseteq Sendings
      /\ SV \in [Queries -> Outcomes] /\ D \subseteq 1 .. base + Len(s.data)
      /\ Lined(s, base) /\ Bounds(s) /\ Ordered(s) /\ Dummies(s, {})
      /\ Judged(s, base, H, SV) /\ Finished(s, base, D)
  BY DEF Good
<1>2. PICK n, ps : n = Passed(s) /\ ps = Sent(s)
  OBVIOUS
<1>3. ps \subseteq Slots(s) /\ \A p \in ps : s.data[p].state = "Start"
  BY <1>1, <1>2, SentFacts
<1>4. /\ S \subseteq Sendings
      /\ \A m \in S : \E p \in ps : m.query = base + p /\ m.after = AfterOf(s, p)
  BY <1>1, <1>2, SendingFacts
<1>5. base \in Nat /\ Len(s.data) \in Nat /\ s.last_sent_i \in Int
      /\ \A k \in Slots(s) : base + k \in Queries /\ k \in Nat /\ k >= 1
  BY <1>1, MemberFacts DEF Lined
<1>6. PICK SV2 : SV2 = Resent(SV, S)
  OBVIOUS
<1>7. /\ \A q \in Queries : (\E m \in S : m.query = q) => SV2[q] = "pending"
      /\ \A q \in Queries : ~ (\E m \in S : m.query = q) => SV2[q] = SV[q]
  BY <1>6 DEF Resent
<1>8. \A q \in Queries : SV[q] = "ok" => SV2[q] = "ok"
  <2> SUFFICES ASSUME NEW q \in Queries, SV[q] = "ok" PROVE ~ \E m \in S : m.query = q
    BY <1>7
  <2> SUFFICES ASSUME NEW m \in S, m.query = q PROVE FALSE
    OBVIOUS
  <2>1. PICK p \in ps : m.query = base + p
    BY <1>4
  <2> QED
    BY <1>1, <1>3, <2>1 DEF Judged
<1>9. \A q \in Queries : Settled(q, SV, D) => Settled(q, SV2, D)
  BY <1>8 DEF Settled
<1>10. \A q \in Queries : SV2[q] \in {"ok", "error"} => SV2[q] = SV[q]
  BY <1>7
<1>11. \A q \in Queries : \A r \in 1 .. q - 1 : r \in Queries /\ r \in Nat /\ r < q /\ q \in Nat
  BY ConstantsOK DEF Queries
<1>12. ASSUME Chained(N, SV, D) PROVE Chained(N \cup S, SV2, D)
  <2>1. /\ \A q \in Queries :
             SV[q] \in {"ok", "error"} => \A r \in 1 .. q - 1 : Settled(r, SV, D)
        /\ \A m \in N :
             m.after < m.query /\ \A r \in 1 .. m.query - 1 : r > m.after => Settled(r, SV, D)
    BY <1>12 DEF Chained
  <2>2. \A q \in Queries :
          SV2[q] \in {"ok", "error"} => \A r \in 1 .. q - 1 : Settled(r, SV2, D)
    BY <1>9, <1>10, <1>11, <2>1
  <2>3. ASSUME NEW m \in N
        PROVE  m.after < m.query /\ \A r \in 1 .. m.query - 1 : r > m.after => Settled(r, SV2, D)
    <3>1. m.query \in Queries
      BY <1>1, OutsideFacts
    <3> QED
      BY <1>9, <1>11, <2>1, <3>1
  <2>4. ASSUME NEW m \in S
        PROVE  m.after < m.query /\ \A r \in 1 .. m.query - 1 : r > m.after => Settled(r, SV2, D)
    <3>1. PICK p \in ps : m.query = base + p /\ m.after = AfterOf(s, p)
      BY <1>4
    <3>2. PICK a : a = m.after
      OBVIOUS
    <3>3. a \in 0 .. MaxQueries /\ a < base + p /\ \E k \in 0 .. p - 1 : Behind(s, base, p, k, a)
      BY <1>1, <1>2, <3>1, <3>2, AfterFacts
    <3>4. PICK k \in 0 .. p - 1 : Behind(s, base, p, k, a)
      BY <3>3
    <3>5. p \in Slots(s) /\ p \in Nat /\ base + p \in Queries /\ k \in Nat /\ k < p
      BY <1>3, <1>5, <3>4
    <3>6. \A r \in 1 .. base + p - 1 : r <= base \/ r > base + k => r \in D
      <4> SUFFICES ASSUME NEW r \in 1 .. base + p - 1, r <= base \/ r > base + k PROVE r \in D
        OBVIOUS
      <4>1. r \in 1 .. base + Len(s.data)
        BY <1>5, <3>5 DEF Slots
      <4>2. r \in D <=> r <= base \/ s.data[r - base].state = "Finish"
        BY <1>1, <4>1 DEF Finished
      <4>3. CASE r <= base
        BY <4>2, <4>3
      <4>4. CASE r > base + k
        <5>1. r - base \in Slots(s) /\ k < r - base /\ r - base < p
          BY <1>5, <3>5, <4>4 DEF Slots
        <5> QED
          BY <3>4, <4>2, <5>1 DEF Behind
      <4> QED
        BY <4>3, <4>4
    <3>7. \A r \in 1 .. base + p - 1 : r > a => Settled(r, SV2, D)
      <4> SUFFICES ASSUME NEW r \in 1 .. base + p - 1, r > a PROVE Settled(r, SV2, D)
        OBVIOUS
      <4>1. CASE k = 0 /\ a = 0
        <5>1. r \in D
          BY <1>5, <3>5, <3>6, <4>1
        <5> QED
          BY <5>1 DEF Settled
      <4>2. CASE k \in Slots(s) /\ a = base + k
        BY <3>6, <4>2 DEF Settled
      <4>3. CASE k \in Slots(s) /\ a = 0 /\ k = s.last_sent_i /\ s.data[k].state = "Finish"
        <5>1. SV[base + k] \in {"ok", "error"} /\ base + k \in Queries
          BY <1>1, <1>5, <4>3 DEF Judged
        <5>2. CASE r < base + k
          <6>1. r \in 1 .. base + k - 1
            BY <1>5, <3>5, <5>2
          <6>2. PICK q \in Queries : q = base + k
            BY <5>1
          <6>3. SV[q] \in {"ok", "error"} /\ r \in 1 .. q - 1
            BY <1>5, <3>5, <5>1, <6>1, <6>2
          <6>4. Settled(r, SV, D) /\ r \in Queries
            BY <1>11, <2>1, <6>3
          <6> QED
            BY <1>9, <6>4
        <5>3. CASE r = base + k
          <6>1. r \in 1 .. base + Len(s.data) /\ r - base = k
            BY <1>5, <3>5, <5>3 DEF Slots
          <6>2. r \in D
            BY <1>1, <4>3, <6>1 DEF Finished
          <6> QED
            BY <6>2 DEF Settled
        <5>4. CASE r > base + k
          BY <3>6, <5>4 DEF Settled
        <5> QED
          BY <1>5, <3>5, <5>2, <5>3, <5>4
      <4> QED
        BY <3>4, <4>1, <4>2, <4>3 DEF Behind
    <3>8. PICK q : q = base + p
      OBVIOUS
    <3>9. m.query = q /\ a < q /\ \A r \in 1 .. q - 1 : r > a => Settled(r, SV2, D)
      BY <1>5, <3>1, <3>3, <3>5, <3>7, <3>8
    <3> QED
      BY <3>2, <3>9
  <2> QED
    BY <2>2, <2>3, <2>4 DEF Chained
<1> QED
  BY <1>6, <1>8, <1>12

-----------------------------------------------------------------------------
(* try_shrink.                                                             *)

\* The members without their first n entries.
Shrunk(s, n, q, l, t) ==
  t = [s EXCEPT !.data = q, !.next_i = s.next_i - n, !.last_sent_i = l,
                !.id_offset = s.id_offset + n, !.finish_i = 1]
LEMMA ShrunkFacts ==
  ASSUME NEW s \in Dispatchers, NEW n \in Int, NEW q \in Seq(Entries), NEW l \in Int, NEW t,
         Shrunk(s, n, q, l, t)
  PROVE  /\ t \in Dispatchers /\ t.data = q /\ t.next_i = s.next_i - n /\ t.last_sent_i = l
         /\ t.id_offset = s.id_offset + n /\ t.finish_i = 1 /\ t.sent = s.sent
         /\ t.generation = s.generation /\ t.wait_cnt = s.wait_cnt
<1>1. s.next_i - n \in Int /\ s.id_offset + n \in Int /\ 1 \in Int
  BY MemberFacts
<1>2. t \in Dispatchers
  BY <1>1 DEF Dispatchers, Shrunk
<1>3. /\ t.data = q /\ t.next_i = s.next_i - n /\ t.last_sent_i = l
      /\ t.id_offset = s.id_offset + n /\ t.finish_i = 1 /\ t.sent = s.sent
      /\ t.generation = s.generation /\ t.wait_cnt = s.wait_cnt
  BY DEF Dispatchers, Shrunk
<1> QED
  BY <1>2, <1>3

\* The entries that are left, by their old positions.
Rest(s, n, q) == q = SubSeq(s.data, n + 1, Len(s.data))
Rests(s, n, q) ==
  /\ q \in Seq(Entries) /\ Len(q) = Len(s.data) - n
  /\ \A k \in 1 .. Len(q) : q[k] = s.data[n + k] /\ n + k \in Slots(s)
LEMMA RestFacts ==
  ASSUME NEW s \in Dispatchers, NEW n \in Nat, n <= Len(s.data), NEW q, Rest(s, n, q)
  PROVE  Rests(s, n, q)
<1>1. s.data \in Seq(Entries) /\ Len(s.data) \in Nat /\ \A k \in Slots(s) : s.data[k] \in Entries
  BY WaitingFacts
<1>2. PICK a \in Int : a = n + 1
  OBVIOUS
<1>3. \A i \in a .. Len(s.data) : s.data[i] \in Entries
  BY <1>1, <1>2 DEF Slots
<1>4. q = SubSeq(s.data, a, Len(s.data))
  BY <1>2 DEF Rest
<1>5. /\ q \in Seq(Entries)
      /\ Len(q) = IF a <= Len(s.data) THEN Len(s.data) - a + 1 ELSE 0
      /\ \A i \in 1 .. Len(s.data) - a + 1 : q[i] = s.data[a + i - 1]
  BY <1>1, <1>3, <1>4, SubSeqProperties
<1>6. Len(q) = Len(s.data) - n
  BY <1>1, <1>2, <1>5
<1>7. \A k \in 1 .. Len(q) : q[k] = s.data[n + k] /\ n + k \in Slots(s)
  <2> SUFFICES ASSUME NEW k \in 1 .. Len(q) PROVE q[k] = s.data[n + k] /\ n + k \in Slots(s)
    OBVIOUS
  <2>1. k \in 1 .. Len(s.data) - a + 1 /\ a + k - 1 = n + k /\ n + k \in Slots(s)
    BY <1>1, <1>2, <1>6 DEF Slots
  <2> QED
    BY <1>5, <2>1
<1> QED
  BY <1>5, <1>6, <1>7 DEF Rests

\* try_shrink keeps the invariant: only finished entries go.
LEMMA ShrinkGood ==
  ASSUME NEW s, NEW base, NEW N, NEW H, NEW SV, NEW D, Good(s, base, N, H, SV, D, {}),
         NEW t, t = TryShrink(s)
  PROVE  Good(t, base + Len(s.data) - Len(t.data), N, H, SV, D, {})
<1>1. /\ s \in Dispatchers /\ s.sent = {} /\ N \subseteq Sendings /\ H \subseteq Handles
      /\ SV \in [Queries -> Outcomes] /\ D \subseteq 1 .. base + Len(s.data)
      /\ Lined(s, base) /\ Bounds(s) /\ Ordered(s) /\ Dummies(s, {}) /\ Counted(s)
      /\ Tokens(s, base, N, H) /\ Judged(s, base, H, SV) /\ Finished(s, base, D)
  BY DEF Good
<1>2. /\ s.next_i \in Int /\ s.last_sent_i \in Int /\ s.finish_i \in Int /\ Len(s.data) \in Nat
      /\ 1 <= s.finish_i /\ s.finish_i <= s.next_i /\ s.next_i <= Len(s.data) + 1
      /\ 0 <= s.last_sent_i /\ s.last_sent_i < s.next_i /\ base \in Nat
      /\ s.generation \in Nat /\ s.generation >= 1 /\ s.id_offset \in 1 .. base + 1
  BY <1>1, MemberFacts DEF Bounds, Lined
<1>a. base \in Nat /\ Len(s.data) \in Nat /\ s.id_offset \in Int /\ s.last_sent_i \in Int
  BY <1>2
<1>3. PICK n \in Nat : n = s.finish_i - 1
  BY <1>2
<1>4. n <= Len(s.data) /\ n < s.next_i /\ s.finish_i = n + 1
  BY <1>2, <1>3
<1>5. CASE ~ (n * 2 > Len(s.data) /\ Len(s.data) > ShrinkMin)
  <2>1. t = s
    BY <1>3, <1>5 DEF TryShrink
  <2>2. base + Len(s.data) - Len(t.data) = base
    BY <1>2, <2>1
  <2> QED
    BY <2>1, <2>2
<1>6. CASE n * 2 > Len(s.data) /\ Len(s.data) > ShrinkMin
  <2>1. PICK q : Rest(s, n, q)
    BY DEF Rest
  <2>2. /\ q \in Seq(Entries) /\ Len(q) = Len(s.data) - n
        /\ \A k \in 1 .. Len(q) : q[k] = s.data[n + k] /\ n + k \in Slots(s)
    <3>1. s \in Dispatchers /\ n <= Len(s.data)
      BY <1>1, <1>4
    <3>2. Rests(s, n, q)
      BY <2>1, <3>1, RestFacts
    <3> QED
      BY <3>2 DEF Rests
  <2>3. PICK l : l = IF s.last_sent_i > n THEN s.last_sent_i - n ELSE 0
    OBVIOUS
  <2>4. l \in Int /\ 0 <= l /\ l < s.next_i - n /\ (l # 0 => l = s.last_sent_i - n)
        /\ (l = 0 => s.last_sent_i <= n)
    BY <1>2, <1>4, <2>3
  <2>5. Shrunk(s, n, q, l, t)
    BY <1>1, <1>3, <1>6, <2>1, <2>3 DEF Shrunk, TryShrink, Dispatchers, Rest
  <2>6. /\ t \in Dispatchers /\ t.data = q /\ t.next_i = s.next_i - n /\ t.last_sent_i = l
        /\ t.id_offset = s.id_offset + n /\ t.finish_i = 1 /\ t.sent = s.sent
        /\ t.generation = s.generation /\ t.wait_cnt = s.wait_cnt
    BY <1>1, <2>2, <2>4, <2>5, ShrunkFacts
  <2>7. Len(t.data) = Len(s.data) - n
    BY <2>2, <2>6
  <2>8. PICK new \in Nat : new = base + n
    BY <1>2
  <2>9. base + Len(s.data) - Len(t.data) = new /\ base + Len(s.data) = new + Len(t.data)
    <3>1. PICK L, K : L = Len(s.data) /\ K = Len(t.data)
      OBVIOUS
    <3>2. L \in Nat /\ K = L - n /\ base \in Nat
      BY <1>a, <2>7, <3>1
    <3>3. base + L - K = new /\ base + L = new + K
      BY <2>8, <3>2
    <3> QED
      BY <3>1, <3>3
  <2>10. \A k \in Slots(t) : k \in Nat /\ 1 <= k /\ n + k \in Slots(s) /\ t.data[k] = s.data[n + k]
    BY <2>2, <2>6 DEF Slots
  <2>11. \A p \in Slots(s) : p > n => p - n \in Slots(t) /\ p = n + (p - n)
    BY <1>2, <2>7 DEF Slots
  <2>12. \A p \in Slots(s) : p <= n => s.data[p].state = "Finish"
    BY <1>1, <1>4 DEF Ordered, Slots
  <2>13. Lined(t, new)
    <3>1. t.id_offset \in 1 .. new + 1
      BY <1>2, <2>6, <2>8
    <3>2. \A k \in Slots(t) : t.data[k].query = new + k
      <4> SUFFICES ASSUME NEW k \in Slots(t) PROVE t.data[k].query = new + k
        OBVIOUS
      <4>1. t.data[k].query = base + (n + k)
        BY <1>1, <2>10 DEF Lined
      <4> QED
        BY <1>2, <2>8, <2>10, <4>1
    <3> QED
      BY <3>1, <3>2 DEF Lined
  <2>14. Bounds(t)
    BY <1>2, <1>4, <2>4, <2>6, <2>7 DEF Bounds
  <2>15. Ordered(t)
    <3> SUFFICES ASSUME NEW k \in Slots(t)
                 PROVE  /\ k < 1 => t.data[k].state = "Finish"
                        /\ k < s.next_i - n => t.data[k].state # "Start"
                        /\ k < s.next_i - n => t.data[k].state = "Finish" \/ t.data[k].generation = s.generation
                        /\ l < k /\ k < s.next_i - n => t.data[k].state = "Finish"
      BY <2>6 DEF Ordered
    <3>1. PICK p : p = n + k
      OBVIOUS
    <3>2. p \in Slots(s) /\ t.data[k] = s.data[p] /\ k \in Nat /\ 1 <= k
      BY <2>10, <3>1
    <3>3. /\ p < s.next_i => s.data[p].state # "Start"
          /\ p < s.next_i => s.data[p].state = "Finish" \/ s.data[p].generation = s.generation
          /\ s.last_sent_i < p /\ p < s.next_i => s.data[p].state = "Finish"
      BY <1>1, <3>2 DEF Ordered
    <3>4. (k < s.next_i - n => p < s.next_i) /\ (l < k => s.last_sent_i < p)
      BY <1>2, <2>4, <3>1, <3>2
    <3> QED
      BY <3>2, <3>3, <3>4
  <2>16. Dummies(t, {})
    BY <1>1, <2>10 DEF Dummies
  <2>17. \A p : p \in Waiting(s) <=> p \in Int /\ p - n \in Waiting(t)
    <3>1. ASSUME NEW p \in Waiting(s) PROVE p \in Int /\ p - n \in Waiting(t)
      <4>1. p \in Slots(s) /\ s.data[p].state = "Wait" /\ p \in Nat
        BY <3>1 DEF Waiting, Slots
      <4>2. p > n
        BY <2>12, <4>1
      <4>3. p - n \in Slots(t) /\ t.data[p - n] = s.data[p]
        BY <2>10, <2>11, <4>1, <4>2
      <4> QED
        BY <4>1, <4>3 DEF Waiting
    <3>2. ASSUME NEW p \in Int, p - n \in Waiting(t) PROVE p \in Waiting(s)
      <4>1. p - n \in Slots(t) /\ t.data[p - n].state = "Wait" /\ n + (p - n) = p
        BY <3>2 DEF Waiting
      <4>2. p \in Slots(s) /\ s.data[p].state = "Wait"
        BY <2>10, <4>1
      <4> QED
        BY <4>2 DEF Waiting
    <3> QED
      BY <3>1, <3>2
  <2>18. Counted(t)
    <3>1. PICK A, B : A = Waiting(t) /\ B = Waiting(s)
      OBVIOUS
    <3>2. PICK f : f = [k \in A |-> k + n]
      OBVIOUS
    <3>3. \A k \in A : k \in Nat
      BY <3>1, <2>10 DEF Waiting
    <3>4. f \in [A -> B]
      <4> SUFFICES ASSUME NEW k \in A PROVE k + n \in B
        BY <3>2
      <4>1. PICK c \in Int : c = k + n
        BY <3>3
      <4>2. c - n = k
        BY <3>3, <4>1
      <4>3. c \in B
        BY <2>17, <3>1, <4>2
      <4> QED
        BY <4>1, <4>3
    <3>5. \A a, c \in A : f[a] = f[c] => a = c
      BY <3>2, <3>3
    <3>6. \A b \in B : \E a \in A : f[a] = b
      <4> SUFFICES ASSUME NEW b \in B PROVE \E a \in A : f[a] = b
        OBVIOUS
      <4>1. b \in Int /\ b - n \in A
        BY <2>17, <3>1
      <4>2. f[b - n] = b
        BY <3>2, <4>1
      <4> QED
        BY <4>1, <4>2
    <3>7. IsFiniteSet(A)
      BY <2>6, <3>1, WaitingFacts
    <3>8. Cardinality(B) = Cardinality(A)
      BY <3>4, <3>5, <3>6, <3>7, CardSame
    <3> QED
      BY <1>1, <2>6, <3>1, <3>8 DEF Counted
  <2>19. Tokens(t, new, N, H)
    <3>1. ASSUME NEW m \in N \cup H
          PROVE  m.query - new \in Waiting(t) /\ m.token = m.query - new - 1 + t.id_offset
      <4>1. m.query - base \in Waiting(s) /\ m.token = m.query - base - 1 + s.id_offset
        BY <1>1 DEF Tokens
      <4>2. m.query \in Nat
        BY <1>1, OutsideFacts
      <4>3. m.query - base - n = m.query - new
        BY <1>a, <2>8, <4>2
      <4>4. m.query - new \in Waiting(t)
        BY <2>17, <4>1, <4>3
      <4>5. m.query - base - 1 + s.id_offset = m.query - new - 1 + (s.id_offset + n)
        BY <1>a, <2>8, <4>2
      <4> QED
        BY <2>6, <4>1, <4>4, <4>5
    <3>2. ASSUME NEW k \in Waiting(t) PROVE \E m \in N \cup H : m.query = new + k
      <4>1. k \in Nat
        BY <2>10 DEF Waiting
      <4>2. PICK p \in Int : p = n + k
        BY <4>1
      <4>3. p - n = k
        BY <4>1, <4>2
      <4>4. p \in Waiting(s)
        BY <2>17, <4>3
      <4>5. PICK m \in N \cup H : m.query = base + p
        BY <1>1, <4>4 DEF Tokens
      <4>6. base + p = new + k
        BY <1>2, <2>8, <4>1, <4>2
      <4> QED
        BY <4>5, <4>6
    <3> QED
      BY <1>1, <3>1, <3>2 DEF Tokens
  <2>20. Judged(t, new, H, SV)
    <3>1. \A k \in Slots(t) : t.data[k].state = "Start" => SV[new + k] # "ok"
      <4> SUFFICES ASSUME NEW k \in Slots(t), t.data[k].state = "Start" PROVE SV[new + k] # "ok"
        OBVIOUS
      <4>1. n + k \in Slots(s) /\ s.data[n + k].state = "Start" /\ base + (n + k) = new + k
        BY <1>a, <2>8, <2>10
      <4>2. SV[base + (n + k)] # "ok"
        BY <1>1, <4>1 DEF Judged
      <4> QED
        BY <4>1, <4>2
    <3>2. \A x \in Queries : x > new + Len(t.data) => SV[x] = "idle"
      BY <1>1, <2>9 DEF Judged
    <3>3. \A h \in H : /\ h.ok <=> SV[h.query] = "ok"
                       /\ h.query - new < t.next_i => SV[h.query] \in {"ok", "error"}
      <4> SUFFICES ASSUME NEW h \in H
                   PROVE  /\ h.ok <=> SV[h.query] = "ok"
                          /\ h.query - new < t.next_i => SV[h.query] \in {"ok", "error"}
        OBVIOUS
      <4>1. /\ h.ok <=> SV[h.query] = "ok"
            /\ h.query - base < s.next_i => SV[h.query] \in {"ok", "error"}
        BY <1>1 DEF Judged
      <4>2. h.query \in Nat
        BY <1>1, OutsideFacts
      <4>3. h.query - new < t.next_i => h.query - base < s.next_i
        BY <1>2, <2>6, <2>8, <4>2
      <4> QED
        BY <4>1, <4>3
    <3>4. l # 0 /\ t.data[l].state = "Finish" => SV[new + l] \in {"ok", "error"}
      <4> SUFFICES ASSUME l # 0, t.data[l].state = "Finish" PROVE SV[new + l] \in {"ok", "error"}
        OBVIOUS
      <4>1. l \in Slots(t)
        BY <1>2, <1>4, <2>4, <2>7 DEF Slots
      <4>2. n + l = s.last_sent_i /\ new + l = base + s.last_sent_i /\ s.last_sent_i # 0
        BY <1>a, <2>4, <2>8
      <4>3. s.data[s.last_sent_i].state = "Finish"
        BY <2>10, <4>1, <4>2
      <4> QED
        BY <1>1, <4>2, <4>3 DEF Judged
    <3> QED
      BY <2>6, <3>1, <3>2, <3>3, <3>4 DEF Judged
  <2>21. Finished(t, new, D)
    <3> SUFFICES ASSUME NEW x \in 1 .. base + Len(s.data)
                 PROVE  x \in D <=> x <= new \/ t.data[x - new].state = "Finish"
      BY <2>9 DEF Finished
    <3>1. x \in D <=> x <= base \/ s.data[x - base].state = "Finish"
      BY <1>1 DEF Finished
    <3>2. CASE x <= new
      <4>1. CASE x <= base
        BY <3>1, <3>2, <4>1
      <4>2. CASE ~ (x <= base)
        <5>1. x - base \in Slots(s) /\ x - base <= n
          BY <1>2, <2>8, <3>2, <4>2 DEF Slots
        <5> QED
          BY <2>12, <3>1, <3>2, <5>1
      <4> QED
        BY <4>1, <4>2
    <3>3. CASE ~ (x <= new)
      <4>1. ~ (x <= base) /\ x - new \in Slots(t) /\ n + (x - new) = x - base
        BY <1>2, <1>4, <2>7, <2>8, <3>3 DEF Slots
      <4>2. t.data[x - new] = s.data[x - base]
        BY <2>10, <4>1
      <4> QED
        BY <3>1, <3>3, <4>1, <4>2
    <3> QED
      BY <3>2, <3>3
  <2>22. D \subseteq 1 .. new + Len(t.data)
    BY <1>1, <2>9
  <2>23. Good(t, new, N, H, SV, D, {})
    BY <1>1, <2>6, <2>13, <2>14, <2>15, <2>16, <2>18, <2>19, <2>20, <2>21, <2>22 DEF Good
  <2> QED
    BY <2>9, <2>23
<1> QED
  BY <1>5, <1>6

-----------------------------------------------------------------------------
(* loop() as a whole.                                                      *)

\* The messages may be taken out before the vector shrinks.
LEMMA ShrinkEmptied ==
  ASSUME NEW b \in Dispatchers, NEW u, Emptied(b, u), NEW r, r = TryShrink(b), NEW e, Emptied(r, e)
  PROVE  e = TryShrink(u) /\ r.sent = b.sent
<1>1. /\ u \in Dispatchers /\ u.sent = {} /\ u.data = b.data /\ u.finish_i = b.finish_i
      /\ u.next_i = b.next_i /\ u.last_sent_i = b.last_sent_i /\ u.generation = b.generation
      /\ u.id_offset = b.id_offset /\ u.wait_cnt = b.wait_cnt
  BY EmptiedFacts
<1>2. PICK n : n = b.finish_i - 1
  OBVIOUS
<1>3. CASE ~ (n * 2 > Len(b.data) /\ Len(b.data) > ShrinkMin)
  BY <1>1, <1>2, <1>3 DEF TryShrink, Emptied
<1>4. CASE n * 2 > Len(b.data) /\ Len(b.data) > ShrinkMin
  <2>1. PICK q, l : /\ q = SubSeq(b.data, n + 1, Len(b.data))
                    /\ l = IF b.last_sent_i > n THEN b.last_sent_i - n ELSE 0
    OBVIOUS
  <2>2. PICK x, y : x = b.next_i - n /\ y = b.id_offset + n
    OBVIOUS
  <2>3. r = [b EXCEPT !.data = q, !.next_i = x, !.last_sent_i = l, !.id_offset = y, !.finish_i = 1]
    BY <1>2, <1>4, <2>1, <2>2 DEF TryShrink, Dispatchers
  <2>4. TryShrink(u) =
          [u EXCEPT !.data = q, !.next_i = x, !.last_sent_i = l, !.id_offset = y, !.finish_i = 1]
    BY <1>1, <1>2, <1>4, <2>1, <2>2 DEF TryShrink, Dispatchers
  <2>5. r = [data |-> q, finish_i |-> 1, next_i |-> x, last_sent_i |-> l, generation |-> b.generation,
             id_offset |-> y, wait_cnt |-> b.wait_cnt, sent |-> b.sent]
    BY <2>3 DEF Dispatchers
  <2>6. TryShrink(u) =
          [data |-> q, finish_i |-> 1, next_i |-> x, last_sent_i |-> l, generation |-> b.generation,
           id_offset |-> y, wait_cnt |-> b.wait_cnt, sent |-> {}]
    BY <1>1, <2>4 DEF Dispatchers
  <2>7. r.sent = b.sent
    BY <2>5
  <2>8. e = [data |-> q, finish_i |-> 1, next_i |-> x, last_sent_i |-> l, generation |-> b.generation,
             id_offset |-> y, wait_cnt |-> b.wait_cnt, sent |-> {}]
    BY <2>5 DEF Emptied
  <2> QED
    BY <2>6, <2>7, <2>8
<1> QED
  BY <1>3, <1>4

\* loop() keeps the invariant, the order of execution, and what was executed.
LEMMA LoopGood ==
  ASSUME NEW s, NEW base, NEW A, NEW K, NEW D, NEW N, N = net \ A,
         Good(s, base, N, K, srv, D, {}), AfterLoop(s, A, K)
  PROVE  /\ Good(d', base + Len(s.data) - Len(d'.data), net', hands', srv', D, {})
         /\ Chained(N, srv, D) => Chained(net', srv', D)
         /\ \A q \in Queries : srv[q] = "ok" => srv'[q] = "ok"
<1>1. PICK a : a = SkipFinished(s)
  OBVIOUS
<1>2. PICK b : b = SendAll(a)
  OBVIOUS
<1>3. PICK r : r = TryShrink(b)
  OBVIOUS
<1>4. /\ d' = [r EXCEPT !.sent = {}]
      /\ net' = (net \ A) \cup r.sent
      /\ srv' = [q \in Queries |-> IF \E m \in r.sent : m.query = q THEN "pending" ELSE srv[q]]
      /\ hands' = K
  BY <1>1, <1>2, <1>3 DEF AfterLoop
<1>5. Good(a, base, N, K, srv, D, {}) /\ a.data = s.data
  BY <1>1, SkipFinishedGood
<1>6. PICK u : Emptied(b, u)
  BY DEF Emptied
<1>7. /\ Good(u, base, N \cup b.sent, K, Resent(srv, b.sent), D, {})
      /\ Len(u.data) = Len(a.data) /\ b \in Dispatchers
  BY <1>2, <1>5, <1>6, SendAllGood
<1>8. Emptied(r, d')
  BY <1>4 DEF Emptied
<1>9. d' = TryShrink(u) /\ r.sent = b.sent
  BY <1>3, <1>6, <1>7, <1>8, ShrinkEmptied
<1>10. net' = N \cup b.sent /\ srv' = Resent(srv, b.sent)
  BY <1>4, <1>9 DEF Resent
<1>11. Good(d', base + Len(u.data) - Len(d'.data), net', hands', srv', D, {})
  <2>1. PICK t : t = d'
    OBVIOUS
  <2>2. PICK N2, SV2 : N2 = N \cup b.sent /\ SV2 = Resent(srv, b.sent)
    OBVIOUS
  <2>3. Good(u, base, N2, K, SV2, D, {}) /\ t = TryShrink(u)
    BY <1>7, <1>9, <2>1, <2>2
  <2>4. Good(t, base + Len(u.data) - Len(t.data), N2, K, SV2, D, {})
    BY <2>3, ShrinkGood
  <2> QED
    BY <1>4, <1>10, <2>1, <2>2, <2>4
<1>12. b.sent = SendingsOf(a, Sent(a))
  <2>1. /\ a \in Dispatchers /\ Lined(a, base) /\ Bounds(a) /\ Ordered(a) /\ Dummies(a, {})
    BY <1>5 DEF Good
  <2>2. SendsAll(a, b, Sent(a))
    BY <1>2, <2>1, SendAllFacts
  <2> QED
    BY <2>2 DEF SendsAll
<1>13. /\ Chained(N, srv, D) => Chained(N \cup b.sent, Resent(srv, b.sent), D)
       /\ \A q \in Queries : srv[q] = "ok" => Resent(srv, b.sent)[q] = "ok"
  BY <1>5, <1>12, SendAllChained
<1> QED
  BY <1>5, <1>7, <1>10, <1>11, <1>13

-----------------------------------------------------------------------------
(* The actions.                                                            *)

\* The parts of the invariant at hand.
LEMMA Parts ==
  ASSUME IInv
  PROVE  /\ Good(d, Base, net, hands, srv, done, {})
         /\ ~local => Chained(net, srv, done)
         /\ d \in Dispatchers /\ Lined(d, Base) /\ Finished(d, Base, done) /\ Tokens(d, Base, net, hands)
         /\ done \subseteq 1 .. asked - Len(inbox) /\ Len(d.data) \in Nat /\ Len(inbox) \in Nat
         /\ asked \in 0 .. MaxQueries /\ asked \in Nat /\ Base \in Nat
         /\ Base + Len(d.data) = asked - Len(inbox) /\ inbox \in Seq(Queries)
         /\ Len(inbox) <= asked
<1>1. Good(d, Base, net, hands, srv, done, {}) /\ (~local => Chained(net, srv, done)) /\ InboxOK
  BY DEF IInv
<1>2. /\ d \in Dispatchers /\ Lined(d, Base) /\ Finished(d, Base, done) /\ Tokens(d, Base, net, hands)
      /\ done \subseteq 1 .. Base + Len(d.data)
  BY <1>1 DEF Good
<1>3. Len(d.data) \in Nat /\ Len(inbox) \in Nat /\ inbox \in Seq(Queries)
  BY <1>1, <1>2, MemberFacts, LenProperties DEF InboxOK
<1>4. asked \in 0 .. MaxQueries /\ asked \in Nat
  BY <1>1, ConstantsOK DEF InboxOK
<1>5. Base \in Nat
  BY <1>2 DEF Lined
<1>6. Base + Len(d.data) = asked - Len(inbox)
  BY <1>3, <1>4 DEF Base
<1>7. Len(inbox) <= asked
  BY <1>3, <1>4, <1>5, <1>6
<1> QED
  BY <1>1, <1>2, <1>3, <1>4, <1>5, <1>6, <1>7

\* When the parent counts nothing, nothing is under way.
LEMMA Quiet ==
  ASSUME IInv, cnt = 0
  PROVE  /\ Undone = {} /\ Said("on_result") = {} /\ inbox = << >> /\ Waiting(d) = {}
         /\ net = {} /\ hands = {} /\ \A p \in Slots(d) : d.data[p].state = "Finish"
<1>1. /\ Good(d, Base, net, hands, srv, done, {})
      /\ d \in Dispatchers /\ Lined(d, Base) /\ Finished(d, Base, done) /\ Tokens(d, Base, net, hands)
      /\ done \subseteq 1 .. asked - Len(inbox) /\ Len(d.data) \in Nat /\ Len(inbox) \in Nat
      /\ asked \in Nat /\ Base \in Nat /\ Base + Len(d.data) = asked - Len(inbox)
      /\ inbox \in Seq(Queries) /\ Len(inbox) <= asked
  BY Parts
<1>2. ParentOK
  BY DEF IInv
<1>3. IsFiniteSet(Undone) /\ IsFiniteSet(Said("on_result"))
  <2>1. IsFiniteSet(1 .. asked)
    BY <1>1, FS_Interval
  <2>2. Undone \in SUBSET (1 .. asked)
    BY DEF Undone
  <2>3. Len(to_parent) \in Nat
    BY <1>2, LenProperties DEF ParentOK
  <2>4. IsFiniteSet(1 .. Len(to_parent))
    BY <2>3, FS_Interval
  <2>5. Said("on_result") \in SUBSET (1 .. Len(to_parent))
    BY DEF Said
  <2> QED
    BY <2>1, <2>2, <2>4, <2>5, FS_Subset
<1>4. Undone = {} /\ Said("on_result") = {}
  <2>1. Cardinality(Undone) \in Nat /\ Cardinality(Said("on_result")) \in Nat
    BY <1>3, FS_CardinalityType
  <2>2. 0 = Cardinality(Undone) + Cardinality(Said("on_result"))
    BY <1>2 DEF ParentOK
  <2>3. Cardinality(Undone) = 0 /\ Cardinality(Said("on_result")) = 0
    BY <2>1, <2>2
  <2> QED
    BY <1>3, <2>3, FS_EmptySet
<1>5. \A q \in 1 .. asked : q \in done
  BY <1>4 DEF Undone
<1>6. inbox = << >>
  <2>1. Len(inbox) = 0
    <3> SUFFICES ASSUME Len(inbox) >= 1 PROVE FALSE
      BY <1>1
    <3>1. asked \in 1 .. asked
      BY <1>1
    <3>2. asked \in 1 .. asked - Len(inbox)
      BY <1>1, <1>5, <3>1
    <3> QED
      BY <1>1, <3>2
  <2> QED
    BY <1>1, <2>1, EmptySeq
<1>7. \A p \in Slots(d) : d.data[p].state = "Finish"
  <2> SUFFICES ASSUME NEW p \in Slots(d) PROVE d.data[p].state = "Finish"
    OBVIOUS
  <2>1. PICK q : q = Base + p
    OBVIOUS
  <2>2. q \in 1 .. asked /\ q \in 1 .. Base + Len(d.data) /\ ~ (q <= Base) /\ q - Base = p
    BY <1>1, <2>1 DEF Slots
  <2>3. q \in done
    BY <1>5, <2>2
  <2> QED
    BY <1>1, <2>2, <2>3 DEF Finished
<1>8. Waiting(d) = {}
  BY <1>7 DEF Waiting
<1>9. net = {} /\ hands = {}
  BY <1>1, <1>8 DEF Tokens
<1> QED
  BY <1>4, <1>6, <1>7, <1>8, <1>9

\* So a sequence with something under way is in dispatchers_.
LEMMA Present ==
  ASSUME IInv, net # {} \/ hands # {} \/ inbox # << >> \/ timer
  PROVE  exists
<1> SUFFICES ASSUME ~exists PROVE FALSE
  BY DEF IInv
<1>1. cnt = 0 /\ ~timer
  BY DEF IInv, ParentOK
<1>2. net = {} /\ hands = {} /\ inbox = << >>
  BY <1>1, Quiet
<1> QED
  BY <1>1, <1>2

\* What was executed stays executed.
LEMMA ExecutedKept ==
  ASSUME ExecutedOK, UNCHANGED <<executed, local>>, \A q \in Queries : srv[q] = "ok" => srv'[q] = "ok"
  PROVE  ExecutedOK'
<1>1. executed \in Seq(Queries) /\ \A i \in 1 .. Len(executed) : srv[executed[i]] = "ok"
  BY DEF ExecutedOK
<1>2. \A i \in 1 .. Len(executed) : executed[i] \in Queries
  BY <1>1
<1>3. \A i \in 1 .. Len(executed) : srv'[executed[i]] = "ok"
  BY <1>1, <1>2
<1> QED
  BY <1>1, <1>3 DEF ExecutedOK

\* Fewer queries under way and more that are done keep the order.
LEMMA ChainedLess ==
  ASSUME NEW N, NEW M, M \subseteq N, NEW SV, NEW D, NEW E, D \subseteq E, Chained(N, SV, D)
  PROVE  Chained(M, SV, E)
<1>1. \A q : Settled(q, SV, D) => Settled(q, SV, E)
  BY DEF Settled
<1> QED
  BY <1>1 DEF Chained

\* What all handlers that end with loop() keep.
LEMMA HandlerKeeps ==
  ASSUME IInv, NEW s, NEW A, NEW K, NEW D, NEW N, N = net \ A, done \subseteq D,
         Good(s, Base, N, K, srv, D, {}), Len(s.data) = Len(d.data), AfterLoop(s, A, K),
         UNCHANGED <<inbox, executed, asked, local>>
  PROVE  /\ Good(d', Base', net', hands', srv', D, {})
         /\ ~local' => Chained(net', srv', D)
         /\ InboxOK' /\ ExecutedOK'
<1>1. /\ Good(d', Base + Len(s.data) - Len(d'.data), net', hands', srv', D, {})
      /\ Chained(N, srv, D) => Chained(net', srv', D)
      /\ \A q \in Queries : srv[q] = "ok" => srv'[q] = "ok"
  BY LoopGood
<1>2. Base + Len(s.data) - Len(d'.data) = Base'
  <2>1. Len(d'.data) \in Nat
    <3>1. PICK t : t = d'
      OBVIOUS
    <3>2. t \in Dispatchers
      BY <1>1, <3>1 DEF Good
    <3> QED
      BY <3>1, <3>2, MemberFacts
  <2>2. /\ Len(d.data) \in Nat /\ asked \in Nat /\ Len(inbox) \in Nat
        /\ Base + Len(d.data) = asked - Len(inbox)
    BY Parts
  <2> QED
    BY <2>1, <2>2 DEF Base
<1>3. ~local' => Chained(net', srv', D)
  <2>1. ~local => Chained(net, srv, done)
    BY DEF IInv
  <2> QED
    BY <1>1, <2>1, ChainedLess
<1>4. InboxOK'
  BY DEF IInv, InboxOK
<1>5. ExecutedOK'
  BY <1>1, ExecutedKept DEF IInv
<1> QED
  BY <1>1, <1>2, <1>3, <1>4, <1>5

\* The handlers that the parent does not hear of.
LEMMA HandlerInv ==
  ASSUME IInv, NEW s, NEW A, NEW K, NEW N, N = net \ A,
         Good(s, Base, N, K, srv, done, {}), Len(s.data) = Len(d.data), AfterLoop(s, A, K),
         UNCHANGED <<inbox, exists, cnt, to_parent, executed, done, asked, local>>,
         exists, TimerAfter(timer), failures' \in Nat
  PROVE  IInv'
<1>1. /\ Good(d', Base', net', hands', srv', done, {})
      /\ ~local' => Chained(net', srv', done)
      /\ InboxOK' /\ ExecutedOK'
  BY HandlerKeeps
<1>2. ParentOK'
  BY DEF IInv, ParentOK, Undone, Said
<1>3. timer' \in BOOLEAN
  BY DEF IInv, TimerAfter
<1>4. exists' \in BOOLEAN /\ local' \in BOOLEAN
  BY DEF IInv
<1> QED
  BY <1>1, <1>2, <1>3, <1>4 DEF IInv

\* An answer of the network.
LEMMA OnResultInv ==
  ASSUME IInv, NEW m \in net, NEW lt \in Timeouts, OnResult(m, lt)
  PROVE  IInv'
<1>1. Good(d, Base, net, hands, srv, done, {})
  BY DEF IInv
<1>2. PICK p : p = Pos(d, m.token)
  OBVIOUS
<1>3. PICK a : a = FromToken(d, p)
  OBVIOUS
<1>4. PICK b : b = Delay(a, p, lt)
  OBVIOUS
<1>5. PICK ps : ps = p + 1 .. Len(b.data)
  OBVIOUS
<1>6. PICK c, hb : c = CheckTimeout(b, ps) /\ hb = Handed(b, ps)
  OBVIOUS
<1>7. PICK r : r = Restart(c, p)
  OBVIOUS
<1>8. PICK h : h = hands \cup hb
  OBVIOUS
<1>9. PICK N : N = net \ {m}
  OBVIOUS
<1>12. PICK x : x = {p}
  OBVIOUS
<1>10. /\ p = m.query - Base /\ p \in Slots(d) /\ m.query = Base + p
       /\ Good(a, Base, N, hands, srv, done, x) /\ Len(a.data) = Len(d.data)
       /\ a.id_offset = d.id_offset /\ m.token = p - 1 + d.id_offset
  <2>1. PICK H2 : H2 = hands \ {m}
    OBVIOUS
  <2>2. /\ p = m.query - Base /\ p \in Slots(d) /\ m.query = Base + p
        /\ Good(a, Base, N, H2, srv, done, x) /\ Len(a.data) = Len(d.data) /\ H2 = hands
        /\ a.id_offset = d.id_offset /\ m.token = p - 1 + d.id_offset
    <3>1. TakesBack(d, m, p, a, net, hands, N, H2, x)
      BY <1>2, <1>3, <1>9, <1>12, <2>1 DEF TakesBack
    <3> QED
      BY <1>1, <3>1, FromTokenGood
  <2> QED
    BY <2>2
<1>11. lt \in Nat
  BY ConstantsOK
<1>13. Good(b, Base, N, hands, srv, done, x) /\ Len(b.data) = Len(d.data) /\ b.id_offset = d.id_offset
  <2>2. Good(b, Base, N, hands, srv, done, x) /\ Len(b.data) = Len(a.data) /\ Beside(a, b)
    BY <1>4, <1>10, <1>11, DelayGood
  <2> QED
    BY <1>10, <2>2 DEF Beside
<1>14. Good(c, Base, N, h, srv, done, x) /\ Len(c.data) = Len(d.data) /\ c.id_offset = d.id_offset
  <2>1. ps \subseteq Slots(b)
    BY <1>5, <1>10 DEF Slots
  <2>2. /\ Good(c, Base, N, hands \cup hb, srv, done, x) /\ Len(c.data) = Len(b.data) /\ Beside(b, c)
    BY <1>6, <1>13, <2>1, CheckTimeoutGood
  <2> QED
    BY <1>8, <1>13, <2>2 DEF Beside
<1>15. p \in Slots(c) /\ Good(c, Base, N, h, srv, done, x)
  BY <1>10, <1>14 DEF Slots
<1>16. /\ UNCHANGED <<inbox, exists, cnt, to_parent, executed, done, asked, local>>
       /\ TimerAfter(timer)
  BY DEF OnResult
<1>17. failures' \in Nat
  BY DEF OnResult, IInv
<1>18. exists
  BY Present
<1>19. srv[m.query] \in {"ok", "error", "wait_failed"}
  BY DEF OnResult
<1>20. CASE srv[m.query] = "wait_failed"
  <2>1. PICK K, s : K = h \cup Handed(r, {p}) /\ s = CheckTimeout(r, {p})
    OBVIOUS
  <2>2. AfterLoop(s, {m}, K)
    BY <1>2, <1>3, <1>4, <1>5, <1>6, <1>7, <1>8, <1>20, <2>1 DEF OnResult
  <2>3. Good(r, Base, N, h, srv, done, {}) /\ Len(r.data) = Len(c.data)
    <3>1. srv[Base + p] # "ok"
      BY <1>10, <1>20
    <3> QED
      BY <1>7, <1>12, <1>15, <3>1, RestartGood
  <2>4. Good(s, Base, N, K, srv, done, {}) /\ Len(s.data) = Len(r.data)
    <3>1. PICK ones, e : ones = {p} /\ e = Handed(r, {p})
      OBVIOUS
    <3>2. ones \subseteq Slots(r) /\ s = CheckTimeout(r, ones) /\ e = Handed(r, ones)
      BY <1>15, <2>1, <2>3, <3>1 DEF Slots
    <3>3. PICK none : none = {}
      OBVIOUS
    <3>4. Good(r, Base, N, h, srv, done, none)
      BY <2>3, <3>3
    <3>5. Good(s, Base, N, h \cup e, srv, done, none) /\ Len(s.data) = Len(r.data)
      BY <3>2, <3>4, CheckTimeoutGood
    <3> QED
      BY <2>1, <3>1, <3>3, <3>5
  <2>5. Len(s.data) = Len(d.data)
    BY <1>14, <2>3, <2>4
  <2> QED
    BY <1>9, <1>16, <1>17, <1>18, <2>2, <2>4, <2>5, HandlerInv
<1>21. CASE srv[m.query] # "wait_failed"
  <2>1. PICK g : g = [token |-> m.token, query |-> m.query, ok |-> srv[m.query] = "ok"]
    OBVIOUS
  <2>2. PICK K, s : K = h \cup {g} /\ s = [c EXCEPT !.data[p].state = "Wait", !.wait_cnt = @ + 1]
    OBVIOUS
  <2>3. AfterLoop(s, {m}, K)
    BY <1>2, <1>3, <1>4, <1>5, <1>6, <1>8, <1>21, <2>1, <2>2 DEF OnResult
  <2>4. c \in Dispatchers
    BY <1>15 DEF Good
  <2>5. PICK w : w = c.wait_cnt + 1
    OBVIOUS
  <2>a. Ended(c, p, "Wait", w, s)
    BY <2>2, <2>4, <2>5 DEF Ended, Dispatchers
  <2>6. m.query \in Queries /\ m.token \in Int
    BY <1>1, OutsideFacts DEF Good
  <2>7. /\ g \in Handles /\ g.query = Base + p /\ g.token = p - 1 + c.id_offset
        /\ g.ok <=> srv[g.query] = "ok"
        /\ srv[g.query] \in {"ok", "error"}
    <3>1. g \in Handles
      BY <2>1, <2>6 DEF Handles
    <3>2. g.query = m.query /\ g.token = m.token /\ g.ok = (srv[m.query] = "ok")
      BY <2>1
    <3> QED
      BY <1>10, <1>14, <1>19, <1>21, <3>1, <3>2
  <2>8. Good(s, Base, N, K, srv, done, {}) /\ Len(s.data) = Len(c.data)
    <3>1. HandsOn(c, Base, srv, p, g)
      BY <2>7 DEF HandsOn
    <3> QED
      BY <1>12, <1>15, <2>2, <2>5, <2>a, <3>1, WaitAgainGood
  <2>9. Good(s, Base, N, K, srv, done, {}) /\ Len(s.data) = Len(d.data)
    BY <1>14, <2>8
  <2> QED
    BY <1>9, <1>16, <1>17, <1>18, <2>3, <2>9, HandlerInv
<1> QED
  BY <1>20, <1>21

\* The callback wants the query sent again.
LEMMA OnResendOkInv ==
  ASSUME IInv, NEW h \in hands, OnResendOk(h)
  PROVE  IInv'
<1>1. Good(d, Base, net, hands, srv, done, {})
  BY DEF IInv
<1>2. PICK p : p = Pos(d, h.token)
  OBVIOUS
<1>3. PICK a : a = FromToken(d, p)
  OBVIOUS
<1>4. PICK r : r = Restart(a, p)
  OBVIOUS
<1>5. PICK N, H : N = net \ {h} /\ H = hands \ {h}
  OBVIOUS
<1>a. PICK x : x = {p}
  OBVIOUS
<1>6. /\ p \in Slots(d) /\ h.query = Base + p
      /\ Good(a, Base, N, H, srv, done, x) /\ Len(a.data) = Len(d.data) /\ N = net
  <2>1. TakesBack(d, h, p, a, net, hands, N, H, x)
    BY <1>2, <1>3, <1>5, <1>a DEF TakesBack
  <2> QED
    BY <1>1, <2>1, FromTokenGood
<1>7. srv[Base + p] # "ok"
  <2>1. ~h.ok
    BY DEF OnResendOk
  <2>2. h.ok <=> srv[h.query] = "ok"
    BY <1>1 DEF Good, Judged
  <2> QED
    BY <1>6, <2>1, <2>2
<1>8. p \in Slots(a) /\ Good(a, Base, N, H, srv, done, x)
  BY <1>6 DEF Slots
<1>9. Good(r, Base, N, H, srv, done, {}) /\ Len(r.data) = Len(a.data)
  BY <1>4, <1>7, <1>8, <1>a, RestartGood
<1>10. PICK K, s : K = H \cup Handed(r, {p}) /\ s = CheckTimeout(r, {p})
  OBVIOUS
<1>11. Good(s, Base, N, K, srv, done, {}) /\ Len(s.data) = Len(r.data)
  <2>1. PICK ones, e : ones = {p} /\ e = Handed(r, {p})
    OBVIOUS
  <2>2. ones \subseteq Slots(r) /\ s = CheckTimeout(r, ones) /\ e = Handed(r, ones)
    BY <1>8, <1>9, <1>10, <2>1 DEF Slots
  <2>3. PICK none : none = {}
    OBVIOUS
  <2>4. Good(r, Base, N, H, srv, done, none)
    BY <1>9, <2>3
  <2>5. Good(s, Base, N, H \cup e, srv, done, none) /\ Len(s.data) = Len(r.data)
    BY <2>2, <2>4, CheckTimeoutGood
  <2> QED
    BY <1>10, <2>1, <2>3, <2>5
<1>12. PICK A : A = {}
  OBVIOUS
<1>13. AfterLoop(s, A, K)
  BY <1>2, <1>3, <1>4, <1>5, <1>10, <1>12 DEF OnResendOk
<1>14. N = net \ A /\ Len(s.data) = Len(d.data)
  BY <1>6, <1>9, <1>11, <1>12
<1>15. /\ UNCHANGED <<inbox, exists, cnt, to_parent, executed, done, asked, local>>
       /\ TimerAfter(timer) /\ failures' \in Nat
  BY DEF OnResendOk, IInv
<1>16. exists
  BY Present
<1> QED
  BY <1>11, <1>13, <1>14, <1>15, <1>16, HandlerInv

\* What the parent has not heard yet, when it is told w.
LEMMA SaidMore ==
  ASSUME IInv, NEW w \in {"on_result", "ready_to_close"}, to_parent' = Append(to_parent, w)
  PROVE  /\ to_parent' \in Seq({"on_result", "ready_to_close"}) /\ to_parent' # << >>
         /\ Said(w)' = Said(w) \cup {Len(to_parent) + 1} /\ Len(to_parent) \in Nat
         /\ Len(to_parent) + 1 \notin Said(w)
         /\ \A v : v # w => Said(v)' = Said(v)
<1>1. to_parent \in Seq({"on_result", "ready_to_close"})
  BY DEF IInv, ParentOK
<1>2. /\ to_parent' \in Seq({"on_result", "ready_to_close"}) /\ to_parent' # << >>
      /\ Len(to_parent') = Len(to_parent) + 1
      /\ \A k \in 1 .. Len(to_parent) : to_parent'[k] = to_parent[k]
      /\ to_parent'[Len(to_parent) + 1] = w
  BY <1>1, AppendProperties
<1>3. Len(to_parent) \in Nat
  BY <1>1, LenProperties
<1>4. PICK n \in Nat : n = Len(to_parent)
  BY <1>3
<1>5. \A k : k \in 1 .. n + 1 <=> k \in 1 .. n \/ k = n + 1
  BY <1>4
<1>6. n + 1 \notin 1 .. n
  BY <1>4
<1>7. Said(w)' = Said(w) \cup {Len(to_parent) + 1}
  BY <1>2, <1>4, <1>5, <1>6 DEF Said
<1>8. \A v : v # w => Said(v)' = Said(v)
  BY <1>2, <1>4, <1>5, <1>6 DEF Said
<1>9. Len(to_parent) + 1 \notin Said(w)
  BY <1>4, <1>6 DEF Said
<1> QED
  BY <1>2, <1>3, <1>7, <1>8, <1>9

\* The sets that the parent counts are finite.
LEMMA CountFacts ==
  ASSUME IInv
  PROVE  /\ IsFiniteSet(Undone) /\ Cardinality(Undone) \in Nat
         /\ \A w : IsFiniteSet(Said(w)) /\ Cardinality(Said(w)) \in Nat
<1>1. asked \in Nat
  BY Parts
<1>2. IsFiniteSet(1 .. asked)
  BY <1>1, FS_Interval
<1>3. Undone \in SUBSET (1 .. asked)
  BY DEF Undone
<1>4. Len(to_parent) \in Nat
  BY LenProperties DEF IInv, ParentOK
<1>5. IsFiniteSet(1 .. Len(to_parent))
  BY <1>4, FS_Interval
<1>6. \A w : Said(w) \in SUBSET (1 .. Len(to_parent))
  BY DEF Said
<1>7. IsFiniteSet(Undone) /\ \A w : IsFiniteSet(Said(w))
  BY <1>2, <1>3, <1>5, <1>6, FS_Subset
<1> QED
  BY <1>7, FS_CardinalityType

\* The callback is done with the query.
LEMMA OnResendErrorInv ==
  ASSUME IInv, NEW h \in hands, OnResendError(h)
  PROVE  IInv'
<1>1. Good(d, Base, net, hands, srv, done, {})
  BY DEF IInv
<1>2. PICK p : p = Pos(d, h.token)
  OBVIOUS
<1>3. PICK a : a = FromToken(d, p)
  OBVIOUS
<1>5. PICK N, H : N = net \ {h} /\ H = hands \ {h}
  OBVIOUS
<1>a. PICK x : x = {p}
  OBVIOUS
<1>6. /\ p \in Slots(d) /\ h.query = Base + p /\ p = h.query - Base /\ d.data[p].state = "Wait"
      /\ Good(a, Base, N, H, srv, done, x) /\ Len(a.data) = Len(d.data) /\ N = net
      /\ a.next_i = d.next_i
  <2>1. TakesBack(d, h, p, a, net, hands, N, H, x)
    BY <1>2, <1>3, <1>5, <1>a DEF TakesBack
  <2> QED
    BY <1>1, <2>1, FromTokenGood
<1>7. p < a.next_i => srv[Base + p] \in {"ok", "error"}
  <2>1. h.query - Base < d.next_i => srv[h.query] \in {"ok", "error"}
    BY <1>1 DEF Good, Judged
  <2> QED
    BY <1>6, <2>1
<1>8. p \in Slots(a) /\ a \in Dispatchers
  BY <1>6 DEF Slots, Good
<1>b. p \in Slots(a) /\ Good(a, Base, N, H, srv, done, x)
  BY <1>6, <1>8
<1>9. PICK s : s = [a EXCEPT !.data[p].state = "Finish"]
  OBVIOUS
<1>10. Ended(a, p, "Finish", a.wait_cnt, s)
  BY <1>8, <1>9 DEF Ended, Dispatchers
<1>11. PICK E : E = done \cup {Base + p}
  OBVIOUS
<1>12. Good(s, Base, N, H, srv, E, {}) /\ Len(s.data) = Len(a.data)
  <2>1. Finishing(a, Base, srv, p, done, E, s)
    BY <1>7, <1>10, <1>11 DEF Finishing
  <2> QED
    BY <1>a, <1>b, <2>1, FinishGood
<1>13. PICK A : A = {}
  OBVIOUS
<1>14. AfterLoop(s, A, H)
  BY <1>2, <1>3, <1>5, <1>9, <1>13 DEF OnResendError
<1>15. N = net \ A /\ Len(s.data) = Len(d.data) /\ done \subseteq E
  BY <1>6, <1>11, <1>12, <1>13
<1>16. /\ UNCHANGED <<inbox, exists, cnt, executed, failures, asked, local>>
       /\ TimerAfter(timer) /\ done' = E /\ to_parent' = Append(to_parent, "on_result")
  BY <1>6, <1>11 DEF OnResendError
<1>17. /\ Good(d', Base', net', hands', srv', E, {})
       /\ ~local' => Chained(net', srv', E)
       /\ InboxOK' /\ ExecutedOK'
  BY <1>12, <1>14, <1>15, <1>16, HandlerKeeps
<1>18. exists
  BY Present
<1>19. h.query \in Undone /\ Undone' = Undone \ {h.query}
  <2>1. /\ Finished(d, Base, done) /\ Len(d.data) \in Nat /\ Len(inbox) \in Nat
        /\ asked \in Nat /\ Base \in Nat /\ Base + Len(d.data) = asked - Len(inbox)
    BY Parts
  <2>2. PICK q : q = h.query
    OBVIOUS
  <2>3. q \in 1 .. Base + Len(d.data) /\ q \in 1 .. asked /\ ~ (q <= Base)
    BY <1>6, <2>1, <2>2 DEF Slots
  <2>4. q \notin done
    BY <1>6, <2>1, <2>2, <2>3 DEF Finished
  <2>5. done' = done \cup {q} /\ asked' = asked
    BY <1>6, <1>11, <1>16, <2>2
  <2> QED
    BY <2>2, <2>3, <2>4, <2>5 DEF Undone
<1>20. ParentOK'
  <2>1. /\ to_parent' \in Seq({"on_result", "ready_to_close"})
        /\ Said("on_result")' = Said("on_result") \cup {Len(to_parent) + 1}
        /\ Len(to_parent) + 1 \notin Said("on_result")
        /\ Said("ready_to_close")' = Said("ready_to_close")
    BY <1>16, SaidMore
  <2>2. /\ IsFiniteSet(Undone) /\ Cardinality(Undone) \in Nat
        /\ IsFiniteSet(Said("on_result")) /\ Cardinality(Said("on_result")) \in Nat
    BY CountFacts
  <2>3. PICK U, U2, S, S2, n : /\ U = Undone /\ U2 = Undone' /\ S = Said("on_result")
                               /\ S2 = Said("on_result")' /\ n = Len(to_parent) + 1
    OBVIOUS
  <2>4. Cardinality(U2) = Cardinality(U) - 1
    BY <1>19, <2>2, <2>3, CardLess
  <2>5. Cardinality(S2) = Cardinality(S) + 1
    <3>1. S2 = S \cup {n} /\ n \notin S /\ IsFiniteSet(S)
      BY <2>1, <2>2, <2>3
    <3> QED
      BY <3>1, FS_AddElement
  <2>6. cnt' = Cardinality(U2) + Cardinality(S2)
    <3>1. cnt = Cardinality(U) + Cardinality(S)
      BY <2>3 DEF IInv, ParentOK
    <3>2. Cardinality(U) \in Nat /\ Cardinality(S) \in Nat
      BY <2>2, <2>3
    <3> QED
      BY <1>16, <2>4, <2>5, <3>1, <3>2
  <2>7. \A j, k \in Said("ready_to_close")' : j = k
    BY <2>1 DEF IInv, ParentOK
  <2>8. exists'
    BY <1>16, <1>18
  <2> QED
    BY <2>1, <2>3, <2>6, <2>7, <2>8 DEF ParentOK
<1>21. timer' \in BOOLEAN /\ exists' \in BOOLEAN /\ local' \in BOOLEAN /\ failures' \in Nat
  BY <1>16 DEF IInv, TimerAfter
<1> QED
  BY <1>16, <1>17, <1>20, <1>21 DEF IInv

\* A query comes to the dispatcher.
Appended(s, e, t) == t = [s EXCEPT !.data = Append(s.data, e)]
LEMMA AppendedFacts ==
  ASSUME NEW s \in Dispatchers, NEW e \in Entries, NEW t, Appended(s, e, t)
  PROVE  /\ t \in Dispatchers /\ Len(t.data) = Len(s.data) + 1
         /\ \A k \in Slots(s) : t.data[k] = s.data[k]
         /\ t.data[Len(s.data) + 1] = e
         /\ Beside(s, t) /\ t.wait_cnt = s.wait_cnt
<1>1. PICK q : q = Append(s.data, e)
  OBVIOUS
<1>2. s.data \in Seq(Entries)
  BY WaitingFacts
<1>3. /\ q \in Seq(Entries) /\ Len(q) = Len(s.data) + 1
      /\ \A k \in 1 .. Len(s.data) : q[k] = s.data[k]
      /\ q[Len(s.data) + 1] = e
  BY <1>1, <1>2, AppendProperties
<1>4. t = [s EXCEPT !.data = q]
  BY <1>1 DEF Appended
<1>5. t \in Dispatchers
  BY <1>3, <1>4 DEF Dispatchers
<1>6. t.data = q /\ Beside(s, t) /\ t.wait_cnt = s.wait_cnt
  BY <1>4 DEF Dispatchers, Beside
<1> QED
  BY <1>3, <1>5, <1>6 DEF Slots

\* A new query at the end of the vector keeps the invariant.
LEMMA AppendedGood ==
  ASSUME NEW s, NEW base, NEW N, NEW H, NEW SV, NEW D, Good(s, base, N, H, SV, D, {}),
         NEW e \in Entries, e.query = base + Len(s.data) + 1, e.state = "Start",
         NEW t, Appended(s, e, t)
  PROVE  Good(t, base, N, H, SV, D, {}) /\ Len(t.data) = Len(s.data) + 1
<1>1. /\ s \in Dispatchers /\ s.sent = {} /\ N \subseteq Sendings /\ H \subseteq Handles
      /\ SV \in [Queries -> Outcomes] /\ D \subseteq 1 .. base + Len(s.data)
      /\ Lined(s, base) /\ Bounds(s) /\ Ordered(s) /\ Dummies(s, {}) /\ Counted(s)
      /\ Tokens(s, base, N, H) /\ Judged(s, base, H, SV) /\ Finished(s, base, D)
  BY DEF Good
<1>2. /\ s.next_i \in Int /\ s.last_sent_i \in Int /\ s.finish_i \in Int /\ Len(s.data) \in Nat
      /\ 1 <= s.finish_i /\ s.finish_i <= s.next_i /\ s.next_i <= Len(s.data) + 1
      /\ 0 <= s.last_sent_i /\ s.last_sent_i < s.next_i /\ base \in Nat
      /\ s.generation \in Nat /\ s.generation >= 1
  BY <1>1, MemberFacts DEF Bounds, Lined
<1>3. PICK n : n = Len(s.data) + 1
  OBVIOUS
<1>4. /\ t \in Dispatchers /\ Len(t.data) = n
      /\ \A k \in Slots(s) : t.data[k] = s.data[k]
      /\ t.data[n] = e
      /\ Beside(s, t) /\ t.wait_cnt = s.wait_cnt
  BY <1>1, <1>3, AppendedFacts
<1>5. /\ n \in Nat /\ n \notin Slots(s) /\ Slots(t) = Slots(s) \cup {n} /\ s.next_i <= n /\ n >= 1
      /\ \A k \in Slots(s) : k < n
  BY <1>2, <1>3, <1>4 DEF Slots
<1>6. e.query \in Queries /\ e.query = base + n
  BY <1>2, <1>3 DEF Entries
<1>7. Lined(t, base)
  BY <1>1, <1>4, <1>5, <1>6 DEF Lined, Beside
<1>8. Bounds(t)
  BY <1>2, <1>3, <1>4 DEF Bounds, Beside
<1>9. Ordered(t)
  <2> SUFFICES ASSUME NEW k \in Slots(t)
               PROVE  /\ k < s.finish_i => t.data[k].state = "Finish"
                      /\ k < s.next_i => t.data[k].state # "Start"
                      /\ k < s.next_i => t.data[k].state = "Finish" \/ t.data[k].generation = s.generation
                      /\ s.last_sent_i < k /\ k < s.next_i => t.data[k].state = "Finish"
    BY <1>4 DEF Ordered, Beside
  <2>1. CASE k = n
    <3>1. ~ (k < s.finish_i) /\ ~ (k < s.next_i)
      BY <1>2, <1>5, <2>1
    <3> QED
      BY <3>1
  <2>2. CASE k \in Slots(s)
    <3>1. t.data[k] = s.data[k]
      BY <1>4, <2>2
    <3>2. /\ k < s.finish_i => s.data[k].state = "Finish"
          /\ k < s.next_i => s.data[k].state # "Start"
          /\ k < s.next_i => s.data[k].state = "Finish" \/ s.data[k].generation = s.generation
          /\ s.last_sent_i < k /\ k < s.next_i => s.data[k].state = "Finish"
      BY <1>1, <2>2 DEF Ordered
    <3> QED
      BY <3>1, <3>2
  <2> QED
    BY <1>5, <2>1, <2>2
<1>10. Dummies(t, {})
  BY <1>1, <1>4, <1>5 DEF Dummies
<1>11. Waiting(t) = Waiting(s)
  BY <1>4, <1>5 DEF Waiting
<1>12. Counted(t) /\ Tokens(t, base, N, H)
  BY <1>1, <1>4, <1>11 DEF Counted, Tokens, Beside
<1>13. Judged(t, base, H, SV)
  <2>1. \A k \in Slots(t) : t.data[k].state = "Start" => SV[base + k] # "ok"
    <3>1. \A q \in Queries : q > base + Len(s.data) => SV[q] = "idle"
      BY <1>1 DEF Judged
    <3>2. base + n \in Queries /\ base + n > base + Len(s.data)
      BY <1>2, <1>3, <1>6
    <3>3. SV[base + n] = "idle"
      BY <3>1, <3>2
    <3>4. \A k \in Slots(s) : s.data[k].state = "Start" => SV[base + k] # "ok"
      BY <1>1 DEF Judged
    <3> QED
      BY <1>4, <1>5, <3>3, <3>4
  <2>2. s.last_sent_i # 0 /\ t.data[s.last_sent_i].state = "Finish" =>
          SV[base + s.last_sent_i] \in {"ok", "error"}
    <3> SUFFICES ASSUME s.last_sent_i # 0, t.data[s.last_sent_i].state = "Finish"
                 PROVE  SV[base + s.last_sent_i] \in {"ok", "error"}
      OBVIOUS
    <3>1. s.last_sent_i \in Slots(s)
      BY <1>2 DEF Slots
    <3> QED
      BY <1>1, <1>4, <3>1 DEF Judged
  <2>3. \A q \in Queries : q > base + Len(t.data) => SV[q] = "idle"
    <3>1. \A q \in Queries : q > base + n => q > base + Len(s.data)
      BY <1>2, <1>3 DEF Queries
    <3> QED
      BY <1>1, <1>4, <3>1 DEF Judged
  <2>4. \A h \in H : /\ h.ok <=> SV[h.query] = "ok"
                     /\ h.query - base < s.next_i => SV[h.query] \in {"ok", "error"}
    BY <1>1 DEF Judged
  <2> QED
    BY <1>4, <2>1, <2>2, <2>3, <2>4 DEF Judged, Beside
<1>14. Finished(t, base, D)
  <2> SUFFICES ASSUME NEW q \in 1 .. base + n
               PROVE  q \in D <=> q <= base \/ t.data[q - base].state = "Finish"
    BY <1>4 DEF Finished
  <2>1. CASE q = base + n
    <3>1. q - base = n /\ ~ (q <= base) /\ q \notin 1 .. base + Len(s.data)
      BY <1>2, <1>3, <2>1
    <3> QED
      BY <1>1, <1>4, <3>1
  <2>2. CASE q # base + n
    <3>1. q \in 1 .. base + Len(s.data) /\ (q <= base \/ q - base \in Slots(s))
      BY <1>2, <1>3, <2>2 DEF Slots
    <3>2. q \in D <=> q <= base \/ s.data[q - base].state = "Finish"
      BY <1>1, <3>1 DEF Finished
    <3> QED
      BY <1>4, <3>1, <3>2
  <2> QED
    BY <2>1, <2>2
<1>15. D \subseteq 1 .. base + Len(t.data)
  BY <1>1, <1>2, <1>3, <1>4
<1>16. t.sent = {}
  BY <1>1, <1>4 DEF Beside
<1> QED
  BY <1>1, <1>3, <1>4, <1>7, <1>8, <1>9, <1>10, <1>12, <1>13, <1>14, <1>15, <1>16 DEF Good

\* send_with_callback of the dispatcher: the next query of the line is appended.
LEMMA EnqueueInv ==
  ASSUME IInv, Enqueue
  PROVE  IInv'
<1>1. Good(d, Base, net, hands, srv, done, {}) /\ InboxOK
  BY DEF IInv
<1>2. /\ Len(d.data) \in Nat /\ Len(inbox) \in Nat /\ asked \in Nat /\ asked \in 0 .. MaxQueries
      /\ Base \in Nat /\ Base + Len(d.data) = asked - Len(inbox) /\ inbox \in Seq(Queries)
      /\ d \in Dispatchers
  BY Parts
<1>3. /\ inbox # << >> /\ inbox' = Tail(inbox) /\ TimerAfter(FALSE)
      /\ UNCHANGED <<exists, cnt, to_parent, executed, done, failures, asked, local>>
  BY DEF Enqueue
<1>4. /\ Head(inbox) = inbox[1] /\ Len(inbox) >= 1 /\ inbox' \in Seq(Queries)
      /\ Len(inbox') = Len(inbox) - 1
      /\ \A i \in 1 .. Len(inbox') : inbox'[i] = inbox[i + 1]
  BY <1>2, <1>3, HeadTailProperties
<1>5. \A i \in 1 .. Len(inbox) : inbox[i] = asked - Len(inbox) + i
  BY <1>1 DEF InboxOK
<1>6. Head(inbox) = Base + Len(d.data) + 1 /\ Head(inbox) \in Queries
  BY <1>2, <1>4, <1>5
<1>7. PICK e : e = [query |-> Head(inbox), state |-> "Start", generation |-> 0, total_timeout |-> 0]
  OBVIOUS
<1>8. e \in Entries /\ e.query = Base + Len(d.data) + 1 /\ e.state = "Start"
  BY <1>6, <1>7 DEF Entries
<1>9. PICK s : s = [d EXCEPT !.data = Append(d.data, e)]
  OBVIOUS
<1>10. Appended(d, e, s)
  BY <1>9 DEF Appended
<1>11. Good(s, Base, net, hands, srv, done, {}) /\ Len(s.data) = Len(d.data) + 1
  BY <1>1, <1>8, <1>10, AppendedGood
<1>12. PICK A : A = {}
  OBVIOUS
<1>13. AfterLoop(s, A, hands)
  BY <1>2, <1>7, <1>9, <1>12 DEF Enqueue, Dispatchers
<1>14. /\ Good(d', Base + Len(s.data) - Len(d'.data), net', hands', srv', done, {})
       /\ Chained(net, srv, done) => Chained(net', srv', done)
       /\ \A q \in Queries : srv[q] = "ok" => srv'[q] = "ok"
  <2>1. net = net \ A
    BY <1>12
  <2> QED
    BY <1>11, <1>13, <2>1, LoopGood
<1>15. Base + Len(s.data) - Len(d'.data) = Base'
  <2>1. Len(d'.data) \in Nat
    <3>1. PICK t : t = d'
      OBVIOUS
    <3>2. t \in Dispatchers
      BY <1>14, <3>1 DEF Good
    <3> QED
      BY <3>1, <3>2, MemberFacts
  <2> QED
    BY <1>2, <1>3, <1>4, <1>11, <2>1 DEF Base
<1>16. InboxOK'
  <2>1. \A i \in 1 .. Len(inbox') : inbox'[i] = asked - Len(inbox') + i
    BY <1>2, <1>4, <1>5
  <2> QED
    BY <1>2, <1>3, <1>4, <2>1 DEF InboxOK
<1>17. exists
  BY <1>3, Present
<1>18. ParentOK'
  BY <1>3, <1>17 DEF IInv, ParentOK, Undone, Said
<1>19. ExecutedOK'
  BY <1>3, <1>14, ExecutedKept DEF IInv
<1>20. ~local' => Chained(net', srv', done')
  BY <1>3, <1>14 DEF IInv
<1>21. timer' \in BOOLEAN /\ exists' \in BOOLEAN /\ local' \in BOOLEAN /\ failures' \in Nat
  BY <1>3 DEF IInv, TimerAfter
<1> QED
  BY <1>3, <1>14, <1>15, <1>16, <1>18, <1>19, <1>20, <1>21 DEF IInv

\* A caller sends a query to the sequence.
LEMMA SendWithCallbackInv ==
  ASSUME IInv, SendWithCallback
  PROVE  IInv'
<1>1. Good(d, Base, net, hands, srv, done, {}) /\ InboxOK /\ ParentOK /\ ExecutedOK
  BY DEF IInv
<1>2. /\ Len(d.data) \in Nat /\ Len(inbox) \in Nat /\ asked \in Nat /\ asked \in 0 .. MaxQueries
      /\ inbox \in Seq(Queries) /\ done \subseteq 1 .. asked - Len(inbox)
  BY Parts
<1>3. /\ asked < MaxQueries /\ asked' = asked + 1 /\ exists' = TRUE /\ cnt' = cnt + 1
      /\ inbox' = Append(inbox, asked + 1)
      /\ UNCHANGED <<d, timer, to_parent, net, srv, hands, executed, done, failures, local>>
  BY DEF SendWithCallback
<1>4. asked + 1 \in Queries /\ asked' \in 0 .. MaxQueries
  BY <1>2, <1>3, ConstantsOK DEF Queries
<1>5. /\ inbox' \in Seq(Queries) /\ Len(inbox') = Len(inbox) + 1
      /\ \A i \in 1 .. Len(inbox) : inbox'[i] = inbox[i]
      /\ inbox'[Len(inbox) + 1] = asked + 1
  BY <1>2, <1>3, <1>4, AppendProperties
<1>6. Base' = Base
  BY <1>2, <1>3, <1>5 DEF Base
<1>7. InboxOK'
  <2> SUFFICES ASSUME NEW i \in 1 .. Len(inbox') PROVE inbox'[i] = asked' - Len(inbox') + i
    BY <1>4, <1>5 DEF InboxOK
  <2>1. CASE i = Len(inbox) + 1
    BY <1>2, <1>3, <1>5, <2>1
  <2>2. CASE i # Len(inbox) + 1
    <3>1. i \in 1 .. Len(inbox)
      BY <1>2, <1>5, <2>2
    <3>2. inbox[i] = asked - Len(inbox) + i
      BY <1>1, <3>1 DEF InboxOK
    <3> QED
      BY <1>2, <1>3, <1>5, <3>1, <3>2
  <2> QED
    BY <2>1, <2>2
<1>8. asked + 1 \notin Undone /\ Undone' = Undone \cup {asked + 1}
  <2>1. asked + 1 \notin done /\ asked + 1 \notin 1 .. asked
    BY <1>2
  <2>2. 1 .. asked' = (1 .. asked) \cup {asked + 1}
    BY <1>2, <1>3
  <2> QED
    BY <1>3, <2>1, <2>2 DEF Undone
<1>9. Said("on_result")' = Said("on_result") /\ Said("ready_to_close")' = Said("ready_to_close")
  BY <1>3 DEF Said
<1>10. cnt' = Cardinality(Undone') + Cardinality(Said("on_result")')
  <2>1. PICK U, V, n, S : /\ U = Undone /\ V = Undone' /\ n = asked + 1
                          /\ S = Cardinality(Said("on_result"))
    OBVIOUS
  <2>2. IsFiniteSet(U) /\ Cardinality(U) \in Nat /\ S \in Nat
    BY <2>1, CountFacts
  <2>3. n \notin U /\ V = U \cup {n}
    BY <1>8, <2>1
  <2>4. Cardinality(V) = Cardinality(U) + 1
    BY <2>2, <2>3, FS_AddElement
  <2>5. cnt = Cardinality(U) + S
    BY <1>1, <2>1 DEF ParentOK
  <2>6. cnt' = Cardinality(V) + S
    BY <1>3, <2>2, <2>4, <2>5
  <2> QED
    BY <1>9, <2>1, <2>6
<1>11. ParentOK'
  BY <1>1, <1>3, <1>9, <1>10 DEF ParentOK
<1>12. ExecutedOK'
  BY <1>1, <1>3 DEF ExecutedOK
<1>13. Good(d', Base', net', hands', srv', done', {})
  BY <1>1, <1>3, <1>6
<1>14. ~local' => Chained(net', srv', done')
  BY <1>3 DEF IInv
<1> QED
  BY <1>3, <1>7, <1>11, <1>12, <1>13, <1>14 DEF IInv

\* What the steps of the parent and the timeout leave alone.
LEMMA ParentKeeps ==
  ASSUME IInv, UNCHANGED <<d, inbox, net, srv, hands, executed, done, failures, asked, local>>,
         ParentOK', timer' \in BOOLEAN, exists' \in BOOLEAN
  PROVE  IInv'
<1>1. Base' = Base
  BY DEF Base
<1>2. Good(d', Base', net', hands', srv', done', {})
  BY <1>1 DEF IInv
<1>3. ~local' => Chained(net', srv', done')
  BY DEF IInv
<1>4. InboxOK'
  BY DEF IInv, InboxOK
<1>5. ExecutedOK'
  BY DEF IInv, ExecutedOK
<1> QED
  BY <1>2, <1>3, <1>4, <1>5 DEF IInv

\* The timeout: the parent is told once that the dispatcher is idle.
LEMMA TimeoutExpiredInv ==
  ASSUME IInv, TimeoutExpired
  PROVE  IInv'
<1>1. /\ timer /\ "ready_to_close" \notin ToSet(to_parent)
      /\ timer' = (d.finish_i = Len(d.data) + 1)
      /\ to_parent' = IF timer' THEN Append(to_parent, "ready_to_close") ELSE to_parent
      /\ UNCHANGED <<d, inbox, exists, cnt, net, srv, hands, executed, done, failures, asked, local>>
  BY DEF TimeoutExpired
<1>2. exists /\ ParentOK
  BY <1>1, Present DEF IInv
<1>3. timer' \in BOOLEAN /\ exists' \in BOOLEAN /\ exists'
  BY <1>1, <1>2
<1>4. Undone' = Undone /\ cnt' = cnt
  BY <1>1 DEF Undone
<1>5. ParentOK'
  <2>1. CASE ~timer'
    <3>1. to_parent' = to_parent
      BY <1>1, <2>1
    <3> QED
      BY <1>2, <1>3, <1>4, <3>1 DEF ParentOK, Said
  <2>2. CASE timer'
    <3>1. to_parent' = Append(to_parent, "ready_to_close")
      BY <1>1, <2>2
    <3>2. /\ to_parent' \in Seq({"on_result", "ready_to_close"})
          /\ Said("ready_to_close")' = Said("ready_to_close") \cup {Len(to_parent) + 1}
          /\ Said("on_result")' = Said("on_result")
      BY <3>1, SaidMore
    <3>3. Said("ready_to_close") = {}
      BY <1>1 DEF Said, ToSet
    <3>4. \A j, k \in Said("ready_to_close")' : j = k
      BY <3>2, <3>3
    <3> QED
      BY <1>2, <1>3, <1>4, <3>2, <3>4 DEF ParentOK
  <2> QED
    BY <2>1, <2>2
<1> QED
  BY <1>1, <1>3, <1>5, ParentKeeps

\* The parent takes its first message.
LEMMA SaidLess ==
  ASSUME IInv, to_parent # << >>, to_parent' = Tail(to_parent), NEW w, w = Head(to_parent)
  PROVE  /\ to_parent' \in Seq({"on_result", "ready_to_close"})
         /\ \A v : \A k \in Said(v)' : k \in Nat /\ k + 1 \in Said(v)
         /\ \A v : v # w => Cardinality(Said(v)') = Cardinality(Said(v))
         /\ Cardinality(Said(w)') = Cardinality(Said(w)) - 1
         /\ 1 \in Said(w)
<1>1. to_parent \in Seq({"on_result", "ready_to_close"})
  BY DEF IInv, ParentOK
<1>2. /\ Head(to_parent) = to_parent[1] /\ to_parent' \in Seq({"on_result", "ready_to_close"})
      /\ Len(to_parent') = Len(to_parent) - 1 /\ Len(to_parent) >= 1
      /\ \A i \in 1 .. Len(to_parent') : to_parent'[i] = to_parent[i + 1]
  BY <1>1, HeadTailProperties
<1>3. PICK n \in Nat : n = Len(to_parent)
  BY <1>1, LenProperties
<1>4. Len(to_parent') = n - 1 /\ n >= 1
  BY <1>2, <1>3
<1>6. \A k \in 1 .. n - 1 : k \in Nat /\ k + 1 \in 1 .. n /\ to_parent'[k] = to_parent[k + 1]
  BY <1>2, <1>4
<1>7. \A v : \A k \in Said(v)' : k \in Nat /\ k + 1 \in Said(v)
  BY <1>3, <1>4, <1>6 DEF Said
<1>8. 1 \in Said(w)
  BY <1>2, <1>3, <1>4 DEF Said
<1>9. ASSUME NEW v PROVE Cardinality(Said(v)') = Cardinality(Said(v) \ {1})
  <2>1. PICK S, T : S = Said(v) \ {1} /\ T = Said(v)'
    OBVIOUS
  <2>2. \A k \in S : k \in 1 .. n /\ k # 1 /\ to_parent[k] = v
    BY <1>3, <2>1 DEF Said
  <2>3. \A k \in S : k \in Int /\ k - 1 \in 1 .. n - 1 /\ (k - 1) + 1 = k
    BY <2>2
  <2>4. \A k \in S : k - 1 \in T
    BY <1>4, <1>6, <2>1, <2>2, <2>3 DEF Said
  <2>5. PICK f : f = [k \in S |-> k - 1]
    OBVIOUS
  <2>6. f \in [S -> T]
    BY <2>4, <2>5
  <2>7. \A a, c \in S : f[a] = f[c] => a = c
    BY <2>3, <2>5
  <2>8. \A b \in T : \E a \in S : f[a] = b
    <3> SUFFICES ASSUME NEW b \in T PROVE \E a \in S : f[a] = b
      OBVIOUS
    <3>1. b \in 1 .. n - 1 /\ b + 1 \in Said(v)
      BY <1>4, <1>7, <2>1 DEF Said
    <3>2. b + 1 \in S /\ (b + 1) - 1 = b
      BY <2>1, <3>1
    <3>3. f[b + 1] = b
      BY <2>5, <3>2
    <3> QED
      BY <3>2, <3>3
  <2>9. IsFiniteSet(S)
    <3>1. IsFiniteSet(Said(v))
      BY CountFacts
    <3> QED
      BY <2>1, <3>1, FS_Difference
  <2>10. Cardinality(T) = Cardinality(S)
    BY <2>6, <2>7, <2>8, <2>9, CardSame
  <2> QED
    BY <2>1, <2>10
<1>10. \A v : v # w => Cardinality(Said(v)') = Cardinality(Said(v))
  <2> SUFFICES ASSUME NEW v, v # w PROVE Cardinality(Said(v)') = Cardinality(Said(v))
    OBVIOUS
  <2>1. 1 \notin Said(v)
    BY <1>2 DEF Said
  <2>2. Said(v) \ {1} = Said(v)
    BY <2>1
  <2>3. Cardinality(Said(v)') = Cardinality(Said(v) \ {1})
    BY <1>9
  <2> QED
    BY <2>2, <2>3
<1>11. Cardinality(Said(w)') = Cardinality(Said(w)) - 1
  <2>1. PICK S, T : S = Said(w) /\ T = Said(w) \ {1}
    OBVIOUS
  <2>2. IsFiniteSet(S) /\ 1 \in S /\ T = S \ {1}
    BY <1>8, <2>1, CountFacts
  <2>3. Cardinality(T) = Cardinality(S) - 1
    BY <2>2, CardLess
  <2> QED
    BY <1>9, <2>1, <2>3
<1> QED
  BY <1>2, <1>7, <1>8, <1>10, <1>11

\* The parent hears that a query is done.
LEMMA ParentOnResultInv ==
  ASSUME IInv, ParentOnResult
  PROVE  IInv'
<1>1. /\ to_parent # << >> /\ Head(to_parent) = "on_result" /\ to_parent' = Tail(to_parent)
      /\ cnt' = cnt - 1
      /\ UNCHANGED <<d, timer, inbox, exists, net, srv, hands, executed, done, failures, asked, local>>
  BY DEF ParentOnResult
<1>2. ParentOK /\ timer \in BOOLEAN /\ exists \in BOOLEAN
  BY DEF IInv
<1>3. exists
  BY <1>1, <1>2 DEF ParentOK
<1>4. /\ to_parent' \in Seq({"on_result", "ready_to_close"})
      /\ \A k \in Said("ready_to_close")' : k \in Nat /\ k + 1 \in Said("ready_to_close")
      /\ Cardinality(Said("on_result")') = Cardinality(Said("on_result")) - 1
  <2>1. PICK w : w = Head(to_parent)
    OBVIOUS
  <2>2. /\ to_parent' \in Seq({"on_result", "ready_to_close"})
        /\ \A v : \A k \in Said(v)' : k \in Nat /\ k + 1 \in Said(v)
        /\ Cardinality(Said(w)') = Cardinality(Said(w)) - 1
    BY <1>1, <2>1, SaidLess
  <2>3. w = "on_result"
    BY <1>1, <2>1
  <2> QED
    BY <2>2, <2>3
<1>5. Undone' = Undone
  BY <1>1 DEF Undone
<1>6. cnt' = Cardinality(Undone') + Cardinality(Said("on_result")')
  <2>1. PICK u, c : u = Cardinality(Undone) /\ c = Cardinality(Said("on_result"))
    OBVIOUS
  <2>2. u \in Nat /\ c \in Nat
    BY <2>1, CountFacts
  <2>3. cnt = u + c
    BY <1>2, <2>1 DEF ParentOK
  <2>4. cnt - 1 = u + (c - 1)
    BY <2>2, <2>3
  <2> QED
    BY <1>1, <1>4, <1>5, <2>1, <2>4
<1>7. \A j, k \in Said("ready_to_close")' : j = k
  <2> SUFFICES ASSUME NEW j \in Said("ready_to_close")', NEW k \in Said("ready_to_close")' PROVE j = k
    OBVIOUS
  <2>1. j \in Nat /\ k \in Nat /\ j + 1 \in Said("ready_to_close") /\ k + 1 \in Said("ready_to_close")
    BY <1>4
  <2>2. j + 1 = k + 1
    BY <1>2, <2>1 DEF ParentOK
  <2> QED
    BY <2>1, <2>2
<1>8. ParentOK'
  BY <1>1, <1>3, <1>4, <1>6, <1>7 DEF ParentOK
<1> QED
  BY <1>1, <1>2, <1>8, ParentKeeps

\* A new dispatcher, when all queries are done.
LEMMA FreshGood ==
  ASSUME NEW n \in Nat, NEW SV \in [Queries -> Outcomes], NEW D, D = 1 .. n,
         \A q \in Queries : q > n => SV[q] = "idle", NEW none, none = {}
  PROVE  Good(Fresh, n, none, none, SV, D, none)
<1>1. PICK s : s = Fresh
  OBVIOUS
<1>2. /\ s.data = << >> /\ s.finish_i = 1 /\ s.next_i = 1 /\ s.last_sent_i = 0 /\ s.generation = 1
      /\ s.id_offset = 1 /\ s.wait_cnt = 0 /\ s.sent = {} /\ s \in Dispatchers
  BY <1>1 DEF Fresh, Dispatchers
<1>3. Len(s.data) = 0 /\ Slots(s) = {} /\ Waiting(s) = {}
  BY <1>2 DEF Slots, Waiting
<1>4. Lined(s, n) /\ Bounds(s)
  BY <1>2, <1>3 DEF Lined, Bounds
<1>5. Ordered(s) /\ Dummies(s, none)
  BY <1>3 DEF Ordered, Dummies
<1>6. Counted(s)
  BY <1>2, <1>3, FS_EmptySet DEF Counted
<1>7. Tokens(s, n, none, none)
  BY <1>3 DEF Tokens
<1>8. Judged(s, n, none, SV)
  BY <1>2, <1>3 DEF Judged
<1>9. Finished(s, n, D) /\ D \subseteq 1 .. n + Len(s.data)
  BY <1>3 DEF Finished
<1> QED
  BY <1>1, <1>2, <1>4, <1>5, <1>6, <1>7, <1>8, <1>9 DEF Good

\* The parent hears that the dispatcher is idle, and closes it or does not.
LEMMA ParentReadyToCloseInv ==
  ASSUME IInv, ParentReadyToClose
  PROVE  IInv'
<1>1. /\ to_parent # << >> /\ Head(to_parent) = "ready_to_close" /\ to_parent' = Tail(to_parent)
      /\ exists' = ~MayClose
      /\ IF MayClose THEN d' = Fresh /\ timer' = FALSE /\ inbox' = << >> ELSE UNCHANGED <<d, timer, inbox>>
      /\ UNCHANGED <<cnt, net, srv, hands, executed, done, failures, asked, local>>
  BY DEF ParentReadyToClose
<1>2. ParentOK /\ timer \in BOOLEAN /\ exists \in BOOLEAN
  BY DEF IInv
<1>3. /\ to_parent' \in Seq({"on_result", "ready_to_close"})
      /\ \A k \in Said("ready_to_close")' : k \in Nat /\ k + 1 \in Said("ready_to_close")
      /\ \A k \in Said("on_result")' : k \in Nat /\ k + 1 \in Said("on_result")
      /\ Cardinality(Said("on_result")') = Cardinality(Said("on_result"))
      /\ 1 \in Said("ready_to_close")
  <2>1. PICK w : w = Head(to_parent)
    OBVIOUS
  <2>2. /\ to_parent' \in Seq({"on_result", "ready_to_close"})
        /\ \A v : \A k \in Said(v)' : k \in Nat /\ k + 1 \in Said(v)
        /\ \A v : v # w => Cardinality(Said(v)') = Cardinality(Said(v))
        /\ 1 \in Said(w)
    BY <1>1, <2>1, SaidLess
  <2>3. w = "ready_to_close"
    BY <1>1, <2>1
  <2>4. "on_result" # w
    BY <2>3
  <2> QED
    BY <2>2, <2>3, <2>4
<1>4. Undone' = Undone
  BY <1>1 DEF Undone
<1>5. Said("ready_to_close")' = {}
  <2> SUFFICES ASSUME NEW k \in Said("ready_to_close")' PROVE FALSE
    OBVIOUS
  <2>1. k \in Nat /\ k + 1 \in Said("ready_to_close") /\ k \in 1 .. Len(to_parent')
    BY <1>3 DEF Said
  <2>2. k + 1 = 1
    BY <1>2, <1>3, <2>1 DEF ParentOK
  <2>3. Len(to_parent') \in Nat
    BY <1>3, LenProperties
  <2> QED
    BY <2>1, <2>2, <2>3
<1>6. cnt' = Cardinality(Undone') + Cardinality(Said("on_result")')
  BY <1>1, <1>2, <1>3, <1>4 DEF ParentOK
<1>7. CASE ~MayClose
  <2>1. exists' = TRUE /\ UNCHANGED <<d, timer, inbox>>
    BY <1>1, <1>7
  <2>2. ParentOK'
    BY <1>3, <1>5, <1>6, <2>1 DEF ParentOK
  <2> QED
    BY <1>1, <1>2, <2>1, <2>2, ParentKeeps
<1>8. CASE MayClose
  <2>1. exists' = FALSE /\ d' = Fresh /\ timer' = FALSE /\ inbox' = << >> /\ cnt = 0
    BY <1>1, <1>8 DEF MayClose
  <2>2. /\ Undone = {} /\ Said("on_result") = {} /\ inbox = << >> /\ net = {} /\ hands = {}
    BY <2>1, Quiet
  <2>3. /\ Good(d, Base, net, hands, srv, done, {}) /\ (~local => Chained(net, srv, done))
        /\ done \subseteq 1 .. asked - Len(inbox) /\ asked \in 0 .. MaxQueries /\ asked \in Nat
        /\ Base + Len(d.data) = asked - Len(inbox)
    BY Parts
  <2>4. Len(inbox) = 0 /\ asked - Len(inbox) = asked
    BY <2>2, <2>3
  <2>5. done = 1 .. asked
    BY <2>2, <2>3, <2>4 DEF Undone
  <2>6. srv \in [Queries -> Outcomes] /\ \A q \in Queries : q > asked => srv[q] = "idle"
    BY <2>3, <2>4 DEF Good, Judged
  <2>7. to_parent' = << >>
    <3>1. Said("on_result")' = {}
      BY <1>3, <2>2
    <3>2. \A k \in 1 .. Len(to_parent') : to_parent'[k] \in {"on_result", "ready_to_close"}
      BY <1>3
    <3>3. \A k \in 1 .. Len(to_parent') : FALSE
      BY <1>5, <3>1, <3>2 DEF Said
    <3>4. Len(to_parent') \in Nat
      BY <1>3, LenProperties
    <3>5. Len(to_parent') = 0
      BY <3>3, <3>4
    <3> QED
      BY <1>3, <3>5, EmptySeq
  <2>8. ParentOK'
    BY <1>1, <1>3, <1>5, <1>6, <2>1, <2>7 DEF ParentOK
  <2>9. PICK none : none = {}
    OBVIOUS
  <2>10. Good(Fresh, asked, none, none, srv, done, none)
    BY <2>3, <2>5, <2>6, <2>9, FreshGood
  <2>11. Base' = asked
    <3>1. Len(d'.data) = 0
      BY <2>1 DEF Fresh
    <3>2. Len(inbox') = 0
      BY <2>1
    <3> QED
      BY <1>1, <2>3, <3>1, <3>2 DEF Base
  <2>12. Good(d', Base', net', hands', srv', done', {})
    BY <1>1, <2>1, <2>2, <2>9, <2>10, <2>11
  <2>13. ~local' => Chained(net', srv', done')
    BY <1>1, <2>3
  <2>14. InboxOK'
    BY <1>1, <2>1, <2>3 DEF InboxOK
  <2>15. ExecutedOK'
    BY <1>1 DEF IInv, ExecutedOK
  <2>16. timer' \in BOOLEAN /\ exists' \in BOOLEAN /\ local' \in BOOLEAN /\ failures' \in Nat
    BY <1>1, <2>1 DEF IInv
  <2> QED
    BY <2>8, <2>12, <2>13, <2>14, <2>15, <2>16 DEF IInv
<1> QED
  BY <1>7, <1>8

-----------------------------------------------------------------------------
(* The network and the server.                                             *)

\* The server answers the query m of N with what.
Answers(N, SV, m, what, W) ==
  /\ m \in N /\ SV[m.query] = "pending" /\ what \in {"ok", "error", "wait_failed"}
  /\ W = [SV EXCEPT ![m.query] = what]

\* What an answer changes.
LEMMA AnswersFacts ==
  ASSUME NEW N, N \subseteq Sendings, NEW SV \in [Queries -> Outcomes], NEW m, NEW what, NEW W,
         Answers(N, SV, m, what, W)
  PROVE  /\ W \in [Queries -> Outcomes] /\ m.query \in Queries /\ W[m.query] = what
         /\ \A q \in Queries : q # m.query => W[q] = SV[q]
         /\ \A q \in Queries : SV[q] = "ok" => W[q] = "ok"
<1>1. m \in Sendings /\ SV[m.query] = "pending" /\ what \in {"ok", "error", "wait_failed"}
  BY DEF Answers
<1>2. m.query \in Queries
  BY <1>1 DEF Sendings
<1>3. PICK x : x = m.query
  OBVIOUS
<1>4. W = [SV EXCEPT ![x] = what]
  BY <1>3 DEF Answers
<1>5. what \in Outcomes
  BY <1>1 DEF Outcomes
<1>6. /\ W \in [Queries -> Outcomes] /\ W[x] = what
      /\ \A q \in Queries : q # x => W[q] = SV[q]
  BY <1>2, <1>3, <1>4, <1>5
<1> QED
  BY <1>1, <1>2, <1>3, <1>6

\* An answer touches neither the dispatcher nor what it knows.
LEMMA AnswersGood ==
  ASSUME NEW s, NEW base, NEW N, NEW H, NEW SV, NEW D, NEW x, Good(s, base, N, H, SV, D, x),
         NEW m, NEW what, NEW W, Answers(N, SV, m, what, W), x = {}
  PROVE  Good(s, base, N, H, W, D, x) /\ m.query \notin D
<1>1. /\ s \in Dispatchers /\ N \subseteq Sendings /\ H \subseteq Handles
      /\ SV \in [Queries -> Outcomes] /\ D \subseteq 1 .. base + Len(s.data)
      /\ Lined(s, base) /\ Bounds(s) /\ Tokens(s, base, N, H) /\ Judged(s, base, H, SV)
      /\ Finished(s, base, D)
  BY DEF Good
<1>2. /\ W \in [Queries -> Outcomes] /\ m.query \in Queries
      /\ \A q \in Queries : q # m.query => W[q] = SV[q]
  BY <1>1, AnswersFacts
<1>3. m \in N
  BY DEF Answers
<1>4. PICK p : p = m.query - base
  OBVIOUS
<1>5. p \in Waiting(s)
  BY <1>1, <1>3, <1>4 DEF Tokens
<1>6. /\ p \in Slots(s) /\ s.data[p].state = "Wait" /\ p \in Nat /\ Len(s.data) \in Nat
      /\ base \in Nat /\ m.query = base + p /\ p >= 1 /\ p <= Len(s.data)
  BY <1>1, <1>2, <1>4, <1>5, MemberFacts DEF Waiting, Lined, Slots, Queries
<1>7. \A k \in Slots(s) : base + k \in Queries
  <2> SUFFICES ASSUME NEW k \in Slots(s) PROVE base + k \in Queries
    OBVIOUS
  <2>1. s.data[k] \in Entries
    BY <1>1, WaitingFacts
  <2>2. s.data[k].query = base + k
    BY <1>1 DEF Lined
  <2> QED
    BY <2>1, <2>2 DEF Entries
<1>8. Judged(s, base, H, W)
  <2>1. \A k \in Slots(s) : s.data[k].state = "Start" => W[base + k] # "ok"
    <3> SUFFICES ASSUME NEW k \in Slots(s), s.data[k].state = "Start" PROVE W[base + k] # "ok"
      OBVIOUS
    <3>1. k # p
      BY <1>6
    <3>2. k \in Int /\ base + k # m.query
      BY <1>6, <3>1 DEF Slots
    <3> QED
      BY <1>1, <1>2, <1>7, <3>2 DEF Judged
  <2>2. \A q \in Queries : q > base + Len(s.data) => W[q] = "idle"
    <3> SUFFICES ASSUME NEW q \in Queries, q > base + Len(s.data) PROVE W[q] = "idle"
      OBVIOUS
    <3>1. q # m.query
      BY <1>6 DEF Queries
    <3> QED
      BY <1>1, <1>2, <3>1 DEF Judged
  <2>3. \A h \in H : /\ h.ok <=> W[h.query] = "ok"
                     /\ h.query - base < s.next_i => W[h.query] \in {"ok", "error"}
    <3> SUFFICES ASSUME NEW h \in H
                 PROVE  /\ h.ok <=> W[h.query] = "ok"
                        /\ h.query - base < s.next_i => W[h.query] \in {"ok", "error"}
      OBVIOUS
    <3>1. h.query # m.query
      BY <1>1, <1>3 DEF Tokens
    <3>2. h.query \in Queries
      BY <1>1 DEF Handles
    <3>3. W[h.query] = SV[h.query]
      BY <1>2, <3>1, <3>2
    <3> QED
      BY <1>1, <3>3 DEF Judged
  <2>4. s.last_sent_i # 0 /\ s.data[s.last_sent_i].state = "Finish" =>
          W[base + s.last_sent_i] \in {"ok", "error"}
    <3> SUFFICES ASSUME s.last_sent_i # 0, s.data[s.last_sent_i].state = "Finish"
                 PROVE  W[base + s.last_sent_i] \in {"ok", "error"}
      OBVIOUS
    <3>1. PICK k : k = s.last_sent_i
      OBVIOUS
    <3>2. k \in Slots(s)
      BY <1>1, <3>1, MemberFacts DEF Bounds, Slots
    <3>3. k # p
      BY <1>6, <3>1
    <3>4. k \in Int /\ base + k # m.query
      BY <1>6, <3>2, <3>3 DEF Slots
    <3>5. W[base + k] = SV[base + k]
      BY <1>2, <1>7, <3>2, <3>4
    <3> QED
      BY <1>1, <3>1, <3>5 DEF Judged
  <2> QED
    BY <2>1, <2>2, <2>3, <2>4 DEF Judged
<1>9. m.query \notin D
  <2>1. m.query \in 1 .. base + Len(s.data) /\ ~ (m.query <= base) /\ m.query - base = p
    BY <1>6
  <2> QED
    BY <1>1, <1>6, <2>1 DEF Finished
<1> QED
  BY <1>2, <1>8, <1>9 DEF Good

\* The server answers in the order of the chain.
LEMMA AnswersChained ==
  ASSUME NEW N, N \subseteq Sendings, NEW SV \in [Queries -> Outcomes], NEW D, Chained(N, SV, D),
         NEW m, NEW what, NEW W, Answers(N, SV, m, what, W),
         what = "wait_failed" \/ m.after = 0 \/ SV[m.after] = "ok"
  PROVE  Chained(N, W, D)
<1>1. /\ W \in [Queries -> Outcomes] /\ m.query \in Queries /\ W[m.query] = what
      /\ \A q \in Queries : q # m.query => W[q] = SV[q]
      /\ \A q \in Queries : SV[q] = "ok" => W[q] = "ok"
  BY AnswersFacts
<1>2. m \in N /\ m.query \in Nat /\ m.after \in Nat /\ m.after <= MaxQueries /\ MaxQueries \in Nat
  BY <1>1, ConstantsOK DEF Answers, Sendings, Queries
<1>3. \A r \in Queries : Settled(r, SV, D) => Settled(r, W, D)
  BY <1>1 DEF Settled
<1>4. \A q \in Queries : \A r \in 1 .. q - 1 : r \in Queries
  BY <1>2 DEF Queries
<1>5. \A r \in 1 .. m.query - 1 : r > m.after => Settled(r, SV, D)
  BY <1>2 DEF Chained
<1>6. \A q \in Queries : SV[q] \in {"ok", "error"} => \A r \in 1 .. q - 1 : Settled(r, SV, D)
  BY DEF Chained
<1>7. ASSUME NEW q \in Queries, W[q] \in {"ok", "error"}, NEW r \in 1 .. q - 1
      PROVE  Settled(r, W, D)
  <2>1. r \in Queries
    BY <1>4
  <2>2. CASE q # m.query
    BY <1>1, <1>3, <1>6, <1>7, <2>1, <2>2
  <2>3. CASE q = m.query
    <3>1. what # "wait_failed"
      BY <1>1, <1>7, <2>3
    <3>2. CASE r > m.after
      BY <1>3, <1>5, <2>1, <2>3, <3>2
    <3>3. CASE ~ (r > m.after)
      <4>1. r \in Nat /\ r >= 1 /\ m.after >= 1 /\ m.after \in Queries
        BY <1>2, <2>1, <3>3 DEF Queries
      <4>2. SV[m.after] = "ok"
        BY <3>1, <4>1
      <4>3. CASE r = m.after
        BY <1>3, <2>1, <4>2, <4>3 DEF Settled
      <4>4. CASE r # m.after
        <5>1. r \in 1 .. m.after - 1
          BY <1>2, <3>3, <4>1, <4>4
        <5>2. Settled(r, SV, D)
          BY <1>6, <4>1, <4>2, <5>1
        <5> QED
          BY <1>3, <2>1, <5>2
      <4> QED
        BY <4>3, <4>4
    <3> QED
      BY <3>2, <3>3
  <2> QED
    BY <2>2, <2>3
<1>8. ASSUME NEW n \in N
      PROVE  n.after < n.query /\ \A r \in 1 .. n.query - 1 : r > n.after => Settled(r, W, D)
  <2>1. n.after < n.query /\ \A r \in 1 .. n.query - 1 : r > n.after => Settled(r, SV, D)
    BY DEF Chained
  <2>2. n.query \in Queries
    BY DEF Sendings
  <2> QED
    BY <1>3, <1>4, <2>1, <2>2
<1> QED
  BY <1>7, <1>8 DEF Chained

\* What all steps of the server keep.
LEMMA AnswerInv ==
  ASSUME IInv, NEW m \in net, NEW what, srv[m.query] = "pending", Answer(m.query, what),
         what \in {"ok", "error", "wait_failed"},
         ~local => what = "wait_failed" \/ m.after = 0 \/ srv[m.after] = "ok",
         ExecutedOK', failures' \in Nat
  PROVE  IInv'
<1>1. /\ srv' = [srv EXCEPT ![m.query] = what]
      /\ UNCHANGED <<d, timer, inbox, exists, cnt, to_parent, net, hands, done, asked, local>>
  BY DEF Answer
<1>2. PICK W : W = srv'
  OBVIOUS
<1>3. Answers(net, srv, m, what, W)
  BY <1>1, <1>2 DEF Answers
<1>4. PICK none : none = {}
  OBVIOUS
<1>5. Good(d, Base, net, hands, srv, done, none)
  BY <1>4 DEF IInv
<1>6. Good(d, Base, net, hands, W, done, none)
  BY <1>3, <1>4, <1>5, AnswersGood
<1>7. net \subseteq Sendings /\ srv \in [Queries -> Outcomes]
  BY <1>5 DEF Good
<1>8. ~local => Chained(net, W, done)
  <2> SUFFICES ASSUME ~local PROVE Chained(net, W, done)
    OBVIOUS
  <2>1. Chained(net, srv, done)
    BY DEF IInv
  <2>2. what = "wait_failed" \/ m.after = 0 \/ srv[m.after] = "ok"
    OBVIOUS
  <2> QED
    BY <1>3, <1>7, <2>1, <2>2, AnswersChained
<1>9. Base' = Base
  BY <1>1 DEF Base
<1>10. Good(d', Base', net', hands', srv', done', {})
  BY <1>1, <1>2, <1>4, <1>6, <1>9
<1>11. ~local' => Chained(net', srv', done')
  BY <1>1, <1>2, <1>8
<1>12. InboxOK'
  BY <1>1 DEF IInv, InboxOK
<1>13. ParentOK'
  BY <1>1 DEF IInv, ParentOK, Undone, Said
<1> QED
  BY <1>1, <1>10, <1>11, <1>12, <1>13 DEF IInv

\* The same, for an answer that executes nothing.
LEMMA AnswerKeeps ==
  ASSUME IInv, NEW m \in net, NEW what, srv[m.query] = "pending", Answer(m.query, what),
         what \in {"ok", "error", "wait_failed"}, UNCHANGED executed
  PROVE  ExecutedOK'
<1>1. /\ srv' = [srv EXCEPT ![m.query] = what] /\ UNCHANGED local
  BY DEF Answer
<1>2. PICK W : W = srv'
  OBVIOUS
<1>3. Answers(net, srv, m, what, W)
  BY <1>1, <1>2 DEF Answers
<1>4. net \subseteq Sendings /\ srv \in [Queries -> Outcomes] /\ ExecutedOK
  BY DEF IInv, Good
<1>5. \A q \in Queries : srv[q] = "ok" => W[q] = "ok"
  BY <1>3, <1>4, AnswersFacts
<1> QED
  BY <1>1, <1>2, <1>4, <1>5, ExecutedKept

\* The server executes a query: all before it are settled, so none of those that
\* were executed comes after it.
LEMMA ExecuteInv ==
  ASSUME IInv, NEW m \in net, Execute(m)
  PROVE  IInv'
<1>1. /\ srv[m.query] = "pending" /\ Before(m) = "ok" /\ executed' = Append(executed, m.query)
      /\ Answer(m.query, "ok") /\ UNCHANGED <<failures, local>>
      /\ srv' = [srv EXCEPT ![m.query] = "ok"]
  BY DEF Execute, Answer
<1>2. m.after = 0 \/ srv[m.after] = "ok"
  BY <1>1 DEF Before
<1>3. PICK W, what : W = srv' /\ what = "ok"
  OBVIOUS
<1>4. Answers(net, srv, m, what, W)
  BY <1>1, <1>3 DEF Answers
<1>5. PICK none : none = {}
  OBVIOUS
<1>6. Good(d, Base, net, hands, srv, done, none)
  BY <1>5 DEF IInv
<1>7. net \subseteq Sendings /\ srv \in [Queries -> Outcomes]
  BY <1>6 DEF Good
<1>8. /\ m.query \in Queries /\ W[m.query] = what
      /\ \A q \in Queries : srv[q] = "ok" => W[q] = "ok"
  BY <1>4, <1>7, AnswersFacts
<1>9. m.query \notin done
  BY <1>4, <1>5, <1>6, AnswersGood
<1>10. /\ executed \in Seq(Queries) /\ \A i \in 1 .. Len(executed) : srv[executed[i]] = "ok"
       /\ ~local => \A i, j \in 1 .. Len(executed) : i < j => executed[i] < executed[j]
  BY DEF IInv, ExecutedOK
<1>11. PICK n \in Nat : n = Len(executed)
  BY <1>10, LenProperties
<1>12. /\ executed' \in Seq(Queries) /\ Len(executed') = n + 1
       /\ \A i \in 1 .. n : executed'[i] = executed[i]
       /\ executed'[n + 1] = m.query
  BY <1>1, <1>8, <1>10, <1>11, AppendProperties
<1>13. \A i \in 1 .. n : executed[i] \in Queries
  BY <1>10, <1>11
<1>14. \A i \in 1 .. n + 1 : i \in 1 .. n \/ i = n + 1
  OBVIOUS
<1>15. \A i \in 1 .. n + 1 : srv'[executed'[i]] = "ok"
  BY <1>3, <1>8, <1>10, <1>11, <1>12, <1>13, <1>14
<1>16. ASSUME ~local, NEW i \in 1 .. n PROVE executed[i] < m.query
  <2>1. PICK q : q = executed[i]
    OBVIOUS
  <2>2. q \in Queries /\ srv[q] = "ok"
    BY <1>10, <1>11, <1>13, <2>1
  <2>3. Chained(net, srv, done)
    BY <1>16 DEF IInv
  <2>4. \A r \in 1 .. q - 1 : Settled(r, srv, done)
    BY <2>2, <2>3 DEF Chained
  <2>5. ~ Settled(m.query, srv, done)
    BY <1>1, <1>9 DEF Settled
  <2>6. q # m.query
    BY <1>1, <2>2
  <2>7. q \in Nat /\ m.query \in Nat /\ m.query >= 1
    BY <1>8, <2>2 DEF Queries
  <2>8. ~ (m.query < q)
    BY <2>4, <2>5, <2>7
  <2> QED
    BY <2>1, <2>6, <2>7, <2>8
<1>17. ASSUME ~local, NEW i \in 1 .. n + 1, NEW j \in 1 .. n + 1, i < j
       PROVE  executed'[i] < executed'[j]
  <2>1. i \in 1 .. n
    BY <1>17
  <2>2. CASE j = n + 1
    BY <1>12, <1>16, <1>17, <2>1, <2>2
  <2>3. CASE j \in 1 .. n
    BY <1>10, <1>11, <1>12, <1>17, <2>1, <2>3
  <2> QED
    BY <1>14, <2>2, <2>3
<1>18. ExecutedOK'
  BY <1>1, <1>12, <1>15, <1>17 DEF ExecutedOK
<1>19. failures' \in Nat
  BY <1>1 DEF IInv
<1> QED
  BY <1>1, <1>2, <1>18, <1>19, AnswerInv

\* The server, or the client if local, answers with an error.
LEMMA FailInv ==
  ASSUME IInv, NEW m \in net, Fail(m)
  PROVE  IInv'
<1>1. /\ srv[m.query] = "pending" /\ (local \/ Before(m) = "ok") /\ failures' = failures + 1
      /\ Answer(m.query, "error") /\ UNCHANGED executed
  BY DEF Fail
<1>2. ~local => m.after = 0 \/ srv[m.after] = "ok"
  BY <1>1 DEF Before
<1>3. ExecutedOK'
  BY <1>1, AnswerKeeps
<1>4. failures' \in Nat
  BY <1>1 DEF IInv
<1> QED
  BY <1>1, <1>2, <1>3, <1>4, AnswerInv

\* The query fails with the one it has to be invoked after.
LEMMA WaitFailInv ==
  ASSUME IInv, NEW m \in net, WaitFail(m)
  PROVE  IInv'
<1>1. /\ srv[m.query] = "pending"
      /\ failures' = failures + (IF Before(m) \in {"error", "wait_failed"} THEN 0 ELSE 1)
      /\ Answer(m.query, "wait_failed") /\ UNCHANGED executed
  BY DEF WaitFail
<1>2. ExecutedOK'
  BY <1>1, AnswerKeeps
<1>3. failures' \in Nat
  BY <1>1 DEF IInv
<1> QED
  BY <1>1, <1>2, <1>3, AnswerInv

-----------------------------------------------------------------------------
(* The theorems.                                                           *)

\* The invariant holds at the start.
LEMMA InitInv ==
  ASSUME Init
  PROVE  IInv
<1>1. /\ d = Fresh /\ timer = FALSE /\ inbox = << >> /\ exists = FALSE /\ cnt = 0
      /\ to_parent = << >> /\ net = {} /\ hands = {} /\ executed = << >> /\ done = {}
      /\ asked = 0 /\ failures = 0 /\ local \in BOOLEAN
  BY DEF Init
<1>2. srv = [q \in Queries |-> "idle"]
  BY DEF Init
<1>3. srv \in [Queries -> Outcomes] /\ \A q \in Queries : srv[q] = "idle"
  BY <1>2 DEF Outcomes
<1>4. Base = 0
  <2>1. Len(d.data) = 0
    BY <1>1 DEF Fresh
  <2>2. Len(inbox) = 0
    BY <1>1
  <2>3. asked = 0
    BY <1>1
  <2> QED
    BY <2>1, <2>2, <2>3 DEF Base
<1>5. PICK none, n : none = {} /\ n = 0
  OBVIOUS
<1>6. n \in Nat /\ none = 1 .. n
  BY <1>5
<1>7. Good(Fresh, n, none, none, srv, none, none)
  BY <1>3, <1>5, <1>6, FreshGood
<1>8. Good(d, Base, net, hands, srv, done, {})
  BY <1>1, <1>4, <1>5, <1>7
<1>9. Chained(net, srv, done)
  BY <1>1, <1>3 DEF Chained
<1>10. InboxOK
  BY <1>1, ConstantsOK DEF InboxOK
<1>11. ParentOK
  <2>1. Undone = {} /\ Said("on_result") = {} /\ Said("ready_to_close") = {}
    BY <1>1 DEF Undone, Said
  <2>2. Cardinality(Undone) = 0 /\ Cardinality(Said("on_result")) = 0
    BY <2>1, FS_EmptySet
  <2>3. cnt = Cardinality(Undone) + Cardinality(Said("on_result"))
    BY <1>1, <2>2
  <2>4. to_parent \in Seq({"on_result", "ready_to_close"}) /\ cnt = 0 /\ to_parent = << >> /\ ~timer
    BY <1>1
  <2> QED
    BY <2>1, <2>3, <2>4 DEF ParentOK
<1>12. ExecutedOK
  BY <1>1 DEF ExecutedOK
<1> QED
  BY <1>1, <1>8, <1>9, <1>10, <1>11, <1>12 DEF IInv

\* Every step keeps the invariant.
LEMMA NextInv ==
  ASSUME IInv, [Next]_vars
  PROVE  IInv'
<1>1. CASE SendWithCallback
  BY <1>1, SendWithCallbackInv
<1>2. CASE Enqueue
  BY <1>2, EnqueueInv
<1>3. CASE \E m \in net, lt \in Timeouts : OnResult(m, lt)
  BY <1>3, OnResultInv
<1>4. CASE \E h \in hands : OnResendOk(h)
  BY <1>4, OnResendOkInv
<1>5. CASE \E h \in hands : OnResendError(h)
  BY <1>5, OnResendErrorInv
<1>6. CASE TimeoutExpired
  BY <1>6, TimeoutExpiredInv
<1>7. CASE ParentOnResult
  BY <1>7, ParentOnResultInv
<1>8. CASE ParentReadyToClose
  BY <1>8, ParentReadyToCloseInv
<1>9. CASE \E m \in net : Execute(m)
  BY <1>9, ExecuteInv
<1>10. CASE \E m \in net : Fail(m)
  BY <1>10, FailInv
<1>11. CASE \E m \in net : WaitFail(m)
  BY <1>11, WaitFailInv
<1>12. CASE UNCHANGED vars
  <2>1. UNCHANGED <<d, inbox, net, srv, hands, executed, done, failures, asked, local>>
    BY <1>12 DEF vars
  <2>2. timer' = timer /\ exists' = exists /\ cnt' = cnt /\ to_parent' = to_parent
    BY <1>12 DEF vars
  <2>3. ParentOK'
    BY <2>1, <2>2 DEF IInv, ParentOK, Undone, Said
  <2>4. timer' \in BOOLEAN /\ exists' \in BOOLEAN
    BY <2>2 DEF IInv
  <2> QED
    BY <2>1, <2>3, <2>4, ParentKeeps
<1> QED
  BY <1>1, <1>2, <1>3, <1>4, <1>5, <1>6, <1>7, <1>8, <1>9, <1>10, <1>11, <1>12 DEF Next

\* The dispatcher, the queries it waits for, the parent and the order of execution
\* agree in every state that the handlers, the callbacks and the network reach.
THEOREM DispatcherInvariant == Spec => []IInv
<1>1. Init => IInv
  BY InitInv
<1>2. IInv /\ [Next]_vars => IInv'
  BY NextInv
<1> QED
  BY <1>1, <1>2, PTL DEF Spec

\* The server executes the queries of a sequence in the order they were sent in,
\* each at most once, unless queries fail in the client: the invokeAfter that
\* loop() gives to a query always names the query that it has to wait for.
THEOREM ExecutedInSequence == Spec => []ExecutedInOrder
<1>1. IInv => ExecutedInOrder
  <2> SUFFICES ASSUME IInv PROVE ExecutedInOrder
    OBVIOUS
  <2>1. /\ executed \in Seq(Queries)
        /\ ~local => \A i, j \in 1 .. Len(executed) : i < j => executed[i] < executed[j]
    BY DEF IInv, ExecutedOK
  <2>2. DOMAIN executed = 1 .. Len(executed)
    BY <2>1
  <2> QED
    BY <2>1, <2>2 DEF ExecutedInOrder
<1> QED
  BY <1>1, DispatcherInvariant, PTL

\* As many records as positions, one for each.
LEMMA OneEach ==
  ASSUME NEW A, IsFiniteSet(A), A \subseteq Int, NEW base \in Int, NEW B,
         \A b \in B : b.query \in Int /\ b.query - base \in A,
         \A a \in A : \E b \in B : b.query = base + a,
         \A b, c \in B : b.query = c.query => b = c
  PROVE  IsFiniteSet(B) /\ Cardinality(B) = Cardinality(A)
<1>1. PICK f : f = [a \in A |-> CHOOSE b \in B : b.query = base + a]
  OBVIOUS
<1>2. \A a \in A : f[a] \in B /\ f[a].query = base + a
  BY <1>1
<1>3. f \in [A -> B]
  BY <1>1, <1>2
<1>4. \A a, c \in A : f[a] = f[c] => a = c
  <2> SUFFICES ASSUME NEW a \in A, NEW c \in A, f[a] = f[c] PROVE a = c
    OBVIOUS
  <2>1. base + a = base + c /\ a \in Int /\ c \in Int
    BY <1>2
  <2> QED
    BY <2>1
<1>5. \A b \in B : \E a \in A : f[a] = b
  <2> SUFFICES ASSUME NEW b \in B PROVE \E a \in A : f[a] = b
    OBVIOUS
  <2>1. PICK a : a = b.query - base
    OBVIOUS
  <2>2. a \in A /\ b.query = base + a
    BY <2>1
  <2>3. f[a] \in B /\ f[a].query = b.query
    BY <1>2, <2>2
  <2> QED
    BY <2>2, <2>3
<1> QED
  BY <1>3, <1>4, <1>5, CardSame

\* The queries outside are those that are waited for, and none is counted twice.
LEMMA TokensFind ==
  ASSUME IInv
  PROVE  TokensFindTheirQuery
<1>1. /\ d \in Dispatchers /\ Lined(d, Base) /\ Counted(d) /\ Tokens(d, Base, net, hands)
      /\ net \subseteq Sendings /\ hands \subseteq Handles
  BY DEF IInv, Good
<1>2. PICK b : b = Base
  OBVIOUS
<1>3. PICK A : A = Waiting(d)
  OBVIOUS
<1>4. b \in Nat /\ \A p \in A : p \in Nat /\ p \in Slots(d) /\ d.data[p].query = b + p
  BY <1>1, <1>2, <1>3, MemberFacts DEF Lined, Waiting
<1>5. /\ \A m \in net \cup hands : /\ m.query \in Nat /\ m.token \in Int /\ m.query - b \in A
                                  /\ m.token = m.query - b - 1 + d.id_offset
      /\ \A p \in A : \E m \in net \cup hands : m.query = b + p
      /\ \A m, n \in net : m.query = n.query => m = n
      /\ \A m, n \in hands : m.query = n.query => m = n
      /\ \A m \in net, n \in hands : m.query # n.query
  <2>1. \A m \in net \cup hands : m.query \in Nat /\ m.token \in Int
    BY <1>1, OutsideFacts
  <2> QED
    BY <1>1, <1>2, <1>3, <2>1 DEF Tokens
<1>6. d.id_offset \in Int
  BY <1>1, MemberFacts
<1>7. IsFiniteSet(A) /\ d.wait_cnt = Cardinality(A) /\ Cardinality(A) \in Nat /\ A \subseteq Int
  BY <1>1, <1>3, <1>4, WaitingFacts DEF Counted
<1>8. A = {r \in DOMAIN d.data : d.data[r].state = "Wait"}
  <2>1. DOMAIN d.data = Slots(d)
    BY <1>1 DEF Slots, Dispatchers
  <2> QED
    BY <1>3, <2>1 DEF Waiting
<1>9. PICK out : out = {[token |-> m.token, query |-> m.query] : m \in net \cup hands}
  OBVIOUS
<1>10. PICK waiting : waiting = {[token |-> Token(d, p), query |-> d.data[p].query] : p \in A}
  OBVIOUS
<1>11. \A p \in A : Token(d, p) = p - 1 + d.id_offset
  BY DEF Token
<1>12. out \subseteq waiting
  <2> SUFFICES ASSUME NEW m \in net \cup hands
               PROVE  [token |-> m.token, query |-> m.query] \in waiting
    BY <1>9
  <2>1. PICK p : p = m.query - b
    OBVIOUS
  <2>2. p \in A /\ m.query = b + p /\ m.token = p - 1 + d.id_offset
    BY <1>4, <1>5, <2>1
  <2>3. m.token = Token(d, p) /\ m.query = d.data[p].query
    BY <1>4, <1>11, <2>2
  <2> QED
    BY <1>10, <2>2, <2>3
<1>13. waiting \subseteq out
  <2> SUFFICES ASSUME NEW p \in A
               PROVE  [token |-> Token(d, p), query |-> d.data[p].query] \in out
    BY <1>10
  <2>1. PICK m \in net \cup hands : m.query = b + p
    BY <1>5
  <2>2. m.query - b = p
    BY <1>4, <2>1
  <2>3. m.token = Token(d, p) /\ m.query = d.data[p].query
    BY <1>4, <1>5, <1>11, <2>1, <2>2
  <2> QED
    BY <1>9, <2>3
<1>14. Cardinality(waiting) = Cardinality(A)
  <2>1. \A w \in waiting : \E p \in A : w.query = b + p /\ w = [token |-> Token(d, p), query |-> b + p]
    BY <1>4, <1>10
  <2>2. \A w \in waiting : w.query \in Int /\ w.query - b \in A
    <3> SUFFICES ASSUME NEW w \in waiting PROVE w.query \in Int /\ w.query - b \in A
      OBVIOUS
    <3>1. PICK p \in A : w.query = b + p
      BY <2>1
    <3>2. b + p \in Int /\ (b + p) - b = p
      BY <1>4
    <3> QED
      BY <3>1, <3>2
  <2>3. \A p \in A : \E w \in waiting : w.query = b + p
    <3> SUFFICES ASSUME NEW p \in A PROVE \E w \in waiting : w.query = b + p
      OBVIOUS
    <3>1. PICK w : w = [token |-> Token(d, p), query |-> d.data[p].query]
      OBVIOUS
    <3>2. w \in waiting
      BY <1>10, <3>1
    <3>3. w.query = b + p
      BY <1>4, <3>1
    <3> QED
      BY <3>2, <3>3
  <2>4. \A v, w \in waiting : v.query = w.query => v = w
    <3> SUFFICES ASSUME NEW v \in waiting, NEW w \in waiting, v.query = w.query PROVE v = w
      OBVIOUS
    <3>1. PICK p \in A : v.query = b + p /\ v = [token |-> Token(d, p), query |-> b + p]
      BY <2>1
    <3>2. PICK r \in A : w.query = b + r /\ w = [token |-> Token(d, r), query |-> b + r]
      BY <2>1
    <3>3. b + p = b + r
      BY <3>1, <3>2
    <3>4. p = r
      BY <1>4, <3>3
    <3> QED
      BY <3>1, <3>2, <3>4
  <2>5. b \in Int
    BY <1>4
  <2> QED
    BY <1>7, <2>2, <2>3, <2>4, <2>5, OneEach
<1>15. PICK P, Q : /\ P = {p \in A : \E m \in net : m.query = b + p}
                   /\ Q = {p \in A : \E m \in hands : m.query = b + p}
  OBVIOUS
<1>16. P \cap Q = {} /\ A = P \cup Q
  BY <1>5, <1>15
<1>17. IsFiniteSet(P) /\ IsFiniteSet(Q) /\ P \subseteq Int /\ Q \subseteq Int /\ b \in Int
  <2>1. P \in SUBSET A /\ Q \in SUBSET A
    BY <1>15
  <2>2. IsFiniteSet(P) /\ IsFiniteSet(Q)
    BY <1>7, <2>1, FS_Subset
  <2> QED
    BY <1>4, <1>7, <2>1, <2>2
<1>18. \A m \in net \cup hands : m.query \in Int /\ m.query - b \in A /\ m.query = b + (m.query - b)
  BY <1>4, <1>5
<1>19. Cardinality(net) = Cardinality(P)
  <2>1. \A m \in net : m.query \in Int /\ m.query - b \in P
    BY <1>15, <1>18
  <2>2. \A p \in P : \E m \in net : m.query = b + p
    BY <1>15
  <2> QED
    BY <1>5, <1>17, <2>1, <2>2, OneEach
<1>20. Cardinality(hands) = Cardinality(Q)
  <2>1. \A m \in hands : m.query \in Int /\ m.query - b \in Q
    BY <1>15, <1>18
  <2>2. \A p \in Q : \E m \in hands : m.query = b + p
    BY <1>15
  <2> QED
    BY <1>5, <1>17, <2>1, <2>2, OneEach
<1>21. Cardinality(A) = Cardinality(P) + Cardinality(Q)
  BY <1>16, <1>17, CardMore
<1>22. out = waiting /\ d.wait_cnt = Cardinality(net) + Cardinality(hands)
       /\ Cardinality(waiting) = d.wait_cnt
  BY <1>7, <1>12, <1>13, <1>14, <1>19, <1>20, <1>21
<1> QED
  BY <1>8, <1>9, <1>10, <1>22 DEF TokensFindTheirQuery

\* The types, from the parts of the invariant.
LEMMA Types ==
  ASSUME IInv
  PROVE  TypeOK
<1>1. /\ d \in Dispatchers /\ Lined(d, Base) /\ Bounds(d) /\ Counted(d) /\ Dummies(d, {})
      /\ Tokens(d, Base, net, hands) /\ net \subseteq Sendings /\ hands \subseteq Handles
      /\ srv \in [Queries -> Outcomes]
  BY DEF IInv, Good
<1>2. /\ Len(d.data) \in Nat /\ d.finish_i \in Int /\ d.next_i \in Int /\ d.last_sent_i \in Int
      /\ d.generation \in Nat /\ d.id_offset \in Int /\ d.wait_cnt \in Int
  BY <1>1, MemberFacts
<1>3. /\ Base \in Nat /\ asked \in Nat /\ asked \in 0 .. MaxQueries
      /\ done \subseteq 1 .. asked - Len(inbox) /\ Len(inbox) \in Nat
      /\ inbox \in Seq(Queries) /\ MaxQueries \in Nat
  BY Parts, ConstantsOK
<1>4. \A p \in DOMAIN d.data :
        d.data[p] \in [query : Queries, state : {"Start", "Wait", "Finish"},
                       generation : Nat, total_timeout : Nat]
  <2> SUFFICES ASSUME NEW p \in DOMAIN d.data
               PROVE  d.data[p] \in [query : Queries, state : {"Start", "Wait", "Finish"},
                                     generation : Nat, total_timeout : Nat]
    OBVIOUS
  <2>1. p \in Slots(d)
    BY <1>1 DEF Slots, Dispatchers
  <2>2. d.data[p] \in Entries /\ d.data[p].state # "Dummy"
    BY <1>1, <2>1, WaitingFacts DEF Dummies
  <2> QED
    BY <2>2 DEF Entries
<1>5. /\ d.finish_i \in 1 .. Len(d.data) + 1 /\ d.next_i \in d.finish_i .. Len(d.data) + 1
      /\ d.last_sent_i \in 0 .. Len(d.data) /\ d.generation \in Nat \ {0}
  BY <1>1, <1>2 DEF Bounds
<1>6. d.id_offset \in Nat \ {0}
  BY <1>1, <1>3 DEF Lined
<1>7. d.wait_cnt \in Nat
  BY <1>1, WaitingFacts DEF Counted
<1>8. {timer, exists} \subseteq BOOLEAN /\ failures \in Nat /\ local \in BOOLEAN
  BY DEF IInv
<1>9. to_parent \in Seq({"on_result", "ready_to_close"}) /\ executed \in Seq(Queries)
  BY DEF IInv, ParentOK, ExecutedOK
<1>10. cnt \in Nat
  <2>1. cnt = Cardinality(Undone) + Cardinality(Said("on_result"))
    BY DEF IInv, ParentOK
  <2>2. Cardinality(Undone) \in Nat /\ Cardinality(Said("on_result")) \in Nat
    BY CountFacts
  <2> QED
    BY <2>1, <2>2
<1>11. done \subseteq Queries
  BY <1>3 DEF Queries
<1>12. srv \in [Queries -> {"idle", "pending", "ok", "error", "wait_failed"}]
  BY <1>1 DEF Outcomes
<1>13. ASSUME NEW m \in net \cup hands PROVE m.token \in Queries
  <2>1. m.query \in Queries /\ m.token \in Int /\ m.query \in Nat
    BY <1>1, OutsideFacts
  <2>2. m.query - Base \in Waiting(d) /\ m.token = m.query - Base - 1 + d.id_offset
    BY <1>1 DEF Tokens
  <2>3. m.query - Base >= 1
    BY <1>2, <2>2 DEF Waiting, Slots
  <2>4. 1 <= d.id_offset /\ d.id_offset <= Base + 1
    BY <1>1, <1>3 DEF Lined
  <2>5. 1 <= m.token /\ m.token <= m.query
    BY <1>2, <1>3, <2>1, <2>2, <2>3, <2>4
  <2> QED
    BY <1>3, <2>1, <2>5 DEF Queries
<1>14. net \subseteq [token : Queries, query : Queries, after : {0} \cup Queries]
  <2> SUFFICES ASSUME NEW m \in net PROVE m \in [token : Queries, query : Queries, after : {0} \cup Queries]
    OBVIOUS
  <2>1. m \in Sendings /\ m.token \in Queries
    BY <1>1, <1>13
  <2>2. \A k \in 0 .. MaxQueries : k \in {0} \cup Queries
    BY <1>3 DEF Queries
  <2> QED
    BY <2>1, <2>2 DEF Sendings
<1>15. hands \subseteq [token : Queries, query : Queries, ok : BOOLEAN]
  <2> SUFFICES ASSUME NEW h \in hands PROVE h \in [token : Queries, query : Queries, ok : BOOLEAN]
    OBVIOUS
  <2>1. h \in Handles /\ h.token \in Queries
    BY <1>1, <1>13
  <2> QED
    BY <2>1 DEF Handles
<1> QED
  BY <1>3, <1>4, <1>5, <1>6, <1>7, <1>8, <1>9, <1>10, <1>11, <1>12, <1>14, <1>15 DEF TypeOK

\* No query is mistaken for another, passed over by loop(), or left behind in a
\* dispatcher that the parent closes, however answers, failures, callbacks, new
\* queries and the timeout interleave.
THEOREM QueriesAreKept == Spec => []QueriesKept
<1>1. IInv => QueriesKept
  <2> SUFFICES ASSUME IInv PROVE QueriesKept
    OBVIOUS
  <2>1. NothingSkipped
    <3> SUFFICES ASSUME NEW p \in DOMAIN d.data, d.data[p].state = "Start" PROVE p >= d.next_i
      BY DEF NothingSkipped
    <3>1. d \in Dispatchers /\ Ordered(d)
      BY DEF IInv, Good
    <3>2. p \in Slots(d)
      BY <3>1 DEF Slots, Dispatchers
    <3>3. ~ (p < d.next_i)
      BY <3>1, <3>2 DEF Ordered
    <3>4. p \in Int /\ d.next_i \in Int
      BY <3>1, <3>2, MemberFacts
    <3> QED
      BY <3>3, <3>4
  <2>2. ClosedWhenDone
    <3> SUFFICES ASSUME ~exists PROVE done = 1 .. asked /\ net = {} /\ hands = {} /\ to_parent = << >>
      BY DEF ClosedWhenDone
    <3>1. cnt = 0 /\ to_parent = << >>
      BY DEF IInv, ParentOK
    <3>2. Undone = {} /\ inbox = << >> /\ net = {} /\ hands = {}
      BY <3>1, Quiet
    <3>3. done \subseteq 1 .. asked - Len(inbox) /\ asked \in Nat
      BY Parts
    <3>4. asked - Len(inbox) = asked
      BY <3>2, <3>3
    <3> QED
      BY <3>1, <3>2, <3>3, <3>4 DEF Undone
  <2> QED
    BY <2>1, <2>2, TokensFind, Types DEF QueriesKept
<1> QED
  BY <1>1, DispatcherInvariant, PTL
=============================================================================
