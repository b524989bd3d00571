-------------------- MODULE BinlogEventsProcessorProofs --------------------
(***************************************************************************)
(* What BinlogEventsProcessor makes of a sequence of events, for any ids   *)
(* and any data: which events it holds, when it accepts one more, and that *)
(* the events of for_each, which a reindex writes, give the same again.    *)
(* The proofs about Binlog and about BinlogKeyValue rest on these lemmas.  *)
(***************************************************************************)
EXTENDS BinlogEventsProcessor, WellFoundedInduction, TLAPS

-----------------------------------------------------------------------------
(* Numbers *)

\* A set of natural numbers that is not empty has a least one.
LEMMA LeastNat ==
  ASSUME NEW S \in SUBSET Nat, S # {}
  PROVE  \E n \in S : \A m \in S : n <= m
<1>1. PICK n \in S : \A m \in S : ~ (<<m, n>> \in OpToRel(<, Nat))
  <2> S \subseteq Nat OBVIOUS
  <2> QED BY NatLessThanWellFounded, WFMin
<1>2. \A m \in S : ~ (m < n)
  BY <1>1 DEF OpToRel
<1> QED BY <1>2

\* Induction over the natural numbers, for a set in place of a predicate.
LEMMA NatInd ==
  ASSUME NEW S, 0 \in S, \A n \in Nat : n \in S => n + 1 \in S
  PROVE  \A n \in Nat : n \in S
<1> DEFINE B == {n \in Nat : n \notin S}
<1> SUFFICES ASSUME B # {} PROVE FALSE OBVIOUS
<1> B \in SUBSET Nat OBVIOUS
<1>1. PICK n \in B : \A m \in B : n <= m BY LeastNat
<1>2. n # 0 /\ n \in Nat OBVIOUS
<1>3. n - 1 \in Nat /\ (n - 1) + 1 = n BY <1>2
<1>4. n - 1 \notin S BY <1>3
<1>5. n - 1 \in B BY <1>3, <1>4
<1>6. n <= n - 1 BY <1>1, <1>5
<1> QED BY <1>6, <1>2

\* Max of a bounded set of natural numbers is its greatest element.
LEMMA MaxOf ==
  ASSUME NEW N \in Nat, NEW S \in SUBSET (0 .. N), S # {}
  PROVE  Max(S) \in S /\ \A y \in S : y <= Max(S)
<1> DEFINE T == {n \in Nat : \E x \in S : n = N - x}
<1>1. T \in SUBSET Nat /\ T # {}
  <2>1. PICK x \in S : TRUE OBVIOUS
  <2>2. N - x \in T OBVIOUS
  <2> QED BY <2>2
<1>2. PICK n \in T : \A m \in T : n <= m BY <1>1, LeastNat
<1>3. PICK x \in S : n = N - x OBVIOUS
<1>4. ASSUME NEW y \in S PROVE x >= y
  <2>1. N - y \in T OBVIOUS
  <2>2. n <= N - y BY <2>1, <1>2
  <2> QED BY <2>2, <1>3
<1>5. \E z \in S : \A y \in S : z >= y BY <1>4
<1>6. Max(S) \in S /\ \A y \in S : Max(S) >= y BY <1>5 DEF Max
<1> QED BY <1>6

-----------------------------------------------------------------------------
(* AfterEvents *)

\* What the recursive function of AfterEvents is.
IsRun(r, events, N) ==
  r = [n \in 0 .. N |-> IF n = 0 THEN NoEvents ELSE DoEvent(r[n - 1], events[n])]

\* There is such a function for every sequence.
LEMMA RunExists ==
  ASSUME NEW events
  PROVE  \A n \in Nat : \E r : IsRun(r, events, n)
<1> DEFINE S == {n \in Nat : \E r : IsRun(r, events, n)}
<1>1. 0 \in S
  <2>1. IsRun([n \in 0 .. 0 |-> NoEvents], events, 0) BY DEF IsRun
  <2> QED BY <2>1
<1>2. ASSUME NEW n \in Nat, n \in S PROVE n + 1 \in S
  <2>1. PICK r : IsRun(r, events, n) BY <1>2
  <2> DEFINE s == [k \in 0 .. n + 1 |-> IF k <= n THEN r[k] ELSE DoEvent(r[n], events[n + 1])]
  <2>2. IsRun(s, events, n + 1) BY <2>1 DEF IsRun
  <2> QED BY <2>2
<1> HIDE DEF S
<1>3. \A n \in Nat : n \in S BY <1>1, <1>2, NatInd
<1> QED BY <1>3 DEF S

\* AfterEvents is the last state of such a run.
LEMMA AfterRun ==
  ASSUME NEW events, Len(events) \in Nat
  PROVE  \E r : IsRun(r, events, Len(events)) /\ AfterEvents(events) = r[Len(events)]
<1> DEFINE r == CHOOSE g : g = [n \in 0 .. Len(events) |->
                  IF n = 0 THEN NoEvents ELSE DoEvent(g[n - 1], events[n])]
<1>1. AfterEvents(events) = r[Len(events)] BY DEF AfterEvents
<1>2. IsRun(r, events, Len(events)) BY RunExists DEF IsRun
<1> QED BY <1>1, <1>2

\* Two runs over events that agree on the first n agree on the state after them.
LEMMA RunsAgree ==
  ASSUME NEW r, NEW s, NEW d, NEW e, NEW N \in Nat, NEW M \in Nat, N <= M,
         IsRun(r, d, N), IsRun(s, e, M), \A i \in 1 .. N : d[i] = e[i]
  PROVE  \A n \in 0 .. N : r[n] = s[n]
<1> DEFINE S == {n \in Nat : n <= N => r[n] = s[n]}
<1>1. 0 \in S BY DEF IsRun
<1>2. ASSUME NEW n \in Nat, n \in S PROVE n + 1 \in S
  <2> SUFFICES ASSUME n + 1 <= N PROVE r[n + 1] = s[n + 1] OBVIOUS
  <2>1. r[n] = s[n] BY <1>2
  <2>2. r[n + 1] = DoEvent(r[n], d[n + 1]) BY DEF IsRun
  <2>3. s[n + 1] = DoEvent(s[n], e[n + 1]) BY DEF IsRun
  <2> QED BY <2>1, <2>2, <2>3
<1> HIDE DEF S
<1>3. \A n \in Nat : n \in S BY <1>1, <1>2, NatInd
<1> QED BY <1>3 DEF S

\* No event: the processor as it is created.
LEMMA AfterNone == AfterEvents(<< >>) = NoEvents
<1>1. PICK r : IsRun(r, << >>, 0) /\ AfterEvents(<< >>) = r[0]
  BY AfterRun
<1> QED BY <1>1 DEF IsRun

\* One more event.
LEMMA AfterAppend ==
  ASSUME NEW X, NEW s \in Seq(X), NEW e \in X
  PROVE  AfterEvents(Append(s, e)) = DoEvent(AfterEvents(s), e)
<1> DEFINE t == Append(s, e)
<1>0. Len(s) \in Nat /\ Len(t) = Len(s) + 1 /\ t[Len(s) + 1] = e
      /\ \A i \in 1 .. Len(s) : s[i] = t[i]
  OBVIOUS
<1> HIDE DEF t
<1>1. PICK r : IsRun(r, s, Len(s)) /\ AfterEvents(s) = r[Len(s)] BY <1>0, AfterRun
<1>2. PICK q : IsRun(q, t, Len(t)) /\ AfterEvents(t) = q[Len(t)] BY <1>0, AfterRun
<1>3. r[Len(s)] = q[Len(s)] BY <1>0, <1>1, <1>2, RunsAgree
<1>4. q[Len(s) + 1] = DoEvent(q[Len(s)], t[Len(s) + 1]) BY <1>0, <1>2 DEF IsRun
<1> QED BY <1>0, <1>1, <1>2, <1>3, <1>4 DEF t

-----------------------------------------------------------------------------
(* The processor *)

\* The states of a processor: ids up to some number, each with an event or erased.
Marked == RawEvents \cup {Erased}
Procs == [at : UNION {[D -> Marked] : D \in SUBSET Nat}, last_id : Nat]
IsProc(p) == p \in Procs /\ \E N \in Nat : DOMAIN p.at \subseteq 0 .. N

\* What IsProc says of the parts of a processor.
LEMMA ProcParts ==
  ASSUME NEW p, IsProc(p)
  PROVE  /\ p = [at |-> p.at, last_id |-> p.last_id]
         /\ p.at = [i \in DOMAIN p.at |-> p.at[i]]
         /\ DOMAIN p.at \in SUBSET Nat
         /\ p.last_id \in Nat
         /\ \A i \in DOMAIN p.at : p.at[i] \in Marked
<1>1. p \in Procs BY DEF IsProc
<1>2. p.at \in UNION {[D -> Marked] : D \in SUBSET Nat} /\ p.last_id \in Nat
      /\ p = [at |-> p.at, last_id |-> p.last_id]
  BY <1>1 DEF Procs
<1>3. PICK D \in SUBSET Nat : p.at \in [D -> Marked] BY <1>2
<1> QED BY <1>2, <1>3

\* A processor is made of such parts.
LEMMA ProcMade ==
  ASSUME NEW D \in SUBSET Nat, NEW a \in [D -> Marked], NEW n \in Nat, NEW N \in Nat, D \subseteq 0 .. N
  PROVE  /\ IsProc([at |-> a, last_id |-> n])
         /\ [at |-> a, last_id |-> n].at = a
         /\ [at |-> a, last_id |-> n].last_id = n
<1>1. a \in UNION {[E -> Marked] : E \in SUBSET Nat} OBVIOUS
<1>2. DOMAIN a = D OBVIOUS
<1>3. [at |-> a, last_id |-> n] \in Procs BY <1>1 DEF Procs
<1>4. [at |-> a, last_id |-> n].at = a OBVIOUS
<1>5. DOMAIN [at |-> a, last_id |-> n].at \subseteq 0 .. N BY <1>4, <1>2
<1> QED BY <1>3, <1>4, <1>5 DEF IsProc

\* compactify() only takes erased ids away.
LEMMA CompactifyKeeps ==
  ASSUME NEW p, IsProc(p)
  PROVE  /\ IsProc(Compactify(p))
         /\ Compactify(p).last_id = p.last_id
         /\ DOMAIN Compactify(p).at \subseteq DOMAIN p.at
         /\ LiveIds(Compactify(p)) = LiveIds(p)
         /\ \A i \in DOMAIN Compactify(p).at : Compactify(p).at[i] = p.at[i]
<1> DEFINE a == [i \in LiveIds(p) |-> p.at[i]]
<1> DEFINE q == [at |-> a, last_id |-> p.last_id]
<1>1. CASE Compactify(p) = p BY <1>1
<1>2. CASE Compactify(p) = q
  <2>1. PICK N \in Nat : DOMAIN p.at \subseteq 0 .. N BY DEF IsProc
  <2>2. LiveIds(p) \in SUBSET Nat /\ LiveIds(p) \subseteq DOMAIN p.at BY ProcParts DEF LiveIds
  <2>3. a \in [LiveIds(p) -> Marked] BY <2>2, ProcParts
  <2>4. LiveIds(p) \subseteq 0 .. N BY <2>1, <2>2
  <2> HIDE DEF a
  <2>5. IsProc(q) /\ q.at = a /\ q.last_id = p.last_id BY <2>1, <2>2, <2>3, <2>4, ProcParts, ProcMade
  <2> HIDE DEF q
  <2>6. DOMAIN q.at = LiveIds(p) BY <2>5 DEF a
  <2>7. \A i \in LiveIds(p) : q.at[i] = p.at[i] /\ p.at[i] # Erased BY <2>5 DEF a, LiveIds, ErasedIds
  <2>8. LiveIds(q) = LiveIds(p) BY <2>6, <2>7 DEF LiveIds, ErasedIds
  <2> QED BY <1>2, <2>2, <2>5, <2>6, <2>7, <2>8
<1>3. Compactify(p) = p \/ Compactify(p) = q
  <2> HIDE DEF a
  <2>0. PICK b, n : p = [at |-> b, last_id |-> n] BY ProcParts
  <2>1. [p EXCEPT !.at = a] = q BY <2>0
  <2> HIDE DEF q
  <2>2. Compactify(p) = p \/ Compactify(p) = [p EXCEPT !.at = a] BY DEF Compactify, a
  <2> QED BY <2>1, <2>2
<1> QED BY <1>1, <1>2, <1>3

\* What do_event() makes of the ids and the events before it calls compactify().
RewrittenAt(p, e) ==
  [i \in DOMAIN p.at |-> IF i = e.id THEN (IF e.value = Empty THEN Erased ELSE e) ELSE p.at[i]]
InsertedAt(p, e) == [i \in DOMAIN p.at \cup {e.id} |-> IF i = e.id THEN e ELSE p.at[i]]

\* The three ways through do_event().
LEMMA DoEventCases ==
  ASSUME NEW p, IsProc(p), NEW e
  PROVE  /\ IsRewrite(p, e) =>
              DoEvent(p, e) = Compactify([at |-> RewrittenAt(p, e), last_id |-> p.last_id])
         /\ ~ IsRewrite(p, e) /\ e.value = Empty => DoEvent(p, e) = Compactify(p)
         /\ ~ IsRewrite(p, e) /\ e.value # Empty =>
              DoEvent(p, e) = Compactify([at |-> InsertedAt(p, e), last_id |-> e.id])
<1>1. ASSUME IsRewrite(p, e)
      PROVE  DoEvent(p, e) = Compactify([at |-> RewrittenAt(p, e), last_id |-> p.last_id])
  <2> DEFINE v == IF e.value = Empty THEN Erased ELSE e
  <2>1. DoEvent(p, e) = Compactify([p EXCEPT !.at[e.id] = v]) BY <1>1 DEF DoEvent
  <2>2. RewrittenAt(p, e) = [i \in DOMAIN p.at |-> IF i = e.id THEN v ELSE p.at[i]] BY DEF RewrittenAt
  <2> HIDE DEF v
  <2>3. [p.at EXCEPT ![e.id] = v] = RewrittenAt(p, e) BY <2>2, ProcParts
  <2>0. PICK b, n : p = [at |-> b, last_id |-> n] BY ProcParts
  <2>4. [p EXCEPT !.at[e.id] = v] = [at |-> [p.at EXCEPT ![e.id] = v], last_id |-> p.last_id] BY <2>0
  <2> QED BY <2>1, <2>3, <2>4
<1>2. ~ IsRewrite(p, e) /\ e.value = Empty => DoEvent(p, e) = Compactify(p) BY DEF DoEvent
<1>3. ~ IsRewrite(p, e) /\ e.value # Empty =>
         DoEvent(p, e) = Compactify([at |-> InsertedAt(p, e), last_id |-> e.id])
  BY DEF DoEvent, InsertedAt
<1> QED BY <1>1, <1>2, <1>3

\* do_event() keeps the type of the processor.
LEMMA DoEventType ==
  ASSUME NEW p, IsProc(p), NEW e \in RawEvents
  PROVE  IsProc(DoEvent(p, e))
<1>0. e.id \in Nat BY DEF RawEvents
<1>1. PICK N \in Nat : DOMAIN p.at \subseteq 0 .. N BY DEF IsProc
<1>2. CASE IsRewrite(p, e)
  <2>1. RewrittenAt(p, e) \in [DOMAIN p.at -> Marked] BY ProcParts DEF RewrittenAt, Marked
  <2>2. IsProc([at |-> RewrittenAt(p, e), last_id |-> p.last_id])
    BY <1>1, <2>1, ProcParts, ProcMade
  <2>3. DoEvent(p, e) = Compactify([at |-> RewrittenAt(p, e), last_id |-> p.last_id])
    BY <1>2, DoEventCases
  <2> QED BY <2>2, <2>3, CompactifyKeeps
<1>3. CASE ~ IsRewrite(p, e) /\ e.value = Empty
  <2>1. DoEvent(p, e) = Compactify(p) BY <1>3, DoEventCases
  <2> QED BY <2>1, CompactifyKeeps
<1>4. CASE ~ IsRewrite(p, e) /\ e.value # Empty
  <2> DEFINE D == DOMAIN p.at \cup {e.id}
  <2>1. InsertedAt(p, e) \in [D -> Marked] BY ProcParts DEF InsertedAt, Marked
  <2>2. D \in SUBSET Nat BY <1>0, ProcParts
  <2>3. N + e.id \in Nat /\ D \subseteq 0 .. N + e.id BY <1>0, <1>1
  <2> HIDE DEF D
  <2>4. IsProc([at |-> InsertedAt(p, e), last_id |-> e.id])
    BY <1>0, <2>1, <2>2, <2>3, ProcMade
  <2>5. DoEvent(p, e) = Compactify([at |-> InsertedAt(p, e), last_id |-> e.id])
    BY <1>4, DoEventCases
  <2> QED BY <2>4, <2>5, CompactifyKeeps
<1> QED BY <1>2, <1>3, <1>4

\* The processor as it is created.
LEMMA NoEventsProc ==
  IsProc(NoEvents) /\ DOMAIN NoEvents.at = {} /\ NoEvents.last_id = 0 /\ LiveIds(NoEvents) = {}
<1> DEFINE a == [i \in {} |-> Erased]
<1>1. a \in [{} -> Marked] OBVIOUS
<1>2. {} \subseteq 0 .. 0 /\ {} \in SUBSET Nat OBVIOUS
<1> HIDE DEF a
<1>3. NoEvents = [at |-> a, last_id |-> 0] BY DEF NoEvents, a
<1>4. IsProc(NoEvents) /\ NoEvents.at = a /\ NoEvents.last_id = 0 BY <1>1, <1>2, <1>3, ProcMade
<1>5. DOMAIN NoEvents.at = {} BY <1>1, <1>4
<1> QED BY <1>4, <1>5 DEF LiveIds

\* Whatever is replayed, a processor comes out.
LEMMA AfterType ==
  ASSUME NEW s \in Seq(RawEvents)
  PROVE  IsProc(AfterEvents(s))
<1> DEFINE S == {n \in Nat : \A t \in Seq(RawEvents) : Len(t) = n => IsProc(AfterEvents(t))}
<1>1. 0 \in S
  <2>1. ASSUME NEW t \in Seq(RawEvents), Len(t) = 0 PROVE t = << >> BY <2>1
  <2> QED BY <2>1, AfterNone, NoEventsProc
<1>2. ASSUME NEW n \in Nat, n \in S PROVE n + 1 \in S
  <2> SUFFICES ASSUME NEW t \in Seq(RawEvents), Len(t) = n + 1 PROVE IsProc(AfterEvents(t)) OBVIOUS
  <2> DEFINE u == SubSeq(t, 1, n)
  <2>1. u \in Seq(RawEvents) /\ Len(u) = n /\ t[n + 1] \in RawEvents OBVIOUS
  <2>2. t = Append(u, t[n + 1]) OBVIOUS
  <2> HIDE DEF u
  <2>3. IsProc(AfterEvents(u)) BY <1>2, <2>1
  <2>4. AfterEvents(t) = DoEvent(AfterEvents(u), t[n + 1]) BY <2>1, <2>2, AfterAppend
  <2> QED BY <2>1, <2>3, <2>4, DoEventType
<1> HIDE DEF S
<1>3. \A n \in Nat : n \in S BY <1>1, <1>2, NatInd
<1>4. Len(s) \in Nat OBVIOUS
<1> QED BY <1>3, <1>4 DEF S

\* An event that the log may be given in a state of the processor: it rewrites
\* or erases an event that is there, or it is new.
Fits(p, e) ==
  \/ e.rewrite /\ e.id \in LiveIds(p)
  \/ e.id > p.last_id /\ e.value # Empty

\* A processor that was given such events only.
Sound(p) ==
  /\ IsProc(p)
  /\ DOMAIN p.at \subseteq 1 .. p.last_id
  /\ \A i \in DOMAIN p.at :
       \/ p.at[i] = Erased
       \/ p.at[i] \in Events /\ p.at[i].id = i /\ p.at[i].value # Empty

\* The event i gets the value x, or is erased.
Updated(v, i, x) ==
  [j \in (IF x = Empty THEN DOMAIN v \ {i} ELSE DOMAIN v \cup {i}) |->
     IF j = i THEN x ELSE v[j]]

\* Events are events of the bytes.
LEMMA EventsRaw ==
  ASSUME NEW e \in Events
  PROVE  /\ e \in RawEvents /\ e # Erased /\ e.id \in Ids /\ e.id \in Nat \ {0}
         /\ e.value \in Data \cup {Empty} /\ e.rewrite \in BOOLEAN
BY EventsAssumption DEF Events, RawEvents

\* What View looks like.
LEMMA ViewParts ==
  ASSUME NEW p
  PROVE  /\ DOMAIN View(p) = LiveIds(p)
         /\ \A i \in LiveIds(p) : View(p)[i] = p.at[i].value
BY DEF View

\* Two processors with the same live events have the same view.
LEMMA ViewEqual ==
  ASSUME NEW p, NEW q, LiveIds(p) = LiveIds(q), \A i \in LiveIds(p) : p.at[i] = q.at[i]
  PROVE  View(p) = View(q)
BY DEF View

\* compactify() keeps soundness and the view.
LEMMA CompactifySound ==
  ASSUME NEW p, Sound(p)
  PROVE  /\ Sound(Compactify(p)) /\ View(Compactify(p)) = View(p)
         /\ Compactify(p).last_id = p.last_id
<1> DEFINE q == Compactify(p)
<1>1. IsProc(p) BY DEF Sound
<1>2. /\ IsProc(q) /\ q.last_id = p.last_id /\ DOMAIN q.at \subseteq DOMAIN p.at
      /\ LiveIds(q) = LiveIds(p) /\ \A i \in DOMAIN q.at : q.at[i] = p.at[i]
  BY <1>1, CompactifyKeeps
<1> HIDE DEF q
<1>3. LiveIds(q) \subseteq DOMAIN q.at BY DEF LiveIds
<1>4. Sound(q) BY <1>2 DEF Sound
<1>5. View(q) = View(p) BY <1>2, <1>3, ViewEqual
<1> QED BY <1>2, <1>4, <1>5 DEF q

\* do_event() with an event that rewrites or erases one that is there.
LEMMA RewriteSound ==
  ASSUME NEW p, Sound(p), NEW e \in Events, e.rewrite, e.id \in LiveIds(p)
  PROVE  /\ Accepts(p, e)
         /\ Sound(DoEvent(p, e))
         /\ View(DoEvent(p, e)) = Updated(View(p), e.id, e.value)
         /\ DoEvent(p, e).last_id = p.last_id
<1> DEFINE a == RewrittenAt(p, e)
<1> DEFINE q == [at |-> a, last_id |-> p.last_id]
<1>1. IsProc(p) BY DEF Sound
<1>2. DOMAIN p.at \in SUBSET Nat /\ p.last_id \in Nat /\ \A i \in DOMAIN p.at : p.at[i] \in Marked
  BY <1>1, ProcParts
<1>3. e \in RawEvents /\ e # Erased /\ e.id \in Nat BY EventsRaw
<1>4. e.id \in DOMAIN p.at BY DEF LiveIds
<1>5. AtMostBack(p, e.id) BY <1>3, <1>4 DEF AtMostBack
<1>6. IsRewrite(p, e) BY <1>5 DEF IsRewrite
<1>7. DoEvent(p, e) = Compactify(q) BY <1>1, <1>6, DoEventCases
<1>8. a \in [DOMAIN p.at -> Marked] BY <1>2, <1>3 DEF RewrittenAt, Marked
<1>9. DOMAIN p.at \subseteq 1 .. p.last_id BY DEF Sound
<1>10. DOMAIN p.at \subseteq 0 .. p.last_id BY <1>9, <1>2
<1> HIDE DEF a
<1>11. IsProc(q) /\ q.at = a /\ q.last_id = p.last_id BY <1>2, <1>8, <1>10, ProcMade
<1> HIDE DEF q
<1>12. DOMAIN q.at = DOMAIN p.at BY <1>8, <1>11
<1>13. \A i \in DOMAIN p.at :
         q.at[i] = IF i = e.id THEN (IF e.value = Empty THEN Erased ELSE e) ELSE p.at[i]
  BY <1>11 DEF a, RewrittenAt
<1>14. Sound(q)
  <2>1. ASSUME NEW i \in DOMAIN p.at
        PROVE  \/ q.at[i] = Erased
               \/ q.at[i] \in Events /\ q.at[i].id = i /\ q.at[i].value # Empty
    <3>1. CASE i = e.id BY <3>1, <1>13
    <3>2. CASE i # e.id
      <4>1. q.at[i] = p.at[i] BY <3>2, <1>13
      <4> QED BY <4>1 DEF Sound
    <3> QED BY <3>1, <3>2
  <2> QED BY <1>9, <1>11, <1>12, <2>1 DEF Sound
<1>15. LiveIds(q) = IF e.value = Empty THEN LiveIds(p) \ {e.id} ELSE LiveIds(p)
  BY <1>3, <1>4, <1>12, <1>13 DEF LiveIds, ErasedIds
<1>16. View(q) = Updated(View(p), e.id, e.value)
  <2>1. LiveIds(p) = LiveIds(p) \cup {e.id} OBVIOUS
  <2>2. LiveIds(q) \subseteq DOMAIN p.at BY <1>12 DEF LiveIds
  <2>3. ASSUME NEW j \in LiveIds(q)
        PROVE  q.at[j].value = IF j = e.id THEN e.value ELSE View(p)[j]
    <3>1. CASE j = e.id
      <4>1. e.value # Empty BY <1>15, <3>1, <2>3
      <4> QED BY <4>1, <3>1, <2>2, <1>13
    <3>2. CASE j # e.id
      <4>1. q.at[j] = p.at[j] /\ j \in LiveIds(p) BY <3>2, <2>2, <1>13, <1>15
      <4> QED BY <4>1, <3>2, ViewParts
    <3> QED BY <3>1, <3>2
  <2>4. LiveIds(q) = IF e.value = Empty THEN DOMAIN View(p) \ {e.id} ELSE DOMAIN View(p) \cup {e.id}
    BY <1>15, <2>1, ViewParts
  <2> QED BY <2>3, <2>4 DEF View, Updated
<1>17. Accepts(p, e) BY <1>6 DEF Accepts
<1>18. Sound(Compactify(q)) /\ View(Compactify(q)) = View(q) /\ Compactify(q).last_id = q.last_id
  BY <1>14, CompactifySound
<1> QED BY <1>7, <1>11, <1>16, <1>17, <1>18

\* do_event() with a new event.
LEMMA InsertSound ==
  ASSUME NEW p, Sound(p), NEW e \in Events, e.id > p.last_id, e.value # Empty
  PROVE  /\ Accepts(p, e)
         /\ Sound(DoEvent(p, e))
         /\ View(DoEvent(p, e)) = Updated(View(p), e.id, e.value)
         /\ DoEvent(p, e).last_id = e.id
<1> DEFINE a == InsertedAt(p, e)
<1> DEFINE D == DOMAIN p.at \cup {e.id}
<1> DEFINE q == [at |-> a, last_id |-> e.id]
<1>1. IsProc(p) BY DEF Sound
<1>2. DOMAIN p.at \in SUBSET Nat /\ p.last_id \in Nat /\ \A i \in DOMAIN p.at : p.at[i] \in Marked
  BY <1>1, ProcParts
<1>3. e \in RawEvents /\ e # Erased /\ e.id \in Nat \ {0} BY EventsRaw
<1>4. DOMAIN p.at \subseteq 1 .. p.last_id BY DEF Sound
<1>5. \A i \in DOMAIN p.at : i < e.id BY <1>2, <1>3, <1>4
<1>6. ~ AtMostBack(p, e.id) BY <1>2, <1>3, <1>5 DEF AtMostBack
<1>7. DoEvent(p, e) = Compactify(q) BY <1>1, <1>6, DoEventCases DEF IsRewrite
<1>8. a \in [D -> Marked] BY <1>2, <1>3 DEF InsertedAt, Marked
<1>9. D \in SUBSET Nat /\ D \subseteq 0 .. e.id /\ D \subseteq 1 .. e.id BY <1>2, <1>3, <1>4
<1> HIDE DEF a, D
<1>10. IsProc(q) /\ q.at = a /\ q.last_id = e.id BY <1>3, <1>8, <1>9, ProcMade
<1> HIDE DEF q
<1>11. DOMAIN q.at = DOMAIN p.at \cup {e.id} BY <1>8, <1>10 DEF D
<1>12. \A i \in DOMAIN p.at \cup {e.id} : q.at[i] = IF i = e.id THEN e ELSE p.at[i]
  BY <1>10 DEF a, InsertedAt
<1>13. DOMAIN q.at \subseteq 1 .. q.last_id BY <1>9, <1>10, <1>11 DEF D
<1>14. Sound(q) BY <1>10, <1>11, <1>12, <1>13 DEF Sound
<1>15. LiveIds(q) = LiveIds(p) \cup {e.id}
  BY <1>3, <1>5, <1>11, <1>12 DEF LiveIds, ErasedIds
<1>16. View(q) = Updated(View(p), e.id, e.value)
  <2>1. LiveIds(q) \subseteq DOMAIN q.at BY DEF LiveIds
  <2>2. ASSUME NEW j \in LiveIds(q)
        PROVE  q.at[j].value = IF j = e.id THEN e.value ELSE View(p)[j]
    <3>1. CASE j = e.id BY <3>1, <1>12
    <3>2. CASE j # e.id
      <4>1. q.at[j] = p.at[j] /\ j \in LiveIds(p) BY <3>2, <2>1, <1>11, <1>12, <1>15
      <4> QED BY <4>1, <3>2, ViewParts
    <3> QED BY <3>1, <3>2
  <2>3. LiveIds(q) = IF e.value = Empty THEN DOMAIN View(p) \ {e.id} ELSE DOMAIN View(p) \cup {e.id}
    BY <1>15, ViewParts
  <2> QED BY <2>2, <2>3 DEF View, Updated
<1>17. Accepts(p, e) BY <1>6 DEF Accepts, IsRewrite
<1>18. Sound(Compactify(q)) /\ View(Compactify(q)) = View(q) /\ Compactify(q).last_id = q.last_id
  BY <1>14, CompactifySound
<1> QED BY <1>7, <1>10, <1>16, <1>17, <1>18

\* do_event() with an event that fits.
LEMMA FitsSound ==
  ASSUME NEW p, Sound(p), NEW e \in Events, Fits(p, e)
  PROVE  /\ Accepts(p, e)
         /\ Sound(DoEvent(p, e))
         /\ View(DoEvent(p, e)) = Updated(View(p), e.id, e.value)
         /\ DoEvent(p, e).last_id \in {p.last_id, e.id}
BY RewriteSound, InsertSound DEF Fits

\* The processor as it is created is sound.
LEMMA NoEventsSound == Sound(NoEvents) /\ DOMAIN View(NoEvents) = {}
BY NoEventsProc, ViewParts DEF Sound

\* A sequence of events each of which fits after those before it.
Fine(s) ==
  /\ s \in Seq(Events)
  /\ \A i \in 1 .. Len(s) : Fits(AfterEvents(SubSeq(s, 1, i - 1)), s[i])

\* No event.
LEMMA FineNone == Fine(<< >>)
BY DEF Fine

\* One more event, and one less.
LEMMA FineAppend ==
  ASSUME NEW s \in Seq(Events), NEW e \in Events
  PROVE  Fine(Append(s, e)) <=> Fine(s) /\ Fits(AfterEvents(s), e)
<1> DEFINE t == Append(s, e)
<1>1. /\ t \in Seq(Events) /\ Len(s) \in Nat /\ Len(t) = Len(s) + 1 /\ t[Len(t)] = e
      /\ \A i \in 1 .. Len(s) : t[i] = s[i] /\ SubSeq(t, 1, i - 1) = SubSeq(s, 1, i - 1)
      /\ SubSeq(t, 1, Len(t) - 1) = s
  OBVIOUS
<1> HIDE DEF t
<1>2. Fine(t) <=> \A i \in 1 .. Len(s) + 1 : Fits(AfterEvents(SubSeq(t, 1, i - 1)), t[i])
  BY <1>1 DEF Fine
<1>3. \A i : i \in 1 .. Len(s) + 1 <=> i \in 1 .. Len(s) \/ i = Len(t) BY <1>1
<1>4. Fine(t) <=> /\ \A i \in 1 .. Len(s) : Fits(AfterEvents(SubSeq(s, 1, i - 1)), s[i])
                  /\ Fits(AfterEvents(s), e)
  BY <1>1, <1>2, <1>3
<1> QED BY <1>4 DEF t, Fine

\* A sequence is its beginning and its last element.
LEMMA SplitLast ==
  ASSUME NEW X, NEW s \in Seq(X), NEW n \in Nat, Len(s) = n + 1
  PROVE  /\ SubSeq(s, 1, n) \in Seq(X) /\ Len(SubSeq(s, 1, n)) = n
         /\ s[n + 1] \in X /\ s = Append(SubSeq(s, 1, n), s[n + 1])
OBVIOUS

\* A beginning of a fine sequence is fine, and its replay is sound.
LEMMA FineFirst ==
  ASSUME NEW s, Fine(s)
  PROVE  \A n \in 0 .. Len(s) : Fine(SubSeq(s, 1, n)) /\ Sound(AfterEvents(SubSeq(s, 1, n)))
<1>0. s \in Seq(Events) /\ Len(s) \in Nat BY DEF Fine
<1> DEFINE S == {n \in Nat : n <= Len(s) =>
                    Fine(SubSeq(s, 1, n)) /\ Sound(AfterEvents(SubSeq(s, 1, n)))}
<1>1. 0 \in S
  <2>1. SubSeq(s, 1, 0) = << >> BY <1>0
  <2> QED BY <2>1, FineNone, AfterNone, NoEventsSound
<1>2. ASSUME NEW n \in Nat, n \in S PROVE n + 1 \in S
  <2> SUFFICES ASSUME n + 1 <= Len(s)
               PROVE  Fine(SubSeq(s, 1, n + 1)) /\ Sound(AfterEvents(SubSeq(s, 1, n + 1)))
    OBVIOUS
  <2> DEFINE t == SubSeq(s, 1, n)
  <2>1. t \in Seq(Events) /\ s[n + 1] \in Events /\ SubSeq(s, 1, n + 1) = Append(t, s[n + 1])
    BY <1>0
  <2>2. Fine(t) /\ Sound(AfterEvents(t)) BY <1>0, <1>2
  <2>3. Fits(AfterEvents(SubSeq(s, 1, (n + 1) - 1)), s[n + 1]) BY <1>0 DEF Fine
  <2>4. Fits(AfterEvents(t), s[n + 1]) BY <2>3
  <2> HIDE DEF t
  <2>5. Fine(Append(t, s[n + 1])) BY <2>1, <2>2, <2>4, FineAppend
  <2>6. AfterEvents(Append(t, s[n + 1])) = DoEvent(AfterEvents(t), s[n + 1]) BY <2>1, AfterAppend
  <2>7. Sound(AfterEvents(Append(t, s[n + 1]))) BY <2>1, <2>2, <2>4, <2>6, FitsSound
  <2> QED BY <2>1, <2>5, <2>7
<1> HIDE DEF S
<1>3. \A n \in Nat : n \in S BY <1>1, <1>2, NatInd
<1> QED BY <1>0, <1>3 DEF S

\* The replay of a fine sequence is sound.
LEMMA FineSound ==
  ASSUME NEW s, Fine(s)
  PROVE  Sound(AfterEvents(s))
<1>1. s \in Seq(Events) /\ Len(s) \in 0 .. Len(s) /\ SubSeq(s, 1, Len(s)) = s BY DEF Fine
<1> QED BY <1>1, FineFirst

\* The numbers of a fine sequence grow: no beginning of it has a greater last id.
LEMMA FineLast ==
  ASSUME NEW s, Fine(s), NEW j \in 0 .. Len(s), NEW k \in j .. Len(s)
  PROVE  AfterEvents(SubSeq(s, 1, j)).last_id <= AfterEvents(SubSeq(s, 1, k)).last_id
<1> DEFINE L(n) == AfterEvents(SubSeq(s, 1, n)).last_id
<1>0. s \in Seq(Events) /\ Len(s) \in Nat /\ j \in Nat /\ k \in Nat /\ j <= k /\ k <= Len(s) BY DEF Fine
<1>1. \A n \in 0 .. Len(s) : L(n) \in Nat
  <2> TAKE n \in 0 .. Len(s)
  <2>1. Sound(AfterEvents(SubSeq(s, 1, n))) BY FineFirst
  <2> QED BY <2>1, ProcParts DEF Sound
<1>2. ASSUME NEW n \in Nat, n + 1 <= Len(s) PROVE L(n) <= L(n + 1)
  <2> DEFINE t == SubSeq(s, 1, n)
  <2> DEFINE e == s[n + 1]
  <2>1. t \in Seq(Events) /\ e \in Events /\ SubSeq(s, 1, n + 1) = Append(t, e) BY <1>0, <1>2
  <2>2. Sound(AfterEvents(t)) BY <1>0, <1>2, FineFirst
  <2>3. Fits(AfterEvents(SubSeq(s, 1, (n + 1) - 1)), s[n + 1]) BY <1>0, <1>2 DEF Fine
  <2>4. Fits(AfterEvents(t), e) BY <2>3
  <2>5. L(n) \in Nat /\ L(n + 1) \in Nat BY <1>0, <1>1, <1>2
  <2>6. L(n) = AfterEvents(t).last_id /\ L(n + 1) = AfterEvents(Append(t, e)).last_id BY <2>1
  <2> HIDE DEF t, e, L
  <2>7. AfterEvents(Append(t, e)) = DoEvent(AfterEvents(t), e) BY <2>1, AfterAppend
  <2>8. CASE e.rewrite /\ e.id \in LiveIds(AfterEvents(t))
    <3>1. DoEvent(AfterEvents(t), e).last_id = AfterEvents(t).last_id BY <2>1, <2>2, <2>8, RewriteSound
    <3> QED BY <2>5, <2>6, <2>7, <3>1
  <2>9. CASE e.id > AfterEvents(t).last_id /\ e.value # Empty
    <3>1. DoEvent(AfterEvents(t), e).last_id \in {AfterEvents(t).last_id, e.id}
      BY <2>1, <2>2, <2>4, FitsSound
    <3>2. e.id \in Nat BY <2>1, EventsRaw
    <3> QED BY <2>5, <2>6, <2>7, <2>9, <3>1, <3>2
  <2> QED BY <2>4, <2>8, <2>9 DEF Fits
<1> DEFINE S == {n \in Nat : j + n <= Len(s) => L(j) <= L(j + n)}
<1> HIDE DEF L
<1>3. 0 \in S BY <1>0, <1>1
<1>4. ASSUME NEW n \in Nat, n \in S PROVE n + 1 \in S
  <2> SUFFICES ASSUME j + (n + 1) <= Len(s) PROVE L(j) <= L(j + (n + 1)) OBVIOUS
  <2>1. j + n \in Nat /\ j + (n + 1) = (j + n) + 1 /\ j + n <= Len(s) BY <1>0
  <2>2. L(j) <= L(j + n) BY <1>4, <2>1
  <2>3. L(j + n) <= L((j + n) + 1) BY <1>2, <2>1
  <2>4. L(j) \in Nat /\ L(j + n) \in Nat /\ L((j + n) + 1) \in Nat BY <1>0, <1>1, <2>1
  <2> QED BY <2>1, <2>2, <2>3, <2>4
<1> HIDE DEF S
<1>5. \A n \in Nat : n \in S BY <1>3, <1>4, NatInd
<1>6. k - j \in Nat /\ j + (k - j) = k BY <1>0
<1>7. L(j) <= L(k) BY <1>0, <1>5, <1>6 DEF S
<1> QED BY <1>7 DEF L

\* Each event of a fine sequence is accepted.
LEMMA FineAccepted ==
  ASSUME NEW s, Fine(s)
  PROVE  \A i \in 1 .. Len(s) : Accepts(AfterEvents(SubSeq(s, 1, i - 1)), s[i])
<1> TAKE i \in 1 .. Len(s)
<1>0. s \in Seq(Events) /\ Len(s) \in Nat BY DEF Fine
<1>1. i - 1 \in 0 .. Len(s) /\ s[i] \in Events BY <1>0
<1>2. Sound(AfterEvents(SubSeq(s, 1, i - 1))) BY <1>1, FineFirst
<1>3. Fits(AfterEvents(SubSeq(s, 1, i - 1)), s[i]) BY DEF Fine
<1> QED BY <1>1, <1>2, <1>3, FitsSound

-----------------------------------------------------------------------------
(* LiveEvents *)

\* What the recursive function of LiveEvents is.
IsWalk(g, p, N) ==
  g = [n \in 0 .. N |-> IF n = 0 THEN << >>
                        ELSE IF n \in LiveIds(p) THEN Append(g[n - 1], p.at[n])
                        ELSE g[n - 1]]

\* There is such a function for every processor.
LEMMA WalkExists ==
  ASSUME NEW p
  PROVE  \A n \in Nat : \E g : IsWalk(g, p, n)
<1> DEFINE S == {n \in Nat : \E g : IsWalk(g, p, n)}
<1>1. 0 \in S
  <2>1. IsWalk([n \in 0 .. 0 |-> << >>], p, 0) BY DEF IsWalk
  <2> QED BY <2>1
<1>2. ASSUME NEW n \in Nat, n \in S PROVE n + 1 \in S
  <2>1. PICK g : IsWalk(g, p, n) BY <1>2
  <2> DEFINE last == IF n + 1 \in LiveIds(p) THEN Append(g[n], p.at[n + 1]) ELSE g[n]
  <2> DEFINE h == [k \in 0 .. n + 1 |-> IF k <= n THEN g[k] ELSE last]
  <2>2. IsWalk(h, p, n + 1)
    <3> DEFINE W(k) == IF k = 0 THEN << >>
                       ELSE IF k \in LiveIds(p) THEN Append(h[k - 1], p.at[k]) ELSE h[k - 1]
    <3>1. ASSUME NEW k \in 0 .. n + 1 PROVE h[k] = W(k)
      <4>1. CASE k = n + 1
        <5>1. h[n] = g[n] /\ h[n + 1] = last /\ k - 1 = n /\ k # 0 BY <4>1
        <5> QED BY <5>1, <4>1
      <4>2. CASE k <= n /\ k # 0
        <5>1. h[k] = g[k] /\ k - 1 \in 0 .. n BY <4>2
        <5>2. h[k - 1] = g[k - 1] BY <5>1
        <5>3. k \in 0 .. n BY <4>2
        <5>4. g[k] = IF k \in LiveIds(p) THEN Append(g[k - 1], p.at[k]) ELSE g[k - 1]
          BY <2>1, <4>2, <5>3 DEF IsWalk
        <5> HIDE DEF h
        <5> QED BY <5>1, <5>2, <5>4, <4>2
      <4>3. CASE k = 0
        <5>1. g[0] = << >> BY <2>1 DEF IsWalk
        <5> QED BY <4>3, <5>1
      <4> QED BY <4>1, <4>2, <4>3
    <3>2. h = [k \in 0 .. n + 1 |-> h[k]] OBVIOUS
    <3> HIDE DEF h
    <3>3. h = [k \in 0 .. n + 1 |-> W(k)] BY <3>1, <3>2
    <3> QED BY <3>3 DEF IsWalk
  <2> QED BY <2>2
<1> HIDE DEF S
<1>3. \A n \in Nat : n \in S BY <1>1, <1>2, NatInd
<1> QED BY <1>3 DEF S

\* LiveEvents is the last value of such a function.
LEMMA LiveWalk ==
  ASSUME NEW p, Max({0} \cup DOMAIN p.at) \in Nat
  PROVE  \E g : /\ IsWalk(g, p, Max({0} \cup DOMAIN p.at))
                /\ LiveEvents(p) = g[Max({0} \cup DOMAIN p.at)]
<1> DEFINE N == Max({0} \cup DOMAIN p.at)
<1> DEFINE g == CHOOSE h : h = [n \in 0 .. N |->
                  IF n = 0 THEN << >>
                  ELSE IF n \in LiveIds(p) THEN Append(h[n - 1], p.at[n])
                  ELSE h[n - 1]]
<1>1. LiveEvents(p) = g[N] BY DEF LiveEvents
<1>2. IsWalk(g, p, N)
  <2> HIDE DEF N
  <2>1. \E h : IsWalk(h, p, N) BY WalkExists DEF N
  <2>2. \E h : h = [n \in 0 .. N |-> IF n = 0 THEN << >>
                       ELSE IF n \in LiveIds(p) THEN Append(h[n - 1], p.at[n])
                       ELSE h[n - 1]]
    BY <2>1, Zenon DEF IsWalk
  <2> QED BY <2>2, Zenon DEF IsWalk
<1> QED BY <1>1, <1>2

\* The steps of the walk.
LEMMA WalkSteps ==
  ASSUME NEW p, NEW N \in Nat, NEW g, IsWalk(g, p, N)
  PROVE  /\ g[0] = << >>
         /\ \A n \in Nat : n + 1 <= N =>
              g[n + 1] = IF n + 1 \in LiveIds(p) THEN Append(g[n], p.at[n + 1]) ELSE g[n]
<1>1. g[0] = << >> BY DEF IsWalk
<1>2. ASSUME NEW n \in Nat, n + 1 <= N
      PROVE  g[n + 1] = IF n + 1 \in LiveIds(p) THEN Append(g[n], p.at[n + 1]) ELSE g[n]
  <2>1. n + 1 \in 0 .. N /\ n + 1 # 0 /\ (n + 1) - 1 = n BY <1>2
  <2>2. g[n + 1] = IF n + 1 \in LiveIds(p) THEN Append(g[(n + 1) - 1], p.at[n + 1])
                   ELSE g[(n + 1) - 1]
    BY <2>1 DEF IsWalk
  <2> QED BY <2>1, <2>2
<1> QED BY <1>1, <1>2

\* The ids of a processor are at most Max({0} \cup DOMAIN p.at).
LEMMA LastIndex ==
  ASSUME NEW p, NEW N \in Nat, DOMAIN p.at \subseteq 0 .. N
  PROVE  /\ Max({0} \cup DOMAIN p.at) \in 0 .. N
         /\ \A i \in DOMAIN p.at : i <= Max({0} \cup DOMAIN p.at)
<1> DEFINE S == {0} \cup DOMAIN p.at
<1>1. S \in SUBSET (0 .. N) /\ S # {} OBVIOUS
<1>2. Max(S) \in S /\ \A y \in S : y <= Max(S) BY <1>1, MaxOf
<1>3. Max(S) \in 0 .. N BY <1>1, <1>2
<1> QED BY <1>2, <1>3

\* The live events of a processor are a sequence of events.
LEMMA LiveEventsType ==
  ASSUME NEW p, IsProc(p)
  PROVE  LiveEvents(p) \in Seq(RawEvents)
<1> DEFINE M == Max({0} \cup DOMAIN p.at)
<1>1. PICK N \in Nat : DOMAIN p.at \subseteq 0 .. N BY DEF IsProc
<1>2. M \in Nat BY <1>1, LastIndex
<1>3. PICK g : IsWalk(g, p, M) /\ LiveEvents(p) = g[M] BY <1>2, LiveWalk
<1> HIDE DEF M
<1> DEFINE S == {n \in Nat : n <= M => g[n] \in Seq(RawEvents)}
<1>4. 0 \in S
  <2>1. g[0] = << >> BY <1>2, <1>3, WalkSteps
  <2>2. << >> \in Seq(RawEvents) OBVIOUS
  <2> QED BY <2>1, <2>2
<1>5. ASSUME NEW n \in Nat, n \in S PROVE n + 1 \in S
  <2> SUFFICES ASSUME n + 1 <= M PROVE g[n + 1] \in Seq(RawEvents) OBVIOUS
  <2>1. g[n] \in Seq(RawEvents) BY <1>2, <1>5
  <2>2. g[n + 1] = IF n + 1 \in LiveIds(p) THEN Append(g[n], p.at[n + 1]) ELSE g[n]
    BY <1>2, <1>3, WalkSteps
  <2>3. n + 1 \in LiveIds(p) => p.at[n + 1] \in RawEvents
    BY ProcParts DEF LiveIds, ErasedIds, Marked
  <2> QED BY <2>1, <2>2, <2>3
<1> HIDE DEF S
<1>6. \A n \in Nat : n \in S BY <1>4, <1>5, NatInd
<1> QED BY <1>2, <1>3, <1>6 DEF S

\* The live events up to the id n stand for the part of the view up to n.
Part(p, n) == [i \in {j \in LiveIds(p) : j <= n} |-> p.at[i].value]
Regains(s, p, n) ==
  /\ Fine(s) /\ Len(s) <= n
  /\ AfterEvents(s).last_id <= n
  /\ View(AfterEvents(s)) = Part(p, n)

\* One id more.
LEMMA WalkRegains ==
  ASSUME NEW p, Sound(p), NEW n \in Nat, NEW s, Regains(s, p, n)
  PROVE  Regains(IF n + 1 \in LiveIds(p) THEN Append(s, p.at[n + 1]) ELSE s, p, n + 1)
<1> DEFINE e == p.at[n + 1]
<1>0. IsProc(p) /\ DOMAIN p.at \subseteq Nat /\ LiveIds(p) \subseteq DOMAIN p.at
  BY ProcParts DEF Sound, LiveIds
<1>1. s \in Seq(Events) /\ Len(s) \in Nat /\ Fine(s) BY DEF Regains, Fine
<1>2. Sound(AfterEvents(s)) BY <1>1, FineSound
<1>3. AfterEvents(s).last_id \in Nat BY <1>2, ProcParts DEF Sound
<1>4. CASE n + 1 \in LiveIds(p)
  <2>1. e \in Events /\ e.id = n + 1 /\ e.value # Empty
    BY <1>4 DEF Sound, LiveIds, ErasedIds
  <2> HIDE DEF e
  <2>2. Fits(AfterEvents(s), e) BY <1>3, <2>1 DEF Fits, Regains
  <2>3. Fine(Append(s, e)) BY <1>1, <2>1, <2>2, FineAppend
  <2>4. AfterEvents(Append(s, e)) = DoEvent(AfterEvents(s), e) BY <1>1, <2>1, AfterAppend
  <2>5. /\ View(AfterEvents(Append(s, e))) = Updated(View(AfterEvents(s)), e.id, e.value)
        /\ AfterEvents(Append(s, e)).last_id \in {AfterEvents(s).last_id, e.id}
    BY <1>2, <2>1, <2>2, <2>4, FitsSound
  <2>6. AfterEvents(Append(s, e)).last_id <= n + 1 BY <1>3, <2>1, <2>5 DEF Regains
  <2>7. Updated(Part(p, n), n + 1, e.value) = Part(p, n + 1)
    <3>1. {j \in LiveIds(p) : j <= n + 1} = {j \in LiveIds(p) : j <= n} \cup {n + 1}
      BY <1>0, <1>4
    <3>2. DOMAIN Part(p, n) = {j \in LiveIds(p) : j <= n} BY DEF Part
    <3>3. \A j \in {i \in LiveIds(p) : i <= n} : Part(p, n)[j] = p.at[j].value BY DEF Part
    <3>4. n + 1 \notin {j \in LiveIds(p) : j <= n} OBVIOUS
    <3> QED BY <2>1, <3>1, <3>2, <3>3, <3>4 DEF Part, Updated, e
  <2>8. Len(Append(s, e)) <= n + 1 BY <1>1, <2>1 DEF Regains
  <2>9. View(AfterEvents(Append(s, e))) = Part(p, n + 1) BY <2>1, <2>5, <2>7 DEF Regains
  <2> QED BY <1>4, <2>3, <2>6, <2>8, <2>9 DEF Regains, e
<1>5. CASE n + 1 \notin LiveIds(p)
  <2>1. {j \in LiveIds(p) : j <= n + 1} = {j \in LiveIds(p) : j <= n} BY <1>0, <1>5
  <2>2. Part(p, n + 1) = Part(p, n) BY <2>1 DEF Part
  <2> QED BY <1>1, <1>3, <1>5, <2>2 DEF Regains
<1> QED BY <1>4, <1>5

\* Replaying the live events gives the events again, whatever the numbers of the
\* erased ones were.
LEMMA LiveEventsRegain ==
  ASSUME NEW p, Sound(p)
  PROVE  /\ Fine(LiveEvents(p))
         /\ View(AfterEvents(LiveEvents(p))) = View(p)
         /\ AfterEvents(LiveEvents(p)).last_id <= p.last_id
         /\ Len(LiveEvents(p)) <= p.last_id
<1> DEFINE M == Max({0} \cup DOMAIN p.at)
<1>0. IsProc(p) /\ p.last_id \in Nat /\ LiveIds(p) \subseteq DOMAIN p.at
  BY ProcParts DEF Sound, LiveIds
<1>1. DOMAIN p.at \subseteq 0 .. p.last_id BY <1>0 DEF Sound
<1>2. M \in 0 .. p.last_id /\ \A i \in DOMAIN p.at : i <= M BY <1>0, <1>1, LastIndex
<1>3. PICK g : IsWalk(g, p, M) /\ LiveEvents(p) = g[M] BY <1>0, <1>2, LiveWalk
<1> HIDE DEF M
<1> DEFINE S == {n \in Nat : n <= M => Regains(g[n], p, n)}
<1>4. 0 \in S
  <2>1. g[0] = << >> BY <1>0, <1>2, <1>3, WalkSteps
  <2>2. {j \in LiveIds(p) : j <= 0} = {} BY <1>0 DEF Sound
  <2>3. View(NoEvents) = Part(p, 0) BY <2>2, NoEventsProc DEF View, Part
  <2>4. Regains(<< >>, p, 0) BY <2>3, FineNone, AfterNone, NoEventsProc DEF Regains
  <2> QED BY <2>1, <2>4
<1>5. ASSUME NEW n \in Nat, n \in S PROVE n + 1 \in S
  <2> SUFFICES ASSUME n + 1 <= M PROVE Regains(g[n + 1], p, n + 1) OBVIOUS
  <2>1. Regains(g[n], p, n) BY <1>0, <1>2, <1>5
  <2>2. g[n + 1] = IF n + 1 \in LiveIds(p) THEN Append(g[n], p.at[n + 1]) ELSE g[n]
    BY <1>0, <1>2, <1>3, WalkSteps
  <2> QED BY <2>1, <2>2, WalkRegains
<1> HIDE DEF S
<1>6. \A n \in Nat : n \in S BY <1>4, <1>5, NatInd
<1>7. Regains(LiveEvents(p), p, M) BY <1>0, <1>2, <1>3, <1>6 DEF S
<1>8. {j \in LiveIds(p) : j <= M} = LiveIds(p) BY <1>0, <1>2
<1>9. Part(p, M) = View(p) BY <1>8 DEF Part, View
<1>10. Fine(LiveEvents(p)) /\ LiveEvents(p) \in Seq(Events) BY <1>7 DEF Regains, Fine
<1>11. AfterEvents(LiveEvents(p)).last_id \in Nat
  BY <1>10, FineSound, ProcParts DEF Sound
<1> QED BY <1>0, <1>2, <1>7, <1>9, <1>10, <1>11 DEF Regains

-----------------------------------------------------------------------------
=============================================================================
