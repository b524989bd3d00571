------------------------ MODULE BinlogKeyValueProofs ------------------------
(***************************************************************************)
(* Proofs about BinlogKeyValue, for any threads, keys, values and numbers. *)
(*                                                                         *)
(* The invariant speaks of two functions that no variable holds: W[n] is   *)
(* the replay of the log up to the number n, a function from ids to        *)
(* entries, and E[n] the event with that number.  The file stands for one  *)
(* W[n], each event still under way leads from W[n - 1] to W[n], and the   *)
(* map in memory is the map of the last.  So it does not matter in which   *)
(* order events come to the log, and a beginning of the file stands for an *)
(* earlier W[n].  A restart syncs nothing: the moments that the file still *)
(* has are counted back from its last id, so that the next restart may go  *)
(* back to one of them, and numbers before the first event are negative.   *)
(***************************************************************************)
EXTENDS BinlogKeyValue, BinlogEventsProcessorProofs, FiniteSetTheorems

-----------------------------------------------------------------------------
(* The map and the events *)

OfKey(w, k) == {i \in DOMAIN w : w[i][1] = k}

\* The map that the events w, given by their ids, stand for.
MapOf(w) ==
  [k \in {j \in Keys : OfKey(w, j) # {}} |->
     [value |-> w[Min(OfKey(w, k))][2], id |-> Min(OfKey(w, k))]]

\* Ids not above n, and no key twice.
Good(w, n) ==
  /\ DOMAIN w \subseteq 1 .. n
  /\ w \in [DOMAIN w -> Data]
  /\ \A i, j \in DOMAIN w : w[i][1] = w[j][1] => i = j

\* The event e with the number n makes x of w.
Makes(e, n, w, x) ==
  /\ e \in Events
  /\ (e.rewrite /\ e.id \in DOMAIN w) \/ (e.id = n /\ e.value # Empty)
  /\ x = Updated(w, e.id, e.value)

\* The events s are replayed to w.
Stands(s, w, n) == View(AfterEvents(s)) = w /\ AfterEvents(s).last_id <= n

\* A greater bound on the ids.
LEMMA GoodMore ==
  ASSUME NEW n \in Nat, NEW m \in Nat, n <= m, NEW w, Good(w, n)
  PROVE  Good(w, m)
BY DEF Good

\* A greater bound on the last id.
LEMMA StandsMore ==
  ASSUME NEW s, NEW w, NEW n \in Int, NEW m \in Int, n <= m, Stands(s, w, n),
         AfterEvents(s).last_id \in Nat
  PROVE  Stands(s, w, m)
BY DEF Stands

\* A key of w has one id.
LEMMA KeyMin ==
  ASSUME NEW n \in Nat, NEW w, Good(w, n), NEW i \in DOMAIN w
  PROVE  OfKey(w, w[i][1]) = {i} /\ Min(OfKey(w, w[i][1])) = i /\ i \in Nat /\ w[i] \in Data
         /\ w[i][1] \in Keys /\ w[i][2] \in Values
<1>1. OfKey(w, w[i][1]) = {i} BY DEF OfKey, Good
<1>2. i \in Nat BY DEF Good
<1>3. Min({i}) = i BY <1>2 DEF Min
<1>4. w[i] \in Data BY DEF Good
<1>5. w[i][1] \in Keys /\ w[i][2] \in Values BY <1>4, EntriesAssumption
<1> QED BY <1>1, <1>2, <1>3, <1>4, <1>5, Zenon

\* What the map of w is.
LEMMA MapParts ==
  ASSUME NEW n \in Nat, NEW w, Good(w, n)
  PROVE  /\ DOMAIN MapOf(w) = {w[i][1] : i \in DOMAIN w}
         /\ \A i \in DOMAIN w : MapOf(w)[w[i][1]] = [value |-> w[i][2], id |-> i]
<1> DEFINE D == {j \in Keys : OfKey(w, j) # {}}
<1>1. D = {w[i][1] : i \in DOMAIN w}
  <2>1. ASSUME NEW k \in D PROVE k \in {w[i][1] : i \in DOMAIN w} BY DEF OfKey
  <2>2. ASSUME NEW i \in DOMAIN w PROVE w[i][1] \in D
    <3>1. OfKey(w, w[i][1]) = {i} /\ w[i][1] \in Keys BY KeyMin, Zenon
    <3> QED BY <3>1
  <2> QED BY <2>1, <2>2
<1>2. DOMAIN MapOf(w) = D BY DEF MapOf
<1>3. ASSUME NEW i \in DOMAIN w PROVE MapOf(w)[w[i][1]] = [value |-> w[i][2], id |-> i]
  <2>1. w[i][1] \in D BY <1>1
  <2>2. Min(OfKey(w, w[i][1])) = i BY KeyMin
  <2> HIDE DEF D
  <2>3. MapOf(w) = [k \in D |-> [value |-> w[Min(OfKey(w, k))][2], id |-> Min(OfKey(w, k))]]
    BY Zenon DEF MapOf, D
  <2> QED BY <2>1, <2>2, <2>3
<1> QED BY <1>1, <1>2, <1>3

\* A function with that domain and those values is the map of w.
LEMMA IsMapOf ==
  ASSUME NEW n \in Nat, NEW w, Good(w, n), NEW D, NEW f, DOMAIN f = D, f = [k \in D |-> f[k]],
         \A k \in D : \E i \in DOMAIN w : w[i][1] = k /\ f[k] = [value |-> w[i][2], id |-> i],
         \A i \in DOMAIN w : w[i][1] \in D
  PROVE  f = MapOf(w)
<1>0. /\ DOMAIN MapOf(w) = {w[i][1] : i \in DOMAIN w}
      /\ \A i \in DOMAIN w : MapOf(w)[w[i][1]] = [value |-> w[i][2], id |-> i]
  BY ONLY n \in Nat, Good(w, n), MapParts, Zenon
<1>1. DOMAIN MapOf(w) = D BY <1>0
<1>2. ASSUME NEW k \in D PROVE f[k] = MapOf(w)[k]
  <2>1. PICK i \in DOMAIN w : w[i][1] = k /\ f[k] = [value |-> w[i][2], id |-> i] OBVIOUS
  <2> QED BY <2>1, <1>0
<1>3. MapOf(w) = [k \in DOMAIN MapOf(w) |-> MapOf(w)[k]] BY DEF MapOf
<1> QED BY <1>1, <1>2, <1>3

\* emplace() of the live events gives their map.
LEMMA EmplacedIs ==
  ASSUME NEW p, NEW n \in Nat, Good(View(p), n)
  PROVE  Emplaced(p) = MapOf(View(p))
<1> DEFINE w == View(p)
<1> DEFINE of(k) == {i \in LiveIds(p) : p.at[i].value[1] = k}
<1>1. DOMAIN w = LiveIds(p) /\ \A i \in LiveIds(p) : w[i] = p.at[i].value BY ViewParts
<1>2. \A k : of(k) = OfKey(w, k) BY <1>1 DEF OfKey
<1>3. Emplaced(p) = [k \in {j \in Keys : of(j) # {}} |->
                       [value |-> p.at[Min(of(k))].value[2], id |-> Min(of(k))]]
  BY Zenon DEF Emplaced
<1>4. ASSUME NEW k, of(k) # {}
      PROVE  Min(of(k)) \in LiveIds(p) /\ p.at[Min(of(k))].value = w[Min(OfKey(w, k))]
  <2>1. PICK i \in DOMAIN w : w[i][1] = k BY <1>1, <1>4
  <2>2. Min(OfKey(w, k)) = i BY <2>1, KeyMin
  <2>3. of(k) = OfKey(w, k) BY <1>2
  <2> QED BY <2>1, <2>2, <2>3, <1>1
<1> HIDE DEF w, of
<1>5. MapOf(w) = [k \in {j \in Keys : OfKey(w, j) # {}} |->
                    [value |-> w[Min(OfKey(w, k))][2], id |-> Min(OfKey(w, k))]]
  BY Zenon DEF MapOf
<1>6. Emplaced(p) = MapOf(w) BY <1>2, <1>3, <1>4, <1>5
<1> QED BY <1>6 DEF w

\* What it keeps of the keys and values.
LEMMA MapType ==
  ASSUME NEW n \in Nat, NEW w, Good(w, n)
  PROVE  /\ DOMAIN MapOf(w) \subseteq Keys
         /\ \A k \in DOMAIN MapOf(w) :
              /\ MapOf(w)[k] \in [value : Values, id : 1 .. n]
              /\ MapOf(w)[k].id \in DOMAIN w /\ w[MapOf(w)[k].id] = <<k, MapOf(w)[k].value>>
<1> SUFFICES ASSUME NEW k \in DOMAIN MapOf(w)
             PROVE  /\ k \in Keys /\ MapOf(w)[k] \in [value : Values, id : 1 .. n]
                    /\ MapOf(w)[k].id \in DOMAIN w /\ w[MapOf(w)[k].id] = <<k, MapOf(w)[k].value>>
  OBVIOUS
<1>0. /\ DOMAIN MapOf(w) = {w[i][1] : i \in DOMAIN w}
      /\ \A i \in DOMAIN w : MapOf(w)[w[i][1]] = [value |-> w[i][2], id |-> i]
  BY MapParts, Zenon
<1>1. PICK i \in DOMAIN w : k = w[i][1] BY <1>0
<1>2. MapOf(w)[k] = [value |-> w[i][2], id |-> i] BY <1>1, <1>0
<1>3. w[i] \in Data /\ w[i][1] \in Keys /\ w[i][2] \in Values BY KeyMin
<1>4. i \in 1 .. n BY DEF Good
<1>5. w[i] = <<w[i][1], w[i][2]>> BY <1>3, EntriesAssumption
<1> QED BY <1>1, <1>2, <1>3, <1>4, <1>5

-----------------------------------------------------------------------------
(* The file *)

\* The last event may as well be appended to the whole.
LEMMA ConcatAppend ==
  ASSUME NEW X, NEW s \in Seq(X), NEW b \in Seq(X), NEW e \in X
  PROVE  s \o b \in Seq(X) /\ s \o Append(b, e) = Append(s \o b, e)
OBVIOUS

\* Events that follow one another are replayed one after the other.
LEMMA Continued ==
  ASSUME NEW s, Fine(s), NEW d \in Nat, NEW W, NEW E, NEW N \in Nat,
         NEW a \in Seq(Events), Len(a) = N, Stands(s, W[d], d),
         \A i \in 1 .. N : a[i] = E[d + i] /\ Makes(E[d + i], d + i, W[d + i - 1], W[d + i])
  PROVE  \A i \in 0 .. N : /\ Fine(s \o SubSeq(a, 1, i))
                           /\ Stands(s \o SubSeq(a, 1, i), W[d + i], d + i)
<1> DEFINE S == {i \in Nat : i <= N => /\ Fine(s \o SubSeq(a, 1, i))
                                       /\ Stands(s \o SubSeq(a, 1, i), W[d + i], d + i)}
<1>0. s \in Seq(Events) BY DEF Fine
<1>1. 0 \in S
  <2>1. s \o SubSeq(a, 1, 0) = s BY <1>0
  <2>2. d + 0 = d OBVIOUS
  <2> QED BY <2>1, <2>2
<1>2. ASSUME NEW i \in Nat, i \in S PROVE i + 1 \in S
  <2> SUFFICES ASSUME i + 1 <= N
               PROVE  /\ Fine(s \o SubSeq(a, 1, i + 1))
                      /\ Stands(s \o SubSeq(a, 1, i + 1), W[d + (i + 1)], d + (i + 1))
    OBVIOUS
  <2> DEFINE t == s \o SubSeq(a, 1, i)
  <2> DEFINE e == a[i + 1]
  <2> DEFINE p == AfterEvents(t)
  <2>1. /\ t \in Seq(Events) /\ e \in Events
        /\ s \o SubSeq(a, 1, i + 1) = Append(t, e)
    <3> DEFINE b == SubSeq(a, 1, i)
    <3>1. b \in Seq(Events) /\ e \in Events /\ SubSeq(a, 1, i + 1) = Append(b, e) OBVIOUS
    <3> HIDE DEF b, e
    <3>2. s \o b \in Seq(Events) /\ s \o Append(b, e) = Append(s \o b, e)
      <4>1. s \in Seq(Events) /\ b \in Seq(Events) /\ e \in Events BY <1>0, <3>1
      <4> QED BY ONLY <4>1, ConcatAppend
    <3> QED BY <3>1, <3>2, Zenon DEF b
  <2>2. Fine(t) /\ View(p) = W[d + i] /\ p.last_id <= d + i
    BY <1>2 DEF Stands
  <2>3. /\ e = E[d + (i + 1)] /\ d + (i + 1) - 1 = d + i
        /\ Makes(E[d + (i + 1)], d + (i + 1), W[d + (i + 1) - 1], W[d + (i + 1)])
    <3>1. i + 1 \in 1 .. N OBVIOUS
    <3> QED BY <3>1
  <2>4. Makes(e, d + (i + 1), View(p), W[d + (i + 1)]) BY <2>2, <2>3
  <2>5. Sound(p) BY <2>2, FineSound
  <2>6. DOMAIN View(p) = LiveIds(p) BY ViewParts
  <2>7. p.last_id \in Nat BY <2>5, ProcParts DEF Sound
  <2> HIDE DEF e, p
  <2>8. Fits(p, e)
    <3>1. CASE e.rewrite /\ e.id \in DOMAIN View(p) BY <3>1, <2>6 DEF Fits
    <3>2. CASE e.id = d + (i + 1) /\ e.value # Empty BY <3>2, <2>2, <2>7 DEF Fits
    <3> QED BY <3>1, <3>2, <2>4 DEF Makes
  <2>9. /\ View(DoEvent(p, e)) = Updated(View(p), e.id, e.value)
        /\ DoEvent(p, e).last_id \in {p.last_id, e.id}
    BY <2>1, <2>5, <2>8, FitsSound
  <2>10. e.id <= d + (i + 1)
    <3>1. CASE e.id \in LiveIds(p)
      <4>1. e.id \in 1 .. p.last_id BY <3>1, <2>5 DEF Sound, LiveIds
      <4> QED BY <4>1, <2>2, <2>7
    <3>2. CASE e.id = d + (i + 1) BY <3>2
    <3> QED BY <3>1, <3>2, <2>4, <2>6 DEF Makes
  <2>11. Fine(Append(t, e)) BY <2>1, <2>2, <2>8, FineAppend DEF p
  <2>12. AfterEvents(Append(t, e)) = DoEvent(p, e) BY <2>1, AfterAppend DEF p
  <2>13. DoEvent(p, e).last_id <= d + (i + 1) BY <2>2, <2>7, <2>9, <2>10
  <2>14. View(DoEvent(p, e)) = W[d + (i + 1)] BY <2>4, <2>9 DEF Makes
  <2>15. Stands(Append(t, e), W[d + (i + 1)], d + (i + 1)) BY <2>12, <2>13, <2>14 DEF Stands
  <2> QED BY <2>1, <2>11, <2>15, Zenon
<1> HIDE DEF S
<1>3. \A i \in Nat : i \in S BY <1>1, <1>2, NatInd
<1> QED BY <1>3 DEF S

\* The beginnings of a longer sequence.
LEMMA Beginnings ==
  ASSUME NEW X, NEW s \in Seq(X), NEW a \in Seq(X)
  PROVE  /\ s \o a \in Seq(X) /\ Len(s \o a) = Len(s) + Len(a)
         /\ \A j \in 0 .. Len(s) : SubSeq(s \o a, 1, j) = SubSeq(s, 1, j)
         /\ \A i \in 0 .. Len(a) : SubSeq(s \o a, 1, Len(s) + i) = s \o SubSeq(a, 1, i)
         /\ s \o SubSeq(a, 1, Len(a)) = s \o a
<1>1. s \o a \in Seq(X) /\ Len(s \o a) = Len(s) + Len(a) OBVIOUS
<1>2. ASSUME NEW j \in 0 .. Len(s) PROVE SubSeq(s \o a, 1, j) = SubSeq(s, 1, j) OBVIOUS
<1>3. ASSUME NEW i \in 0 .. Len(a) PROVE SubSeq(s \o a, 1, Len(s) + i) = s \o SubSeq(a, 1, i)
  OBVIOUS
<1>4. SubSeq(a, 1, Len(a)) = a OBVIOUS
<1> QED BY <1>1, <1>2, <1>3, <1>4, Zenon

-----------------------------------------------------------------------------
(* The invariant *)

\* An event on its way, with its number.
Sent == [seq_no : Nat, event : Events]

\* The numbers taken and written, and the bounds of what depends on them.
NumbersOK ==
  /\ last_id \in 1 .. MaxNumber + 1
  /\ next \in 1 .. last_id
  /\ synced \in 0 .. Len(file)
  /\ waiting \subseteq next .. last_id - 1
  /\ DOMAIN came \subseteq 1 .. last_id - 1
  /\ \A n \in DOMAIN hist : n \in Int /\ n < last_id

\* The beginnings of the file that a restart may keep.
FileOK(W) ==
  /\ Fine(file)
  /\ \A j \in synced .. Len(file) : Stands(SubSeq(file, 1, j), W[Moment(j)], next - 1)

\* W[n] are the events of the map after number n.
PastOK(W) ==
  /\ \A n \in Moment(synced) .. last_id - 1 :
       Good(W[n], last_id - 1) /\ n \in DOMAIN hist /\ hist[n] = Contents(MapOf(W[n]))
  /\ map = MapOf(W[last_id - 1])

\* E[n] is the event with number n, for the numbers the log has not written.
EventsOK(W, E) ==
  /\ \A n \in next .. last_id - 1 : Makes(E[n], n, W[n - 1], W[n])
  /\ \A n \in waiting : n \in DOMAIN came /\ came[n] = E[n]

\* Every one of them is at the log or with one thread.
HeldOK(E) ==
  /\ held \in [Threads -> Seq(Sent)]
  /\ \A t \in Threads : \A i \in 1 .. Len(held[t]) :
       /\ held[t][i].seq_no \in next .. last_id - 1
       /\ held[t][i].seq_no \notin waiting
       /\ held[t][i].event = E[held[t][i].seq_no]
  /\ \A t, u \in Threads : \A i \in 1 .. Len(held[t]), j \in 1 .. Len(held[u]) :
       held[t][i].seq_no = held[u][j].seq_no => t = u /\ i = j

Inv(W, E) == NumbersOK /\ FileOK(W) /\ PastOK(W) /\ EventsOK(W, E) /\ HeldOK(E)

\* The inductive invariant.
KInv == \E W, E : Inv(W, E)

-----------------------------------------------------------------------------
(* Steps *)

\* What the numbers are.
LEMMA Numbers ==
  ASSUME NumbersOK, NEW W, FileOK(W)
  PROVE  /\ last_id \in Nat /\ next \in Nat /\ next >= 1 /\ next <= last_id
         /\ file \in Seq(Events) /\ Len(file) \in Nat /\ synced \in Nat /\ synced <= Len(file)
         /\ \A j \in synced .. Len(file) : Moment(j) \in Int /\ Moment(j) <= next - 1 /\ Moment(synced) <= Moment(j)
         /\ Moment(Len(file)) = next - 1
<1>1. last_id \in Nat /\ next \in Nat /\ next >= 1 /\ next <= last_id
  BY KeyValueAssumption DEF NumbersOK
<1>2. file \in Seq(Events) /\ Len(file) \in Nat BY DEF FileOK, Fine
<1>3. synced \in Nat /\ synced <= Len(file) BY <1>2 DEF NumbersOK
<1>4. ASSUME NEW j \in synced .. Len(file)
      PROVE  Moment(j) \in Int /\ Moment(j) <= next - 1 /\ Moment(synced) <= Moment(j)
  BY <1>1, <1>2, <1>3 DEF Moment
<1>5. Moment(Len(file)) = next - 1 BY <1>1, <1>2 DEF Moment
<1> QED BY <1>1, <1>2, <1>3, <1>4, <1>5

\* set() and erase(): N events with the next numbers.
LEMMA LogStep ==
  ASSUME NEW W, NEW E, Inv(W, E), NEW t \in Threads, NEW N \in Nat \ {0},
         NEW events, Len(events) = N, NEW maps, NEW V, V[0] = W[last_id - 1],
         \A i \in 1 .. N : /\ Makes(events[i], last_id + i - 1, V[i - 1], V[i])
                           /\ Good(V[i], last_id + i - 1)
                           /\ maps[i] = MapOf(V[i]),
         map' = MapOf(V[N]), Log(t, events, maps)
  PROVE  KInv'
<1>1. PICK A, B : /\ A = [n \in Int |-> IF n < last_id THEN W[n] ELSE V[n - last_id + 1]]
                  /\ B = [n \in Int |-> IF n < last_id THEN E[n] ELSE events[n - last_id + 1]]
  BY Zenon
<1>0. NumbersOK /\ FileOK(W) /\ PastOK(W) /\ EventsOK(W, E) /\ HeldOK(E) BY DEF Inv
<1>2. /\ last_id \in Nat /\ next \in Nat /\ next >= 1 /\ next <= last_id
      /\ file \in Seq(Events) /\ Len(file) \in Nat /\ synced \in Nat /\ synced <= Len(file)
      /\ \A j \in synced .. Len(file) : Moment(j) \in Int /\ Moment(j) <= next - 1 /\ Moment(synced) <= Moment(j)
      /\ Moment(Len(file)) = next - 1
  BY <1>0, Numbers
<1>3. \A n \in Int : n < last_id => A[n] = W[n] /\ B[n] = E[n] BY <1>1
<1>4. ASSUME NEW i \in 1 .. N
      PROVE  A[last_id + i - 1] = V[i] /\ B[last_id + i - 1] = events[i] /\ A[last_id + i - 2] = V[i - 1]
  <2>1. A[last_id + i - 1] = V[i] /\ B[last_id + i - 1] = events[i] BY <1>1, <1>2
  <2>2. CASE i = 1
    <3>1. A[last_id - 1] = W[last_id - 1] BY <1>2, <1>3
    <3>2. last_id + i - 2 = last_id - 1 /\ i - 1 = 0 BY <2>2, <1>2
    <3> QED BY <2>1, <3>1, <3>2
  <2>3. CASE i # 1
    <3>0. \A n \in Int : ~(n < last_id) => A[n] = V[n - last_id + 1] BY <1>1
    <3>1. PICK k \in Int : k = last_id + i - 2 BY <1>2
    <3>2. ~(k < last_id) /\ k - last_id + 1 = i - 1 BY <2>3, <3>1, <1>2
    <3>3. A[k] = V[k - last_id + 1] BY <3>0, <3>2
    <3> QED BY <2>1, <3>1, <3>2, <3>3
  <2> QED BY <2>2, <2>3
<1>5. /\ last_id + N <= MaxNumber + 1 /\ last_id' = last_id + N
      /\ held' = [held EXCEPT ![t] = @ \o [i \in 1 .. N |->
                    [seq_no |-> last_id + i - 1, event |-> events[i]]]]
      /\ hist' = [n \in DOMAIN hist \cup last_id .. last_id + N - 1 |->
                    IF n \in DOMAIN hist THEN hist[n] ELSE Contents(maps[n - last_id + 1])]
      /\ UNCHANGED <<came, next, waiting, file, synced>>
  BY DEF Log
<1>6. NumbersOK'
  <2>1. DOMAIN hist' = DOMAIN hist \cup last_id .. last_id + N - 1 BY <1>5
  <2>2. \A n \in DOMAIN hist' : n \in Int /\ n < last_id' BY <2>1, <1>0, <1>2, <1>5 DEF NumbersOK
  <2>3. last_id' \in 1 .. MaxNumber + 1 BY <1>2, <1>5, KeyValueAssumption
  <2> QED BY <2>2, <2>3, <1>0, <1>2, <1>5 DEF NumbersOK
<1>7. \A j : Moment(j)' = Moment(j) BY <1>5 DEF Moment
<1>8. FileOK(A)'
  <2>1. Fine(file) /\ \A j \in synced .. Len(file) : Stands(SubSeq(file, 1, j), W[Moment(j)], next - 1)
    BY <1>0 DEF FileOK
  <2>2. ASSUME NEW j \in synced .. Len(file) PROVE A[Moment(j)] = W[Moment(j)]
    <3>1. Moment(j) \in Int /\ Moment(j) < last_id BY <1>2
    <3> QED BY <3>1, <1>3
  <2>3. \A j \in synced .. Len(file) : Stands(SubSeq(file, 1, j), A[Moment(j)], next - 1) BY <2>1, <2>2
  <2> QED BY <2>1, <2>3, <1>5, <1>7 DEF FileOK, Moment
<1>9. PastOK(A)'
  <2>1. ASSUME NEW n \in Moment(synced) .. last_id' - 1
        PROVE  /\ Good(A[n], last_id' - 1) /\ n \in DOMAIN hist'
               /\ hist'[n] = Contents(MapOf(A[n]))
    <3>0. Moment(synced) \in Int BY <1>2
    <3>1. CASE n < last_id
      <4>1. n \in Moment(synced) .. last_id - 1 BY <3>0, <3>1, <1>2, <1>5
      <4>2. Good(W[n], last_id - 1) /\ n \in DOMAIN hist /\ hist[n] = Contents(MapOf(W[n]))
        BY <4>1, <1>0 DEF PastOK
      <4>3. A[n] = W[n] BY <4>1, <3>0, <3>1, <1>2, <1>3
      <4>4. last_id - 1 \in Nat /\ last_id' - 1 \in Nat /\ last_id - 1 <= last_id' - 1 BY <1>2, <1>5
      <4>5. Good(A[n], last_id' - 1) BY <4>2, <4>3, <4>4, GoodMore
      <4> QED BY <4>2, <4>3, <4>5, <1>5
    <3>2. CASE n >= last_id
      <4>1. n \in last_id .. last_id + N - 1 BY <3>0, <3>2, <1>2, <1>5
      <4>2. PICK i \in 1 .. N : n = last_id + i - 1 /\ n - last_id + 1 = i
        <5>1. n - last_id + 1 \in 1 .. N /\ n = last_id + (n - last_id + 1) - 1 BY <4>1, <1>2
        <5> QED BY <5>1
      <4>3. n \notin DOMAIN hist BY <4>1, <1>0, <1>2 DEF NumbersOK
      <4>4. n \in DOMAIN hist' /\ hist'[n] = Contents(maps[i]) BY <4>1, <4>2, <4>3, <1>5
      <4>5. Good(V[i], n) /\ maps[i] = MapOf(V[i]) BY <4>2
      <4>6. A[n] = V[i] BY <4>2, <1>4
      <4>7. n \in Nat /\ last_id' - 1 \in Nat /\ n <= last_id' - 1 BY <4>1, <1>2, <1>5
      <4>8. Good(A[n], last_id' - 1) BY <4>5, <4>6, <4>7, GoodMore
      <4> QED BY <4>4, <4>5, <4>6, <4>8
    <3> QED BY <3>0, <3>1, <3>2, <1>2, <1>5
  <2>2. map' = MapOf(A[last_id' - 1])
    <3>1. N \in 1 .. N OBVIOUS
    <3>2. A[last_id + N - 1] = V[N] BY <3>1, <1>4
    <3>3. last_id' - 1 = last_id + N - 1 BY <1>2, <1>5
    <3> QED BY <3>2, <3>3
  <2> QED BY <2>1, <2>2, <1>5, <1>7 DEF PastOK, Moment
<1>10. EventsOK(A, B)'
  <2>1. ASSUME NEW n \in next .. last_id' - 1 PROVE Makes(B[n], n, A[n - 1], A[n])
    <3>1. CASE n < last_id
      <4>1. n \in next .. last_id - 1 BY <3>1, <1>2
      <4>2. Makes(E[n], n, W[n - 1], W[n]) BY <4>1, <1>0 DEF EventsOK
      <4>3. A[n] = W[n] /\ A[n - 1] = W[n - 1] /\ B[n] = E[n] BY <4>1, <3>1, <1>2, <1>3
      <4> QED BY <4>2, <4>3
    <3>2. CASE n >= last_id
      <4>2. PICK i \in 1 .. N : n = last_id + i - 1 /\ n - 1 = last_id + i - 2
        <5>1. n - last_id + 1 \in 1 .. N /\ n = last_id + (n - last_id + 1) - 1
              /\ n - 1 = last_id + (n - last_id + 1) - 2 BY <3>2, <1>2, <1>5
        <5> QED BY <5>1
      <4>3. Makes(events[i], n, V[i - 1], V[i]) BY <4>2
      <4> QED BY <4>2, <4>3, <1>4
    <3> QED BY <3>1, <3>2, <1>2, <1>5
  <2>2. ASSUME NEW n \in waiting PROVE n \in DOMAIN came /\ came[n] = B[n]
    <3>1. n \in next .. last_id - 1 BY <1>0 DEF NumbersOK
    <3>2. B[n] = E[n] BY <3>1, <1>2, <1>3
    <3> QED BY <3>2, <1>0 DEF EventsOK
  <2> QED BY <2>1, <2>2, <1>5 DEF EventsOK
<1>11. HeldOK(B)'
  <2> DEFINE new == [i \in 1 .. N |-> [seq_no |-> last_id + i - 1, event |-> events[i]]]
  <2>0. \A i \in 1 .. N : events[i] \in Events BY DEF Makes
  <2>1. new \in Seq(Sent) /\ Len(new) = N
        /\ \A i \in 1 .. N : new[i].seq_no = last_id + i - 1 /\ new[i].event = events[i]
    <3>1. \A i \in 1 .. N : last_id + i - 1 \in Nat BY <1>2
    <3>2. \A i \in 1 .. N : new[i] \in Sent BY <2>0, <3>1 DEF Sent
    <3> QED BY <3>2
  <2>2. held \in [Threads -> Seq(Sent)] BY <1>0 DEF HeldOK
  <2>3. held' = [held EXCEPT ![t] = held[t] \o new] BY <1>5
  <2> HIDE DEF new
  <2>4. held' \in [Threads -> Seq(Sent)] BY <2>1, <2>2, <2>3
  <2>5. ASSUME NEW u \in Threads, NEW i \in 1 .. Len(held'[u])
        PROVE  \/ /\ i \in 1 .. Len(held[u]) /\ held'[u][i] = held[u][i]
               \/ /\ u = t /\ i - Len(held[t]) \in 1 .. N /\ held'[u][i] = new[i - Len(held[t])]
    <3>1. CASE u # t BY <3>1, <2>2, <2>3
    <3>2. CASE u = t
      <4>1. held'[u] = held[t] \o new BY <3>2, <2>2, <2>3
      <4>2. held[t] \in Seq(Sent) BY <2>2
      <4> QED BY <4>1, <4>2, <2>1, <3>2
    <3> QED BY <3>1, <3>2
  <2> DEFINE Kept(u, i) == /\ i \in 1 .. Len(held[u]) /\ held'[u][i] = held[u][i]
                           /\ held[u][i].seq_no \in next .. last_id - 1
  <2> DEFINE Added(u, i) == /\ u = t /\ i - Len(held[t]) \in 1 .. N
                            /\ held'[u][i].seq_no = last_id + (i - Len(held[t])) - 1
  <2>6. ASSUME NEW u \in Threads, NEW i \in 1 .. Len(held'[u])
        PROVE  /\ Kept(u, i) \/ Added(u, i)
               /\ held'[u][i].seq_no \in next .. last_id' - 1
               /\ held'[u][i].seq_no \notin waiting
               /\ held'[u][i].event = B[held'[u][i].seq_no]
    <3>1. CASE i \in 1 .. Len(held[u]) /\ held'[u][i] = held[u][i]
      <4>1. /\ held[u][i].seq_no \in next .. last_id - 1 /\ held[u][i].seq_no \notin waiting
            /\ held[u][i].event = E[held[u][i].seq_no]
        BY <3>1, <1>0 DEF HeldOK
      <4>2. B[held[u][i].seq_no] = E[held[u][i].seq_no] BY <4>1, <1>2, <1>3
      <4>3. held[u][i].seq_no \in next .. last_id' - 1 BY <4>1, <1>2, <1>5
      <4> QED BY <3>1, <4>1, <4>2, <4>3
    <3>2. CASE u = t /\ i - Len(held[t]) \in 1 .. N /\ held'[u][i] = new[i - Len(held[t])]
      <4>1. PICK k \in 1 .. N : k = i - Len(held[t]) BY <3>2
      <4>2. held'[u][i].seq_no = last_id + k - 1 /\ held'[u][i].event = events[k] BY <3>2, <4>1, <2>1
      <4>3. last_id + k - 1 \notin waiting BY <1>0, <1>2 DEF NumbersOK
      <4>4. B[last_id + k - 1] = events[k] BY <1>4
      <4>5. last_id + k - 1 \in next .. last_id' - 1 BY <1>2, <1>5
      <4> QED BY <3>2, <4>1, <4>2, <4>3, <4>4, <4>5
    <3> QED BY <2>5, <3>1, <3>2
  <2>7. ASSUME NEW x \in Threads, NEW y \in Threads, NEW i \in 1 .. Len(held'[x]), NEW j \in 1 .. Len(held'[y]),
               held'[x][i].seq_no = held'[y][j].seq_no
        PROVE  x = y /\ i = j
    <3>1. (Kept(x, i) \/ Added(x, i)) /\ (Kept(y, j) \/ Added(y, j)) BY <2>6
    <3>2. CASE Kept(x, i) /\ Kept(y, j) BY <2>7, <3>2, <1>0 DEF HeldOK
    <3>3. CASE Added(x, i) /\ Added(y, j)
      <4>1. held[t] \in Seq(Sent) /\ Len(held[t]) \in Nat BY <2>2
      <4>2. held'[x] \in Seq(Sent) /\ held'[y] \in Seq(Sent) BY <2>4
      <4>3. i \in Int /\ j \in Int BY <4>2
      <4>4. last_id + (i - Len(held[t])) - 1 = last_id + (j - Len(held[t])) - 1 BY <2>7, <3>3, Zenon
      <4>5. PICK L \in Nat, z \in Nat : L = Len(held[t]) /\ z = last_id BY <4>1, <1>2
      <4>6. z + (i - L) - 1 = z + (j - L) - 1 BY <4>4, <4>5
      <4>7. i = j BY ONLY <4>3, <4>6, L \in Nat, z \in Nat
      <4> QED BY <3>3, <4>7
    <3>4. ASSUME NEW u \in Threads, NEW v \in Threads, NEW k, NEW l, Kept(u, k), Added(v, l)
          PROVE  held'[u][k].seq_no # held'[v][l].seq_no
      <4>1. PICK m \in 1 .. N : held'[v][l].seq_no = last_id + m - 1 BY <3>4
      <4>2. held'[u][k].seq_no \in next .. last_id - 1 BY <3>4
      <4> QED BY <4>1, <4>2, <1>2
    <3> HIDE DEF Kept, Added
    <3>5. ~ (Kept(x, i) /\ Added(y, j)) /\ ~ (Kept(y, j) /\ Added(x, i)) BY <2>7, <3>4
    <3> QED BY <3>1, <3>2, <3>3, <3>5
  <2>8. \A u \in Threads : \A i \in 1 .. Len(held'[u]) :
          /\ held'[u][i].seq_no \in next .. last_id' - 1 /\ held'[u][i].seq_no \notin waiting
          /\ held'[u][i].event = B[held'[u][i].seq_no]
    BY <2>6
  <2>9. UNCHANGED <<next, waiting>> BY <1>5
  <2> QED BY <2>4, <2>7, <2>8, <2>9 DEF HeldOK
<1>12. Inv(A, B)' BY <1>6, <1>8, <1>9, <1>10, <1>11 DEF Inv
<1> QED BY <1>12, Zenon DEF KInv

\* The events of w without those of the keys S.
Less(w, S) == [i \in {j \in DOMAIN w : w[j][1] \notin S} |-> w[i]]

\* set(): the event of the entry.
LEMMA SetView ==
  ASSUME NEW n \in Nat \ {0}, n <= MaxNumber, NEW w, Good(w, n - 1), NEW k \in Keys,
         NEW v \in Values, NEW id,
         id = IF k \in DOMAIN MapOf(w) THEN MapOf(w)[k].id ELSE n
  PROVE  LET x == Updated(w, id, <<k, v>>) IN
         /\ Makes([id |-> id, value |-> <<k, v>>, rewrite |-> k \in DOMAIN MapOf(w)], n, w, x)
         /\ Good(x, n)
         /\ Put(MapOf(w), k, [value |-> v, id |-> id]) = MapOf(x)
<1> DEFINE x == Updated(w, id, <<k, v>>)
<1> DEFINE m == MapOf(w)
<1>0. n - 1 \in Nat /\ n \in Nat OBVIOUS
<1>1. <<k, v>> \in Data /\ <<k, v>> # Empty BY EntriesAssumption, EventsAssumption
<1>2. \A j \in DOMAIN m :
        /\ m[j] \in [value : Values, id : 1 .. n - 1] /\ m[j].id \in DOMAIN w /\ w[m[j].id] = <<j, m[j].value>>
  BY <1>0, MapType
<1>3. /\ DOMAIN m = {w[i][1] : i \in DOMAIN w}
      /\ \A i \in DOMAIN w : m[w[i][1]] = [value |-> w[i][2], id |-> i]
  BY ONLY <1>0, Good(w, n - 1), MapParts, Zenon
<1>4. DOMAIN w \subseteq 1 .. n - 1 /\ w \in [DOMAIN w -> Data] BY DEF Good
<1>5. /\ DOMAIN x = DOMAIN w \cup {id} /\ x[id] = <<k, v>>
      /\ \A j \in DOMAIN w : j # id => x[j] = w[j]
      /\ x = [j \in DOMAIN x |-> x[j]]
  BY <1>1 DEF Updated
<1> HIDE DEF m
<1>6. id \in 1 .. n /\ (k \in DOMAIN m => id \in DOMAIN w /\ w[id][1] = k)
      /\ (k \notin DOMAIN m => id \notin DOMAIN w /\ id = n)
  <2>1. CASE k \in DOMAIN m
    <3>1. id = m[k].id BY <2>1 DEF m
    <3>2. id \in DOMAIN w /\ w[id] = <<k, m[k].value>> BY <2>1, <3>1, <1>2
    <3> QED BY <2>1, <3>2, <1>4
  <2>2. CASE k \notin DOMAIN m
    <3>1. id = n BY <2>2 DEF m
    <3> QED BY <2>2, <3>1, <1>4
  <2> QED BY <2>1, <2>2
<1>7. \A j \in DOMAIN w : j # id => w[j][1] # k
  <2> SUFFICES ASSUME NEW j \in DOMAIN w, j # id, w[j][1] = k PROVE FALSE OBVIOUS
  <2>1. k \in DOMAIN m BY <1>3
  <2> QED BY <2>1, <1>6 DEF Good
<1>8. Makes([id |-> id, value |-> <<k, v>>, rewrite |-> k \in DOMAIN m], n, w, x)
  <2> DEFINE e == [id |-> id, value |-> <<k, v>>, rewrite |-> k \in DOMAIN m]
  <2>0. id \in Ids BY <1>6, EntriesAssumption, KeyValueAssumption
  <2>1. e \in Events BY <1>1, <2>0 DEF Events
  <2>2. e.id = id /\ e.value = <<k, v>> /\ e.rewrite = (k \in DOMAIN m) OBVIOUS
  <2>3. (e.rewrite /\ e.id \in DOMAIN w) \/ (e.id = n /\ e.value # Empty) BY <2>2, <1>1, <1>6
  <2> HIDE DEF e
  <2>4. x = Updated(w, e.id, e.value) BY <2>2
  <2> HIDE DEF x
  <2>5. Makes(e, n, w, x) BY <2>1, <2>3, <2>4 DEF Makes
  <2> QED BY <2>5 DEF e
<1> HIDE DEF x
<1>9. Good(x, n)
  <2>1. DOMAIN x \subseteq 1 .. n BY <1>4, <1>5, <1>6
  <2>2. \A j \in DOMAIN x : x[j] \in Data BY <1>1, <1>4, <1>5
  <2>3. x \in [DOMAIN x -> Data]
    <3>1. x = [j \in DOMAIN x |-> x[j]] BY <1>5
    <3> QED BY ONLY <2>2, <3>1
  <2>4. x[id][1] = k BY <1>5
  <2>5. \A i, j \in DOMAIN x : x[i][1] = x[j][1] => i = j
    <3> SUFFICES ASSUME NEW i \in DOMAIN x, NEW j \in DOMAIN x, x[i][1] = x[j][1] PROVE i = j
      OBVIOUS
    <3>1. CASE i = id BY <3>1, <2>4, <1>5, <1>7
    <3>2. CASE j = id BY <3>2, <2>4, <1>5, <1>7
    <3>3. CASE i # id /\ j # id BY <3>3, <1>5 DEF Good
    <3> QED BY <3>1, <3>2, <3>3
  <2> QED BY <2>1, <2>3, <2>5 DEF Good
<1>10. Put(m, k, [value |-> v, id |-> id]) = MapOf(x)
  <2> DEFINE D == DOMAIN m \cup {k}
  <2> DEFINE f == [j \in D |-> IF j = k THEN [value |-> v, id |-> id] ELSE m[j]]
  <2>1. Put(m, k, [value |-> v, id |-> id]) = f BY DEF Put
  <2>2. ASSUME NEW j \in D PROVE \E i \in DOMAIN x : x[i][1] = j /\ f[j] = [value |-> x[i][2], id |-> i]
    <3>1. CASE j = k BY <3>1, <1>5
    <3>2. CASE j # k
      <4>1. PICK i \in DOMAIN w : w[i][1] = j BY <3>2, <1>3
      <4>2. m[j] = [value |-> w[i][2], id |-> i] BY <4>1, <1>3
      <4>3. i # id BY <3>2, <4>1, <1>6, <1>5
      <4> QED BY <3>2, <4>1, <4>2, <4>3, <1>5
    <3> QED BY <3>1, <3>2
  <2>3. ASSUME NEW i \in DOMAIN x PROVE x[i][1] \in D
    <3>1. CASE i = id BY <3>1, <1>5
    <3>2. CASE i # id BY <3>2, <1>3, <1>5
    <3> QED BY <3>1, <3>2
  <2>4. DOMAIN f = D /\ f = [j \in D |-> f[j]] OBVIOUS
  <2> HIDE DEF D, f
  <2>5. f = MapOf(x) BY <1>0, <1>9, <2>2, <2>3, <2>4, IsMapOf
  <2> QED BY <2>1, <2>5
<1> QED BY <1>8, <1>9, <1>10 DEF x, m

\* erase(): the events that remain.
LEMMA LessView ==
  ASSUME NEW n \in Nat, NEW w, Good(w, n), NEW S
  PROVE  Good(Less(w, S), n) /\ Without(MapOf(w), S) = MapOf(Less(w, S))
<1> DEFINE x == Less(w, S)
<1>1. /\ DOMAIN x = {j \in DOMAIN w : w[j][1] \notin S}
      /\ \A j \in DOMAIN x : x[j] = w[j]
      /\ x = [j \in DOMAIN x |-> x[j]]
  BY DEF Less
<1> HIDE DEF x
<1>2. Good(x, n)
  <2>1. DOMAIN x \subseteq 1 .. n BY <1>1 DEF Good
  <2>2. \A j \in DOMAIN x : x[j] \in Data BY <1>1 DEF Good
  <2>3. \A i, j \in DOMAIN x : x[i][1] = x[j][1] => i = j BY <1>1 DEF Good
  <2>4. x \in [DOMAIN x -> Data] BY <1>1, <2>2
  <2> QED BY <2>1, <2>3, <2>4 DEF Good
<1>3. Without(MapOf(w), S) = MapOf(x)
  <2> DEFINE m == MapOf(w)
  <2> DEFINE D == DOMAIN m \ S
  <2> DEFINE f == Without(m, S)
  <2>0. /\ DOMAIN m = {w[i][1] : i \in DOMAIN w}
        /\ \A i \in DOMAIN w : m[w[i][1]] = [value |-> w[i][2], id |-> i]
    BY ONLY n \in Nat, Good(w, n), MapParts, Zenon
  <2>1. DOMAIN f = D /\ f = [j \in D |-> f[j]] /\ \A j \in D : f[j] = m[j] BY DEF Without
  <2> HIDE DEF m, f
  <2>2. ASSUME NEW j \in D PROVE \E i \in DOMAIN x : x[i][1] = j /\ f[j] = [value |-> x[i][2], id |-> i]
    <3>1. PICK i \in DOMAIN w : w[i][1] = j BY <2>0
    <3>2. f[j] = [value |-> w[i][2], id |-> i] BY <2>0, <2>1, <3>1
    <3> QED BY <3>1, <3>2, <1>1
  <2>3. ASSUME NEW i \in DOMAIN x PROVE x[i][1] \in D BY <2>0, <1>1
  <2> HIDE DEF D
  <2>5. f = MapOf(x) BY ONLY n \in Nat, <1>2, <2>1, <2>2, <2>3, IsMapOf
  <2> QED BY <2>5 DEF f, m
<1> QED BY <1>2, <1>3 DEF x

\* erase(): the event that says so.
LEMMA EraseView ==
  ASSUME NEW n \in Nat, n <= MaxNumber, NEW w, Good(w, n), NEW S,
         NEW k \in DOMAIN MapOf(w), k \notin S, NEW l
  PROVE  Makes([id |-> MapOf(w)[k].id, value |-> Empty, rewrite |-> TRUE], l,
               Less(w, S), Less(w, S \cup {k}))
<1> DEFINE i == MapOf(w)[k].id
<1>1. i \in 1 .. n /\ i \in DOMAIN w /\ w[i][1] = k
  <2>1. MapOf(w)[k] \in [value : Values, id : 1 .. n] /\ i \in DOMAIN w /\ w[i] = <<k, MapOf(w)[k].value>>
    BY MapType
  <2> QED BY <2>1
<1> HIDE DEF i
<1> DEFINE e == [id |-> i, value |-> Empty, rewrite |-> TRUE]
<1>0. i \in Ids BY <1>1, EntriesAssumption, KeyValueAssumption
<1>2. e \in Events /\ e.rewrite /\ e.id = i /\ e.value = Empty BY <1>0 DEF Events
<1>3. i \in DOMAIN Less(w, S) BY <1>1 DEF Less
<1>4. Less(w, S \cup {k}) = Updated(Less(w, S), i, Empty)
  <2>1. Updated(Less(w, S), i, Empty) = [j \in DOMAIN Less(w, S) \ {i} |-> IF j = i THEN Empty ELSE Less(w, S)[j]]
    BY Zenon DEF Updated
  <2>2. DOMAIN Less(w, S \cup {k}) = DOMAIN Less(w, S) \ {i} BY <1>1 DEF Less, Good
  <2>3. \A j \in DOMAIN Less(w, S) \ {i} : Less(w, S \cup {k})[j] = Less(w, S)[j] BY <2>2 DEF Less
  <2>4. Less(w, S \cup {k}) = [j \in DOMAIN Less(w, S \cup {k}) |-> Less(w, S \cup {k})[j]] BY DEF Less
  <2> QED BY <2>1, <2>2, <2>3, <2>4
<1> HIDE DEF e
<1>5. Makes(e, l, Less(w, S), Less(w, S \cup {k}))
  <2>1. e.rewrite /\ e.id \in DOMAIN Less(w, S) BY <1>2, <1>3
  <2>2. Less(w, S \cup {k}) = Updated(Less(w, S), e.id, e.value) BY <1>2, <1>4
  <2>3. e \in Events BY <1>2
  <2> QED BY ONLY <2>1, <2>2, <2>3 DEF Makes
<1> QED BY <1>5 DEF e, i

\* Without no keys nothing is missing.
LEMMA LessNone ==
  ASSUME NEW n \in Nat, NEW w, Good(w, n)
  PROVE  Less(w, {}) = w
BY DEF Less, Good

\* set() takes one number, for the event of the entry.
LEMMA SetStep ==
  ASSUME NEW W, NEW E, Inv(W, E), NEW t \in Threads, NEW k \in Keys, NEW v \in Values, Set(t, k, v)
  PROVE  KInv'
<1>0. NumbersOK /\ FileOK(W) /\ PastOK(W) BY DEF Inv
<1>1. last_id \in Nat \ {0} /\ last_id - 1 \in Nat BY <1>0, Numbers
<1> DEFINE w == W[last_id - 1]
<1>2. Good(w, last_id - 1) /\ map = MapOf(w)
  <2>1. Moment(synced) \in Int /\ Moment(synced) <= next - 1 /\ next <= last_id /\ next \in Nat BY <1>0, Numbers
  <2>2. last_id - 1 \in Moment(synced) .. last_id - 1 BY <1>1, <2>1
  <2> QED BY <1>0, <2>2 DEF PastOK
<1> DEFINE id == SetId(k)
<1> DEFINE x == Updated(w, id, <<k, v>>)
<1> DEFINE e == [id |-> id, value |-> <<k, v>>, rewrite |-> k \in DOMAIN map]
<1>3. map' = Put(map, k, [value |-> v, id |-> id]) /\ Log(t, <<e>>, <<map'>>) BY DEF Set
<1>4. id = IF k \in DOMAIN MapOf(w) THEN MapOf(w)[k].id ELSE last_id BY <1>2 DEF SetId
<1> HIDE DEF w, id
<1>5. /\ Makes([id |-> id, value |-> <<k, v>>, rewrite |-> k \in DOMAIN MapOf(w)], last_id, w, x)
      /\ Good(x, last_id)
      /\ Put(MapOf(w), k, [value |-> v, id |-> id]) = MapOf(x)
  <2>1. last_id + 1 <= MaxNumber + 1 BY <1>3 DEF Log
  <2>2. last_id <= MaxNumber BY <1>1, <2>1, KeyValueAssumption
  <2> QED BY ONLY <1>1, <1>2, <1>4, <2>2, k \in Keys, v \in Values, SetView
<1>6. Makes(e, last_id, w, x) /\ Good(x, last_id) /\ map' = MapOf(x) BY <1>2, <1>3, <1>5
<1> HIDE DEF x, e
<1>7. PICK V, events, maps : /\ V = [i \in 0 .. 1 |-> IF i = 0 THEN w ELSE x]
                             /\ events = <<e>> /\ maps = <<map'>>
  OBVIOUS
<1>8. V[0] = W[last_id - 1] /\ V[1] = x BY <1>7 DEF w
<1>9. Len(events) = 1 /\ events[1] = e /\ maps[1] = map' BY <1>7
<1>10. ASSUME NEW i \in 1 .. 1
       PROVE  /\ Makes(events[i], last_id + i - 1, V[i - 1], V[i])
              /\ Good(V[i], last_id + i - 1) /\ maps[i] = MapOf(V[i])
  <2>1. i = 1 /\ last_id + i - 1 = last_id /\ i - 1 = 0 BY <1>1
  <2>2. V[i - 1] = w BY <1>7, <2>1
  <2> QED BY <1>6, <1>8, <1>9, <2>1, <2>2
<1>11. Log(t, events, maps) /\ map' = MapOf(V[1]) /\ 1 \in Nat \ {0} BY <1>3, <1>6, <1>7, <1>8
<1> QED BY <1>8, <1>9, <1>10, <1>11, LogStep

\* erase(), erase_by_prefix(): the keys ks are erased one after the other.
LEMMA EraseStep ==
  ASSUME NEW W, NEW E, Inv(W, E), NEW t \in Threads, NEW N \in Nat \ {0},
         NEW ks \in [1 .. N -> DOMAIN map], \A i, j \in 1 .. N : ks[i] = ks[j] => i = j,
         NEW events, Len(events) = N, \A i \in 1 .. N : events[i] = EraseEvent(ks[i]),
         NEW maps, \A i \in 1 .. N : maps[i] = Without(map, {ks[j] : j \in 1 .. i}),
         map' = Without(map, {ks[j] : j \in 1 .. N}), Log(t, events, maps)
  PROVE  KInv'
<1>0. NumbersOK /\ FileOK(W) /\ PastOK(W) BY DEF Inv
<1>1. last_id \in Nat \ {0} /\ last_id - 1 \in Nat BY <1>0, Numbers
<1> DEFINE w == W[last_id - 1]
<1>2. Good(w, last_id - 1) /\ map = MapOf(w)
  <2>1. Moment(synced) \in Int /\ Moment(synced) <= next - 1 /\ next <= last_id /\ next \in Nat BY <1>0, Numbers
  <2>2. last_id - 1 \in Moment(synced) .. last_id - 1 BY <1>1, <2>1
  <2> QED BY <1>0, <2>2 DEF PastOK
<1> HIDE DEF w
<1> DEFINE S(i) == {ks[j] : j \in 1 .. i}
<1>3. PICK V : V = [i \in 0 .. N |-> Less(w, S(i))] OBVIOUS
<1>4. \A i \in 0 .. N : V[i] = Less(w, S(i)) BY <1>3
<1>5. V[0] = W[last_id - 1]
  <2>1. S(0) = {} OBVIOUS
  <2>2. V[0] = Less(w, {}) BY <1>4, <2>1
  <2> QED BY <1>1, <1>2, <2>2, LessNone DEF w
<1>6. ASSUME NEW i \in 1 .. N
      PROVE  /\ Makes(events[i], last_id + i - 1, V[i - 1], V[i])
             /\ Good(V[i], last_id + i - 1) /\ maps[i] = MapOf(V[i])
  <2>1. i - 1 \in 0 .. N /\ i \in 0 .. N OBVIOUS
  <2>2. V[i - 1] = Less(w, S(i - 1)) /\ V[i] = Less(w, S(i)) BY <1>4, <2>1
  <2>3. S(i) = S(i - 1) \cup {ks[i]}
    <3>1. 1 .. i = (1 .. i - 1) \cup {i} OBVIOUS
    <3> QED BY <3>1
  <2>4. ks[i] \notin S(i - 1) OBVIOUS
  <2>5. ks[i] \in DOMAIN MapOf(w) BY <1>2
  <2>6. events[i] = [id |-> MapOf(w)[ks[i]].id, value |-> Empty, rewrite |-> TRUE] BY <1>2 DEF EraseEvent
  <2>10. maps[i] = Without(MapOf(w), S(i)) BY <1>2
  <2> HIDE DEF S
  <2>7. Makes(events[i], last_id + i - 1, V[i - 1], V[i])
    <3>1. last_id - 1 <= MaxNumber BY <1>0, <1>1, KeyValueAssumption DEF NumbersOK
    <3> QED BY <1>1, <1>2, <2>2, <2>3, <2>4, <2>5, <2>6, <3>1, EraseView
  <2>8. Good(V[i], last_id - 1) /\ Without(MapOf(w), S(i)) = MapOf(V[i])
    <3>1. PICK n \in Nat : n = last_id - 1 BY <1>1
    <3>2. Good(w, n) BY <1>2, <3>1
    <3>3. Good(Less(w, S(i)), n) /\ Without(MapOf(w), S(i)) = MapOf(Less(w, S(i))) BY ONLY n \in Nat, <3>2, LessView
    <3> QED BY <2>2, <3>1, <3>3
  <2>9. Good(V[i], last_id + i - 1)
    <3>1. last_id + i - 1 \in Nat /\ last_id - 1 <= last_id + i - 1 BY <1>1
    <3> QED BY <1>1, <2>8, <3>1, GoodMore
  <2> QED BY <2>7, <2>8, <2>9, <2>10
<1>7. map' = MapOf(V[N])
  <2>1. N \in 1 .. N /\ N \in 0 .. N OBVIOUS
  <2>2. map' = Without(MapOf(w), S(N)) BY <1>2
  <2>3. V[N] = Less(w, S(N)) BY <1>4, <2>1
  <2> HIDE DEF S
  <2> QED BY <1>1, <1>2, <2>2, <2>3, LessView
<1> HIDE DEF S
<1> QED BY <1>5, <1>6, <1>7, LogStep

\* erase().
LEMMA EraseOne ==
  ASSUME NEW W, NEW E, Inv(W, E), NEW t \in Threads, NEW k \in Keys, Erase(t, k)
  PROVE  KInv'
<1>1. k \in DOMAIN map /\ map' = Without(map, {k}) /\ Log(t, <<EraseEvent(k)>>, <<map'>>)
  BY DEF Erase, Remaining
<1>2. PICK ks, events, maps : /\ ks = [i \in 1 .. 1 |-> k] /\ events = <<EraseEvent(k)>>
                              /\ maps = <<map'>>
  OBVIOUS
<1>3. ks \in [1 .. 1 -> DOMAIN map] /\ \A i, j \in 1 .. 1 : ks[i] = ks[j] => i = j BY <1>1, <1>2
<1>4. \A i \in 1 .. 1 : {ks[j] : j \in 1 .. i} = {k} BY <1>2
<1>5. {ks[j] : j \in 1 .. 1} = {k} BY <1>2
<1>6. Len(events) = 1 /\ \A i \in 1 .. 1 : events[i] = EraseEvent(ks[i]) BY <1>2
<1>7. \A i \in 1 .. 1 : maps[i] = Without(map, {ks[j] : j \in 1 .. i}) BY <1>1, <1>2, <1>4
<1>8. map' = Without(map, {ks[j] : j \in 1 .. 1}) BY <1>1, <1>5
<1>9. Log(t, events, maps) /\ 1 \in Nat \ {0} BY <1>1, <1>2
<1> QED BY <1>3, <1>6, <1>7, <1>8, <1>9, EraseStep

\* erase_by_prefix(): the entries of the prefix, which are finitely many.
LEMMA EraseMany ==
  ASSUME NEW W, NEW E, Inv(W, E), NEW t \in Threads, NEW prefix, EraseByPrefix(t, prefix)
  PROVE  KInv'
<1>0. NumbersOK /\ FileOK(W) /\ PastOK(W) BY DEF Inv
<1>1. last_id \in Nat /\ last_id - 1 \in Nat BY <1>0, Numbers
<1>2. PICK w : w = W[last_id - 1] OBVIOUS
<1>3. Good(w, last_id - 1) /\ map = MapOf(w)
  <2>1. Moment(synced) \in Int /\ Moment(synced) <= next - 1 /\ next <= last_id /\ next \in Nat BY <1>0, Numbers
  <2>2. last_id - 1 \in Moment(synced) .. last_id - 1 BY <1>1, <2>1
  <2> QED BY <1>0, <1>2, <2>2 DEF PastOK
<1> DEFINE T == prefix \cap DOMAIN map
<1>4. IsFiniteSet(T)
  <2> DEFINE f == [k \in T |-> map[k].id]
  <2>1. ASSUME NEW k \in T
        PROVE  map[k].id \in 1 .. last_id - 1 /\ w[map[k].id] = <<k, map[k].value>>
    BY <1>1, <1>3, MapType
  <2>2. ASSUME NEW j \in T, NEW k \in T, map[j].id = map[k].id PROVE j = k
    <3>1. w[map[j].id] = <<j, map[j].value>> /\ w[map[k].id] = <<k, map[k].value>> BY <2>1
    <3> QED BY <3>1, <2>2
  <2>3. f \in Injection(T, 1 .. last_id - 1)
    <3>1. f \in [T -> 1 .. last_id - 1] BY <2>1
    <3>2. \A j, k \in T : f[j] = f[k] => j = k BY <2>2
    <3> HIDE DEF f, T
    <3> QED BY ONLY <3>1, <3>2 DEF Injection, IsInjective
  <2>4. IsFiniteSet(1 .. last_id - 1) BY <1>1, FS_Interval
  <2> QED BY <2>3, <2>4, FS_Injection
<1>5. PICK N : N = Cardinality(T) OBVIOUS
<1>6. N \in Nat \ {0}
  <2>1. Cardinality(T) \in Nat BY <1>4, FS_CardinalityType
  <2>2. Cardinality(T) > 0 BY DEF EraseByPrefix
  <2> QED BY <1>5, <2>1, <2>2
<1>7. PICK ks \in [1 .. N -> T] :
        /\ IsInjective(ks) /\ map' = Without(map, prefix)
        /\ Log(t, [i \in 1 .. N |-> EraseEvent(ks[i])],
               [i \in 1 .. N |-> Without(map, {ks[j] : j \in 1 .. i})])
  BY <1>5 DEF EraseByPrefix
<1>8. \A i, j \in 1 .. N : ks[i] = ks[j] => i = j BY <1>7 DEF IsInjective
<1>9. {ks[j] : j \in 1 .. N} = T
  <2>1. ks \in Injection(1 .. N, T) BY ONLY <1>7, <1>8 DEF Injection, IsInjective
  <2>2. Cardinality(1 .. N) = N BY <1>6, FS_Interval
  <2>3. ks \in Surjection(1 .. N, T) BY <1>4, <1>5, <2>1, <2>2, FS_Injection
  <2> QED BY <2>3 DEF Surjection
<1>10. map' = Without(map, {ks[j] : j \in 1 .. N}) BY <1>7, <1>9 DEF Without
<1>11. PICK events, maps : /\ events = [i \in 1 .. N |-> EraseEvent(ks[i])]
                           /\ maps = [i \in 1 .. N |-> Without(map, {ks[j] : j \in 1 .. i})]
  OBVIOUS
<1>12. Len(events) = N BY <1>6, <1>11
<1>13. ks \in [1 .. N -> DOMAIN map] BY <1>7
<1>14. \A i \in 1 .. N : events[i] = EraseEvent(ks[i]) BY <1>11
<1>15. \A i \in 1 .. N : maps[i] = Without(map, {ks[j] : j \in 1 .. i}) BY <1>11
<1>16. Log(t, events, maps) BY <1>7, <1>11, Zenon
<1> QED BY <1>6, <1>8, <1>10, <1>12, <1>13, <1>14, <1>15, <1>16, EraseStep

\* The log gets an event, and writes what is in order.
LEMMA DeliverStep ==
  ASSUME NEW W, NEW E, Inv(W, E), NEW t \in Threads, Deliver(t)
  PROVE  KInv'
<1>0. NumbersOK /\ FileOK(W) /\ PastOK(W) /\ EventsOK(W, E) /\ HeldOK(E) BY DEF Inv
<1>1. /\ last_id \in Nat /\ next \in Nat /\ next >= 1 /\ next <= last_id
      /\ file \in Seq(Events) /\ Len(file) \in Nat /\ synced \in Nat /\ synced <= Len(file)
      /\ \A j \in synced .. Len(file) : Moment(j) \in Int /\ Moment(j) <= next - 1 /\ Moment(synced) <= Moment(j)
      /\ Moment(Len(file)) = next - 1
  BY <1>0, Numbers
<1>2. held \in [Threads -> Seq(Sent)] /\ held[t] \in Seq(Sent) /\ held[t] # << >> BY <1>0 DEF HeldOK, Deliver
<1>3. PICK n, e : n = held[t][1].seq_no /\ e = held[t][1].event OBVIOUS
<1>4. 1 \in 1 .. Len(held[t]) /\ Head(held[t]) = held[t][1] BY <1>2
<1>5. n \in next .. last_id - 1 /\ n \notin waiting /\ e = E[n] BY <1>0, <1>3, <1>4 DEF HeldOK
<1>6. /\ came' = Put(came, n, e) /\ Handed(n, e) /\ held' = [held EXCEPT ![t] = Tail(held[t])]
      /\ UNCHANGED <<map, last_id, synced, hist, restarts>>
  BY <1>3, <1>4 DEF Deliver
<1>7. Delivery!Add(n) /\ file' = file \o [i \in 1 .. next' - next |-> came'[next + i - 1]]
  BY <1>6 DEF Handed
<1>8. PICK b \in next .. MaxNumber + 1 :
        /\ \A m \in next .. b - 1 : m \in waiting \cup {n}
        /\ b \notin waiting \cup {n}
        /\ next' = b /\ waiting' = {m \in waiting \cup {n} : m >= b}
  BY <1>7 DEF Delivery!Add
<1>9. b \in Nat /\ b >= next /\ b <= last_id
  <2>1. b \in Nat /\ b >= next BY <1>1, <1>8, KeyValueAssumption
  <2>2. waiting \cup {n} \subseteq next .. last_id - 1 BY <1>0, <1>5 DEF NumbersOK
  <2>3. ASSUME b > last_id PROVE FALSE
    <3>1. last_id \in next .. b - 1 BY <1>1, <2>1, <2>3
    <3>2. last_id \in next .. last_id - 1 BY <3>1, <2>2, <1>8
    <3> QED BY <3>2, <1>1
  <2> QED BY <2>1, <2>3, <1>1
<1>10. ASSUME NEW m \in waiting \cup {n} PROVE m \in DOMAIN came' /\ came'[m] = E[m]
  <2>1. CASE m = n BY <2>1, <1>5, <1>6 DEF Put
  <2>2. CASE m # n
    <3>1. m \in DOMAIN came /\ came[m] = E[m] BY <2>2, <1>0 DEF EventsOK
    <3> QED BY <2>2, <3>1, <1>6 DEF Put
  <2> QED BY <2>1, <2>2
<1>11. PICK d, N, a : /\ d = next - 1 /\ N = b - next
                      /\ a = [i \in 1 .. N |-> came'[next + i - 1]]
  OBVIOUS
<1>12. d \in Nat /\ N \in Nat /\ d + N = b - 1 /\ d + N <= last_id - 1 BY <1>1, <1>9, <1>11
<1>13. ASSUME NEW i \in 1 .. N
       PROVE  a[i] = E[d + i] /\ Makes(E[d + i], d + i, W[d + i - 1], W[d + i]) /\ a[i] \in Events
  <2>1. next + i - 1 = d + i /\ d + i \in next .. b - 1 /\ d + i \in next .. last_id - 1 BY <1>1, <1>9, <1>11
  <2>2. d + i \in waiting \cup {n} BY <1>8, <2>1
  <2>3. a[i] = came'[d + i] BY <1>11, <2>1
  <2>4. a[i] = E[d + i] BY <1>10, <2>2, <2>3
  <2>5. Makes(E[d + i], d + i, W[d + i - 1], W[d + i])
    <3>1. PICK m \in next .. last_id - 1 : m = d + i BY <2>1
    <3>2. Makes(E[m], m, W[m - 1], W[m]) BY <1>0 DEF EventsOK
    <3>3. m - 1 = d + i - 1 BY <3>1, <1>12
    <3> QED BY <3>1, <3>2, <3>3
  <2> QED BY <2>4, <2>5 DEF Makes
<1>14. a \in Seq(Events) /\ Len(a) = N
  <2>1. a = [i \in 1 .. N |-> a[i]] BY <1>11
  <2>2. \A i \in 1 .. N : a[i] \in Events BY <1>13
  <2> QED BY ONLY <1>12, <2>1, <2>2
<1>15. file' = file \o a BY <1>7, <1>8, <1>11
<1>16. Fine(file) /\ Stands(file, W[d], d)
  <2>1. SubSeq(file, 1, Len(file)) = file BY <1>1
  <2>2. Len(file) \in synced .. Len(file) BY <1>1
  <2>3. Stands(SubSeq(file, 1, Len(file)), W[Moment(Len(file))], next - 1) BY <1>0, <2>2 DEF FileOK
  <2>4. Moment(Len(file)) = d /\ next - 1 = d BY <1>1, <1>11
  <2> QED BY <1>0, <2>1, <2>3, <2>4 DEF FileOK
<1>17. \A i \in 0 .. N : /\ Fine(file \o SubSeq(a, 1, i))
                         /\ Stands(file \o SubSeq(a, 1, i), W[d + i], d + i)
  <2>1. \A i \in 1 .. N : a[i] = E[d + i] /\ Makes(E[d + i], d + i, W[d + i - 1], W[d + i]) BY <1>13
  <2> QED BY <1>12, <1>14, <1>16, <2>1, Continued
<1>18. /\ file \o a \in Seq(Events) /\ Len(file \o a) = Len(file) + N
       /\ \A j \in 0 .. Len(file) : SubSeq(file \o a, 1, j) = SubSeq(file, 1, j)
       /\ \A i \in 0 .. N : SubSeq(file \o a, 1, Len(file) + i) = file \o SubSeq(a, 1, i)
       /\ file \o SubSeq(a, 1, N) = file \o a
  <2>1. /\ file \o a \in Seq(Events) /\ Len(file \o a) = Len(file) + Len(a)
        /\ \A j \in 0 .. Len(file) : SubSeq(file \o a, 1, j) = SubSeq(file, 1, j)
        /\ \A i \in 0 .. Len(a) : SubSeq(file \o a, 1, Len(file) + i) = file \o SubSeq(a, 1, i)
        /\ file \o SubSeq(a, 1, Len(a)) = file \o a
    <3>1. file \in Seq(Events) /\ a \in Seq(Events) BY <1>1, <1>14
    <3> QED BY ONLY <3>1, Beginnings, Zenon
  <2>2. Len(a) = N BY <1>14
  <2> QED BY ONLY <2>1, <2>2, Zenon
<1>19. \A j \in Int : Moment(j)' = Moment(j)
  <2>1. Len(file') = Len(file) + N /\ next' = next + N BY <1>1, <1>8, <1>9, <1>11, <1>15, <1>18
  <2> QED BY <1>1, <1>12, <2>1 DEF Moment
<1>20. FileOK(W)'
  <2>1. Fine(file')
    <3>1. N \in 0 .. N BY <1>12
    <3>2. Fine(file \o SubSeq(a, 1, N)) BY <1>17, <3>1
    <3> QED BY <3>2, <1>15, <1>18
  <2>2. ASSUME NEW j \in synced .. Len(file')
        PROVE  Stands(SubSeq(file', 1, j), W[Moment(j)], next' - 1)
    <3>1. CASE j <= Len(file)
      <4>1. j \in synced .. Len(file) /\ j \in 0 .. Len(file) BY <3>1, <1>1
      <4>2. SubSeq(file', 1, j) = SubSeq(file, 1, j) BY <4>1, <1>15, <1>18
      <4>3. Stands(SubSeq(file, 1, j), W[Moment(j)], next - 1) BY <4>1, <1>0 DEF FileOK
      <4>4. next - 1 <= next' - 1 /\ next - 1 \in Int /\ next' - 1 \in Int BY <1>1, <1>8, <1>9
      <4>5. AfterEvents(SubSeq(file, 1, j)).last_id \in Nat BY <4>1, <1>0, FineFirst, ProcParts DEF FileOK, Sound
      <4> QED BY <4>2, <4>3, <4>4, <4>5, StandsMore
    <3>2. CASE j > Len(file)
      <4>1. PICK i \in 0 .. N : j = Len(file) + i
        <5>1. j - Len(file) \in 0 .. N /\ j = Len(file) + (j - Len(file)) BY <3>2, <1>1, <1>12, <1>15, <1>18
        <5> QED BY <5>1
      <4>2. SubSeq(file', 1, j) = file \o SubSeq(a, 1, i) BY <4>1, <1>15, <1>18
      <4>3. Moment(j) = d + i BY <4>1, <1>1, <1>11 DEF Moment
      <4>4. Stands(SubSeq(file', 1, j), W[Moment(j)], d + i) /\ Fine(file \o SubSeq(a, 1, i))
        BY <4>2, <4>3, <1>17
      <4>5. d + i <= next' - 1 /\ d + i \in Int /\ next' - 1 \in Int BY <1>8, <1>9, <1>12
      <4>6. AfterEvents(SubSeq(file', 1, j)).last_id \in Nat BY <4>2, <4>4, FineSound, ProcParts DEF Sound
      <4> QED BY <4>4, <4>5, <4>6, StandsMore
    <3> QED BY <3>1, <3>2, <1>1, <1>15, <1>18
  <2>3. synced' = synced /\ synced \in Nat /\ Len(file') \in Nat BY <1>1, <1>6, <1>12, <1>15, <1>18
  <2>4. \A j \in synced .. Len(file') : Stands(SubSeq(file', 1, j), W[Moment(j)'], next' - 1) BY <2>2, <2>3, <1>19
  <2> QED BY <2>1, <2>3, <2>4 DEF FileOK
<1>21. PastOK(W)'
  <2>1. Moment(synced)' = Moment(synced)
    <3>1. synced' = synced /\ synced \in Int BY <1>1, <1>6
    <3> QED BY <3>1, <1>19 DEF Moment
  <2> QED BY <2>1, <1>0, <1>6 DEF PastOK
<1>22. NumbersOK'
  <2>1. DOMAIN came' = DOMAIN came \cup {n} BY <1>6 DEF Put
  <2>2. DOMAIN came' \subseteq 1 .. last_id' - 1 BY <2>1, <1>0, <1>1, <1>5, <1>6 DEF NumbersOK
  <2>3. waiting' \subseteq next' .. last_id' - 1
    <3>1. waiting \cup {n} \subseteq next .. last_id - 1 BY <1>0, <1>5 DEF NumbersOK
    <3>2. ASSUME NEW m \in waiting' PROVE m \in b .. last_id - 1
      <4>1. m \in next .. last_id - 1 /\ m >= b BY <3>1, <1>8
      <4> QED BY <4>1, <1>1, <1>9
    <3> QED BY <3>2, <1>6, <1>8
  <2>4. next' \in 1 .. last_id' BY <1>1, <1>6, <1>8, <1>9
  <2>5. synced' \in 0 .. Len(file') BY <1>1, <1>6, <1>12, <1>15, <1>18
  <2> QED BY <2>2, <2>3, <2>4, <2>5, <1>0, <1>6 DEF NumbersOK
<1>23. EventsOK(W, E)'
  <2>1. \A m \in next' .. last_id' - 1 : Makes(E[m], m, W[m - 1], W[m])
    <3>1. next' \in Nat /\ next' >= next /\ last_id' = last_id BY <1>6, <1>8, <1>9
    <3> QED BY <3>1, <1>0, <1>1 DEF EventsOK
  <2>2. \A m \in waiting' : m \in DOMAIN came' /\ came'[m] = E[m] BY <1>8, <1>10
  <2> QED BY <2>1, <2>2 DEF EventsOK
<1>24. HeldOK(E)'
  <2>1. Tail(held[t]) \in Seq(Sent) /\ Len(Tail(held[t])) = Len(held[t]) - 1
        /\ \A i \in 1 .. Len(held[t]) - 1 : Tail(held[t])[i] = held[t][i + 1]
    BY <1>2
  <2>2. held' \in [Threads -> Seq(Sent)] BY <1>2, <1>6, <2>1
  <2>3. ASSUME NEW u \in Threads, NEW i \in 1 .. Len(held'[u])
        PROVE  \E j \in 1 .. Len(held[u]) : /\ held'[u][i] = held[u][j] /\ ~ (u = t /\ j = 1)
                                            /\ j = IF u = t THEN i + 1 ELSE i
    <3>1. CASE u # t BY <3>1, <1>2, <1>6
    <3>2. CASE u = t
      <4>1. held'[u] = Tail(held[t]) BY <3>2, <1>2, <1>6
      <4>2. i \in 1 .. Len(held[t]) - 1 BY <4>1, <2>1
      <4>3. i + 1 \in 1 .. Len(held[u]) /\ i + 1 # 1 BY <4>2, <3>2, <1>2
      <4>4. held'[u][i] = held[u][i + 1] BY <4>1, <4>2, <3>2, <2>1
      <4> QED BY <3>2, <4>3, <4>4
    <3> QED BY <3>1, <3>2
  <2>4. ASSUME NEW u \in Threads, NEW i \in 1 .. Len(held'[u])
        PROVE  /\ held'[u][i].seq_no \in next' .. last_id' - 1 /\ held'[u][i].seq_no \notin waiting'
               /\ held'[u][i].event = E[held'[u][i].seq_no]
    <3>1. PICK j \in 1 .. Len(held[u]) : held'[u][i] = held[u][j] /\ ~ (u = t /\ j = 1)
      <4>1. PICK j \in 1 .. Len(held[u]) :
              /\ held'[u][i] = held[u][j] /\ ~ (u = t /\ j = 1)
              /\ j = IF u = t THEN i + 1 ELSE i
        BY <2>3
      <4> QED BY <4>1
    <3>2. PICK m : m = held[u][j].seq_no OBVIOUS
    <3>3. m \in next .. last_id - 1 /\ m \notin waiting /\ held[u][j].event = E[m]
      BY ONLY u \in Threads, j \in 1 .. Len(held[u]), <3>2, <1>0, Zenon DEF HeldOK
    <3>4. m # n BY <3>1, <3>2, <1>3, <1>4, <1>0 DEF HeldOK
    <3>5. m \notin next .. b - 1 BY <3>3, <3>4, <1>8
    <3>6. m \in b .. last_id - 1 BY <3>3, <3>5, <1>1, <1>9
    <3> QED BY <3>1, <3>2, <3>3, <3>4, <3>6, <1>6, <1>8
  <2>5. ASSUME NEW x \in Threads, NEW y \in Threads, NEW i \in 1 .. Len(held'[x]), NEW j \in 1 .. Len(held'[y]),
               held'[x][i].seq_no = held'[y][j].seq_no
        PROVE  x = y /\ i = j
    <3>1. PICK k \in 1 .. Len(held[x]) : held'[x][i] = held[x][k] /\ k = IF x = t THEN i + 1 ELSE i BY <2>3
    <3>2. PICK l \in 1 .. Len(held[y]) : held'[y][j] = held[y][l] /\ l = IF y = t THEN j + 1 ELSE j BY <2>3
    <3>3. x = y /\ k = l BY <3>1, <3>2, <2>5, <1>0 DEF HeldOK
    <3>4. held'[x] \in Seq(Sent) /\ held'[y] \in Seq(Sent) BY <2>2
    <3>5. i \in Int /\ j \in Int BY <3>4
    <3>6. i = j BY ONLY <3>1, <3>2, <3>3, <3>5
    <3> QED BY <3>3, <3>6
  <2> QED BY <2>2, <2>4, <2>5 DEF HeldOK
<1>25. Inv(W, E)' BY <1>20, <1>21, <1>22, <1>23, <1>24 DEF Inv
<1> QED BY <1>25, Zenon DEF KInv

\* What is held depends on nothing else.
LEMMA HeldSame ==
  ASSUME NEW E, HeldOK(E), UNCHANGED <<held, next, last_id, waiting>>
  PROVE  HeldOK(E)'
<1>1. held' = held /\ next' = next /\ last_id' = last_id /\ waiting' = waiting OBVIOUS
<1> QED BY ONLY HeldOK(E), <1>1, SMTT(30) DEF HeldOK

\* A sync: fewer beginnings of the file may come back.
LEMMA SyncStep ==
  ASSUME NEW W, NEW E, Inv(W, E), Sync
  PROVE  KInv'
<1>0. NumbersOK /\ FileOK(W) /\ PastOK(W) /\ EventsOK(W, E) /\ HeldOK(E) BY DEF Inv
<1>1. /\ last_id \in Nat /\ next \in Nat /\ next >= 1 /\ next <= last_id
      /\ file \in Seq(Events) /\ Len(file) \in Nat /\ synced \in Nat /\ synced <= Len(file)
      /\ \A j \in synced .. Len(file) : Moment(j) \in Int /\ Moment(j) <= next - 1 /\ Moment(synced) <= Moment(j)
      /\ Moment(Len(file)) = next - 1
  BY <1>0, Numbers
<1>2. synced' = Len(file) /\ UNCHANGED <<map, last_id, held, came, next, waiting, file, hist, restarts>>
  BY DEF Sync
<1>3. NumbersOK' BY <1>0, <1>1, <1>2 DEF NumbersOK
<1>4. \A j : Moment(j)' = Moment(j) BY <1>2 DEF Moment
<1>5. FileOK(W)'
  <2>1. \A j \in Len(file) .. Len(file) : j \in synced .. Len(file) BY <1>1
  <2>2. \A j \in Len(file) .. Len(file) : Stands(SubSeq(file, 1, j), W[Moment(j)], next - 1)
    BY <2>1, <1>0 DEF FileOK
  <2> QED BY <2>2, <1>0, <1>2, <1>4 DEF FileOK, Moment
<1>6. PastOK(W)'
  <2>1. Moment(synced') = next - 1 BY <1>1, <1>2
  <2>2. \A n \in next - 1 .. last_id - 1 : n \in Moment(synced) .. last_id - 1 BY <1>1
  <2>3. \A n \in next - 1 .. last_id - 1 :
          Good(W[n], last_id - 1) /\ n \in DOMAIN hist /\ hist[n] = Contents(MapOf(W[n]))
    BY <2>2, <1>0 DEF PastOK
  <2>4. Moment(synced)' = next - 1 BY <2>1, <1>2 DEF Moment
  <2> QED BY <2>3, <2>4, <1>0, <1>2 DEF PastOK
<1>7. EventsOK(W, E)' BY <1>0, <1>2 DEF EventsOK
<1>8. HeldOK(E)' BY <1>0, <1>2, HeldSame
<1>9. Inv(W, E)' BY <1>3, <1>5, <1>6, <1>7, <1>8 DEF Inv
<1> QED BY <1>9, Zenon DEF KInv

\* A reindex: the file is the events of for_each, and stands for the same map.
LEMMA ReindexStep ==
  ASSUME NEW W, NEW E, Inv(W, E), Reindex
  PROVE  KInv'
<1>0. NumbersOK /\ FileOK(W) /\ PastOK(W) /\ EventsOK(W, E) /\ HeldOK(E) BY DEF Inv
<1>1. /\ last_id \in Nat /\ next \in Nat /\ next >= 1 /\ next <= last_id
      /\ file \in Seq(Events) /\ Len(file) \in Nat /\ synced \in Nat /\ synced <= Len(file)
      /\ \A j \in synced .. Len(file) : Moment(j) \in Int /\ Moment(j) <= next - 1 /\ Moment(synced) <= Moment(j)
      /\ Moment(Len(file)) = next - 1
  BY <1>0, Numbers
<1>2. /\ file' = LiveEvents(AfterEvents(file)) /\ synced' = Len(file')
      /\ UNCHANGED <<map, last_id, held, came, next, waiting, hist, restarts>>
  BY DEF Reindex, Live, Replay
<1> DEFINE p == AfterEvents(file)
<1>3. Sound(p) BY <1>0, FineSound DEF FileOK
<1>4. View(p) = W[next - 1] /\ p.last_id <= next - 1
  <2>1. Len(file) \in synced .. Len(file) /\ SubSeq(file, 1, Len(file)) = file BY <1>1
  <2>2. Stands(file, W[Moment(Len(file))], next - 1) BY <2>1, <1>0 DEF FileOK
  <2> QED BY <2>2, <1>1 DEF Stands
<1>5. /\ Fine(file') /\ View(AfterEvents(file')) = View(p)
      /\ AfterEvents(file').last_id <= p.last_id
  BY <1>2, <1>3, LiveEventsRegain
<1>6. AfterEvents(file').last_id \in Nat /\ p.last_id \in Nat
  <2>1. Sound(AfterEvents(file')) BY <1>5, FineSound
  <2> QED BY <1>3, <2>1, ProcParts DEF Sound
<1> HIDE DEF p
<1>7. Stands(file', W[next - 1], next - 1)
  <2>1. AfterEvents(file').last_id <= next - 1 BY <1>1, <1>4, <1>5, <1>6
  <2> QED BY <2>1, <1>4, <1>5 DEF Stands
<1>8. file' \in Seq(Events) /\ Len(file') \in Nat BY <1>5 DEF Fine
<1>9. NumbersOK' BY <1>0, <1>2, <1>8 DEF NumbersOK
<1>10. Moment(synced)' = next - 1 BY <1>1, <1>2, <1>8 DEF Moment
<1>11. FileOK(W)'
  <2>1. ASSUME NEW j \in synced' .. Len(file')
        PROVE  Stands(SubSeq(file', 1, j), W[Moment(j)'], next' - 1)
    <3>1. j = Len(file') BY <1>2, <1>8
    <3>2. SubSeq(file', 1, Len(file')) = file' BY <1>8
    <3>3. Moment(j)' = next - 1 /\ next' = next BY <3>1, <1>1, <1>2, <1>8 DEF Moment
    <3> QED BY <3>1, <3>2, <3>3, <1>7
  <2> QED BY <2>1, <1>5 DEF FileOK
<1>12. PastOK(W)'
  <2>2. \A n \in next - 1 .. last_id - 1 : n \in Moment(synced) .. last_id - 1 BY <1>1
  <2>3. \A n \in next - 1 .. last_id - 1 :
          Good(W[n], last_id - 1) /\ n \in DOMAIN hist /\ hist[n] = Contents(MapOf(W[n]))
    BY <2>2, <1>0 DEF PastOK
  <2> QED BY <2>3, <1>10, <1>0, <1>2 DEF PastOK
<1>13. EventsOK(W, E)' BY <1>0, <1>2 DEF EventsOK
<1>14. HeldOK(E)' BY <1>0, <1>2, HeldSame
<1>15. Inv(W, E)' BY <1>9, <1>11, <1>12, <1>13, <1>14 DEF Inv
<1> QED BY <1>15, Zenon DEF KInv

\* A beginning of the file that a restart may keep: what it stands for.
LEMMA Beginning ==
  ASSUME NEW W, NEW E, Inv(W, E), NEW j \in synced .. Len(file), NEW p,
         p = AfterEvents(SubSeq(file, 1, j))
  PROVE  /\ Fine(SubSeq(file, 1, j)) /\ Sound(p) /\ Len(SubSeq(file, 1, j)) = j
         /\ View(p) = W[Moment(j)] /\ Good(View(p), p.last_id)
         /\ p.last_id \in Nat /\ p.last_id <= MaxNumber
         /\ Moment(j) \in DOMAIN hist /\ hist[Moment(j)] = Contents(MapOf(View(p)))
<1>0. NumbersOK /\ FileOK(W) /\ PastOK(W) BY DEF Inv
<1>1. /\ last_id \in Nat /\ next \in Nat /\ next >= 1 /\ next <= last_id
      /\ file \in Seq(Events) /\ Len(file) \in Nat /\ synced \in Nat /\ synced <= Len(file)
      /\ \A i \in synced .. Len(file) : Moment(i) \in Int /\ Moment(i) <= next - 1 /\ Moment(synced) <= Moment(i)
  BY <1>0, Numbers
<1>2. j \in 0 .. Len(file) /\ Len(SubSeq(file, 1, j)) = j BY <1>1
<1>3. Fine(SubSeq(file, 1, j)) /\ Sound(p) BY <1>0, <1>2, FineFirst DEF FileOK
<1>4. View(p) = W[Moment(j)] /\ p.last_id <= next - 1 BY <1>0 DEF FileOK, Stands
<1>5. p.last_id \in Nat /\ DOMAIN View(p) \subseteq 1 .. p.last_id
  BY <1>3, ProcParts, ViewParts DEF Sound, LiveIds
<1>6. Moment(j) \in Moment(synced) .. last_id - 1
  <2>1. synced \in synced .. Len(file) BY <1>1
  <2>2. Moment(synced) \in Int /\ Moment(j) \in Int /\ Moment(synced) <= Moment(j) /\ Moment(j) <= next - 1
    BY <1>1, <2>1
  <2> QED BY <1>1, <2>2
<1>7. Good(W[Moment(j)], last_id - 1) /\ Moment(j) \in DOMAIN hist /\ hist[Moment(j)] = Contents(MapOf(W[Moment(j)]))
  BY <1>0, <1>6 DEF PastOK
<1>8. Good(View(p), p.last_id) BY <1>4, <1>5, <1>7 DEF Good
<1>9. p.last_id <= MaxNumber
  <2>1. last_id <= MaxNumber + 1 /\ MaxNumber \in Nat BY <1>0, KeyValueAssumption DEF NumbersOK
  <2> QED BY <2>1, <1>1, <1>4, <1>5
<1> QED BY <1>2, <1>3, <1>4, <1>5, <1>7, <1>8, <1>9

\* A restart: the map after it, and the moment of the past it is from.
LEMMA RestartGives ==
  ASSUME NEW W, NEW E, Inv(W, E), Restart
  PROVE  \E n, p :
           /\ n \in synced .. Len(file)
           /\ p = AfterEvents(SubSeq(file, 1, n)) /\ Fine(SubSeq(file, 1, n))
           /\ Len(SubSeq(file, 1, n)) = n
           /\ View(p) = W[Moment(n)] /\ Good(View(p), p.last_id)
           /\ p.last_id \in Nat /\ p.last_id <= MaxNumber
           /\ hist[Moment(n)] = Contents(MapOf(View(p)))
           /\ file' = SubSeq(file, 1, n) /\ synced' = synced
           /\ map' = MapOf(View(p)) /\ last_id' = p.last_id + 1 /\ next' = p.last_id + 1
           /\ hist' = [i \in last_id' - 1 - (n - synced) .. last_id' - 1 |->
                         hist[Moment(n) - (last_id' - 1 - i)]]
<1>1. PICK n \in synced .. Len(file) : \E p \in {AfterEvents(SubSeq(file, 1, n))} :
        /\ file' = SubSeq(file, 1, n) /\ map' = Emplaced(p)
        /\ last_id' = p.last_id + 1 /\ next' = last_id'
        /\ hist' = [i \in last_id' - 1 - (n - synced) .. last_id' - 1 |->
                      hist[Moment(n) - (last_id' - 1 - i)]]
  BY DEF Restart, Replay, FirstNumber
<1>2. PICK p : p = AfterEvents(SubSeq(file, 1, n)) OBVIOUS
<1>3. /\ file' = SubSeq(file, 1, n) /\ map' = Emplaced(p)
      /\ last_id' = p.last_id + 1 /\ next' = p.last_id + 1
      /\ hist' = [i \in last_id' - 1 - (n - synced) .. last_id' - 1 |->
                    hist[Moment(n) - (last_id' - 1 - i)]]
  BY <1>1, <1>2
<1>4. /\ Fine(SubSeq(file, 1, n)) /\ Len(SubSeq(file, 1, n)) = n
      /\ View(p) = W[Moment(n)] /\ Good(View(p), p.last_id)
      /\ p.last_id \in Nat /\ p.last_id <= MaxNumber
      /\ hist[Moment(n)] = Contents(MapOf(View(p)))
  BY <1>2, Beginning
<1>5. Emplaced(p) = MapOf(View(p)) BY <1>4, EmplacedIs
<1>6. synced' = synced BY DEF Restart
<1> HIDE DEF Moment
<1> QED BY <1>2, <1>3, <1>4, <1>5, <1>6

\* After a restart the moments that the file still has are counted back from its last number.
LEMMA RestartStep ==
  ASSUME NEW W, NEW E, Inv(W, E), Restart
  PROVE  KInv'
<1>1. PICK n, p :
           /\ n \in synced .. Len(file)
           /\ p = AfterEvents(SubSeq(file, 1, n)) /\ Fine(SubSeq(file, 1, n))
           /\ Len(SubSeq(file, 1, n)) = n
           /\ View(p) = W[Moment(n)] /\ Good(View(p), p.last_id)
           /\ p.last_id \in Nat /\ p.last_id <= MaxNumber
           /\ hist[Moment(n)] = Contents(MapOf(View(p)))
           /\ file' = SubSeq(file, 1, n) /\ synced' = synced
           /\ map' = MapOf(View(p)) /\ last_id' = p.last_id + 1 /\ next' = p.last_id + 1
           /\ hist' = [i \in last_id' - 1 - (n - synced) .. last_id' - 1 |->
                         hist[Moment(n) - (last_id' - 1 - i)]]
  BY RestartGives
<1>0. NumbersOK /\ FileOK(W) BY DEF Inv
<1>2. /\ next \in Nat /\ file \in Seq(Events) /\ Len(file) \in Nat /\ synced \in Nat /\ n \in Nat
      /\ synced <= n /\ n <= Len(file)
  <2>1. next \in Nat /\ file \in Seq(Events) /\ Len(file) \in Nat /\ synced \in Nat BY <1>0, Numbers
  <2> QED BY <1>1, <2>1
<1>3. PICK l, M, A : l = p.last_id /\ M = Moment(n) /\ A = [m \in Int |-> W[M - (l - m)]] OBVIOUS
<1>4. held' = [t \in Threads |-> << >>] /\ came' = Nothing /\ waiting' = {} BY DEF Restart
<1>5. /\ l \in Nat /\ l <= MaxNumber /\ last_id' = l + 1 /\ next' = l + 1
      /\ last_id' - 1 = l /\ next' - 1 = l /\ M \in Int
      /\ file' \in Seq(Events) /\ Len(file') = n /\ Fine(file') /\ synced' = synced
  <2>1. M \in Int BY <1>2, <1>3 DEF Moment
  <2>2. l \in Nat /\ l <= MaxNumber /\ last_id' = l + 1 /\ next' = l + 1 BY <1>1, <1>3
  <2>3. last_id' - 1 = l /\ next' - 1 = l BY <2>2
  <2>4. Fine(file') /\ Len(file') = n /\ synced' = synced BY <1>1
  <2>5. file' \in Seq(Events) BY <2>4 DEF Fine
  <2> QED BY <2>1, <2>2, <2>3, <2>4, <2>5
<1>6. DOMAIN came' = {} BY <1>4 DEF Nothing
<1>7. hist' = [i \in l - (n - synced) .. l |-> hist[M - (l - i)]] BY <1>1, <1>3, <1>5
<1>8. NumbersOK'
  <2>1. \A i \in DOMAIN hist' : i \in Int /\ i < last_id'
    <3>1. DOMAIN hist' = l - (n - synced) .. l BY <1>7
    <3> QED BY <3>1, <1>2, <1>5
  <2>2. l + 1 \in 1 .. MaxNumber + 1 /\ l + 1 \in 1 .. l + 1 BY <1>5, KeyValueAssumption
  <2>3. synced \in 0 .. n BY <1>2
  <2> QED BY <2>1, <2>2, <2>3, <1>4, <1>5, <1>6 DEF NumbersOK
<1>9. ASSUME NEW j \in synced .. n
      PROVE  /\ Moment(j)' = l - (n - j) /\ l - (n - j) \in Int
             /\ M - (l - (l - (n - j))) = Moment(j) /\ A[l - (n - j)] = W[Moment(j)]
  <2>1. Moment(j)' = (l + 1) - 1 - (n - j) BY <1>5 DEF Moment
  <2>2. M = next - 1 - (Len(file) - n) /\ Moment(j) = next - 1 - (Len(file) - j) BY <1>3 DEF Moment
  <2>3. Moment(j)' = l - (n - j) /\ l - (n - j) \in Int BY <2>1, <1>2, <1>5
  <2>4. M - (l - (l - (n - j))) = Moment(j) BY <2>2, <1>2, <1>5
  <2>5. A[l - (n - j)] = W[M - (l - (l - (n - j)))] BY <1>3, <2>3
  <2> QED BY <2>3, <2>4, <2>5
<1>10. ASSUME NEW j \in synced .. n
       PROVE  /\ Stands(SubSeq(file', 1, j), A[Moment(j)'], l) /\ Good(W[Moment(j)], l)
              /\ hist[Moment(j)] = Contents(MapOf(W[Moment(j)]))
  <2>1. PICK q : q = AfterEvents(SubSeq(file, 1, j)) OBVIOUS
  <2>2. j \in synced .. Len(file) /\ j \in 0 .. Len(file) /\ n \in j .. Len(file) BY <1>2
  <2>3. /\ View(q) = W[Moment(j)] /\ Good(View(q), q.last_id) /\ q.last_id \in Nat
        /\ hist[Moment(j)] = Contents(MapOf(View(q)))
    BY <2>1, <2>2, Beginning
  <2>4. q.last_id <= l
    <3>1. Fine(file) BY <1>0 DEF FileOK
    <3>2. AfterEvents(SubSeq(file, 1, j)).last_id <= AfterEvents(SubSeq(file, 1, n)).last_id
      BY ONLY <3>1, <2>2, FineLast
    <3> QED BY <3>2, <2>1, <1>1, <1>3
  <2>5. SubSeq(file', 1, j) = SubSeq(file, 1, j)
    <3>1. SubSeq(SubSeq(file, 1, n), 1, j) = SubSeq(file, 1, j)
      BY ONLY <1>2, j \in synced .. n
    <3> QED BY <3>1, <1>1
  <2>6. Stands(SubSeq(file', 1, j), W[Moment(j)], l) BY <2>1, <2>3, <2>4, <2>5 DEF Stands
  <2>7. A[Moment(j)'] = W[Moment(j)] BY <1>9
  <2>8. Good(View(q), l) BY <2>3, <2>4, <1>5, GoodMore
  <2> QED BY <2>3, <2>6, <2>7, <2>8
<1>11. FileOK(A)'
  <2>1. ASSUME NEW j \in synced' .. Len(file') PROVE Stands(SubSeq(file', 1, j), A[Moment(j)'], next' - 1)
    <3>1. j \in synced .. n BY <1>5
    <3> QED BY <3>1, <1>5, <1>10
  <2> QED BY <2>1, <1>5 DEF FileOK
<1>12. PastOK(A)'
  <2>0. Moment(synced)' = l - (n - synced)
    <3>1. Moment(synced)' = (l + 1) - 1 - (n - synced) BY <1>5 DEF Moment
    <3> QED BY <3>1, <1>2, <1>5
  <2>1. ASSUME NEW m \in Moment(synced)' .. last_id' - 1
        PROVE  Good(A[m], last_id' - 1) /\ m \in DOMAIN hist' /\ hist'[m] = Contents(MapOf(A[m]))
    <3>1. m \in l - (n - synced) .. l BY <2>0, <1>5
    <3>2. PICK j \in synced .. n : m = l - (n - j)
      <4>1. n - (l - m) \in synced .. n /\ m = l - (n - (n - (l - m))) BY <3>1, <1>2, <1>5
      <4> QED BY <4>1
    <3>3. A[m] = W[Moment(j)] /\ M - (l - m) = Moment(j) BY <3>2, <1>9
    <3>4. m \in DOMAIN hist' /\ hist'[m] = hist[M - (l - m)] BY <3>1, <1>7
    <3> QED BY <3>3, <3>4, <1>5, <1>10
  <2>2. map' = MapOf(A[last_id' - 1])
    <3>1. n \in synced .. n /\ l - (n - n) = l BY <1>2, <1>5
    <3>2. A[l] = W[Moment(n)] BY <3>1, <1>9
    <3> QED BY <3>2, <1>1, <1>5
  <2> QED BY <2>1, <2>2 DEF PastOK
<1>13. EventsOK(A, E)'
  <2>1. next' .. last_id' - 1 = {} BY <1>5
  <2> QED BY <2>1, <1>4 DEF EventsOK
<1>14. HeldOK(E)'
  <2>1. \A t \in Threads : held'[t] = << >> /\ 1 .. Len(held'[t]) = {} BY <1>4
  <2>2. held' \in [Threads -> Seq(Sent)] BY <1>4
  <2> QED BY <2>1, <2>2 DEF HeldOK
<1>15. Inv(A, E)' BY <1>8, <1>11, <1>12, <1>13, <1>14 DEF Inv
<1> QED BY <1>15, Zenon DEF KInv

\* An empty log stands for an empty map.
LEMMA InitStep == Init => KInv
<1> SUFFICES ASSUME Init PROVE KInv OBVIOUS
<1>1. PICK w, A : w = Nothing /\ A = [m \in Int |-> w] OBVIOUS
<1>2. /\ map = Nothing /\ last_id = 1 /\ held = [t \in Threads |-> << >>] /\ came = Nothing
      /\ next = 1 /\ waiting = {} /\ file = << >> /\ synced = 0 /\ hist = [m \in {0} |-> Nothing]
  BY DEF Init
<1>3. A[0] = w /\ DOMAIN w = {} /\ w = [i \in {} |-> Empty] BY <1>1 DEF Nothing
<1>4. Good(w, 0) BY <1>3 DEF Good
<1>5. MapOf(w) = Nothing BY <1>3 DEF MapOf, OfKey, Nothing
<1>6. Contents(Nothing) = Nothing BY DEF Contents, Nothing
<1>7. View(NoEvents) = w BY <1>3, NoEventsSound, NoEventsProc DEF View
<1>8. NumbersOK BY <1>2, KeyValueAssumption DEF NumbersOK, Nothing
<1>9. FileOK(A)
  <2>1. ASSUME NEW j \in synced .. Len(file) PROVE Stands(SubSeq(file, 1, j), A[Moment(j)], next - 1)
    <3>1. j = 0 /\ Moment(j) = 0 /\ next - 1 = 0 /\ SubSeq(file, 1, j) = << >> BY <1>2 DEF Moment
    <3>2. Stands(<< >>, w, 0) BY <1>7, AfterNone, NoEventsProc DEF Stands
    <3> QED BY <3>1, <3>2, <1>3
  <2> QED BY <2>1, <1>2, FineNone DEF FileOK
<1>10. PastOK(A)
  <2>0. Len(file) = 0 BY <1>2
  <2>4. next = 1 /\ synced = 0 /\ last_id = 1 BY <1>2
  <2>1. Moment(synced) = 0 /\ last_id - 1 = 0 BY ONLY <2>0, <2>4 DEF Moment
  <2>2. 0 \in DOMAIN hist /\ hist[0] = Contents(MapOf(A[0])) /\ map = MapOf(A[0]) BY <1>2, <1>3, <1>5, <1>6
  <2>3. \A n \in 0 .. 0 : n = 0 OBVIOUS
  <2> QED BY <2>1, <2>2, <2>3, <1>3, <1>4 DEF PastOK
<1>11. EventsOK(A, A) BY <1>2 DEF EventsOK
<1>12. HeldOK(A) BY <1>2 DEF HeldOK
<1>13. Inv(A, A) BY <1>8, <1>9, <1>10, <1>11, <1>12 DEF Inv
<1> QED BY <1>13, Zenon DEF KInv

\* Every step keeps the invariant.
LEMMA NextStep == KInv /\ [Next]_vars => KInv'
<1> SUFFICES ASSUME KInv, [Next]_vars PROVE KInv' OBVIOUS
<1>0. PICK W, E : Inv(W, E) BY DEF KInv
<1>1. CASE \E t \in Threads, k \in Keys, v \in Values : Set(t, k, v) BY <1>0, <1>1, SetStep
<1>2. CASE \E t \in Threads, k \in Keys : Erase(t, k) BY <1>0, <1>2, EraseOne
<1>3. CASE \E t \in Threads, p \in KeyPrefixes : EraseByPrefix(t, p) BY <1>0, <1>3, EraseMany
<1>4. CASE \E t \in Threads : Deliver(t) BY <1>0, <1>4, DeliverStep
<1>5. CASE Sync BY <1>0, <1>5, SyncStep
<1>6. CASE Reindex BY <1>0, <1>6, ReindexStep
<1>7. CASE Restart BY <1>0, <1>7, RestartStep
<1>8. CASE UNCHANGED vars
  <2>1. UNCHANGED <<map, last_id, held, came, next, waiting, file, synced, hist, restarts>> BY <1>8 DEF vars
  <2>2. Inv(W, E)' BY <1>0, <2>1 DEF Inv, NumbersOK, FileOK, PastOK, EventsOK, HeldOK, Moment
  <2> QED BY <2>2, Zenon DEF KInv
<1> QED BY <1>1, <1>2, <1>3, <1>4, <1>5, <1>6, <1>7, <1>8 DEF Next

\* The invariant holds in every state.
LEMMA AlwaysKInv == Spec => []KInv
<1>1. Init => KInv BY InitStep
<1>2. KInv /\ [Next]_vars => KInv' BY NextStep
<1> QED BY <1>1, <1>2, PTL DEF Spec

-----------------------------------------------------------------------------
(* Theorems *)

\* Whatever the order in which threads send their events, the file stands for
\* the map as it was when the last number in it was taken.
THEOREM LogStandsForMap == Spec => []LogAgrees
<1>1. KInv => LogAgrees
  <2> SUFFICES ASSUME KInv PROVE LogAgrees OBVIOUS
  <2>0. PICK W, E : Inv(W, E) BY DEF KInv
  <2>1. NumbersOK /\ FileOK(W) /\ PastOK(W) BY <2>0 DEF Inv
  <2>2. /\ last_id \in Nat /\ next \in Nat /\ next >= 1 /\ next <= last_id
        /\ file \in Seq(Events) /\ Len(file) \in Nat /\ synced \in Nat /\ synced <= Len(file)
        /\ \A j \in synced .. Len(file) : Moment(j) \in Int /\ Moment(j) <= next - 1 /\ Moment(synced) <= Moment(j)
        /\ Moment(Len(file)) = next - 1
    BY <2>1, Numbers
  <2>3. Len(file) \in synced .. Len(file) /\ SubSeq(file, 1, Len(file)) = file BY <2>2
  <2>4. View(AfterEvents(file)) = W[next - 1] BY <2>1, <2>2, <2>3 DEF FileOK, Stands
  <2>5. next - 1 \in Moment(synced) .. last_id - 1 /\ next - 1 \in Nat BY <2>2, <2>3
  <2>6. Good(W[next - 1], last_id - 1) /\ last_id - 1 \in Nat /\ hist[next - 1] = Contents(MapOf(W[next - 1]))
    BY <2>1, <2>2, <2>5 DEF PastOK
  <2>7. Emplaced(AfterEvents(file)) = MapOf(W[next - 1]) BY <2>4, <2>5, <2>6, EmplacedIs
  <2> QED BY <2>6, <2>7 DEF LogAgrees, Replay
<1> QED BY <1>1, AlwaysKInv, PTL

\* No event that set() or erase() sends is one do_event() refuses, and no two
\* keys share an id.
THEOREM IdsStaySound == Spec => []IdsAreSound
<1>1. KInv => IdsAreSound
  <2> SUFFICES ASSUME KInv PROVE IdsAreSound OBVIOUS
  <2>0. PICK W, E : Inv(W, E) BY DEF KInv
  <2>1. NumbersOK /\ FileOK(W) /\ PastOK(W) /\ HeldOK(E) BY <2>0 DEF Inv
  <2>2. /\ last_id \in Nat /\ next \in Nat /\ next >= 1 /\ next <= last_id
        /\ file \in Seq(Events) /\ Len(file) \in Nat /\ synced \in Nat /\ synced <= Len(file)
        /\ Moment(synced) \in Int /\ Moment(synced) <= next - 1
    <3>1. synced \in synced .. Len(file) BY <2>1, Numbers
    <3> QED BY <2>1, <3>1, Numbers
  <2>3. PICK w, n : w = W[last_id - 1] /\ n = last_id - 1 /\ n \in Nat BY <2>2
  <2>4. n \in Moment(synced) .. last_id - 1 BY <2>2, <2>3
  <2>5. Good(w, n) /\ map = MapOf(w) BY <2>1, <2>3, <2>4 DEF PastOK
  <2>6. /\ DOMAIN map \subseteq Keys
        /\ \A k \in DOMAIN map :
             /\ map[k] \in [value : Values, id : 1 .. n]
             /\ map[k].id \in DOMAIN w /\ w[map[k].id] = <<k, map[k].value>>
    BY <2>3, <2>5, MapType
  <2>7. KeysOwnTheirIds
    <3> SUFFICES ASSUME NEW j \in DOMAIN map, NEW k \in DOMAIN map, map[j].id = map[k].id PROVE j = k
      BY DEF KeysOwnTheirIds
    <3>1. w[map[j].id] = <<j, map[j].value>> /\ w[map[k].id] = <<k, map[k].value>> BY <2>6
    <3> QED BY <3>1
  <2>8. EventsAccepted
    <3>1. DOMAIN file = 1 .. Len(file) BY <2>2
    <3>2. \A i \in 1 .. Len(file) : Accepts(AfterEvents(SubSeq(file, 1, i - 1)), file[i])
      BY <2>1, FineAccepted DEF FileOK
    <3> QED BY <3>1, <3>2 DEF EventsAccepted, Replay
  <2>9. TypeOK
    <3>1. n <= MaxNumber /\ MaxNumber \in Nat BY <2>1, <2>2, <2>3, KeyValueAssumption DEF NumbersOK
    <3>2. \A k \in DOMAIN map : map[k] \in [value : Values, id : 1 .. MaxNumber]
      <4>1. \A k \in DOMAIN map : map[k] \in [value : Values, id : 1 .. n] BY <2>6
      <4>2. 1 .. n \subseteq 1 .. MaxNumber BY <3>1, <2>3
      <4> QED BY <4>1, <4>2
    <3>3. \A t \in Threads : \A i \in DOMAIN held[t] : held[t][i].seq_no \in next .. last_id - 1
      <4> SUFFICES ASSUME NEW t \in Threads, NEW i \in DOMAIN held[t]
                   PROVE  held[t][i].seq_no \in next .. last_id - 1
        OBVIOUS
      <4>1. held[t] \in Seq(Sent) BY <2>1 DEF HeldOK
      <4>2. i \in 1 .. Len(held[t]) BY <4>1
      <4> QED BY <4>2, <2>1 DEF HeldOK
    <3> QED BY <3>2, <3>3, <2>1, <2>6 DEF TypeOK, NumbersOK
  <2> QED BY <2>7, <2>8, <2>9 DEF IdsAreSound
<1> QED BY <1>1, AlwaysKInv, PTL

\* A restart brings back the map as it was at one moment, at or after the last
\* sync, however many restarts came before it: what an earlier restart read
\* and did not sync may be lost by the next.
THEOREM RestartKeepsSynced == Spec => RestartGivesPast
<1>1. KInv /\ [Next]_vars =>
        [restarts' # restarts =>
           \E j \in synced .. Len(file) : Contents(map') = hist[Moment(j)]]_vars
  <2> SUFFICES ASSUME KInv, Next, restarts' # restarts
               PROVE  \E j \in synced .. Len(file) : Contents(map') = hist[Moment(j)]
    BY Zenon
  <2>0. PICK W, E : Inv(W, E) BY DEF KInv
  <2>1. Restart
    BY Zenon DEF Next, Set, Erase, EraseByPrefix, Log, Deliver, Sync, Reindex
  <2>2. PICK j, p :
          /\ j \in synced .. Len(file)
          /\ hist[Moment(j)] = Contents(MapOf(View(p))) /\ map' = MapOf(View(p))
    BY <2>0, <2>1, RestartGives
  <2> QED BY <2>2
<1> QED BY <1>1, AlwaysKInv, PTL DEF Spec, RestartGivesPast
=============================================================================
