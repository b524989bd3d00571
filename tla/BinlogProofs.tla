---------------------------- MODULE BinlogProofs ----------------------------
(***************************************************************************)
(* Proofs about Binlog, for any number of operations and keys.             *)
(*                                                                         *)
(* First what the operators compute: the replay of a sequence of events,   *)
(* the events that a reindex writes, what can be read of a file.  Then two *)
(* inductive invariants.  KeyInv is about the key of the file that the     *)
(* next init() finds; it holds whatever the tails of files look like.      *)
(* LogInv is about the contents: the file, each beginning of it that a     *)
(* power loss may leave, and the buffer stand for beginnings of the        *)
(* history.  LogInv holds unless a tail is taken for the end of the log or *)
(* a file with a bad tail is kept (see Kept).  Last the refinement of      *)
(* DurableLog.                                                             *)
(***************************************************************************)
EXTENDS Binlog, BinlogEventsProcessorProofs

(* The abstract replay *)

\* The operation n is the last one on the event i.
IsLast(s, i, n) ==
  n \in DOMAIN s /\ s[n].id = i /\ \A m \in n + 1 .. Len(s) : s[m].id # i

\* LastOp is the last operation, and there is only one.
LEMMA LastOpIs ==
  ASSUME NEW s \in Seq(Ops), NEW i, NEW k \in DOMAIN s, s[k].id = i
  PROVE  /\ IsLast(s, i, Durable!LastOp(s, i))
         /\ \A n : IsLast(s, i, n) => n = Durable!LastOp(s, i)
<1> DEFINE T == {n \in DOMAIN s : s[n].id = i}
<1>0. Len(s) \in Nat /\ DOMAIN s = 1 .. Len(s) OBVIOUS
<1>1. T \in SUBSET (0 .. Len(s)) /\ T # {} BY <1>0
<1>2. Max(T) \in T /\ \A y \in T : y <= Max(T) BY <1>0, <1>1, MaxOf
<1> DEFINE M == Max(T)
<1>3. M \in T /\ \A y \in T : y <= M BY <1>2
<1> HIDE DEF M
<1>4. M \in 1 .. Len(s) /\ s[M].id = i BY <1>0, <1>3
<1>5. ASSUME NEW m \in M + 1 .. Len(s) PROVE s[m].id # i
  <2>1. m \in DOMAIN s /\ ~ (m <= M) BY <1>0, <1>4
  <2> QED BY <2>1, <1>3
<1>6. \E n \in DOMAIN s : s[n].id = i /\ \A m \in n + 1 .. Len(s) : s[m].id # i
  BY <1>0, <1>4, <1>5
<1>7. IsLast(s, i, Durable!LastOp(s, i)) BY <1>6 DEF IsLast, Durable!LastOp
<1>8. ASSUME NEW n, NEW m, IsLast(s, i, n), IsLast(s, i, m) PROVE n = m
  BY <1>0, <1>8 DEF IsLast
<1> QED BY <1>7, <1>8

\* The events the operations are about.
IdsOf(s) == {s[n].id : n \in DOMAIN s}
Left(s) == {i \in IdsOf(s) : s[Durable!LastOp(s, i)].value # Empty}

\* What Replay looks like.
LEMMA ReplayIs ==
  ASSUME NEW s
  PROVE  Durable!Replay(s) = [i \in Left(s) |-> s[Durable!LastOp(s, i)].value]
BY DEF Durable!Replay, Left, IdsOf

\* One more operation.
LEMMA ReplayAppend ==
  ASSUME NEW s \in Seq(Ops), NEW o \in Ops
  PROVE  Durable!Replay(Append(s, o)) = Updated(Durable!Replay(s), o.id, o.value)
<1> DEFINE t == Append(s, o)
<1>1. /\ t \in Seq(Ops) /\ Len(s) \in Nat /\ Len(t) = Len(s) + 1 /\ t[Len(s) + 1] = o
      /\ DOMAIN s = 1 .. Len(s) /\ DOMAIN t = 1 .. Len(s) + 1
      /\ \A i \in 1 .. Len(s) : t[i] = s[i]
  OBVIOUS
<1> HIDE DEF t
<1>2. IdsOf(t) = IdsOf(s) \cup {o.id}
  <2>1. DOMAIN t = DOMAIN s \cup {Len(s) + 1} BY <1>1
  <2> QED BY <1>1, <2>1 DEF IdsOf
<1>3. t[Durable!LastOp(t, o.id)] = o
  <2>1. IsLast(t, o.id, Len(s) + 1) BY <1>1 DEF IsLast
  <2>2. Len(s) + 1 = Durable!LastOp(t, o.id) BY <1>1, <2>1, LastOpIs DEF IsLast
  <2> QED BY <1>1, <2>2
<1>4. ASSUME NEW i \in IdsOf(s), i # o.id
      PROVE  t[Durable!LastOp(t, i)] = s[Durable!LastOp(s, i)]
  <2>1. PICK k \in DOMAIN s : s[k].id = i BY DEF IdsOf
  <2>2. IsLast(s, i, Durable!LastOp(s, i)) BY <2>1, LastOpIs
  <2> DEFINE n == Durable!LastOp(s, i)
  <2>3. n \in 1 .. Len(s) /\ s[n].id = i /\ \A m \in n + 1 .. Len(s) : s[m].id # i
    BY <1>1, <2>2 DEF IsLast
  <2> HIDE DEF n
  <2>4. IsLast(t, i, n)
    <3>1. ASSUME NEW m \in n + 1 .. Len(t) PROVE t[m].id # i
      <4>1. CASE m = Len(s) + 1 BY <4>1, <1>1, <1>4
      <4>2. CASE m # Len(s) + 1
        <5>1. m \in n + 1 .. Len(s) /\ m \in 1 .. Len(s) BY <4>2, <1>1, <2>3
        <5> QED BY <5>1, <1>1, <2>3
      <4> QED BY <4>1, <4>2
    <3>2. n \in DOMAIN t /\ t[n].id = i BY <1>1, <2>3
    <3> QED BY <3>1, <3>2 DEF IsLast
  <2>5. k \in DOMAIN t /\ t[k].id = i BY <1>1, <2>1
  <2>6. n = Durable!LastOp(t, i) BY <1>1, <2>4, <2>5, LastOpIs
  <2>7. t[n] = s[n] BY <1>1, <2>3
  <2> QED BY <2>6, <2>7 DEF n
<1>5. Left(t) = IF o.value = Empty THEN Left(s) \ {o.id} ELSE Left(s) \cup {o.id}
  <2>1. \A i \in IdsOf(t) : i # o.id => i \in IdsOf(s) /\ t[Durable!LastOp(t, i)] = s[Durable!LastOp(s, i)]
    BY <1>2, <1>4
  <2>2. o.id \in IdsOf(t) /\ IdsOf(s) \subseteq IdsOf(t) BY <1>2
  <2> QED BY <1>2, <1>3, <1>4, <2>1, <2>2 DEF Left
<1>6. DOMAIN Durable!Replay(s) = Left(s)
      /\ \A i \in Left(s) : Durable!Replay(s)[i] = s[Durable!LastOp(s, i)].value
  BY ReplayIs
<1>7. ASSUME NEW i \in Left(t)
      PROVE  t[Durable!LastOp(t, i)].value = IF i = o.id THEN o.value ELSE Durable!Replay(s)[i]
  <2>1. CASE i = o.id BY <2>1, <1>3
  <2>2. CASE i # o.id
    <3>1. i \in Left(s) BY <2>2, <1>5
    <3>2. i \in IdsOf(s) BY <3>1 DEF Left
    <3> QED BY <2>2, <3>1, <3>2, <1>4, <1>6
  <2> QED BY <2>1, <2>2
<1>8. Durable!Replay(t) = [i \in Left(t) |-> t[Durable!LastOp(t, i)].value] BY ReplayIs
<1> QED BY <1>5, <1>6, <1>7, <1>8 DEF Updated, t

\* No operation.
LEMMA ReplayNone == Durable!Replay(<< >>) = View(NoEvents)
<1>1. Left(<< >>) = {} BY DEF Left, IdsOf
<1> QED BY <1>1, ReplayIs, NoEventsProc DEF View

-----------------------------------------------------------------------------
(* Chunks *)

File(c) == [chunks |-> c, synced |-> 0]
Enc(c) == Encrypted(File(c))
Valid(c) == ValidLen(File(c))
Content(c) == EventsOf(File(c))
Reads(c, i) == Readable(File(c), i)
Whole(c) == \A i \in 1 .. Len(c) : Reads(c, i)

\* A file is read by its chunks alone.
LEMMA ByChunks ==
  ASSUME NEW f
  PROVE  /\ Encrypted(f) = Enc(f.chunks)
         /\ ValidLen(f) = Valid(f.chunks)
         /\ EventsOf(f) = Content(f.chunks)
         /\ Loaded(f) = AfterEvents(Content(f.chunks))
         /\ HeaderKey(f) = HeaderKey(File(f.chunks))
<1> DEFINE g == File(f.chunks)
<1>0. g.chunks = f.chunks BY DEF File
<1> HIDE DEF g
<1>1. Encrypted(f) = Encrypted(g) BY <1>0 DEF Encrypted
<1>2. \A i : Readable(f, i) = Readable(g, i) BY <1>0, <1>1 DEF Readable
<1>3. ValidLen(f) = ValidLen(g)
  <2>1. {n \in 0 .. Len(f.chunks) : \A i \in 1 .. n : Readable(f, i)}
          = {n \in 0 .. Len(g.chunks) : \A i \in 1 .. n : Readable(g, i)}
    BY <1>0, <1>2
  <2> QED BY <2>1 DEF ValidLen
<1>4. EventsOf(f) = EventsOf(g) BY <1>0, <1>1, <1>3 DEF EventsOf
<1>5. HeaderKey(f) = HeaderKey(g) BY <1>0, <1>1 DEF HeaderKey
<1> QED BY <1>1, <1>3, <1>4, <1>5 DEF g, Enc, Valid, Content, Loaded

\* The parts of the file of some chunks.
LEMMA EncIs ==
  ASSUME NEW c
  PROVE  /\ Enc(c) = (c # << >> /\ c[1].kind = "key")
         /\ HeaderKey(File(c)) = IF Enc(c) THEN c[1].key ELSE NoKey
<1>0. File(c).chunks = c BY DEF File
<1>1. Enc(c) = (c # << >> /\ c[1].kind = "key") BY <1>0 DEF Enc, Encrypted
<1>2. HeaderKey(File(c)) = IF Enc(c) THEN c[1].key ELSE NoKey BY <1>0 DEF HeaderKey, Enc
<1> QED BY <1>1, <1>2

\* When a chunk can be read.
LEMMA ReadsIs ==
  ASSUME NEW c, NEW i
  PROVE  Reads(c, i) <=> \/ i = 1 /\ Enc(c)
                         \/ c[i].kind = "event" /\ c[i].pos = IF Enc(c) THEN i ELSE 0
<1>0. File(c).chunks = c BY DEF File
<1> QED BY <1>0 DEF Reads, Readable, Enc

\* The chunks up to Valid(c) can be read, the next one cannot.
LEMMA ValidIs ==
  ASSUME NEW X, NEW c \in Seq(X)
  PROVE  /\ Valid(c) \in 0 .. Len(c)
         /\ \A i \in 1 .. Valid(c) : Reads(c, i)
         /\ Valid(c) < Len(c) => ~ Reads(c, Valid(c) + 1)
<1> DEFINE T == {n \in 0 .. Len(c) : \A i \in 1 .. n : Reads(c, i)}
<1>0. Len(c) \in Nat OBVIOUS
<1>1. Valid(c) = Max(T) BY DEF Valid, ValidLen, File, Reads
<1>2. 0 \in T BY <1>0
<1>3. T \in SUBSET (0 .. Len(c)) /\ T # {} BY <1>2
<1>4. Max(T) \in T /\ \A y \in T : y <= Max(T) BY <1>0, <1>3, MaxOf
<1> DEFINE V == Valid(c)
<1>5. V \in T /\ \A y \in T : y <= V BY <1>1, <1>4
<1> HIDE DEF V
<1>6. V \in 0 .. Len(c) /\ \A i \in 1 .. V : Reads(c, i) BY <1>5
<1>7. ASSUME V < Len(c), Reads(c, V + 1) PROVE FALSE
  <2>1. \A i \in 1 .. V + 1 : i \in 1 .. V \/ i = V + 1 BY <1>6
  <2>2. V + 1 \in T BY <1>0, <1>6, <1>7, <2>1
  <2> QED BY <2>2, <1>5, <1>6
<1> QED BY <1>6, <1>7 DEF V

\* Only one number is like that.
LEMMA ValidUnique ==
  ASSUME NEW X, NEW c \in Seq(X), NEW n \in 0 .. Len(c),
         \A i \in 1 .. n : Reads(c, i), n = Len(c) \/ ~ Reads(c, n + 1)
  PROVE  Valid(c) = n
<1>0. Len(c) \in Nat OBVIOUS
<1>1. /\ Valid(c) \in 0 .. Len(c) /\ \A i \in 1 .. Valid(c) : Reads(c, i)
      /\ Valid(c) < Len(c) => ~ Reads(c, Valid(c) + 1)
  BY ValidIs
<1>2. CASE Valid(c) < n
  <2>1. Valid(c) + 1 \in 1 .. n /\ Valid(c) < Len(c) BY <1>0, <1>1, <1>2
  <2> QED BY <2>1, <1>1
<1>3. CASE Valid(c) > n
  <2>1. n + 1 \in 1 .. Valid(c) /\ n # Len(c) BY <1>0, <1>1, <1>3
  <2> QED BY <2>1, <1>1
<1> QED BY <1>0, <1>1, <1>2, <1>3

\* All of a whole file is read.
LEMMA ValidWhole ==
  ASSUME NEW X, NEW c \in Seq(X)
  PROVE  Whole(c) <=> Valid(c) = Len(c)
<1>0. Len(c) \in 0 .. Len(c) OBVIOUS
<1> QED BY <1>0, ValidUnique, ValidIs DEF Whole

\* The header is read when there is one.
LEMMA EncValid ==
  ASSUME NEW X, NEW c \in Seq(X), Enc(c)
  PROVE  Valid(c) >= 1 /\ Len(c) >= 1
<1>0. Len(c) \in Nat OBVIOUS
<1>1. Len(c) >= 1
  <2>1. c # << >> BY EncIs
  <2> QED BY <2>1
<1>2. Reads(c, 1) BY ReadsIs
<1> QED BY <1>0, <1>1, <1>2, ValidIs

\* How many chunks come before the first event.
Skip(c) == IF Enc(c) THEN 1 ELSE 0

\* What is read of a file.
LEMMA ContentIs ==
  ASSUME NEW X, NEW c \in Seq(X)
  PROVE  /\ Skip(c) \in {0, 1} /\ Valid(c) - Skip(c) \in Nat
         /\ Content(c) = [i \in 1 .. Valid(c) - Skip(c) |-> c[i + Skip(c)].ev]
<1>0. File(c).chunks = c BY DEF File
<1>1. Skip(c) \in {0, 1} BY DEF Skip
<1>2. Valid(c) - Skip(c) \in Nat BY ValidIs, EncValid DEF Skip
<1>3. Content(c) = [i \in 1 .. Valid(c) - Skip(c) |-> c[i + Skip(c)].ev]
  BY <1>0 DEF Content, EventsOf, Skip, Enc, Valid
<1> QED BY <1>1, <1>2, <1>3

\* A chunk that is read and is not the header holds an event.
LEMMA EventChunk ==
  ASSUME NEW x \in RawChunks, x.kind = "event"
  PROVE  x.ev \in RawEvents /\ x.pos \in Nat
<1>1. x \notin [kind : {"key"}, key : DbKeys] OBVIOUS
<1>2. x \notin Garbage BY DEF Garbage
<1> QED BY <1>1, <1>2 DEF RawChunks

\* What is read of a file is a sequence of events.
LEMMA ContentType ==
  ASSUME NEW c \in Seq(RawChunks)
  PROVE  Content(c) \in Seq(RawEvents) /\ Len(Content(c)) = Valid(c) - Skip(c)
<1> DEFINE n == Valid(c) - Skip(c)
<1>1. /\ Skip(c) \in {0, 1} /\ n \in Nat
      /\ Content(c) = [i \in 1 .. n |-> c[i + Skip(c)].ev]
  BY ContentIs
<1>2. Valid(c) \in 0 .. Len(c) /\ \A i \in 1 .. Valid(c) : Reads(c, i) BY ValidIs
<1>3. ASSUME NEW i \in 1 .. n PROVE c[i + Skip(c)].ev \in RawEvents
  <2> DEFINE j == i + Skip(c)
  <2>1. j \in 1 .. Valid(c) /\ (Enc(c) => j # 1) BY <1>1, <1>2 DEF Skip
  <2> HIDE DEF j
  <2>2. Reads(c, j) /\ j \in 1 .. Len(c) BY <1>2, <2>1
  <2>3. c[j].kind = "event" BY <2>1, <2>2, ReadsIs
  <2>4. c[j] \in RawChunks BY <2>2
  <2> QED BY <2>3, <2>4, EventChunk DEF j
<1> HIDE DEF n
<1>4. Content(c) \in [1 .. n -> RawEvents] BY <1>1, <1>3
<1>5. Content(c) \in Seq(RawEvents) /\ Len(Content(c)) = n BY <1>1, <1>4
<1> QED BY <1>5 DEF n

\* Two files whose readable beginnings are the same have the same content.
LEMMA SameContent ==
  ASSUME NEW X, NEW c \in Seq(X), NEW d \in Seq(X), NEW n \in Nat,
         n <= Len(c), n <= Len(d), \A i \in 1 .. n : c[i] = d[i], Enc(c) = Enc(d),
         \A i \in 1 .. n : Reads(c, i),
         n = Len(c) \/ ~ Reads(c, n + 1),
         n = Len(d) \/ ~ Reads(d, n + 1)
  PROVE  Content(c) = Content(d) /\ Valid(c) = n /\ Valid(d) = n
<1>0. n \in 0 .. Len(c) /\ n \in 0 .. Len(d) OBVIOUS
<1>1. \A i \in 1 .. n : Reads(d, i) BY ReadsIs
<1>2. Valid(c) = n BY <1>0, ValidUnique
<1>3. Valid(d) = n BY <1>0, <1>1, ValidUnique
<1>4. Skip(c) = Skip(d) BY DEF Skip
<1>5. /\ Skip(c) \in {0, 1} /\ n - Skip(c) \in Nat
      /\ Content(c) = [i \in 1 .. n - Skip(c) |-> c[i + Skip(c)].ev]
  BY <1>2, ContentIs
<1>6. Content(d) = [i \in 1 .. n - Skip(c) |-> d[i + Skip(c)].ev]
  BY <1>3, <1>4, ContentIs
<1>7. \A i \in 1 .. n - Skip(c) : i + Skip(c) \in 1 .. n BY <1>5
<1> QED BY <1>2, <1>3, <1>5, <1>6, <1>7

\* What is cut off behind the readable part does not matter.
LEMMA CutContent ==
  ASSUME NEW X, NEW c \in Seq(X), NEW n \in Valid(c) .. Len(c)
  PROVE  /\ Content(SubSeq(c, 1, n)) = Content(c)
         /\ Enc(SubSeq(c, 1, n)) = Enc(c)
         /\ Valid(SubSeq(c, 1, n)) = Valid(c)
         /\ HeaderKey(File(SubSeq(c, 1, n))) = HeaderKey(File(c))
<1> DEFINE d == SubSeq(c, 1, n)
<1>0. /\ Valid(c) \in 0 .. Len(c) /\ \A i \in 1 .. Valid(c) : Reads(c, i)
      /\ Valid(c) < Len(c) => ~ Reads(c, Valid(c) + 1) /\ Len(c) \in Nat
  BY ValidIs
<1>1. n \in Nat /\ n <= Len(c) /\ Valid(c) <= n /\ Valid(c) \in Nat BY <1>0
<1>2. d \in Seq(X) /\ Len(d) = n /\ \A i \in 1 .. n : d[i] = c[i] BY <1>1
<1>3. n = 0 <=> d = << >> BY <1>1
<1> HIDE DEF d
<1>4. Enc(d) = Enc(c)
  <2>1. CASE n = 0
    <3>1. ~ Enc(d) BY <2>1, <1>3, EncIs
    <3>2. ~ Enc(c) BY <2>1, <1>1, EncValid
    <3>3. Enc(d) \in BOOLEAN /\ Enc(c) \in BOOLEAN BY EncIs
    <3> QED BY <3>1, <3>2, <3>3
  <2>2. CASE n # 0
    <3>1. d # << >> /\ c # << >> /\ d[1] = c[1] BY <2>2, <1>1, <1>2, <1>3
    <3> QED BY <3>1, EncIs
  <2> QED BY <2>1, <2>2
<1>5. Valid(c) = n \/ ~ Reads(d, Valid(c) + 1)
  <2> SUFFICES ASSUME Valid(c) # n PROVE ~ Reads(d, Valid(c) + 1) OBVIOUS
  <2>1. Valid(c) + 1 \in 1 .. n /\ Valid(c) < Len(c) BY <1>0, <1>1
  <2>2. d[Valid(c) + 1] = c[Valid(c) + 1] BY <2>1, <1>2
  <2> QED BY <2>1, <2>2, <1>0, <1>4, ReadsIs
<1>6. \A i \in 1 .. Valid(c) : c[i] = d[i] BY <1>0, <1>1, <1>2
<1>7. Valid(c) = Len(c) \/ ~ Reads(c, Valid(c) + 1) BY <1>0
<1>8. Content(c) = Content(d) /\ Valid(d) = Valid(c)
  BY <1>0, <1>1, <1>2, <1>4, <1>5, <1>6, <1>7, SameContent
<1>9. HeaderKey(File(d)) = HeaderKey(File(c))
  <2>1. CASE Enc(c)
    <3>1. 1 \in 1 .. n BY <2>1, <1>1, EncValid
    <3> QED BY <3>1, <1>2, <1>4, EncIs
  <2>2. CASE ~ Enc(c) BY <2>2, <1>4, EncIs
  <2> QED BY <2>1, <2>2
<1> QED BY <1>4, <1>8, <1>9 DEF d

\* The kinds of garbage.
LEMMA GarbageKind ==
  ASSUME NEW g \in Garbage
  PROVE  g \in RawChunks /\ g.kind \notin {"key", "event"}
BY DEF Garbage, RawChunks

\* What a power loss leaves behind the readable part is not read.
LEMMA GarbageTail ==
  ASSUME NEW c \in Seq(RawChunks), NEW g \in Garbage
  PROVE  /\ Append(c, g) \in Seq(RawChunks) /\ Content(Append(c, g)) = Content(c)
         /\ Enc(Append(c, g)) = Enc(c) /\ Valid(Append(c, g)) = Valid(c)
         /\ HeaderKey(File(Append(c, g))) = HeaderKey(File(c))
<1> DEFINE d == Append(c, g)
<1>0. g \in RawChunks /\ g.kind \notin {"key", "event"} BY GarbageKind
<1>1. /\ d \in Seq(RawChunks) /\ Len(c) \in Nat /\ Len(d) = Len(c) + 1
      /\ \A i \in 1 .. Len(c) : d[i] = c[i]
      /\ d[Len(c) + 1] = g /\ d # << >>
  BY <1>0
<1>2. SubSeq(d, 1, Len(c)) = c BY <1>0
<1> HIDE DEF d
<1>3. Valid(d) <= Len(c)
  <2> SUFFICES ASSUME Valid(d) > Len(c) PROVE FALSE BY <1>1, ValidIs
  <2>1. Reads(d, Len(c) + 1) BY <1>1, ValidIs
  <2>2. Enc(d) /\ Len(c) + 1 = 1 BY <2>1, <1>0, <1>1, ReadsIs
  <2> QED BY <2>2, <1>0, <1>1, EncIs
<1>4. Len(c) \in Valid(d) .. Len(d) BY <1>1, <1>3, ValidIs
<1> QED BY <1>1, <1>2, <1>4, CutContent DEF d

-----------------------------------------------------------------------------
(* What is written *)

\* The shape of written events.
LEMMA WrittenIs ==
  ASSUME NEW X, NEW s \in Seq(X), NEW enc, NEW from
  PROVE  /\ DOMAIN Written(s, enc, from) = 1 .. Len(s)
         /\ \A i \in 1 .. Len(s) : Written(s, enc, from)[i] =
              [kind |-> "event", ev |-> s[i], pos |-> IF enc THEN from + i ELSE 0]
BY DEF Written

\* Written events are chunks.
LEMMA WrittenType ==
  ASSUME NEW s \in Seq(RawEvents), NEW enc \in BOOLEAN, NEW from \in Nat
  PROVE  Written(s, enc, from) \in Seq(RawChunks) /\ Len(Written(s, enc, from)) = Len(s)
<1> DEFINE w == Written(s, enc, from)
<1>1. Len(s) \in Nat OBVIOUS
<1>2. DOMAIN w = 1 .. Len(s) BY WrittenIs
<1>3. ASSUME NEW i \in 1 .. Len(s) PROVE w[i] \in RawChunks
  <2>1. w[i] = [kind |-> "event", ev |-> s[i], pos |-> IF enc THEN from + i ELSE 0] BY WrittenIs
  <2>2. s[i] \in RawEvents OBVIOUS
  <2>3. (IF enc THEN from + i ELSE 0) \in Nat OBVIOUS
  <2> QED BY <2>1, <2>2, <2>3 DEF RawChunks
<1>4. w = [i \in 1 .. Len(s) |-> w[i]] BY <1>2 DEF Written
<1> HIDE DEF w
<1>5. w \in [1 .. Len(s) -> RawChunks] BY <1>3, <1>4
<1>6. w \in Seq(RawChunks) /\ Len(w) = Len(s) BY <1>1, <1>5
<1> QED BY <1>6 DEF w

\* They are of the type of the checks when the events and the offsets are.
LEMMA WrittenBounded ==
  ASSUME NEW s \in Seq(Events), NEW enc \in BOOLEAN, NEW from \in Nat,
         enc => from + Len(s) <= 2 * MaxOps + 2
  PROVE  Written(s, enc, from) \in Seq(Chunks)
<1> DEFINE w == Written(s, enc, from)
<1>1. Len(s) \in Nat /\ 2 * MaxOps + 2 \in Nat BY MaxOpsAssumption
<1>2. DOMAIN w = 1 .. Len(s) BY WrittenIs
<1>3. ASSUME NEW i \in 1 .. Len(s) PROVE w[i] \in Chunks
  <2>1. w[i] = [kind |-> "event", ev |-> s[i], pos |-> IF enc THEN from + i ELSE 0] BY WrittenIs
  <2>2. s[i] \in Events OBVIOUS
  <2>3. (IF enc THEN from + i ELSE 0) \in 0 .. 2 * MaxOps + 2 BY <1>1
  <2> QED BY <2>1, <2>2, <2>3 DEF Chunks
<1>4. w = [i \in 1 .. Len(s) |-> w[i]] BY <1>2 DEF Written
<1> HIDE DEF w
<1>5. w \in [1 .. Len(s) -> Chunks] BY <1>3, <1>4
<1>6. w \in Seq(Chunks) BY <1>1, <1>5
<1> QED BY <1>6 DEF w

\* The beginning of what is written.
LEMMA WrittenFirst ==
  ASSUME NEW s \in Seq(RawEvents), NEW enc \in BOOLEAN, NEW from \in Nat, NEW n \in 0 .. Len(s)
  PROVE  SubSeq(Written(s, enc, from), 1, n) = Written(SubSeq(s, 1, n), enc, from)
<1> DEFINE w == Written(s, enc, from)
<1> DEFINE t == SubSeq(s, 1, n)
<1> DEFINE v == Written(t, enc, from)
<1>1. n \in Nat /\ n <= Len(s) /\ Len(s) \in Nat OBVIOUS
<1>2. t \in Seq(RawEvents) /\ Len(t) = n /\ \A i \in 1 .. n : t[i] = s[i] BY <1>1
<1> HIDE DEF t
<1>3. w \in Seq(RawChunks) /\ Len(w) = Len(s) BY WrittenType
<1>4. v \in Seq(RawChunks) /\ Len(v) = n BY <1>2, WrittenType
<1>5. \A i \in 1 .. n : v[i] = w[i]
  <2> TAKE i \in 1 .. n
  <2>1. i \in 1 .. Len(s) /\ i \in 1 .. Len(t) BY <1>1, <1>2
  <2>2. v[i] = [kind |-> "event", ev |-> t[i], pos |-> IF enc THEN from + i ELSE 0]
    <3>1. t \in Seq(RawEvents) /\ i \in 1 .. Len(t) BY <1>2, <2>1
    <3> QED BY <3>1, WrittenIs
  <2>3. w[i] = [kind |-> "event", ev |-> s[i], pos |-> IF enc THEN from + i ELSE 0]
    BY <2>1, WrittenIs
  <2> QED BY <1>2, <2>2, <2>3
<1> HIDE DEF w, v
<1>6. SubSeq(w, 1, n) = v BY <1>1, <1>3, <1>4, <1>5
<1> QED BY <1>6 DEF w, v, t

\* What comes behind the chunks of a file does not change its header.
LEMMA HeaderKept ==
  ASSUME NEW c \in Seq(RawChunks), NEW w \in Seq(RawChunks), Len(w) > 0 => w[1].kind # "key"
  PROVE  /\ c \o w \in Seq(RawChunks) /\ Len(c \o w) = Len(c) + Len(w)
         /\ Enc(c \o w) = Enc(c) /\ HeaderKey(File(c \o w)) = HeaderKey(File(c))
<1> DEFINE d == c \o w
<1>1. /\ d \in Seq(RawChunks) /\ Len(c) \in Nat /\ Len(w) \in Nat /\ Len(d) = Len(c) + Len(w)
      /\ \A i \in 1 .. Len(c) : d[i] = c[i]
      /\ \A i \in 1 .. Len(w) : d[Len(c) + i] = w[i]
  OBVIOUS
<1>2. Len(d) = 0 <=> d = << >> OBVIOUS
<1>3. Len(c) = 0 <=> c = << >> OBVIOUS
<1> HIDE DEF d
<1>4. CASE Len(c) # 0
  <2>1. d # << >> /\ c # << >> /\ d[1] = c[1] BY <1>1, <1>2, <1>3, <1>4
  <2>2. Enc(d) = Enc(c) BY <2>1, EncIs
  <2>3. HeaderKey(File(d)) = HeaderKey(File(c)) BY <2>1, <2>2, EncIs
  <2> QED BY <1>1, <2>2, <2>3 DEF d
<1>5. CASE Len(c) = 0
  <2>1. ~ Enc(c) BY <1>3, <1>5, EncIs
  <2>2. ~ Enc(d)
    <3>1. CASE Len(w) = 0
      <4>1. d = << >> BY <3>1, <1>1, <1>2, <1>5
      <4> QED BY <4>1, EncIs
    <3>2. CASE Len(w) # 0
      <4>1. d[1] = w[1] BY <3>2, <1>1, <1>5
      <4>2. w[1].kind # "key" BY <3>2, <1>1
      <4> QED BY <4>1, <4>2, EncIs
    <3> QED BY <3>1, <3>2
  <2>3. Enc(c) \in BOOLEAN /\ Enc(d) \in BOOLEAN BY EncIs
  <2>4. HeaderKey(File(c)) = NoKey /\ HeaderKey(File(d)) = NoKey BY <2>1, <2>2, EncIs
  <2> QED BY <1>1, <2>1, <2>2, <2>3, <2>4 DEF d
<1> QED BY <1>4, <1>5

\* Written events have no header.
LEMMA WrittenHeader ==
  ASSUME NEW c \in Seq(RawChunks), NEW s \in Seq(RawEvents), NEW enc \in BOOLEAN, NEW from \in Nat
  PROVE  /\ c \o Written(s, enc, from) \in Seq(RawChunks)
         /\ Len(c \o Written(s, enc, from)) = Len(c) + Len(s)
         /\ Enc(c \o Written(s, enc, from)) = Enc(c)
         /\ HeaderKey(File(c \o Written(s, enc, from))) = HeaderKey(File(c))
<1> DEFINE w == Written(s, enc, from)
<1>1. w \in Seq(RawChunks) /\ Len(w) = Len(s) BY WrittenType
<1>2. Len(w) > 0 => w[1].kind # "key"
  <2> SUFFICES ASSUME Len(w) > 0 PROVE w[1].kind # "key" OBVIOUS
  <2>1. 1 \in 1 .. Len(s) BY <1>1
  <2>2. w[1] = [kind |-> "event", ev |-> s[1], pos |-> IF enc THEN from + 1 ELSE 0]
    BY <2>1, WrittenIs
  <2> QED BY <2>2
<1> HIDE DEF w
<1>3. /\ c \o w \in Seq(RawChunks) /\ Len(c \o w) = Len(c) + Len(w)
      /\ Enc(c \o w) = Enc(c) /\ HeaderKey(File(c \o w)) = HeaderKey(File(c))
  BY <1>1, <1>2, HeaderKept
<1> QED BY <1>1, <1>3 DEF w

\* Events written to the end of a whole file, at its place in the keystream,
\* are read back behind what the file held.
LEMMA WrittenRead ==
  ASSUME NEW c \in Seq(RawChunks), Whole(c), NEW s \in Seq(RawEvents), NEW from \in Nat,
         Enc(c) => from = Len(c)
  PROVE  /\ Whole(c \o Written(s, Enc(c), from))
         /\ Content(c \o Written(s, Enc(c), from)) = Content(c) \o s
<1> DEFINE w == Written(s, Enc(c), from)
<1> DEFINE d == c \o w
<1>0. Enc(c) \in BOOLEAN BY EncIs
<1>1. w \in Seq(RawChunks) /\ Len(w) = Len(s) BY <1>0, WrittenType
<1>2. \A i \in 1 .. Len(s) :
         w[i] = [kind |-> "event", ev |-> s[i], pos |-> IF Enc(c) THEN from + i ELSE 0]
  BY WrittenIs
<1>3. d \in Seq(RawChunks) /\ Len(d) = Len(c) + Len(s) /\ Enc(d) = Enc(c)
  BY <1>0, WrittenHeader
<1> HIDE DEF w
<1>4. /\ Len(c) \in Nat /\ Len(s) \in Nat
      /\ \A i \in 1 .. Len(c) : d[i] = c[i]
      /\ \A i \in 1 .. Len(s) : d[Len(c) + i] = w[i]
  BY <1>1
<1> HIDE DEF d
<1>5. ASSUME NEW i \in 1 .. Len(d) PROVE Reads(d, i)
  <2>1. CASE i <= Len(c)
    <3>1. i \in 1 .. Len(c) BY <1>3, <1>4, <2>1
    <3>2. Reads(c, i) /\ d[i] = c[i] BY <3>1, <1>4 DEF Whole
    <3> QED BY <3>2, <1>3, ReadsIs
  <2>2. CASE i > Len(c)
    <3> DEFINE k == i - Len(c)
    <3>1. k \in 1 .. Len(s) /\ i = Len(c) + k BY <1>3, <1>4, <2>2
    <3> HIDE DEF k
    <3>2. d[i] = [kind |-> "event", ev |-> s[k], pos |-> IF Enc(c) THEN from + k ELSE 0]
      BY <3>1, <1>2, <1>4
    <3>3. d[i].kind = "event" /\ d[i].pos = IF Enc(c) THEN from + k ELSE 0 BY <3>2
    <3>4. d[i].pos = IF Enc(d) THEN i ELSE 0 BY <3>1, <3>3, <1>3
    <3> QED BY <3>3, <3>4, ReadsIs
  <2> QED BY <2>1, <2>2, <1>3, <1>4
<1>6. Whole(d) BY <1>5 DEF Whole
<1>7. Valid(d) = Len(c) + Len(s) /\ Valid(c) = Len(c) BY <1>3, <1>6, ValidWhole
<1> DEFINE k == Skip(c)
<1>8. Skip(d) = k BY <1>3 DEF Skip
<1>9. /\ k \in {0, 1} /\ Len(c) - k \in Nat
      /\ Content(c) = [i \in 1 .. Len(c) - k |-> c[i + k].ev]
  BY <1>7, ContentIs
<1>10. Content(d) = [i \in 1 .. (Len(c) + Len(s)) - k |-> d[i + k].ev]
  BY <1>3, <1>7, <1>8, ContentIs
<1>11. Content(c) \in Seq(RawEvents) /\ Len(Content(c)) = Len(c) - k
  BY <1>7, ContentType
<1>12. Content(d) \in Seq(RawEvents) /\ Len(Content(d)) = (Len(c) + Len(s)) - k
  BY <1>3, <1>7, <1>8, ContentType
<1> HIDE DEF k
<1> DEFINE N == Len(c) - k
<1>13. N \in Nat /\ Len(c) = N + k /\ (Len(c) + Len(s)) - k = N + Len(s) BY <1>4, <1>9
<1> HIDE DEF N
<1>14. \A i \in 1 .. N : Content(d)[i] = Content(c)[i]
  <2> TAKE i \in 1 .. N
  <2>1. i + k \in 1 .. Len(c) /\ i \in 1 .. N + Len(s) BY <1>4, <1>9, <1>13
  <2>2. d[i + k] = c[i + k] BY <2>1, <1>4
  <2>3. Content(d)[i] = d[i + k].ev BY <2>1, <1>10, <1>13
  <2>4. Content(c)[i] = c[i + k].ev BY <1>9, <1>13
  <2> QED BY <2>2, <2>3, <2>4
<1>15. \A i \in 1 .. Len(s) : Content(d)[N + i] = s[i]
  <2> TAKE i \in 1 .. Len(s)
  <2>1. N + i \in 1 .. N + Len(s) /\ (N + i) + k = Len(c) + i BY <1>4, <1>9, <1>13
  <2>2. d[Len(c) + i].ev = s[i]
    <3>1. d[Len(c) + i] = [kind |-> "event", ev |-> s[i], pos |-> IF Enc(c) THEN from + i ELSE 0]
      BY <1>2, <1>4
    <3> QED BY <3>1
  <2>3. Content(d)[N + i] = d[(N + i) + k].ev BY <2>1, <1>10, <1>13
  <2> QED BY <2>1, <2>2, <2>3
<1>16. Content(d) = Content(c) \o s
  <2> DEFINE a == Content(c)
  <2> DEFINE b == Content(d)
  <2>1. a \in Seq(RawEvents) /\ Len(a) = N BY <1>11 DEF N
  <2>2. b \in Seq(RawEvents) /\ Len(b) = N + Len(s) BY <1>12, <1>13
  <2>3. (\A i \in 1 .. N : b[i] = a[i]) /\ \A i \in 1 .. Len(s) : b[N + i] = s[i] BY <1>14, <1>15
  <2> HIDE DEF a, b
  <2>4. \A i \in 1 .. N + Len(s) : b[i] = (a \o s)[i]
    <3> TAKE i \in 1 .. N + Len(s)
    <3>1. CASE i <= N BY <3>1, <1>13, <2>1, <2>2, <2>3
    <3>2. CASE i > N
      <4>1. i - N \in 1 .. Len(s) /\ i = N + (i - N) BY <3>2, <1>13, <1>4
      <4>2. b[i] = s[i - N] BY <4>1, <2>3
      <4>3. (a \o s)[i] = s[i - N] BY <4>1, <3>2, <2>1, <1>13
      <4> QED BY <4>2, <4>3
    <3>3. N \in Nat /\ Len(s) \in Nat BY <1>13, <1>4
    <3>4. i <= N \/ i > N BY <3>3
    <3> QED BY <3>1, <3>2, <3>4
  <2>5. a \o s \in Seq(RawEvents) /\ Len(a \o s) = N + Len(s) BY <2>1, <1>13
  <2>6. b = a \o s BY <2>2, <2>4, <2>5
  <2> QED BY <2>6 DEF a, b
<1> QED BY <1>6, <1>16 DEF d, w

\* A file with no chunk, and one with a header only.
LEMMA BareFile ==
  /\ << >> \in Seq(RawChunks) /\ ~ Enc(<< >>) /\ Whole(<< >>) /\ Content(<< >>) = << >>
  /\ \A k \in Keys : LET c == <<[kind |-> "key", key |-> k]>> IN
       c \in Seq(RawChunks) /\ Enc(c) /\ Whole(c) /\ Content(c) = << >> /\ HeaderKey(File(c)) = k
<1>1. << >> \in Seq(RawChunks) /\ Len(<< >>) = 0 OBVIOUS
<1>2. ~ Enc(<< >>) BY EncIs
<1>3. Whole(<< >>) BY DEF Whole
<1>4. Content(<< >>) = << >>
  <2>1. Valid(<< >>) = 0 BY <1>1, <1>3, ValidWhole
  <2>2. Skip(<< >>) = 0 BY <1>2 DEF Skip
  <2> DEFINE s == Content(<< >>)
  <2>3. s \in Seq(RawEvents) /\ Len(s) = Valid(<< >>) - Skip(<< >>) BY <1>1, ContentType
  <2> HIDE DEF s
  <2>4. Len(s) = 0 BY <2>1, <2>2, <2>3
  <2>5. s = << >> BY <2>3, <2>4
  <2> QED BY <2>5 DEF s
<1>5. ASSUME NEW k \in Keys, NEW c, c = <<[kind |-> "key", key |-> k]>>
      PROVE  c \in Seq(RawChunks) /\ Enc(c) /\ Whole(c) /\ Content(c) = << >> /\ HeaderKey(File(c)) = k
  <2>1. [kind |-> "key", key |-> k] \in RawChunks BY DEF RawChunks, DbKeys
  <2>2. c \in Seq(RawChunks) /\ Len(c) = 1 /\ c # << >> /\ c[1] = [kind |-> "key", key |-> k]
    BY <1>5, <2>1
  <2>8. c[1].kind = "key" /\ c[1].key = k BY <2>2
  <2>3. Enc(c) BY <2>2, <2>8, EncIs
  <2>4. HeaderKey(File(c)) = k BY <2>8, <2>3, EncIs
  <2>5. Whole(c) BY <2>2, <2>3, ReadsIs DEF Whole
  <2>6. Valid(c) = 1 BY <2>2, <2>5, ValidWhole
  <2>7. Content(c) \in Seq(RawEvents) /\ Len(Content(c)) = 0
    BY <2>2, <2>3, <2>6, ContentType DEF Skip
  <2> QED BY <2>2, <2>3, <2>4, <2>5, <2>7
<1> QED BY <1>1, <1>2, <1>3, <1>4, <1>5

\* What do_reindex() writes: the live events under the given key.
LEMMA RegeneratedIs ==
  ASSUME NEW p, IsProc(p), NEW db_key \in DbKeys, NEW cached \in {NoKey, db_key}
  PROVE  LET R == Regenerated(p, db_key, cached) IN
         /\ R \in RawFiles /\ R.synced = 0
         /\ HeaderKey(R) = db_key
         /\ Whole(R.chunks) /\ Content(R.chunks) = LiveEvents(p)
         /\ Sound(p) /\ p.last_id <= MaxOps => R.chunks \in Seq(Chunks)
<1> DEFINE R == Regenerated(p, db_key, cached)
<1> DEFINE s == LiveEvents(p)
<1>1. s \in Seq(RawEvents) BY LiveEventsType
<1>2. Sound(p) /\ p.last_id <= MaxOps => s \in Seq(Events) /\ Len(s) \in 0 .. MaxOps
  <2> SUFFICES ASSUME Sound(p), p.last_id <= MaxOps PROVE s \in Seq(Events) /\ Len(s) \in 0 .. MaxOps
    OBVIOUS
  <2>1. Fine(s) /\ Len(s) <= p.last_id BY LiveEventsRegain
  <2>2. s \in Seq(Events) BY <2>1 DEF Fine
  <2>3. p.last_id \in Nat BY ProcParts
  <2> HIDE DEF s
  <2> QED BY <2>1, <2>2, <2>3, MaxOpsAssumption
<1>3. CASE db_key = NoKey
  <2> DEFINE w == Written(s, FALSE, 0)
  <2> DEFINE c == << >> \o w
  <2>1. R = [chunks |-> w, synced |-> 0] BY <1>3 DEF Regenerated
  <2> HIDE DEF s
  <2>2. w \in Seq(RawChunks) BY <1>1, WrittenType
  <2>3. Whole(c) /\ Content(c) = << >> \o s
    <3>1. Enc(<< >>) = FALSE BY EncIs
    <3> QED BY <1>1, <3>1, BareFile, WrittenRead
  <2>4. HeaderKey(File(c)) = NoKey
    <3>0. << >> \in Seq(RawChunks) OBVIOUS
    <3>1. HeaderKey(File(c)) = HeaderKey(File(<< >>))
      <4>1. \A b \in Seq(RawChunks) : HeaderKey(File(b \o w)) = HeaderKey(File(b))
        BY <1>1, WrittenHeader
      <4> QED BY <3>0, <4>1
    <3>2. HeaderKey(File(<< >>)) = NoKey BY BareFile, EncIs
    <3> QED BY <3>1, <3>2
  <2>5. Sound(p) /\ p.last_id <= MaxOps => w \in Seq(Chunks) BY <1>2, WrittenBounded
  <2> HIDE DEF w
  <2>6. c = w /\ << >> \o s = s BY <1>1, <2>2
  <2>7. R \in RawFiles /\ R.synced = 0 /\ R.chunks = w BY <2>1, <2>2 DEF RawFiles
  <2> HIDE DEF R, c
  <2>8. HeaderKey(R) = NoKey BY <2>4, <2>6, <2>7, ByChunks
  <2>9. Whole(w) /\ Content(w) = s BY <2>3, <2>6
  <2> QED BY <1>3, <2>5, <2>7, <2>8, <2>9 DEF R, s
<1>4. CASE db_key # NoKey
  <2> DEFINE used == IF cached = NoKey THEN db_key ELSE cached
  <2> DEFINE c == <<[kind |-> "key", key |-> db_key]>>
  <2> DEFINE w == Written(s, TRUE, 1)
  <2> DEFINE d == c \o w
  <2>0. used = db_key OBVIOUS
  <2>1. R = [chunks |-> d, synced |-> 0] BY <1>4, <2>0 DEF Regenerated
  <2> HIDE DEF s
  <2>2. db_key \in Keys BY <1>4 DEF DbKeys
  <2>3. c \in Seq(RawChunks) /\ Enc(c) /\ Whole(c) /\ Content(c) = << >> /\ HeaderKey(File(c)) = db_key
    BY <2>2, BareFile
  <2>4. Len(c) = 1 OBVIOUS
  <2>5. c \in Seq(Chunks) BY <2>2 DEF Chunks
  <2> HIDE DEF c
  <2>6. Enc(c) = TRUE BY <2>3, EncIs
  <2>7. Whole(d) /\ Content(d) = << >> \o s
    BY <1>1, <2>3, <2>4, <2>6, WrittenRead
  <2>8. d \in Seq(RawChunks) /\ HeaderKey(File(d)) = db_key
    BY <1>1, <2>3, WrittenHeader
  <2>9. ASSUME Sound(p), p.last_id <= MaxOps PROVE d \in Seq(Chunks)
    <3>1. s \in Seq(Events) /\ Len(s) \in 0 .. MaxOps BY <1>2, <2>9
    <3>2. 1 + Len(s) <= 2 * MaxOps + 2 BY <3>1, MaxOpsAssumption
    <3>3. w \in Seq(Chunks) BY <3>1, <3>2, WrittenBounded
    <3> HIDE DEF w
    <3> QED BY <2>5, <3>3
  <2>10. << >> \o s = s BY <1>1
  <2> HIDE DEF d
  <2>11. R \in RawFiles /\ R.synced = 0 /\ R.chunks = d BY <2>1, <2>8 DEF RawFiles
  <2> HIDE DEF R
  <2>12. HeaderKey(R) = db_key BY <2>8, <2>11, ByChunks
  <2> QED BY <2>7, <2>9, <2>10, <2>11, <2>12 DEF R, s
<1> QED BY <1>3, <1>4

-----------------------------------------------------------------------------
(* What a file stands for *)

\* Replaying the events s gives what the operations h left.
Stands(s, h) ==
  /\ Fine(s) /\ Len(s) <= Len(h)
  /\ AfterEvents(s).last_id <= Len(h)
  /\ View(AfterEvents(s)) = Durable!Replay(h)

\* Nothing stands for nothing.
LEMMA StandsNone == Stands(<< >>, << >>)
BY FineNone, AfterNone, NoEventsProc, ReplayNone DEF Stands

\* The operation of an event.
OpOf(e) == [id |-> e.id, value |-> e.value]

\* The events of operations.
Sent == {e \in Events : e.value \in Ids \cup {Empty}}

\* One more event for one more operation.
LEMMA StandsAppend ==
  ASSUME NEW s, NEW h \in Seq(Ops), Stands(s, h), NEW e \in Sent,
         Fits(AfterEvents(s), e), e.id <= Len(h) + 1
  PROVE  /\ Stands(Append(s, e), Append(h, OpOf(e)))
         /\ AfterEvents(Append(s, e)).last_id \in {AfterEvents(s).last_id, e.id}
<1>0. e \in Events BY DEF Sent
<1>1. s \in Seq(Events) /\ Fine(s) BY DEF Stands, Fine
<1>2. Len(s) \in Nat /\ Len(h) \in Nat /\ Len(Append(s, e)) = Len(s) + 1
      /\ Len(Append(h, OpOf(e))) = Len(h) + 1
  BY <1>0, <1>1
<1>3. OpOf(e) \in Ops /\ OpOf(e).id = e.id /\ OpOf(e).value = e.value
  BY <1>0, EventsRaw DEF OpOf, Ops, Sent
<1>4. Sound(AfterEvents(s)) BY <1>1, FineSound
<1>5. AfterEvents(s).last_id \in Nat BY <1>4, ProcParts DEF Sound
<1>6. Fine(Append(s, e)) BY <1>0, <1>1, FineAppend
<1>7. AfterEvents(Append(s, e)) = DoEvent(AfterEvents(s), e) BY <1>0, <1>1, AfterAppend
<1>8. /\ View(AfterEvents(Append(s, e))) = Updated(View(AfterEvents(s)), e.id, e.value)
      /\ AfterEvents(Append(s, e)).last_id \in {AfterEvents(s).last_id, e.id}
  BY <1>0, <1>4, <1>7, FitsSound
<1>9. Durable!Replay(Append(h, OpOf(e))) = Updated(Durable!Replay(h), e.id, e.value)
  BY <1>3, ReplayAppend
<1>10. View(AfterEvents(Append(s, e))) = Durable!Replay(Append(h, OpOf(e)))
  BY <1>8, <1>9 DEF Stands
<1>11. e.id \in Nat BY <1>0, EventsRaw
<1>12. AfterEvents(Append(s, e)).last_id <= Len(h) + 1
  BY <1>2, <1>5, <1>8, <1>11 DEF Stands
<1>13. Len(Append(s, e)) <= Len(h) + 1 BY <1>2 DEF Stands
<1> QED BY <1>2, <1>6, <1>8, <1>10, <1>12, <1>13 DEF Stands

\* A reindex writes a file that stands for the same operations.
LEMMA StandsRegenerated ==
  ASSUME NEW p, Sound(p), NEW h \in Seq(Ops), View(p) = Durable!Replay(h), p.last_id <= Len(h)
  PROVE  Stands(LiveEvents(p), h) /\ AfterEvents(LiveEvents(p)).last_id <= p.last_id
<1>1. /\ Fine(LiveEvents(p)) /\ View(AfterEvents(LiveEvents(p))) = View(p)
      /\ AfterEvents(LiveEvents(p)).last_id <= p.last_id /\ Len(LiveEvents(p)) <= p.last_id
  BY LiveEventsRegain
<1>2. p.last_id \in Nat BY ProcParts DEF Sound
<1>3. AfterEvents(LiveEvents(p)).last_id \in Nat BY <1>1, FineSound, ProcParts DEF Sound
<1>4. Len(LiveEvents(p)) \in Nat BY <1>1 DEF Fine
<1>5. Len(h) \in Nat OBVIOUS
<1>6. AfterEvents(LiveEvents(p)).last_id <= Len(h) BY <1>1, <1>2, <1>3, <1>5
<1>7. Len(LiveEvents(p)) <= Len(h) BY <1>1, <1>2, <1>4, <1>5
<1> QED BY <1>1, <1>6, <1>7 DEF Stands

\* The file f stands for the first B operations of h, and each beginning of it
\* that a power loss may leave for some of them, at least d.
Recovers(f, h, d, B) ==
  /\ B \in d .. Len(h)
  /\ Stands(Content(f.chunks), SubSeq(h, 1, B))
  /\ \A n \in f.synced .. Len(f.chunks) : \E k \in d .. B :
       Stands(Content(SubSeq(f.chunks, 1, n)), SubSeq(h, 1, k))

FileType(f) == f \in RawFiles /\ f.synced <= Len(f.chunks)

\* What FileType says of the parts of a file.
LEMMA FileParts ==
  ASSUME NEW f, FileType(f)
  PROVE  /\ f.chunks \in Seq(RawChunks) /\ Len(f.chunks) \in Nat
         /\ f.synced \in 0 .. Len(f.chunks) /\ f.synced \in Nat
         /\ f # NoFile /\ f = [chunks |-> f.chunks, synced |-> f.synced]
BY MarksAssumption DEF FileType, RawFiles

\* Beginnings of beginnings.
LEMMA FirstOfFirst ==
  ASSUME NEW X, NEW s \in Seq(X), NEW n \in 0 .. Len(s)
  PROVE  /\ SubSeq(s, 1, n) \in Seq(X) /\ Len(SubSeq(s, 1, n)) = n
         /\ \A k \in 0 .. n : SubSeq(SubSeq(s, 1, n), 1, k) = SubSeq(s, 1, k)
         /\ n = Len(s) => SubSeq(s, 1, n) = s
OBVIOUS

\* Beginnings of a longer sequence.
LEMMA FirstOfLonger ==
  ASSUME NEW X, NEW s \in Seq(X), NEW t \in Seq(X)
  PROVE  \A k \in 0 .. Len(s) : SubSeq(s \o t, 1, k) = SubSeq(s, 1, k)
<1> TAKE k \in 0 .. Len(s)
<1>1. k \in Nat /\ k <= Len(s) /\ Len(s) \in Nat /\ Len(t) \in Nat OBVIOUS
<1> DEFINE a == SubSeq(s \o t, 1, k)
<1> DEFINE b == SubSeq(s, 1, k)
<1>2. s \o t \in Seq(X) /\ Len(s \o t) = Len(s) + Len(t) /\ \A i \in 1 .. Len(s) : (s \o t)[i] = s[i]
  OBVIOUS
<1>3. b \in Seq(X) /\ Len(b) = k /\ \A i \in 1 .. k : b[i] = s[i] BY <1>1
<1>4. a \in Seq(X) /\ Len(a) = k /\ \A i \in 1 .. k : a[i] = s[i] BY <1>1, <1>2
<1> HIDE DEF a, b
<1>5. a = b BY <1>3, <1>4
<1> QED BY <1>5 DEF a, b

\* Later operations change nothing.
LEMMA RecoversMore ==
  ASSUME NEW f, NEW h \in Seq(Ops), NEW d \in Nat, NEW B, Recovers(f, h, d, B), NEW o \in Ops
  PROVE  Recovers(f, Append(h, o), d, B)
<1>1. Append(h, o) = h \o <<o>> /\ Len(Append(h, o)) = Len(h) + 1 /\ Len(h) \in Nat OBVIOUS
<1>2. \A k \in 0 .. Len(h) : SubSeq(Append(h, o), 1, k) = SubSeq(h, 1, k) OBVIOUS
<1>3. B \in d .. Len(h) BY DEF Recovers
<1>4. B \in d .. Len(Append(h, o)) BY <1>1, <1>3
<1>5. SubSeq(Append(h, o), 1, B) = SubSeq(h, 1, B)
      /\ \A k \in d .. B : SubSeq(Append(h, o), 1, k) = SubSeq(h, 1, k)
  BY <1>1, <1>2, <1>3
<1> QED BY <1>4, <1>5 DEF Recovers

\* Forgetting operations the file does not stand for changes nothing.
LEMMA RecoversLess ==
  ASSUME NEW f, NEW h \in Seq(Ops), NEW d \in Nat, NEW B, Recovers(f, h, d, B), NEW K \in B .. Len(h)
  PROVE  Recovers(f, SubSeq(h, 1, K), d, B)
<1>1. B \in d .. Len(h) /\ Len(h) \in Nat BY DEF Recovers
<1>2. K \in 0 .. Len(h) BY <1>1
<1>3. Len(SubSeq(h, 1, K)) = K /\ \A k \in 0 .. K : SubSeq(SubSeq(h, 1, K), 1, k) = SubSeq(h, 1, k)
  BY <1>2, FirstOfFirst
<1>4. B \in d .. Len(SubSeq(h, 1, K)) BY <1>1, <1>3
<1>5. SubSeq(SubSeq(h, 1, K), 1, B) = SubSeq(h, 1, B)
      /\ \A k \in d .. B : SubSeq(SubSeq(h, 1, K), 1, k) = SubSeq(h, 1, k)
  BY <1>1, <1>2, <1>3
<1> HIDE DEF Stands
<1> QED BY <1>4, <1>5 DEF Recovers

\* A file that is all synced.
LEMMA RecoversSynced ==
  ASSUME NEW f, FileType(f), f.synced = Len(f.chunks), NEW h \in Seq(Ops), NEW d \in Nat,
         NEW B \in d .. Len(h), Stands(Content(f.chunks), SubSeq(h, 1, B))
  PROVE  Recovers(f, h, d, B)
<1>1. f.chunks \in Seq(RawChunks) /\ Len(f.chunks) \in Nat BY DEF FileType, RawFiles
<1>2. SubSeq(f.chunks, 1, Len(f.chunks)) = f.chunks BY <1>1
<1>3. ASSUME NEW n \in f.synced .. Len(f.chunks)
      PROVE  \E k \in d .. B : Stands(Content(SubSeq(f.chunks, 1, n)), SubSeq(h, 1, k))
  <2>1. n = Len(f.chunks) BY <1>1
  <2>2. B \in d .. B OBVIOUS
  <2> QED BY <1>2, <2>1, <2>2
<1> QED BY <1>3 DEF Recovers

\* Events written to the end of the file, each for one more operation.
LEMMA RecoversWritten ==
  ASSUME NEW f, FileType(f), Whole(f.chunks), NEW h \in Seq(Ops), NEW d \in Nat, NEW B,
         Recovers(f, h, d, B), NEW s \in Seq(RawEvents), NEW from \in Nat,
         Enc(f.chunks) => from = Len(f.chunks),
         B + Len(s) <= Len(h),
         \A j \in 0 .. Len(s) : Stands(Content(f.chunks) \o SubSeq(s, 1, j), SubSeq(h, 1, B + j)),
         NEW g, FileType(g), g.synced >= f.synced,
         g.chunks = f.chunks \o Written(s, Enc(f.chunks), from)
  PROVE  Recovers(g, h, d, B + Len(s))
<1> DEFINE c == f.chunks
<1> DEFINE w == Written(s, Enc(c), from)
<1>0. Enc(c) \in BOOLEAN BY EncIs
<1>1. c \in Seq(RawChunks) /\ Len(c) \in Nat /\ f.synced \in Nat BY DEF FileType, RawFiles
<1>2. g.chunks \in Seq(RawChunks) /\ Len(g.chunks) \in Nat /\ g.synced \in Nat BY FileParts
<1>3. w \in Seq(RawChunks) /\ Len(w) = Len(s) /\ Len(s) \in Nat BY <1>0, WrittenType
<1>4. Len(g.chunks) = Len(c) + Len(s)
  <2>1. Len(c \o w) = Len(c) + Len(s) BY <1>0, <1>1, WrittenHeader
  <2> QED BY <2>1
<1>5. B \in d .. Len(h) /\ B \in Nat /\ Len(h) \in Nat BY DEF Recovers
<1>6. Content(g.chunks) = Content(c) \o s BY <1>1, WrittenRead
<1>7. SubSeq(s, 1, Len(s)) = s OBVIOUS
<1>8. Stands(Content(g.chunks), SubSeq(h, 1, B + Len(s)))
  <2>1. Len(s) \in 0 .. Len(s) BY <1>3
  <2> QED BY <1>6, <1>7, <2>1
<1>9. ASSUME NEW n \in g.synced .. Len(g.chunks)
      PROVE  \E k \in d .. B + Len(s) : Stands(Content(SubSeq(g.chunks, 1, n)), SubSeq(h, 1, k))
  <2>1. CASE n <= Len(c)
    <3>1. n \in f.synced .. Len(c) /\ n \in 0 .. Len(c) BY <1>1, <1>2, <2>1
    <3>2. SubSeq(c \o w, 1, n) = SubSeq(c, 1, n)
      <4> HIDE DEF w, c
      <4> QED BY <1>1, <1>3, <3>1, FirstOfLonger
    <3>3. PICK k \in d .. B : Stands(Content(SubSeq(c, 1, n)), SubSeq(h, 1, k))
      BY <3>1 DEF Recovers
    <3>4. k \in d .. B + Len(s) BY <1>3, <1>5
    <3> QED BY <3>2, <3>3, <3>4
  <2>2. CASE n > Len(c)
    <3> DEFINE j == n - Len(c)
    <3>1. j \in 0 .. Len(s) /\ n = Len(c) + j BY <1>1, <1>2, <1>3, <1>4, <2>2
    <3> HIDE DEF j
    <3>2. SubSeq(c \o w, 1, Len(c) + j) = c \o SubSeq(w, 1, j)
      <4> HIDE DEF w, c
      <4> QED BY <1>1, <1>3, <3>1
    <3>3. SubSeq(w, 1, j) = Written(SubSeq(s, 1, j), Enc(c), from) BY <1>0, <3>1, WrittenFirst
    <3>4. SubSeq(s, 1, j) \in Seq(RawEvents) BY <3>1, FirstOfFirst
    <3>5. Content(c \o Written(SubSeq(s, 1, j), Enc(c), from)) = Content(c) \o SubSeq(s, 1, j)
      BY <1>1, <3>4, WrittenRead
    <3>6. Stands(Content(SubSeq(g.chunks, 1, n)), SubSeq(h, 1, B + j))
      BY <3>1, <3>2, <3>3, <3>5
    <3>7. B + j \in d .. B + Len(s) BY <1>3, <1>5, <3>1
    <3> QED BY <3>6, <3>7
  <2> QED BY <2>1, <2>2, <1>1, <1>2
<1>10. B + Len(s) \in d .. Len(h) BY <1>3, <1>5
<1> QED BY <1>8, <1>9, <1>10 DEF Recovers

\* A torn event at the end.
LEMMA RecoversTorn ==
  ASSUME NEW f, FileType(f), NEW h \in Seq(Ops), NEW d \in Nat, NEW B, Recovers(f, h, d, B),
         NEW x \in Garbage, NEW g, FileType(g), g.synced >= f.synced, g.chunks = Append(f.chunks, x)
  PROVE  Recovers(g, h, d, B)
<1> DEFINE c == f.chunks
<1>1. c \in Seq(RawChunks) /\ Len(c) \in Nat /\ f.synced \in Nat BY DEF FileType, RawFiles
<1>2. g.chunks \in Seq(RawChunks) /\ Len(g.chunks) \in Nat /\ g.synced \in Nat BY DEF FileType, RawFiles
<1>3. Len(g.chunks) = Len(c) + 1 BY <1>1
<1>4. Content(g.chunks) = Content(c) BY <1>1, GarbageTail
<1>5. B \in d .. Len(h) /\ Stands(Content(c), SubSeq(h, 1, B)) BY DEF Recovers
<1>6. ASSUME NEW n \in g.synced .. Len(g.chunks)
      PROVE  \E k \in d .. B : Stands(Content(SubSeq(g.chunks, 1, n)), SubSeq(h, 1, k))
  <2>1. CASE n <= Len(c)
    <3>1. n \in f.synced .. Len(c) /\ n \in 0 .. Len(c) BY <1>1, <1>2, <2>1
    <3>2. SubSeq(g.chunks, 1, n) = SubSeq(c, 1, n)
      <4> HIDE DEF c
      <4>1. x \in RawChunks BY GarbageKind
      <4> QED BY <1>1, <3>1, <4>1 DEF c
    <3> QED BY <3>1, <3>2 DEF Recovers
  <2>2. CASE n > Len(c)
    <3>1. n = Len(g.chunks) BY <1>1, <1>2, <1>3, <2>2
    <3>2. SubSeq(g.chunks, 1, n) = g.chunks BY <1>2, <3>1
    <3>3. B \in d .. B BY <1>5
    <3> QED BY <1>4, <1>5, <3>2, <3>3
  <2> QED BY <2>1, <2>2, <1>1, <1>2
<1> QED BY <1>4, <1>5, <1>6 DEF Recovers

\* A file cut at a place that a power loss may leave.
LEMMA RecoversCut ==
  ASSUME NEW f, FileType(f), NEW h \in Seq(Ops), NEW d \in Nat, NEW B, Recovers(f, h, d, B),
         NEW n \in f.synced .. Len(f.chunks), NEW g, FileType(g), g.synced >= n,
         \/ g.chunks = SubSeq(f.chunks, 1, n)
         \/ g.synced >= n + 1 /\ \E x \in Garbage : g.chunks = Append(SubSeq(f.chunks, 1, n), x)
  PROVE  \E C \in d .. Len(h) : Recovers(g, h, d, C)
<1> DEFINE c == SubSeq(f.chunks, 1, n)
<1>1. f.chunks \in Seq(RawChunks) /\ Len(f.chunks) \in Nat /\ f.synced \in Nat BY DEF FileType, RawFiles
<1>2. g.chunks \in Seq(RawChunks) /\ Len(g.chunks) \in Nat /\ g.synced \in Nat /\ g.synced <= Len(g.chunks)
  BY DEF FileType, RawFiles
<1>3. PICK k \in d .. B : Stands(Content(c), SubSeq(h, 1, k)) BY DEF Recovers
<1>4. B \in d .. Len(h) /\ Len(h) \in Nat BY DEF Recovers
<1>5. k \in d .. Len(h) BY <1>4
<1>6. c \in Seq(RawChunks) /\ Len(c) = n BY <1>1, FirstOfFirst
<1>7. g.synced = Len(g.chunks) /\ Content(g.chunks) = Content(c)
  <2>1. CASE g.chunks = c BY <2>1, <1>2, <1>6
  <2>2. ASSUME NEW x \in Garbage, g.chunks = Append(c, x), g.synced >= n + 1
        PROVE  g.synced = Len(g.chunks) /\ Content(g.chunks) = Content(c)
    <3>1. Content(g.chunks) = Content(c) BY <1>6, <2>2, GarbageTail
    <3> HIDE DEF c
    <3>2. Len(g.chunks) = n + 1 BY <1>6, <2>2
    <3> QED BY <1>2, <2>2, <3>1, <3>2
  <2> QED BY <2>1, <2>2
<1>8. Recovers(g, h, d, k) BY <1>3, <1>5, <1>7, RecoversSynced
<1> QED BY <1>5, <1>8

\* What load_binlog() leaves of a file.
LEMMA TruncatedIs ==
  ASSUME NEW f, FileType(f)
  PROVE  /\ FileType(Truncated(f)) /\ Truncated(f).chunks = SubSeq(f.chunks, 1, Valid(f.chunks))
         /\ Whole(Truncated(f).chunks)
         /\ Len(Truncated(f).chunks) = Valid(f.chunks)
         /\ Content(Truncated(f).chunks) = Content(f.chunks)
         /\ Enc(Truncated(f).chunks) = Enc(f.chunks)
         /\ HeaderKey(Truncated(f)) = HeaderKey(f)
         /\ Truncated(f).synced \in {f.synced, Valid(f.chunks)}
         /\ Truncated(f).synced <= f.synced
<1> DEFINE V == Valid(f.chunks)
<1> DEFINE g == Truncated(f)
<1>1. f.chunks \in Seq(RawChunks) /\ f.synced \in Nat BY DEF FileType, RawFiles
<1>2. V \in 0 .. Len(f.chunks) /\ V \in V .. Len(f.chunks) /\ Len(f.chunks) \in Nat BY <1>1, ValidIs
<1>3. g = [chunks |-> SubSeq(f.chunks, 1, V), synced |-> Min({f.synced, V})]
  BY ByChunks DEF Truncated
<1>4. Min({f.synced, V}) \in {f.synced, V} /\ Min({f.synced, V}) <= V /\ Min({f.synced, V}) <= f.synced
  <2>1. \E x \in {f.synced, V} : \A y \in {f.synced, V} : x =< y BY <1>1, <1>2
  <2>2. Min({f.synced, V}) \in {f.synced, V} /\ \A y \in {f.synced, V} : Min({f.synced, V}) =< y
    BY <2>1 DEF Min
  <2> QED BY <2>2
<1>5. SubSeq(f.chunks, 1, V) \in Seq(RawChunks) /\ Len(SubSeq(f.chunks, 1, V)) = V
  BY <1>1, <1>2, FirstOfFirst
<1> DEFINE m == Min({f.synced, V})
<1>6. m \in Nat /\ m <= V /\ m <= f.synced /\ m \in {f.synced, V} BY <1>1, <1>2, <1>4
<1> HIDE DEF m
<1>7. g = [chunks |-> SubSeq(f.chunks, 1, V), synced |-> m] BY <1>3 DEF m
<1>8. g \in RawFiles /\ g.chunks = SubSeq(f.chunks, 1, V) /\ g.synced = m
  BY <1>5, <1>6, <1>7 DEF RawFiles
<1> HIDE DEF g
<1>9. /\ Content(g.chunks) = Content(f.chunks) /\ Enc(g.chunks) = Enc(f.chunks) /\ Valid(g.chunks) = V
      /\ HeaderKey(File(g.chunks)) = HeaderKey(File(f.chunks))
  BY <1>1, <1>2, <1>8, CutContent
<1>10. Len(g.chunks) = V BY <1>5, <1>8
<1>11. Whole(g.chunks) BY <1>5, <1>8, <1>9, <1>10, ValidWhole
<1>12. HeaderKey(g) = HeaderKey(f) BY <1>9, ByChunks
<1>13. FileType(g) BY <1>6, <1>8, <1>10 DEF FileType
<1> QED BY <1>6, <1>8, <1>9, <1>10, <1>11, <1>12, <1>13 DEF g

\* Cutting off what cannot be read loses nothing.
LEMMA RecoversTruncated ==
  ASSUME NEW f, FileType(f), NEW h \in Seq(Ops), NEW d \in Nat, NEW B, Recovers(f, h, d, B)
  PROVE  Recovers(Truncated(f), h, d, B)
<1> DEFINE g == Truncated(f)
<1> DEFINE V == Valid(f.chunks)
<1>1. f.chunks \in Seq(RawChunks) /\ f.synced \in Nat BY DEF FileType, RawFiles
<1>2. V \in 0 .. Len(f.chunks) /\ Len(f.chunks) \in Nat BY <1>1, ValidIs
<1>3. /\ g.chunks = SubSeq(f.chunks, 1, V) /\ Len(g.chunks) = V
      /\ Content(g.chunks) = Content(f.chunks)
      /\ g.synced \in {f.synced, V}
  BY TruncatedIs
<1> HIDE DEF g
<1>4. B \in d .. Len(h) /\ Stands(Content(f.chunks), SubSeq(h, 1, B)) BY DEF Recovers
<1>5. ASSUME NEW n \in g.synced .. Len(g.chunks)
      PROVE  \E k \in d .. B : Stands(Content(SubSeq(g.chunks, 1, n)), SubSeq(h, 1, k))
  <2>1. n \in 0 .. V BY <1>1, <1>2, <1>3
  <2>2. SubSeq(g.chunks, 1, n) = SubSeq(f.chunks, 1, n) BY <1>1, <1>2, <1>3, <2>1, FirstOfFirst
  <2>3. CASE g.synced = f.synced
    <3>1. n \in f.synced .. Len(f.chunks) BY <1>1, <1>2, <1>3, <2>3
    <3> QED BY <2>2, <3>1 DEF Recovers
  <2>4. CASE g.synced = V
    <3>1. n = V BY <1>2, <1>3, <2>4
    <3>2. SubSeq(g.chunks, 1, n) = g.chunks BY <2>2, <3>1, <1>3
    <3>3. B \in d .. B BY <1>4
    <3> QED BY <1>3, <1>4, <3>2, <3>3
  <2> QED BY <1>3, <2>3, <2>4
<1>6. Recovers(g, h, d, B) BY <1>3, <1>4, <1>5 DEF Recovers
<1> QED BY <1>6 DEF g

\* The file that does not exist yet.
LEMMA EmptyFileIs ==
  /\ FileType(EmptyFile) /\ EmptyFile.chunks = << >> /\ EmptyFile.synced = 0
  /\ HeaderKey(EmptyFile) = NoKey /\ ~ Enc(EmptyFile.chunks)
  /\ Recovers(EmptyFile, << >>, 0, 0)
<1>1. EmptyFile.chunks = << >> /\ EmptyFile.synced = 0 /\ EmptyFile \in RawFiles
  BY DEF EmptyFile, RawFiles
<1>2. FileType(EmptyFile) BY <1>1 DEF FileType
<1>3. HeaderKey(EmptyFile) = NoKey /\ ~ Enc(EmptyFile.chunks)
  BY <1>1, BareFile, ByChunks, EncIs
<1>4. << >> \in Seq(Ops) /\ SubSeq(<< >>, 1, 0) = << >> /\ Len(<< >>) = 0 /\ 0 \in 0 .. 0 OBVIOUS
<1>5. Stands(Content(EmptyFile.chunks), SubSeq(<< >>, 1, 0)) BY <1>1, <1>4, BareFile, StandsNone
<1>6. Recovers(EmptyFile, << >>, 0, 0) BY <1>1, <1>2, <1>4, <1>5, RecoversSynced
<1> QED BY <1>1, <1>2, <1>3, <1>6

-----------------------------------------------------------------------------
(* The key of the file, whatever may happen *)

Stages == {"rx_sync", "rx_unlink", "rx_rename"}

\* The files are files, and the memory of the process is of its type.
KFiles == (main = NoFile \/ FileType(main)) /\ (newf = NoFile \/ FileType(newf))
KMemory ==
  /\ pc \in {"down", "run", "destroy"} \cup Stages
  /\ IsProc(processor_) /\ buffer_ \in Seq(RawEvents) /\ stream \in Nat /\ last_id_ \in Nat
  /\ need_sync_ \in BOOLEAN
  /\ db_key_ \in DbKeys /\ aes_key \in DbKeys /\ keys \subseteq DbKeys

\* The header of the file that init() would find has a key that is known, and
\* no power loss takes it away.
HeadKnown(f, ks) == HeaderKey(f) \in ks /\ (Enc(f.chunks) => f.synced >= 1)
KHeader == HeadKnown(Restored, keys)

\* What is known of the files and of the keys at each stage of the process.
KRun == pc = "run" => main # NoFile /\ db_key_ \in keys /\ aes_key \in {NoKey, db_key_}
KReindex ==
  /\ pc \in {"rx_sync", "rx_unlink"} => main # NoFile
  /\ pc = "rx_rename" => main = NoFile
  /\ pc \in Stages => newf # NoFile /\ HeaderKey(newf) = db_key_ /\ db_key_ \in keys
  /\ pc \in {"rx_unlink", "rx_rename"} =>
       newf.synced = Len(newf.chunks) /\ buffer_ = << >> /\ need_sync_ = FALSE
KDestroy == pc = "destroy" => newf = NoFile

KeyInv == KFiles /\ KMemory /\ KHeader /\ KRun /\ KReindex /\ KDestroy

\* The key of a header is a key.
LEMMA HeaderKeyType ==
  ASSUME NEW f, FileType(f)
  PROVE  HeaderKey(f) \in DbKeys /\ (HeaderKey(f) # NoKey => Encrypted(f))
<1> DEFINE c == f.chunks
<1>1. c \in Seq(RawChunks) /\ HeaderKey(f) = HeaderKey(File(c)) /\ Encrypted(f) = Enc(c)
  BY FileParts, ByChunks
<1> HIDE DEF c
<1>2. CASE Enc(c)
  <2>1. c # << >> /\ c[1].kind = "key" /\ HeaderKey(File(c)) = c[1].key BY <1>2, EncIs
  <2>2. c[1] \in RawChunks BY <1>1, <2>1
  <2>3. c[1] \notin Garbage BY <2>1, GarbageKind
  <2>4. c[1] \notin [kind : {"event"}, ev : RawEvents, pos : Nat] BY <2>1
  <2>5. c[1].key \in DbKeys BY <2>2, <2>3, <2>4 DEF RawChunks
  <2> QED BY <1>1, <1>2, <2>1, <2>5
<1>3. CASE ~ Enc(c)
  <2>1. HeaderKey(File(c)) = NoKey BY <1>3, EncIs
  <2> QED BY <1>1, <2>1 DEF DbKeys
<1> QED BY <1>2, <1>3

\* A file with events written to its end, and perhaps a torn one.
With(f, s, from) == [f EXCEPT !.chunks = @ \o Written(s, Encrypted(f), from)]
Torn(f, s, from, tail) == [f EXCEPT !.chunks = @ \o Written(s, Encrypted(f), from) \o tail]

\* What Written leaves of a file.
LEMMA WithIs ==
  ASSUME NEW f, FileType(f), NEW s \in Seq(RawEvents), NEW from \in Nat
  PROVE  /\ FileType(With(f, s, from))
         /\ With(f, s, from).chunks = f.chunks \o Written(s, Enc(f.chunks), from)
         /\ With(f, s, from).synced = f.synced
         /\ HeaderKey(With(f, s, from)) = HeaderKey(f)
         /\ Encrypted(With(f, s, from)) = Encrypted(f)
         /\ Enc(With(f, s, from).chunks) = Enc(f.chunks)
         /\ Len(With(f, s, from).chunks) = Len(f.chunks) + Len(s)
<1> DEFINE g == With(f, s, from)
<1> DEFINE d == f.chunks \o Written(s, Enc(f.chunks), from)
<1>1. /\ f.chunks \in Seq(RawChunks) /\ f.synced \in 0 .. Len(f.chunks) /\ Len(f.chunks) \in Nat
      /\ f.synced \in Nat
  BY FileParts
<1>2. Encrypted(f) = Enc(f.chunks) /\ Enc(f.chunks) \in BOOLEAN BY ByChunks, EncIs
<1>3. g = [chunks |-> d, synced |-> f.synced]
  <2>0. With(f, s, from) = [f EXCEPT !.chunks = f.chunks \o Written(s, Enc(f.chunks), from)]
    BY <1>2 DEF With
  <2>1. PICK c, m : f = [chunks |-> c, synced |-> m] BY FileParts
  <2>2. [f EXCEPT !.chunks = d] = [chunks |-> d, synced |-> f.synced]
    <3> HIDE DEF d
    <3> QED BY <2>1
  <2> QED BY <2>0, <2>2
<1>4. /\ d \in Seq(RawChunks) /\ Len(d) = Len(f.chunks) + Len(s)
      /\ Enc(d) = Enc(f.chunks) /\ HeaderKey(File(d)) = HeaderKey(File(f.chunks))
  BY <1>1, <1>2, WrittenHeader
<1>5. Len(s) \in Nat OBVIOUS
<1> HIDE DEF d, g
<1>6. g.chunks = d /\ g.synced = f.synced /\ g \in RawFiles BY <1>1, <1>3, <1>4 DEF RawFiles
<1>7. FileType(g) BY <1>1, <1>4, <1>5, <1>6 DEF FileType
<1>8. HeaderKey(g) = HeaderKey(f) /\ Encrypted(g) = Encrypted(f) BY <1>4, <1>6, ByChunks
<1> QED BY <1>4, <1>6, <1>7, <1>8 DEF g, d

\* With a torn event behind.
LEMMA TornIs ==
  ASSUME NEW f, FileType(f), NEW s \in Seq(RawEvents), NEW from \in Nat
  PROVE  /\ Torn(f, s, from, << >>) = With(f, s, from)
         /\ \A x \in Garbage :
              /\ FileType(Torn(f, s, from, <<x>>))
              /\ Torn(f, s, from, <<x>>).chunks = Append(With(f, s, from).chunks, x)
              /\ Torn(f, s, from, <<x>>).synced = f.synced
              /\ HeaderKey(Torn(f, s, from, <<x>>)) = HeaderKey(f)
              /\ Enc(Torn(f, s, from, <<x>>).chunks) = Enc(f.chunks)
<1> DEFINE g == With(f, s, from)
<1> DEFINE w == Written(s, Encrypted(f), from)
<1> DEFINE d == f.chunks \o w
<1>0. /\ FileType(g) /\ g.synced = f.synced /\ HeaderKey(g) = HeaderKey(f)
      /\ Enc(g.chunks) = Enc(f.chunks)
  BY WithIs
<1>1. Encrypted(f) = Enc(f.chunks) /\ Enc(f.chunks) \in BOOLEAN BY ByChunks, EncIs
<1>2. f.chunks \in Seq(RawChunks) /\ f.synced \in Nat BY FileParts
<1>3. d \in Seq(RawChunks) BY <1>1, <1>2, WrittenHeader
<1>4. g.chunks = d BY <1>1, WithIs
<1>5. PICK c, m : f = [chunks |-> c, synced |-> m] BY FileParts
<1>6. \A t : Torn(f, s, from, t) = [chunks |-> d \o t, synced |-> f.synced]
  <2> TAKE t
  <2>1. Torn(f, s, from, t) = [f EXCEPT !.chunks = d \o t] BY DEF Torn
  <2> HIDE DEF d
  <2> QED BY <1>5, <2>1
<1>7. Torn(f, s, from, << >>) = g
  <2>1. d \o << >> = d
    <3> HIDE DEF d
    <3> QED BY <1>3
  <2>2. Torn(f, s, from, << >>) = [chunks |-> d \o << >>, synced |-> f.synced] BY <1>6
  <2> HIDE DEF g, d
  <2>3. g = [chunks |-> g.chunks, synced |-> g.synced] BY <1>0, FileParts
  <2> QED BY <1>0, <1>4, <2>1, <2>2, <2>3
<1>8. ASSUME NEW x \in Garbage, NEW h, h = Torn(f, s, from, <<x>>)
      PROVE  /\ FileType(h) /\ h.chunks = Append(g.chunks, x) /\ h.synced = f.synced
             /\ HeaderKey(h) = HeaderKey(f) /\ Enc(h.chunks) = Enc(f.chunks)
  <2>1. x \in RawChunks BY GarbageKind
  <2>2. h = [chunks |-> d \o <<x>>, synced |-> f.synced] BY <1>6, <1>8
  <2>3. d \o <<x>> = Append(d, x)
    <3> HIDE DEF d
    <3> QED BY <1>3, <2>1
  <2> HIDE DEF d, g
  <2>4. h.chunks = Append(d, x) /\ h.synced = f.synced BY <2>2, <2>3
  <2>5. /\ Append(d, x) \in Seq(RawChunks) /\ Enc(Append(d, x)) = Enc(d)
        /\ HeaderKey(File(Append(d, x))) = HeaderKey(File(d))
    BY <1>3, GarbageTail
  <2>6. g.synced <= Len(d) /\ Len(d) \in Nat BY <1>0, <1>4, FileParts
  <2>7. Len(Append(d, x)) = Len(d) + 1 BY <1>3, <2>1
  <2>8. h \in RawFiles BY <1>2, <2>2, <2>3, <2>5 DEF RawFiles
  <2>9. f.synced <= Len(Append(d, x)) BY <1>0, <1>2, <2>6, <2>7
  <2>10. FileType(h) BY <2>4, <2>8, <2>9 DEF FileType
  <2>11. HeaderKey(h) = HeaderKey(g) BY <1>4, <2>4, <2>5, ByChunks
  <2> QED BY <1>0, <1>4, <2>4, <2>5, <2>10, <2>11
<1> QED BY <1>7, <1>8 DEF g

\* A file all of which is synced.
AllSynced(f) == [f EXCEPT !.synced = Len(f.chunks)]

\* It has the same chunks.
LEMMA AllSyncedIs ==
  ASSUME NEW f, FileType(f)
  PROVE  /\ FileType(AllSynced(f)) /\ AllSynced(f).chunks = f.chunks
         /\ AllSynced(f).synced = Len(f.chunks)
         /\ HeaderKey(AllSynced(f)) = HeaderKey(f)
<1> DEFINE g == AllSynced(f)
<1>1. PICK c, m : f = [chunks |-> c, synced |-> m] BY FileParts
<1>2. g = [chunks |-> f.chunks, synced |-> Len(f.chunks)] BY <1>1 DEF AllSynced
<1>3. f.chunks \in Seq(RawChunks) /\ Len(f.chunks) \in Nat BY FileParts
<1> HIDE DEF g
<1>4. g \in RawFiles /\ g.chunks = f.chunks /\ g.synced = Len(f.chunks) BY <1>2, <1>3 DEF RawFiles
<1>5. FileType(g) BY <1>3, <1>4 DEF FileType
<1>6. HeaderKey(g) = HeaderKey(f) BY <1>4, ByChunks
<1> QED BY <1>4, <1>5, <1>6 DEF g

\* A beginning that has the header, if there is one, has the same key.
LEMMA HeadCut ==
  ASSUME NEW c \in Seq(RawChunks), NEW n \in 0 .. Len(c), Enc(c) => n >= 1
  PROVE  /\ Enc(SubSeq(c, 1, n)) = Enc(c)
         /\ HeaderKey(File(SubSeq(c, 1, n))) = HeaderKey(File(c))
<1> DEFINE d == SubSeq(c, 1, n)
<1>1. d \in Seq(RawChunks) /\ Len(d) = n /\ Len(c) \in Nat BY FirstOfFirst
<1>2. \A i \in 1 .. n : d[i] = c[i] OBVIOUS
<1> HIDE DEF d
<1>3. CASE n = 0
  <2>1. d = << >> BY <1>1, <1>3
  <2>a. ~ Enc(d) BY <2>1, EncIs
  <2>b. ~ Enc(c) BY <1>3
  <2>2. ~ Enc(d) /\ ~ Enc(c) BY <2>a, <2>b
  <2>3. Enc(d) \in BOOLEAN /\ Enc(c) \in BOOLEAN BY EncIs
  <2>4. HeaderKey(File(d)) = NoKey /\ HeaderKey(File(c)) = NoKey BY <2>2, EncIs
  <2> QED BY <2>2, <2>3, <2>4 DEF d
<1>4. CASE n # 0
  <2>1. d # << >> /\ c # << >> /\ d[1] = c[1] BY <1>1, <1>2, <1>4
  <2>2. Enc(d) = Enc(c) BY <2>1, EncIs
  <2>3. HeaderKey(File(d)) = HeaderKey(File(c)) BY <2>1, <2>2, EncIs
  <2> QED BY <2>2, <2>3 DEF d
<1> QED BY <1>3, <1>4

\* What a power loss may leave of a file.
LEMMA SurvivorsAre ==
  ASSUME NEW f, FileType(f), NEW g \in Survivors(f)
  PROVE  /\ FileType(g)
         /\ \E n \in f.synced .. Len(f.chunks) :
              /\ g.synced >= n
              /\ \/ g.chunks = SubSeq(f.chunks, 1, n)
                 \/ g.synced >= n + 1 /\ \E x \in Garbage : g.chunks = Append(SubSeq(f.chunks, 1, n), x)
         /\ \A ks : HeadKnown(f, ks) => HeadKnown(g, ks)
<1>0. /\ f.chunks \in Seq(RawChunks) /\ Len(f.chunks) \in Nat /\ f.synced \in 0 .. Len(f.chunks)
      /\ f.synced \in Nat /\ f # NoFile
  BY FileParts
<1>1. \/ \E k \in f.synced .. Len(f.chunks) : g = [chunks |-> SubSeq(f.chunks, 1, k), synced |-> k]
      \/ \E k \in f.synced .. Len(f.chunks) - 1 : \E x \in Garbage :
           g = [chunks |-> SubSeq(f.chunks, 1, k) \o <<x>>, synced |-> k + 1]
  BY <1>0, SMT DEF Survivors, Garbage
<1>2. ASSUME NEW k \in f.synced .. Len(f.chunks), g = [chunks |-> SubSeq(f.chunks, 1, k), synced |-> k]
      PROVE  /\ FileType(g) /\ g.synced >= k /\ g.chunks = SubSeq(f.chunks, 1, k)
             /\ \A ks : HeadKnown(f, ks) => HeadKnown(g, ks)
  <2> DEFINE d == SubSeq(f.chunks, 1, k)
  <2>1. k \in 0 .. Len(f.chunks) /\ k \in Nat BY <1>0
  <2>2. d \in Seq(RawChunks) /\ Len(d) = k BY <1>0, <2>1, FirstOfFirst
  <2> HIDE DEF d
  <2>3. g = [chunks |-> d, synced |-> k] BY <1>2 DEF d
  <2>4. g.chunks = d /\ g.synced = k /\ g \in RawFiles BY <2>1, <2>2, <2>3 DEF RawFiles
  <2>5. FileType(g) BY <2>1, <2>2, <2>4 DEF FileType
  <2>6. ASSUME NEW ks, HeadKnown(f, ks) PROVE HeadKnown(g, ks)
    <3>1. Enc(f.chunks) => k >= 1 BY <1>0, <2>1, <2>6 DEF HeadKnown
    <3>2. Enc(d) = Enc(f.chunks) /\ HeaderKey(File(d)) = HeaderKey(File(f.chunks))
      BY <1>0, <2>1, <3>1, HeadCut DEF d
    <3>3. HeaderKey(g) = HeaderKey(f) BY <2>4, <3>2, ByChunks
    <3> QED BY <2>4, <2>6, <3>1, <3>2, <3>3 DEF HeadKnown
  <2> QED BY <2>1, <2>4, <2>5, <2>6 DEF d
<1>3. ASSUME NEW k \in f.synced .. Len(f.chunks) - 1, NEW x \in Garbage,
             g = [chunks |-> SubSeq(f.chunks, 1, k) \o <<x>>, synced |-> k + 1]
      PROVE  /\ FileType(g) /\ k \in f.synced .. Len(f.chunks) /\ g.synced >= k /\ g.synced >= k + 1
             /\ g.chunks = Append(SubSeq(f.chunks, 1, k), x)
             /\ \A ks : HeadKnown(f, ks) => HeadKnown(g, ks)
  <2> DEFINE d == SubSeq(f.chunks, 1, k)
  <2>1. k \in 0 .. Len(f.chunks) /\ k \in Nat /\ k \in f.synced .. Len(f.chunks) BY <1>0
  <2>2. d \in Seq(RawChunks) /\ Len(d) = k BY <1>0, <2>1, FirstOfFirst
  <2> HIDE DEF d
  <2>3. x \in RawChunks BY GarbageKind
  <2>4. d \o <<x>> = Append(d, x) /\ Append(d, x) \in Seq(RawChunks) /\ Len(Append(d, x)) = k + 1
    BY <2>2, <2>3
  <2>5. g = [chunks |-> Append(d, x), synced |-> k + 1] BY <1>3, <2>4 DEF d
  <2>6. g.chunks = Append(d, x) /\ g.synced = k + 1 /\ g \in RawFiles BY <2>1, <2>4, <2>5 DEF RawFiles
  <2>7. FileType(g) BY <2>1, <2>4, <2>6 DEF FileType
  <2>8. ASSUME NEW ks, HeadKnown(f, ks) PROVE HeadKnown(g, ks)
    <3>1. Enc(f.chunks) => k >= 1 BY <1>0, <2>1, <2>8 DEF HeadKnown
    <3>2. Enc(d) = Enc(f.chunks) /\ HeaderKey(File(d)) = HeaderKey(File(f.chunks))
      BY <1>0, <2>1, <3>1, HeadCut DEF d
    <3>3. Enc(Append(d, x)) = Enc(d) /\ HeaderKey(File(Append(d, x))) = HeaderKey(File(d))
      BY <2>2, GarbageTail
    <3>4. HeaderKey(g) = HeaderKey(f) BY <2>6, <3>2, <3>3, ByChunks
    <3>5. k + 1 >= 1 BY <2>1
    <3> QED BY <2>6, <2>8, <3>4, <3>5 DEF HeadKnown
  <2> QED BY <2>1, <2>6, <2>7, <2>8 DEF d
<1> QED BY <1>1, <1>2, <1>3

\* The file init() finds.
LEMMA RestoredType ==
  ASSUME KFiles
  PROVE  FileType(Restored)
BY EmptyFileIs DEF KFiles, Restored

\* What Open does when its LETs are read.
LEMMA OpenParts ==
  ASSUME NEW db_key, NEW old, Open(db_key, old)
  PROVE  LET f == Restored IN
         /\ pc = "down" /\ Opens(f, db_key, old)
         /\ fatal' = LoadFails(f)
         /\ main' = Truncated(f) /\ processor_' = Loaded(f) /\ last_id_' = Loaded(f).last_id
         /\ buffer_' = << >> /\ need_sync_' = FALSE /\ db_key_' = db_key
         /\ stream' = IF Encrypted(f) THEN Len(f.chunks) ELSE 0
         /\ keys' = {db_key, HeaderKey(f)}
         /\ hist' = IF Explains(f) = {} THEN hist ELSE SubSeq(hist, 1, Max(Explains(f)))
         /\ base' = Len(hist') /\ dur' = dur
         /\ \E forced \in ForcedReindex(f) :
              \/ /\ NeedReindex(f, db_key, forced) /\ aes_key' = NoKey
                 /\ newf' = Regenerated(Loaded(f), db_key, NoKey)
                 /\ pc' = IF LoadFails(f) THEN "down" ELSE "rx_sync"
              \/ /\ NeedReindex(f, db_key, forced) /\ aes_key' = NoKey
                 /\ (IF forced THEN "cut" ELSE "whole") \in FailOn
                 /\ newf' \in Unopened(IF main = NoFile THEN NoFile ELSE newf)
                 /\ pc' = IF LoadFails(f) THEN "down" ELSE "run"
              \/ /\ ~ NeedReindex(f, db_key, forced) /\ aes_key' = HeaderKey(f)
                 /\ newf' = IF main = NoFile THEN NoFile ELSE newf
                 /\ pc' = IF LoadFails(f) THEN "down" ELSE "run"
<1> DEFINE f == Restored
<1>1. PICK forced \in ForcedReindex(f) :
       IF NeedReindex(f, db_key, forced)
         THEN /\ aes_key' = NoKey
              /\ \/ /\ newf' = Regenerated(Loaded(f), db_key, NoKey)
                    /\ pc' = IF LoadFails(f) THEN "down" ELSE "rx_sync"
                 \/ /\ (IF forced THEN "cut" ELSE "whole") \in FailOn
                    /\ newf' \in Unopened(IF main = NoFile THEN NoFile ELSE newf)
                    /\ pc' = IF LoadFails(f) THEN "down" ELSE "run"
         ELSE /\ newf' = IF main = NoFile THEN NoFile ELSE newf
              /\ aes_key' = HeaderKey(f)
              /\ pc' = IF LoadFails(f) THEN "down" ELSE "run"
  BY DEF Open
<1>2. /\ pc = "down" /\ Opens(f, db_key, old)
      /\ fatal' = LoadFails(f)
      /\ main' = Truncated(f) /\ processor_' = Loaded(f) /\ last_id_' = Loaded(f).last_id
      /\ buffer_' = << >> /\ need_sync_' = FALSE /\ db_key_' = db_key
      /\ stream' = IF Encrypted(f) THEN Len(f.chunks) ELSE 0
      /\ keys' = {db_key, HeaderKey(f)}
      /\ hist' = IF Explains(f) = {} THEN hist ELSE SubSeq(hist, 1, Max(Explains(f)))
      /\ base' = Len(hist') /\ dur' = dur
  BY DEF Open, LoadedLastId
<1> HIDE DEF f
<1>3. \/ /\ NeedReindex(f, db_key, forced) /\ aes_key' = NoKey
         /\ newf' = Regenerated(Loaded(f), db_key, NoKey)
         /\ pc' = IF LoadFails(f) THEN "down" ELSE "rx_sync"
      \/ /\ NeedReindex(f, db_key, forced) /\ aes_key' = NoKey
         /\ (IF forced THEN "cut" ELSE "whole") \in FailOn
         /\ newf' \in Unopened(IF main = NoFile THEN NoFile ELSE newf)
         /\ pc' = IF LoadFails(f) THEN "down" ELSE "run"
      \/ /\ ~ NeedReindex(f, db_key, forced) /\ aes_key' = HeaderKey(f)
         /\ newf' = IF main = NoFile THEN NoFile ELSE newf
         /\ pc' = IF LoadFails(f) THEN "down" ELSE "run"
  BY <1>1
<1> QED BY <1>2, <1>3 DEF f

\* The file init() would find next.
LEMMA RestoredNext ==
  ASSUME FileType(main')
  PROVE  Restored' = main' /\ main' # NoFile
<1>1. main' # NoFile BY FileParts
<1> QED BY <1>1 DEF Restored

\* The parts of KeyInv while the process runs.
LEMMA KeyRunning ==
  ASSUME KeyInv, pc = "run"
  PROVE  /\ FileType(main) /\ HeadKnown(main, keys)
         /\ main # NoFile /\ db_key_ \in keys /\ aes_key \in {NoKey, db_key_}
<1>1. main # NoFile /\ FileType(main) BY DEF KeyInv, KRun, KFiles
<1>2. Restored = main BY <1>1 DEF Restored
<1> QED BY <1>1, <1>2 DEF KeyInv, KHeader, KRun

\* The main file keeps its header and the process goes on, or ends.
LEMMA KeyHeader ==
  ASSUME FileType(main'), NEW f, NEW ks, HeadKnown(f, ks), HeaderKey(main') = HeaderKey(f),
         Enc(main'.chunks) = Enc(f.chunks), main'.synced >= f.synced, FileType(f), ks \subseteq keys'
  PROVE  KHeader'
<1>1. Restored' = main' BY RestoredNext
<1>2. HeaderKey(main') \in keys' BY DEF HeadKnown
<1>3. f.synced \in Nat /\ main'.synced \in Nat BY FileParts
<1>4. Enc(main'.chunks) => main'.synced >= 1 BY <1>3 DEF HeadKnown
<1>5. HeadKnown(main', keys') BY <1>2, <1>4 DEF HeadKnown
<1> QED BY <1>1, <1>5 DEF KHeader

\* What init() reads of a file.
LEMMA LoadedType ==
  ASSUME NEW f, FileType(f)
  PROVE  /\ IsProc(Loaded(f)) /\ Loaded(f).last_id \in Nat
         /\ Encrypted(f) \in BOOLEAN
<1>1. f.chunks \in Seq(RawChunks) BY FileParts
<1>2. Content(f.chunks) \in Seq(RawEvents) BY <1>1, ContentType
<1>3. IsProc(AfterEvents(Content(f.chunks))) BY <1>2, AfterType
<1>4. IsProc(Loaded(f)) BY <1>3, ByChunks
<1> QED BY <1>4, ProcParts DEF Encrypted

\* The keys at the beginning.
LEMMA KeyInit ==
  ASSUME Init
  PROVE  KeyInv
<1>1. Restored = EmptyFile BY DEF Init, Restored
<1>2. KHeader BY <1>1, EmptyFileIs DEF Init, KHeader, HeadKnown
<1>3. IsProc(processor_) BY NoEventsProc DEF Init
<1>d. buffer_ = << >> /\ stream = 0 /\ last_id_ = 0 BY DEF Init
<1>a. buffer_ \in Seq(RawEvents) /\ stream \in Nat /\ last_id_ \in Nat BY <1>d
<1>e. need_sync_ \in BOOLEAN BY DEF Init
<1>b. db_key_ \in DbKeys /\ aes_key \in DbKeys /\ keys \subseteq DbKeys BY DEF Init, DbKeys
<1>c. pc \in {"down", "run", "destroy"} \cup Stages BY DEF Init
<1>4. KMemory BY <1>3, <1>a, <1>e, <1>b, <1>c DEF KMemory
<1> QED BY <1>2, <1>4 DEF Init, KeyInv, KFiles, KRun, KReindex, KDestroy, Stages

\* init() on a log it can open.
LEMMA KeyOpen ==
  ASSUME KeyInv, NEW db_key \in DbKeys, NEW old, Open(db_key, old)
  PROVE  KeyInv'
<1> DEFINE f == Restored
           N == IF main = NoFile THEN NoFile ELSE newf
<1>1. FileType(f) /\ HeadKnown(f, keys) /\ (N = NoFile \/ FileType(N))
  BY RestoredType DEF KeyInv, KFiles, KHeader
<1>2. IsProc(Loaded(f)) /\ Loaded(f).last_id \in Nat /\ f.chunks \in Seq(RawChunks) /\ Len(f.chunks) \in Nat
  BY <1>1, LoadedType, FileParts
<1>3. /\ main' = Truncated(f) /\ processor_' = Loaded(f) /\ last_id_' = Loaded(f).last_id
      /\ buffer_' = << >> /\ need_sync_' = FALSE /\ db_key_' = db_key
      /\ stream' = IF Encrypted(f) THEN Len(f.chunks) ELSE 0
      /\ keys' = {db_key, HeaderKey(f)}
  BY OpenParts
<1>4. \/ /\ aes_key' = NoKey /\ newf' = Regenerated(Loaded(f), db_key, NoKey) /\ pc' \in {"down", "rx_sync"}
      \/ /\ aes_key' = NoKey /\ newf' \in Unopened(N) /\ pc' \in {"down", "run"}
      \/ /\ \E forced : ~ NeedReindex(f, db_key, forced)
         /\ aes_key' = HeaderKey(f) /\ newf' = N /\ pc' \in {"down", "run"}
  <2>1. PICK forced \in ForcedReindex(f) :
              \/ /\ NeedReindex(f, db_key, forced) /\ aes_key' = NoKey
                 /\ newf' = Regenerated(Loaded(f), db_key, NoKey)
                 /\ pc' = IF LoadFails(f) THEN "down" ELSE "rx_sync"
              \/ /\ NeedReindex(f, db_key, forced) /\ aes_key' = NoKey
                 /\ (IF forced THEN "cut" ELSE "whole") \in FailOn
                 /\ newf' \in Unopened(IF main = NoFile THEN NoFile ELSE newf)
                 /\ pc' = IF LoadFails(f) THEN "down" ELSE "run"
              \/ /\ ~ NeedReindex(f, db_key, forced) /\ aes_key' = HeaderKey(f)
                 /\ newf' = IF main = NoFile THEN NoFile ELSE newf
                 /\ pc' = IF LoadFails(f) THEN "down" ELSE "run"
    BY OpenParts
  <2> QED BY <2>1
<1> HIDE DEF f, N
<1>5. HeaderKey(f) \in DbKeys /\ (HeaderKey(f) # NoKey => Encrypted(f)) BY <1>1, HeaderKeyType
<1>6. FileType(main') BY <1>1, <1>3, TruncatedIs
<1>7. LET R == Regenerated(Loaded(f), db_key, NoKey) IN FileType(R) /\ HeaderKey(R) = db_key
  <2> DEFINE R == Regenerated(Loaded(f), db_key, NoKey)
  <2>1. R \in RawFiles /\ R.synced = 0 /\ HeaderKey(R) = db_key BY <1>2, RegeneratedIs
  <2> HIDE DEF R
  <2>2. Len(R.chunks) \in Nat BY <2>1 DEF RawFiles
  <2>3. FileType(R) BY <2>1, <2>2 DEF FileType
  <2> QED BY <2>1, <2>3 DEF R
<1>8. newf' = NoFile \/ FileType(newf') BY <1>1, <1>4, <1>7, EmptyFileIs DEF Unopened
<1>9. KFiles' BY <1>6, <1>8 DEF KFiles
<1>10. aes_key' \in DbKeys BY <1>4, <1>5 DEF DbKeys
<1>11. stream' \in Nat BY <1>2, <1>3
<1>12. pc' \in {"down", "run", "destroy"} \cup Stages BY <1>4 DEF Stages
<1>13. buffer_' \in Seq(RawEvents) BY <1>3
<1>14. KMemory' BY <1>2, <1>3, <1>5, <1>10, <1>11, <1>12, <1>13 DEF KMemory
<1>15. KHeader'
  <2>1. HeaderKey(main') \in keys' BY <1>1, <1>3, TruncatedIs
  <2>2. ASSUME Enc(main'.chunks) PROVE main'.synced >= 1
    <3>1. Enc(f.chunks) BY <1>1, <1>3, <2>2, TruncatedIs
    <3>2. Valid(f.chunks) >= 1 BY <1>2, <3>1, EncValid
    <3>3. f.synced >= 1 BY <1>1, <3>1 DEF HeadKnown
    <3> QED BY <1>1, <1>3, <3>2, <3>3, TruncatedIs
  <2>3. Restored' = main' BY <1>6, RestoredNext
  <2> QED BY <2>1, <2>2, <2>3 DEF KHeader, HeadKnown
<1>16. KRun'
  <2>1. main' # NoFile BY <1>6, FileParts
  <2>2. (\E forced : ~ NeedReindex(f, db_key, forced)) => HeaderKey(f) \in {NoKey, db_key}
    BY <1>5 DEF NeedReindex
  <2>3. pc' = "run" => aes_key' \in {NoKey, db_key} BY <1>4, <2>2
  <2> QED BY <1>3, <2>1, <2>3 DEF KRun
<1>17. KReindex'
  <2>1. main' # NoFile BY <1>6, FileParts
  <2>2. pc' \notin {"rx_unlink", "rx_rename"} BY <1>4
  <2>3. pc' \in Stages => newf' = Regenerated(Loaded(f), db_key, NoKey) BY <1>4 DEF Stages
  <2>4. pc' \in Stages => newf' # NoFile /\ HeaderKey(newf') = db_key BY <1>7, <2>3, FileParts
  <2> QED BY <1>3, <2>1, <2>2, <2>4 DEF KReindex
<1>18. KDestroy' BY <1>4 DEF KDestroy
<1> QED BY <1>9, <1>14, <1>15, <1>16, <1>17, <1>18 DEF KeyInv

\* init() with a wrong password.
LEMMA KeyWrongPassword ==
  ASSUME KeyInv, NEW db_key, NEW old, OpenWrongPassword(db_key, old)
  PROVE  KeyInv'
<1>1. /\ main' = Restored /\ (newf' = NoFile \/ newf' = newf) /\ pc' = "down" /\ pc = "down"
      /\ UNCHANGED <<processor_, buffer_, stream, last_id_, need_sync_, db_key_, aes_key, keys>>
  BY DEF OpenWrongPassword, memory, history
<1>2. FileType(main') BY <1>1, RestoredType DEF KeyInv
<1>3. KFiles' BY <1>1, <1>2 DEF KeyInv, KFiles
<1>4. KMemory' BY <1>1 DEF KeyInv, KMemory
<1>5. KHeader' BY <1>1, <1>2, RestoredNext DEF KeyInv, KHeader
<1> QED BY <1>1, <1>3, <1>4, <1>5 DEF KeyInv, KRun, KReindex, KDestroy, Stages

\* The memory of a process that is gone.
LEMMA KeyForget ==
  ASSUME KeyInv, Forget, pc' \in {"down", "destroy"}, keys' \subseteq DbKeys
  PROVE  KMemory' /\ KRun' /\ KReindex'
<1>1. /\ processor_' = NoEvents /\ buffer_' = << >> /\ stream' = 0
      /\ last_id_' = 0 /\ need_sync_' = FALSE /\ db_key_' = NoKey /\ aes_key' = NoKey
  BY DEF Forget
<1>2. buffer_' \in Seq(RawEvents) BY <1>1
<1>3. IsProc(processor_') BY <1>1, NoEventsProc
<1>4. NoKey \in DbKeys BY DEF DbKeys
<1>5. pc' \in {"down", "run", "destroy"} \cup Stages OBVIOUS
<1>6. KMemory' BY <1>1, <1>2, <1>3, <1>4, <1>5 DEF KMemory
<1> QED BY <1>6 DEF KRun, KReindex, Stages

\* What an operation on the running log writes.
LEMMA MainWithIs ==
  ASSUME KeyInv, pc = "run", NEW s \in Seq(RawEvents)
  PROVE  /\ MainWith(s) = With(main, s, stream) /\ FileType(MainWith(s))
         /\ HeaderKey(MainWith(s)) = HeaderKey(main) /\ Enc(MainWith(s).chunks) = Enc(main.chunks)
         /\ Encrypted(MainWith(s)) = Encrypted(main)
         /\ MainWith(s).chunks = main.chunks \o Written(s, Enc(main.chunks), stream)
         /\ MainWith(s).synced = main.synced
         /\ Len(MainWith(s).chunks) = Len(main.chunks) + Len(s)
<1>1. FileType(main) /\ stream \in Nat BY KeyRunning DEF KeyInv, KMemory
<1> DEFINE g == With(main, s, stream)
<1>2. MainWith(s) = g BY DEF MainWith, With
<1>3. /\ FileType(g) /\ HeaderKey(g) = HeaderKey(main) /\ Enc(g.chunks) = Enc(main.chunks)
      /\ Encrypted(g) = Encrypted(main)
      /\ g.chunks = main.chunks \o Written(s, Enc(main.chunks), stream)
      /\ g.synced = main.synced
      /\ Len(g.chunks) = Len(main.chunks) + Len(s)
  BY <1>1, WithIs
<1> QED BY <1>2, <1>3, Zenon

\* A regenerated file, of whatever is in memory.
LEMMA RegeneratedFile ==
  ASSUME NEW p, IsProc(p), NEW db_key \in DbKeys, NEW cached \in {NoKey, db_key}
  PROVE  /\ FileType(Regenerated(p, db_key, cached))
         /\ HeaderKey(Regenerated(p, db_key, cached)) = db_key
<1> DEFINE R == Regenerated(p, db_key, cached)
<1>1. R \in RawFiles /\ R.synced = 0 /\ HeaderKey(R) = db_key BY RegeneratedIs
<1> HIDE DEF R
<1>2. Len(R.chunks) \in Nat BY <1>1 DEF RawFiles
<1>3. FileType(R) BY <1>1, <1>2 DEF FileType
<1> QED BY <1>1, <1>3 DEF R

\* add_event().
LEMMA KeyAddEvent ==
  ASSUME KeyInv, NEW e \in RawEvents, AddEvent(e)
  PROVE  KeyInv'
<1> DEFINE b == Append(buffer_, e)
           p == DoEvent(processor_, e)
<1>1. /\ pc = "run" /\ processor_' = p /\ last_id_' = last_id_ + 1
      /\ UNCHANGED <<db_key_, aes_key, keys>>
  BY DEF AddEvent
<1>2. \/ buffer_' = b /\ UNCHANGED <<main, stream, need_sync_>>
      \/ Write(b) /\ need_sync_' = TRUE
  BY DEF AddEvent
<1>3. \/ pc' \in {"run", "down"} /\ newf' = newf
      \/ newf' = Regenerated(p, db_key_, aes_key) /\ pc' = "rx_sync"
      \/ newf' \in Unopened(newf) /\ pc' = "run"
  BY DEF AddEvent
<1>4. /\ FileType(main) /\ HeadKnown(main, keys) /\ main # NoFile /\ db_key_ \in keys
      /\ aes_key \in {NoKey, db_key_}
  BY <1>1, KeyRunning
<1>5. /\ IsProc(processor_) /\ buffer_ \in Seq(RawEvents) /\ stream \in Nat /\ last_id_ \in Nat
      /\ need_sync_ \in BOOLEAN /\ db_key_ \in DbKeys /\ aes_key \in DbKeys /\ keys \subseteq DbKeys
      /\ (newf = NoFile \/ FileType(newf))
  BY DEF KeyInv, KMemory, KFiles
<1>6. b \in Seq(RawEvents) /\ Len(b) \in Nat BY <1>5
<1>7. IsProc(p) BY <1>5, DoEventType
<1> HIDE DEF b, p
<1>8. /\ FileType(main') /\ HeaderKey(main') = HeaderKey(main) /\ Enc(main'.chunks) = Enc(main.chunks)
      /\ main'.synced = main.synced
      /\ buffer_' \in Seq(RawEvents) /\ stream' \in Nat /\ need_sync_' \in BOOLEAN
  <2>1. CASE buffer_' = b /\ UNCHANGED <<main, stream, need_sync_>> BY <1>4, <1>5, <1>6, <2>1
  <2>2. CASE Write(b) /\ need_sync_' = TRUE
    <3>1. /\ main' = MainWith(b) /\ stream' = (IF Encrypted(main) THEN stream + Len(b) ELSE 0)
          /\ buffer_' = << >> /\ need_sync_' = TRUE
      BY <2>2 DEF Write
    <3>2. stream' \in Nat /\ buffer_' \in Seq(RawEvents) BY <1>5, <1>6, <3>1
    <3> QED BY <1>1, <1>6, <3>1, <3>2, MainWithIs
  <2> QED BY <1>2, <2>1, <2>2
<1>9. FileType(Regenerated(p, db_key_, aes_key)) /\ HeaderKey(Regenerated(p, db_key_, aes_key)) = db_key_
  BY <1>4, <1>5, <1>7, RegeneratedFile
<1>10. newf' = NoFile \/ FileType(newf') BY <1>3, <1>5, <1>9, EmptyFileIs DEF Unopened
<1>11. KFiles' BY <1>8, <1>10 DEF KFiles
<1>12. KMemory' BY <1>1, <1>3, <1>5, <1>7, <1>8 DEF KMemory, Stages
<1>13. main'.synced >= main.synced BY <1>4, <1>8, FileParts
<1>14. KHeader' BY <1>1, <1>4, <1>8, <1>13, KeyHeader
<1>15. main' # NoFile BY <1>8, FileParts
<1>16. KRun' BY <1>1, <1>4, <1>15 DEF KRun
<1>17. pc' \in Stages => pc' = "rx_sync" /\ newf' # NoFile /\ HeaderKey(newf') = db_key_
  BY <1>3, <1>9, FileParts DEF Stages
<1>18. KReindex' BY <1>1, <1>3, <1>4, <1>15, <1>17 DEF KReindex
<1>19. KDestroy' BY <1>3 DEF KDestroy
<1> QED BY <1>11, <1>12, <1>14, <1>16, <1>18, <1>19 DEF KeyInv

\* flush() and sync().
LEMMA KeyFlushSync ==
  ASSUME KeyInv, Flush \/ Sync
  PROVE  KeyInv'
<1>1. /\ pc = "run" /\ pc' = "run"
      /\ stream' = IF Encrypted(main) THEN stream + Len(buffer_) ELSE 0
      /\ buffer_' = << >> /\ need_sync_' \in BOOLEAN
      /\ UNCHANGED <<newf, processor_, last_id_, db_key_, aes_key, keys>>
  BY DEF Flush, Sync, Write, history
<1>2. main' = MainWith(buffer_) \/ main' = AllSynced(MainWith(buffer_))
  BY DEF Flush, Sync, Write, Synced, AllSynced
<1>3. FileType(main) /\ HeadKnown(main, keys) /\ main # NoFile BY <1>1, KeyRunning
<1>4. buffer_ \in Seq(RawEvents) /\ stream \in Nat /\ Len(buffer_) \in Nat BY DEF KeyInv, KMemory
<1> DEFINE g == MainWith(buffer_)
<1>5. /\ FileType(g) /\ HeaderKey(g) = HeaderKey(main) /\ Enc(g.chunks) = Enc(main.chunks)
      /\ g.synced = main.synced
  BY <1>1, <1>4, MainWithIs
<1> HIDE DEF g
<1>6. /\ FileType(AllSynced(g)) /\ HeaderKey(AllSynced(g)) = HeaderKey(main)
      /\ Enc(AllSynced(g).chunks) = Enc(main.chunks) /\ AllSynced(g).synced = Len(g.chunks)
  BY <1>5, AllSyncedIs
<1>7. g.synced <= Len(g.chunks) BY <1>5, FileParts
<1>8. /\ FileType(main') /\ HeaderKey(main') = HeaderKey(main) /\ Enc(main'.chunks) = Enc(main.chunks)
  BY <1>2, <1>5, <1>6 DEF g
<1>9. main'.synced >= main.synced BY <1>2, <1>3, <1>5, <1>6, <1>7, FileParts DEF g
<1>10. KFiles' BY <1>1, <1>8 DEF KeyInv, KFiles
<1>11. stream' \in Nat /\ buffer_' \in Seq(RawEvents) BY <1>1, <1>4
<1>12. KMemory' BY <1>1, <1>11 DEF KeyInv, KMemory
<1>13. KHeader' BY <1>1, <1>3, <1>8, <1>9, KeyHeader
<1>14. main' # NoFile BY <1>8, FileParts
<1>15. KRun' BY <1>1, <1>14 DEF KeyInv, KRun
<1> QED BY <1>1, <1>10, <1>12, <1>13, <1>15 DEF KeyInv, KReindex, KDestroy, Stages

\* close().
LEMMA KeyClose ==
  ASSUME KeyInv, Close
  PROVE  KeyInv'
<1>1. pc = "run" /\ pc' = "down" /\ newf' = newf /\ keys' = keys /\ Forget BY DEF Close
<1>2. main' = MainWith(buffer_) \/ main' = AllSynced(MainWith(buffer_)) BY DEF Close, Synced, AllSynced
<1>3. FileType(main) /\ HeadKnown(main, keys) BY <1>1, KeyRunning
<1>4. buffer_ \in Seq(RawEvents) BY DEF KeyInv, KMemory
<1> DEFINE g == MainWith(buffer_)
<1>5. /\ FileType(g) /\ HeaderKey(g) = HeaderKey(main) /\ Enc(g.chunks) = Enc(main.chunks)
      /\ g.synced = main.synced
  BY <1>1, <1>4, MainWithIs
<1> HIDE DEF g
<1>6. /\ FileType(AllSynced(g)) /\ HeaderKey(AllSynced(g)) = HeaderKey(main)
      /\ Enc(AllSynced(g).chunks) = Enc(main.chunks) /\ AllSynced(g).synced = Len(g.chunks)
  BY <1>5, AllSyncedIs
<1>7. g.synced <= Len(g.chunks) BY <1>5, FileParts
<1>8. FileType(main') /\ HeaderKey(main') = HeaderKey(main) /\ Enc(main'.chunks) = Enc(main.chunks)
  BY <1>2, <1>5, <1>6 DEF g
<1>9. main'.synced >= main.synced BY <1>2, <1>3, <1>5, <1>6, <1>7, FileParts DEF g
<1>10. KFiles' BY <1>1, <1>8 DEF KeyInv, KFiles
<1>11. keys' \subseteq DbKeys BY <1>1 DEF KeyInv, KMemory
<1>12. KMemory' /\ KRun' /\ KReindex' BY <1>1, <1>11, KeyForget
<1>13. KHeader' BY <1>1, <1>3, <1>8, <1>9, KeyHeader
<1> QED BY <1>1, <1>10, <1>12, <1>13 DEF KeyInv, KDestroy

\* change_key(), with its do_reindex() begun or given up.
LEMMA KeyChangeKey ==
  ASSUME KeyInv, NEW k \in DbKeys, ChangeKey(k) \/ ChangeKeyFails(k)
  PROVE  KeyInv'
<1>1. /\ pc = "run" /\ db_key_' = k /\ aes_key' = NoKey /\ keys' = keys \cup {k}
      /\ UNCHANGED <<main, processor_, buffer_, stream, last_id_, need_sync_>>
  BY DEF ChangeKey, ChangeKeyFails
<1>2. \/ newf' = Regenerated(processor_, k, NoKey) /\ pc' = "rx_sync"
      \/ newf' \in Unopened(newf) /\ pc' = "run"
  BY DEF ChangeKey, ChangeKeyFails
<1>3. /\ FileType(main) /\ HeadKnown(main, keys) /\ main # NoFile BY <1>1, KeyRunning
<1>4. IsProc(processor_) /\ keys \subseteq DbKeys /\ (newf = NoFile \/ FileType(newf))
  BY DEF KeyInv, KMemory, KFiles
<1>5. FileType(Regenerated(processor_, k, NoKey)) /\ HeaderKey(Regenerated(processor_, k, NoKey)) = k
  BY <1>4, RegeneratedFile
<1>6. newf' = NoFile \/ FileType(newf') BY <1>2, <1>4, <1>5, EmptyFileIs DEF Unopened
<1>7. KFiles' BY <1>1, <1>3, <1>6 DEF KFiles
<1>8. NoKey \in DbKeys /\ keys' \subseteq DbKeys BY <1>1, <1>4 DEF DbKeys
<1>9. pc' \in {"down", "run", "destroy"} \cup Stages BY <1>2 DEF Stages
<1>10. KMemory' BY <1>1, <1>8, <1>9 DEF KeyInv, KMemory
<1>11. main'.synced >= main.synced BY <1>1, <1>3, FileParts
<1>12. FileType(main') /\ keys \subseteq keys' BY <1>1, <1>3
<1>13. KHeader' BY <1>1, <1>3, <1>11, <1>12, KeyHeader
<1>14. KRun' BY <1>1, <1>3 DEF KRun
<1>15. pc' \in Stages => pc' = "rx_sync" /\ newf' # NoFile /\ HeaderKey(newf') = k
  BY <1>2, <1>5, FileParts DEF Stages
<1>16. KReindex' BY <1>1, <1>2, <1>3, <1>15 DEF KReindex
<1>17. KDestroy' BY <1>2 DEF KDestroy
<1> QED BY <1>7, <1>10, <1>13, <1>14, <1>16, <1>17 DEF KeyInv

\* The sync() of do_reindex().
LEMMA KeyReindexSync ==
  ASSUME KeyInv, ReindexSync
  PROVE  KeyInv'
<1>1. /\ pc = "rx_sync" /\ pc' = "rx_unlink" /\ newf' = AllSynced(newf) /\ buffer_' = << >>
      /\ UNCHANGED <<main, processor_, stream, last_id_, db_key_, aes_key, keys>>
  BY DEF ReindexSync, AllSynced, history
<1>a. need_sync_' = FALSE BY DEF ReindexSync
<1>2. FileType(main) /\ main # NoFile BY <1>1 DEF KeyInv, KReindex, KFiles
<1>3. FileType(newf) /\ HeaderKey(newf) = db_key_ /\ db_key_ \in keys
  BY <1>1 DEF KeyInv, KReindex, KFiles, Stages
<1>4. /\ FileType(newf') /\ HeaderKey(newf') = db_key_ /\ newf'.chunks = newf.chunks
      /\ newf'.synced = Len(newf'.chunks)
  BY <1>1, <1>3, AllSyncedIs
<1>5. newf' # NoFile BY <1>4, FileParts
<1>6. KFiles' BY <1>1, <1>2, <1>4 DEF KFiles
<1>7. buffer_' \in Seq(RawEvents) BY <1>1
<1>8. need_sync_' \in BOOLEAN BY <1>a
<1>9. pc' \in {"down", "run", "destroy"} \cup Stages BY <1>1 DEF Stages
<1>10. KMemory' BY <1>1, <1>7, <1>8, <1>9 DEF KeyInv, KMemory
<1>11. Restored' = Restored BY <1>1, <1>2 DEF Restored
<1>12. KHeader' BY <1>1, <1>11 DEF KeyInv, KHeader
<1>13. KReindex' BY <1>1, <1>2, <1>3, <1>4, <1>5, <1>a DEF KReindex
<1>14. KRun' /\ KDestroy' BY <1>1 DEF KRun, KDestroy
<1> QED BY <1>6, <1>10, <1>12, <1>13, <1>14 DEF KeyInv

\* unlink(path_): from here on init() would find <path>.new, which is complete.
LEMMA KeyReindexUnlink ==
  ASSUME KeyInv, ReindexUnlink
  PROVE  KeyInv'
<1>1. /\ pc = "rx_unlink" /\ pc' = "rx_rename" /\ main' = NoFile
      /\ UNCHANGED <<newf, processor_, buffer_, stream, last_id_, need_sync_, db_key_, aes_key, keys>>
  BY DEF ReindexUnlink, memory, history
<1>2. FileType(newf) /\ newf # NoFile /\ HeaderKey(newf) = db_key_ /\ db_key_ \in keys
  BY <1>1 DEF KeyInv, KReindex, KFiles, Stages
<1>3. newf.synced = Len(newf.chunks) BY <1>1 DEF KeyInv, KReindex
<1>4. KFiles' BY <1>1, <1>2 DEF KFiles
<1>5. pc' \in {"down", "run", "destroy"} \cup Stages BY <1>1 DEF Stages
<1>6. KMemory' BY <1>1, <1>5 DEF KeyInv, KMemory
<1>7. Restored' = newf BY <1>1, <1>2 DEF Restored
<1>8. Enc(newf.chunks) => Len(newf.chunks) >= 1 BY <1>2, FileParts, EncValid
<1>9. HeadKnown(newf, keys) BY <1>2, <1>3, <1>8 DEF HeadKnown
<1>10. KHeader' BY <1>1, <1>7, <1>9 DEF KHeader
<1>11. KReindex' BY <1>1 DEF KeyInv, KReindex, Stages
<1>12. KRun' /\ KDestroy' BY <1>1 DEF KRun, KDestroy
<1> QED BY <1>4, <1>6, <1>10, <1>11, <1>12 DEF KeyInv

\* rename(new_path, path_).
LEMMA KeyReindexRename ==
  ASSUME KeyInv, ReindexRename
  PROVE  KeyInv'
<1>1. /\ pc = "rx_rename" /\ pc' = "run" /\ main' = newf /\ newf' = NoFile
      /\ stream' = IF Encrypted(newf) THEN Len(newf.chunks) ELSE 0
      /\ aes_key' = HeaderKey(newf) /\ keys' = {db_key_}
      /\ UNCHANGED <<processor_, buffer_, last_id_, need_sync_, db_key_>>
  BY DEF ReindexRename
<1>2. FileType(newf) /\ newf # NoFile /\ HeaderKey(newf) = db_key_ /\ db_key_ \in DbKeys
  BY <1>1 DEF KeyInv, KReindex, KFiles, KMemory, Stages
<1>3. newf.synced = Len(newf.chunks) BY <1>1 DEF KeyInv, KReindex
<1>4. KFiles' BY <1>1, <1>2 DEF KFiles
<1>5. stream' \in Nat BY <1>1, <1>2, FileParts
<1>6. pc' \in {"down", "run", "destroy"} \cup Stages BY <1>1 DEF Stages
<1>7. aes_key' \in DbKeys /\ keys' \subseteq DbKeys BY <1>1, <1>2
<1>8. KMemory' BY <1>1, <1>5, <1>6, <1>7 DEF KeyInv, KMemory
<1>9. Enc(newf.chunks) => Len(newf.chunks) >= 1 BY <1>2, FileParts, EncValid
<1>10. HeadKnown(newf, {db_key_}) BY <1>2, <1>3, <1>9 DEF HeadKnown
<1>11. Restored' = newf BY <1>1, <1>2 DEF Restored
<1>12. KHeader' BY <1>1, <1>10, <1>11 DEF KHeader
<1>13. KRun' BY <1>1, <1>2 DEF KRun
<1>14. KReindex' /\ KDestroy' BY <1>1 DEF KReindex, KDestroy, Stages
<1> QED BY <1>4, <1>8, <1>12, <1>13, <1>14 DEF KeyInv

\* What is left when no file is.
LEMMA KeyNothing ==
  ASSUME main' = NoFile, newf' = NoFile, keys' = {NoKey}
  PROVE  KFiles' /\ KHeader' /\ KDestroy'
<1>1. Restored' = EmptyFile BY DEF Restored
<1> QED BY <1>1, EmptyFileIs DEF KFiles, KHeader, KDestroy, HeadKnown

\* The first step of destroy().
LEMMA KeyDestroyNew ==
  ASSUME KeyInv, DestroyNew
  PROVE  KeyInv'
<1>1. /\ pc \in {"run", "down"} /\ pc' = "destroy" /\ newf' = NoFile /\ Forget
      /\ main' = IF pc = "run" THEN MainWith(buffer_) ELSE main
      /\ IF main = NoFile THEN NoHistory ELSE UNCHANGED history
  BY DEF DestroyNew
<1>2. CASE main = NoFile
  <2>1. main' = NoFile BY <1>1, <1>2, KeyRunning
  <2>2. keys' = {NoKey} BY <1>1, <1>2 DEF NoHistory
  <2>3. keys' \subseteq DbKeys BY <2>2 DEF DbKeys
  <2>4. KMemory' /\ KRun' /\ KReindex' BY <1>1, <2>3, KeyForget
  <2> QED BY <1>1, <2>1, <2>2, <2>4, KeyNothing DEF KeyInv
<1>3. CASE main # NoFile
  <2>1. keys' = keys BY <1>1, <1>3 DEF history
  <2>2. FileType(main) /\ HeadKnown(main, keys) BY <1>3 DEF KeyInv, KFiles, KHeader, Restored
  <2>3. buffer_ \in Seq(RawEvents) /\ keys \subseteq DbKeys BY DEF KeyInv, KMemory
  <2>4. /\ FileType(main') /\ HeaderKey(main') = HeaderKey(main) /\ Enc(main'.chunks) = Enc(main.chunks)
        /\ main'.synced = main.synced
    BY <1>1, <2>2, <2>3, MainWithIs
  <2>5. main'.synced >= main.synced BY <2>2, <2>4, FileParts
  <2>6. KHeader' BY <2>1, <2>2, <2>4, <2>5, KeyHeader
  <2>7. KMemory' /\ KRun' /\ KReindex' BY <1>1, <2>1, <2>3, KeyForget
  <2>8. KFiles' /\ KDestroy' BY <1>1, <2>4 DEF KFiles, KDestroy
  <2> QED BY <2>6, <2>7, <2>8 DEF KeyInv
<1> QED BY <1>2, <1>3

\* The second step of destroy().
LEMMA KeyDestroyMain ==
  ASSUME KeyInv, DestroyMain
  PROVE  KeyInv'
<1>1. /\ pc = "destroy" /\ pc' = "down" /\ main' = NoFile /\ newf' = newf /\ keys' = {NoKey}
      /\ UNCHANGED <<processor_, buffer_, stream, last_id_, need_sync_, db_key_, aes_key>>
  BY DEF DestroyMain, NoHistory, memory
<1>2. newf' = NoFile BY <1>1 DEF KeyInv, KDestroy
<1>3. KFiles' /\ KHeader' /\ KDestroy' BY <1>1, <1>2, KeyNothing
<1>4. keys' \subseteq DbKeys BY <1>1 DEF DbKeys
<1>5. pc' \in {"down", "run", "destroy"} \cup Stages BY <1>1
<1>6. KMemory' BY <1>1, <1>4, <1>5 DEF KeyInv, KMemory
<1> QED BY <1>1, <1>3, <1>6 DEF KeyInv, KRun, KReindex, Stages

\* What the end of the process leaves of the main file: a beginning of the
\* buffer is written, and perhaps a part of the next event.
LEMMA KillParts ==
  ASSUME KeyInv, Kill, pc = "run"
  PROVE  \E n \in 0 .. Len(buffer_) :
           LET s == SubSeq(buffer_, 1, n) IN
           /\ s \in Seq(RawEvents)
           /\ \/ main' = With(main, s, stream)
              \/ \E x \in Garbage : main' = Torn(main, s, stream, <<x>>)
<1>1. PICK n \in 0 .. Len(buffer_) :
        \E tail \in {<< >>} \cup (IF n < Len(buffer_) THEN {<<[kind |-> "torn"]>>} ELSE {}) :
          main' = [main EXCEPT !.chunks =
            @ \o Written(SubSeq(buffer_, 1, n), Encrypted(main), stream) \o tail]
  BY DEF Kill
<1> DEFINE s == SubSeq(buffer_, 1, n)
<1>2. PICK tail \in {<< >>} \cup (IF n < Len(buffer_) THEN {<<[kind |-> "torn"]>>} ELSE {}) :
        main' = Torn(main, s, stream, tail)
  BY <1>1, Zenon DEF Torn
<1>3. tail = << >> \/ tail = <<[kind |-> "torn"]>> BY <1>2
<1>4. buffer_ \in Seq(RawEvents) /\ stream \in Nat /\ FileType(main) BY KeyRunning DEF KeyInv, KMemory
<1>5. s \in Seq(RawEvents) BY <1>4
<1> HIDE DEF s
<1>6. [kind |-> "torn"] \in Garbage BY DEF Garbage
<1>7. Torn(main, s, stream, << >>) = With(main, s, stream) BY <1>4, <1>5, TornIs
<1>8. \/ main' = With(main, s, stream)
      \/ \E x \in Garbage : main' = Torn(main, s, stream, <<x>>)
  BY <1>2, <1>3, <1>6, <1>7
<1> QED BY <1>5, <1>8 DEF s

\* The end of the process.
LEMMA KeyKill ==
  ASSUME KeyInv, Kill
  PROVE  KeyInv'
<1>1. pc' = "down" /\ newf' = newf /\ keys' = keys /\ Forget BY DEF Kill, history
<1>2. keys' \subseteq DbKeys BY <1>1 DEF KeyInv, KMemory
<1>3. KMemory' /\ KRun' /\ KReindex' BY <1>1, <1>2, KeyForget
<1>4. KDestroy' BY <1>1 DEF KDestroy
<1>5. CASE pc # "run"
  <2>1. main' = main BY <1>5 DEF Kill
  <2>2. Restored' = Restored BY <1>1, <2>1 DEF Restored
  <2>3. KFiles' /\ KHeader' BY <1>1, <2>1, <2>2 DEF KeyInv, KFiles, KHeader
  <2> QED BY <1>3, <1>4, <2>3 DEF KeyInv
<1>6. CASE pc = "run"
  <2>1. FileType(main) /\ HeadKnown(main, keys) /\ stream \in Nat BY <1>6, KeyRunning DEF KeyInv, KMemory
  <2>2. PICK n \in 0 .. Len(buffer_) :
           /\ SubSeq(buffer_, 1, n) \in Seq(RawEvents)
           /\ \/ main' = With(main, SubSeq(buffer_, 1, n), stream)
              \/ \E x \in Garbage : main' = Torn(main, SubSeq(buffer_, 1, n), stream, <<x>>)
    BY <1>6, KillParts
  <2> DEFINE s == SubSeq(buffer_, 1, n)
  <2>3. s \in Seq(RawEvents) BY <2>2
  <2>4. main' = With(main, s, stream) \/ \E x \in Garbage : main' = Torn(main, s, stream, <<x>>) BY <2>2
  <2> HIDE DEF s
  <2>5. /\ FileType(main') /\ HeaderKey(main') = HeaderKey(main) /\ Enc(main'.chunks) = Enc(main.chunks)
        /\ main'.synced = main.synced
    <3>1. CASE main' = With(main, s, stream)
      <4> DEFINE g == With(main, s, stream)
      <4>1. /\ FileType(g) /\ HeaderKey(g) = HeaderKey(main) /\ Enc(g.chunks) = Enc(main.chunks)
            /\ g.synced = main.synced
        BY <2>1, <2>3, WithIs
      <4> QED BY <3>1, <4>1, Zenon
    <3>2. ASSUME NEW x \in Garbage, main' = Torn(main, s, stream, <<x>>)
          PROVE  /\ FileType(main') /\ HeaderKey(main') = HeaderKey(main)
                 /\ Enc(main'.chunks) = Enc(main.chunks) /\ main'.synced = main.synced
      <4> DEFINE g == Torn(main, s, stream, <<x>>)
      <4>1. /\ FileType(g) /\ HeaderKey(g) = HeaderKey(main) /\ Enc(g.chunks) = Enc(main.chunks)
            /\ g.synced = main.synced
        BY <2>1, <2>3, TornIs
      <4> QED BY <3>2, <4>1, Zenon
    <3> QED BY <2>4, <3>1, <3>2
  <2>6. main'.synced >= main.synced BY <2>1, <2>5, FileParts
  <2>7. KHeader' BY <1>1, <2>1, <2>5, <2>6, KeyHeader
  <2>8. KFiles' BY <1>1, <2>5 DEF KeyInv, KFiles
  <2> QED BY <1>3, <1>4, <2>7, <2>8 DEF KeyInv
<1> QED BY <1>5, <1>6

\* No file stays no file.
LEMMA NoSurvivor == \A g \in Survivors(NoFile) : g = NoFile
BY DEF Survivors

\* The power goes away.
LEMMA KeyPowerLoss ==
  ASSUME KeyInv, PowerLoss
  PROVE  KeyInv'
<1>1. pc' = "down" /\ keys' = keys /\ Forget /\ main' \in Survivors(main) /\ newf' \in Survivors(newf)
  BY DEF PowerLoss, history
<1>2. keys' \subseteq DbKeys BY <1>1 DEF KeyInv, KMemory
<1>3. KMemory' /\ KRun' /\ KReindex' BY <1>1, <1>2, KeyForget
<1>4. KDestroy' BY <1>1 DEF KDestroy
<1>5. ASSUME NEW f, NEW g \in Survivors(f), f = NoFile \/ FileType(f)
      PROVE  /\ f = NoFile => g = NoFile
             /\ f # NoFile => FileType(g) /\ g # NoFile /\ (HeadKnown(f, keys) => HeadKnown(g, keys))
  <2>1. f = NoFile => g = NoFile BY NoSurvivor
  <2>2. ASSUME f # NoFile PROVE FileType(g) /\ g # NoFile /\ (HeadKnown(f, keys) => HeadKnown(g, keys))
    <3>1. FileType(f) BY <1>5, <2>2
    <3>2. FileType(g) /\ (HeadKnown(f, keys) => HeadKnown(g, keys)) BY <3>1, SurvivorsAre
    <3> QED BY <3>2, FileParts
  <2> QED BY <2>1, <2>2
<1>6. /\ main = NoFile => main' = NoFile
      /\ main # NoFile => FileType(main') /\ main' # NoFile /\ (HeadKnown(main, keys) => HeadKnown(main', keys))
  BY <1>1, <1>5 DEF KeyInv, KFiles
<1>7. /\ newf = NoFile => newf' = NoFile
      /\ newf # NoFile => FileType(newf') /\ newf' # NoFile /\ (HeadKnown(newf, keys) => HeadKnown(newf', keys))
  BY <1>1, <1>5 DEF KeyInv, KFiles
<1>8. KFiles' BY <1>6, <1>7 DEF KFiles
<1>9. HeadKnown(Restored', keys) BY <1>6, <1>7 DEF KeyInv, KHeader, Restored
<1>10. KHeader' BY <1>1, <1>9 DEF KHeader
<1> QED BY <1>3, <1>4, <1>8, <1>10 DEF KeyInv

\* The events the log is given are events.
LEMMA AddedEvents ==
  ASSUME KeyInv
  PROVE  /\ Add => \E e \in RawEvents : AddEvent(e)
         /\ \A i \in LiveIds(processor_) : Rewrite(i) \/ Erase(i) => \E e \in RawEvents : AddEvent(e)
<1>1. last_id_ \in Nat /\ IsProc(processor_) BY DEF KeyInv, KMemory
<1>2. \A i \in LiveIds(processor_) : i \in Nat BY <1>1, ProcParts DEF LiveIds
<1>3. [id |-> last_id_ + 1, value |-> last_id_ + 1, rewrite |-> FALSE] \in RawEvents
  BY <1>1, OperationsAssumption DEF RawEvents
<1>4. \A i \in LiveIds(processor_) :
        /\ [id |-> i, value |-> last_id_ + 1, rewrite |-> TRUE] \in RawEvents
        /\ [id |-> i, value |-> Empty, rewrite |-> TRUE] \in RawEvents
  BY <1>1, <1>2, OperationsAssumption DEF RawEvents
<1> QED BY <1>3, <1>4, Zenon DEF Add, Rewrite, Erase

\* KeyInv is inductive.
LEMMA KeyStep ==
  ASSUME KeyInv, [Next]_vars
  PROVE  KeyInv'
<1>1. ASSUME NEW k \in DbKeys, NEW old \in DbKeys, Open(k, old) \/ OpenWrongPassword(k, old)
      PROVE  KeyInv'
  BY <1>1, KeyOpen, KeyWrongPassword
<1>2. ASSUME Add \/ \E i \in LiveIds(processor_) : Rewrite(i) \/ Erase(i) PROVE KeyInv'
  BY <1>2, AddedEvents, KeyAddEvent
<1>3. ASSUME Flush \/ Sync \/ Close PROVE KeyInv' BY <1>3, KeyFlushSync, KeyClose
<1>4. ASSUME NEW k \in DbKeys, ChangeKey(k) \/ ChangeKeyFails(k) PROVE KeyInv' BY <1>4, KeyChangeKey
<1>5. ASSUME ReindexSync \/ ReindexUnlink \/ ReindexRename PROVE KeyInv'
  BY <1>5, KeyReindexSync, KeyReindexUnlink, KeyReindexRename
<1>6. ASSUME DestroyNew \/ DestroyMain \/ Kill \/ PowerLoss PROVE KeyInv'
  BY <1>6, KeyDestroyNew, KeyDestroyMain, KeyKill, KeyPowerLoss
<1>7. ASSUME UNCHANGED vars PROVE KeyInv'
  <2>1. UNCHANGED <<main, newf, pc, processor_, buffer_, stream, last_id_, need_sync_, db_key_,
                    aes_key, keys>>
    BY <1>7 DEF vars, files, memory, history
  <2>2. Restored' = Restored BY <2>1 DEF Restored
  <2> QED BY <2>1, <2>2 DEF KeyInv, KFiles, KMemory, KHeader, KRun, KReindex, KDestroy, HeadKnown
<1> QED BY <1>1, <1>2, <1>3, <1>4, <1>5, <1>6, <1>7 DEF Next

\* What is said of the keys, for every step of the process and every crash,
\* whatever the tails of files look like and whatever <path>.new does.
THEOREM KeyInvariant == Spec => []KeyInv
BY KeyInit, KeyStep, PTL DEF Spec

\* Whatever crash comes at whatever step of change_key(), do_reindex() or
\* init(), the file the next init() finds has a key the user knows.
THEOREM NeverLockedOutHolds == Spec => []NeverLockedOut
<1>1. KeyInv => NeverLockedOut BY DEF KeyInv, KHeader, HeadKnown, NeverLockedOut
<1> QED BY <1>1, KeyInvariant, PTL

-----------------------------------------------------------------------------
(* The contents of the file, when no tail is taken for the end of the log *)

\* The file may stand for more operations than those that were written.
LEMMA RecoversUpTo ==
  ASSUME NEW f, NEW h \in Seq(Ops), NEW d \in Nat, NEW B, Recovers(f, h, d, B), NEW K \in B .. Len(h),
         View(AfterEvents(Content(f.chunks))) = Durable!Replay(SubSeq(h, 1, K))
  PROVE  Recovers(f, h, d, K)
<1> DEFINE c == Content(f.chunks)
           hB == SubSeq(h, 1, B)
           hK == SubSeq(h, 1, K)
<1>1. /\ B \in d .. Len(h) /\ Stands(c, hB)
      /\ \A n \in f.synced .. Len(f.chunks) : \E k \in d .. B :
           Stands(Content(SubSeq(f.chunks, 1, n)), SubSeq(h, 1, k))
  BY DEF Recovers
<1>2. K \in d .. Len(h) /\ K \in 0 .. Len(h) /\ B \in 0 .. Len(h) /\ Len(h) \in Nat BY <1>1
<1>3. Len(hB) = B /\ Len(hK) = K BY <1>2, FirstOfFirst
<1>4. \A k \in d .. B : k \in d .. K BY <1>1, <1>2
<1> HIDE DEF hB, hK, c
<1>5. Fine(c) /\ Len(c) <= Len(hB) /\ AfterEvents(c).last_id <= Len(hB) BY <1>1 DEF Stands
<1>a. IsProc(AfterEvents(c)) BY <1>5, FineSound DEF Sound
<1>b. c \in Seq(Events) BY <1>5 DEF Fine
<1>c. Len(c) \in Nat BY <1>b
<1>d. AfterEvents(c).last_id \in Nat BY <1>a, ProcParts
<1>6. Len(c) \in Nat /\ AfterEvents(c).last_id \in Nat BY <1>c, <1>d
<1>7. Len(c) <= Len(hK) /\ AfterEvents(c).last_id <= Len(hK) BY <1>2, <1>3, <1>5, <1>6
<1>8. View(AfterEvents(c)) = Durable!Replay(hK) BY DEF c, hK
<1>9. Stands(c, hK) BY <1>5, <1>7, <1>8 DEF Stands
<1>10. Stands(Content(f.chunks), SubSeq(h, 1, K)) BY <1>9 DEF c, hK
<1>11. \A n \in f.synced .. Len(f.chunks) : \E k \in d .. K :
           Stands(Content(SubSeq(f.chunks, 1, n)), SubSeq(h, 1, k))
  BY <1>1, <1>4
<1> QED BY <1>2, <1>10, <1>11 DEF Recovers

\* The file f followed by the buffer b holds the operations h, the last ones
\* in the buffer, one each.
Running(f, b, h, d) ==
  /\ Whole(f.chunks)
  /\ Len(b) <= Len(h)
  /\ Recovers(f, h, d, Len(h) - Len(b))
  /\ \A j \in 0 .. Len(b) :
       Stands(Content(f.chunks) \o SubSeq(b, 1, j), SubSeq(h, 1, Len(h) - Len(b) + j))

\* Nothing is in the buffer.
LEMMA RunningWhole ==
  ASSUME NEW f, FileType(f), NEW h \in Seq(Ops), NEW d, Recovers(f, h, d, Len(h)), Whole(f.chunks)
  PROVE  Running(f, << >>, h, d) /\ Stands(Content(f.chunks), h)
<1> DEFINE b == << >>
           c == Content(f.chunks)
<1>1. b \in Seq(RawEvents) /\ Len(b) = 0 /\ Len(h) \in Nat OBVIOUS
<1>2. SubSeq(h, 1, Len(h)) = h BY <1>1, FirstOfFirst
<1>3. Stands(c, h) BY <1>2 DEF Recovers
<1>4. c \in Seq(RawEvents) BY FileParts, ContentType
<1>5. SubSeq(b, 1, 0) = b BY <1>1, FirstOfFirst
<1>6. c \o b = c BY <1>1, <1>4
<1> HIDE DEF b, c
<1>7. Len(h) - Len(b) = Len(h) /\ Len(b) <= Len(h) /\ Len(h) - Len(b) + 0 = Len(h) BY <1>1
<1>8. \A j \in 0 .. Len(b) : j = 0 BY <1>1
<1>9. \A j \in 0 .. Len(b) : Stands(c \o SubSeq(b, 1, j), SubSeq(h, 1, Len(h) - Len(b) + j))
  BY <1>2, <1>3, <1>5, <1>6, <1>7, <1>8
<1>10. Recovers(f, h, d, Len(h) - Len(b)) BY <1>7
<1> QED BY <1>3, <1>7, <1>9, <1>10 DEF Running, b, c

\* What the file and the buffer together stand for.
LEMMA RunningStands ==
  ASSUME NEW f, FileType(f), NEW b \in Seq(RawEvents), NEW h \in Seq(Ops), NEW d, Running(f, b, h, d)
  PROVE  /\ Stands(Content(f.chunks) \o b, h)
         /\ Content(f.chunks) \in Seq(RawEvents)
         /\ Content(f.chunks) \o b \in Seq(Events)
         /\ Len(f.chunks) <= Len(Content(f.chunks)) + 1
         /\ Len(Content(f.chunks)) + Len(b) <= Len(h)
<1> DEFINE c == Content(f.chunks)
<1>1. Len(b) \in Nat /\ Len(h) \in Nat /\ Len(h) - Len(b) + Len(b) = Len(h) OBVIOUS
<1>2. SubSeq(b, 1, Len(b)) = b /\ SubSeq(h, 1, Len(h)) = h BY <1>1, FirstOfFirst
<1>3. f.chunks \in Seq(RawChunks) /\ Len(f.chunks) \in Nat BY FileParts
<1>4. c \in Seq(RawEvents) /\ Len(c) = Valid(f.chunks) - Skip(f.chunks) BY <1>3, ContentType
<1>5. Valid(f.chunks) = Len(f.chunks) BY <1>3, ValidWhole DEF Running
<1>6. Skip(f.chunks) \in {0, 1} BY DEF Skip
<1>7. Len(f.chunks) <= Len(c) + 1 BY <1>3, <1>4, <1>5, <1>6
<1>8. Len(b) \in 0 .. Len(b) BY <1>1
<1>9. Stands(c \o SubSeq(b, 1, Len(b)), SubSeq(h, 1, Len(h) - Len(b) + Len(b)))
  BY <1>8 DEF Running
<1>10. Stands(c \o b, h) BY <1>1, <1>2, <1>9
<1>11. c \o b \in Seq(Events) /\ Len(c \o b) <= Len(h) BY <1>10 DEF Stands, Fine
<1>12. Len(c \o b) = Len(c) + Len(b) BY <1>4
<1> QED BY <1>4, <1>7, <1>10, <1>11, <1>12

\* Beginnings of a sequence with one more element.
LEMMA FirstOfAppend ==
  ASSUME NEW X, NEW s \in Seq(X), NEW e \in X
  PROVE  /\ Append(s, e) \in Seq(X) /\ Len(Append(s, e)) = Len(s) + 1
         /\ SubSeq(Append(s, e), 1, Len(s) + 1) = Append(s, e)
         /\ \A k \in 0 .. Len(s) : SubSeq(Append(s, e), 1, k) = SubSeq(s, 1, k)
<1>1. Append(s, e) \in Seq(X) /\ Len(Append(s, e)) = Len(s) + 1 /\ Len(s) \in Nat OBVIOUS
<1>2. SubSeq(Append(s, e), 1, Len(s) + 1) = Append(s, e) BY <1>1, FirstOfFirst
<1>3. Append(s, e) = s \o <<e>> /\ <<e>> \in Seq(X) OBVIOUS
<1>4. \A k \in 0 .. Len(s) : SubSeq(Append(s, e), 1, k) = SubSeq(s, 1, k) BY <1>3, FirstOfLonger
<1> QED BY <1>1, <1>2, <1>4

\* One more element at the end of two sequences.
LEMMA AppendBehind ==
  \A s \in Seq(RawEvents), t \in Seq(RawEvents), e \in RawEvents : Append(s \o t, e) = s \o Append(t, e)
<1> TAKE s \in Seq(RawEvents), t \in Seq(RawEvents), e \in RawEvents
<1> DEFINE u == Append(s \o t, e)
           v == s \o Append(t, e)
<1>1. u \in Seq(RawEvents) /\ v \in Seq(RawEvents) /\ Len(u) = Len(s) + Len(t) + 1 /\ Len(v) = Len(s) + Len(t) + 1
  OBVIOUS
<1>2. \A i \in 1 .. Len(s) + Len(t) + 1 : u[i] = v[i]
  <2> TAKE i \in 1 .. Len(s) + Len(t) + 1
  <2>1. CASE i <= Len(s) BY <2>1
  <2>2. CASE i > Len(s) /\ i <= Len(s) + Len(t) BY <2>2
  <2>3. CASE i = Len(s) + Len(t) + 1 BY <2>3
  <2> QED BY <2>1, <2>2, <2>3
<1> HIDE DEF u, v
<1>3. u = v BY <1>1, <1>2
<1> QED BY <1>3 DEF u, v

\* One more event in the buffer.
LEMMA RunningAppend ==
  ASSUME NEW f, FileType(f), NEW b \in Seq(RawEvents), NEW h \in Seq(Ops), NEW d \in Nat, Running(f, b, h, d),
         NEW e \in Sent, Fits(AfterEvents(Content(f.chunks) \o b), e), e.id <= Len(h) + 1
  PROVE  /\ Running(f, Append(b, e), Append(h, OpOf(e)), d)
         /\ AfterEvents(Content(f.chunks) \o Append(b, e)).last_id
              \in {AfterEvents(Content(f.chunks) \o b).last_id, e.id}
<1> DEFINE c == Content(f.chunks)
           o == OpOf(e)
           h2 == Append(h, o)
           b2 == Append(b, e)
<1> e \in Events BY DEF Sent
<1>1. o \in Ops BY EventsRaw DEF OpOf, Ops, Sent
<1>2. e \in RawEvents BY EventsRaw
<1>3. Stands(c \o b, h) /\ c \in Seq(RawEvents) BY RunningStands
<1>4. Stands(Append(c \o b, e), h2) /\ AfterEvents(Append(c \o b, e)).last_id \in {AfterEvents(c \o b).last_id, e.id}
  BY <1>3, StandsAppend
<1>6. Len(b2) = Len(b) + 1 /\ Len(h2) = Len(h) + 1 /\ Len(b) \in Nat /\ Len(h) \in Nat BY <1>1, <1>2
<1>7. SubSeq(b2, 1, Len(b) + 1) = b2 /\ \A k \in 0 .. Len(b) : SubSeq(b2, 1, k) = SubSeq(b, 1, k)
  BY <1>2, FirstOfAppend
<1>8. SubSeq(h2, 1, Len(h) + 1) = h2 /\ \A k \in 0 .. Len(h) : SubSeq(h2, 1, k) = SubSeq(h, 1, k)
  BY <1>1, FirstOfAppend
<1>9. /\ Whole(f.chunks) /\ Len(b) <= Len(h) /\ Recovers(f, h, d, Len(h) - Len(b))
      /\ \A j \in 0 .. Len(b) : Stands(c \o SubSeq(b, 1, j), SubSeq(h, 1, Len(h) - Len(b) + j))
  BY DEF Running
<1>10. Recovers(f, h2, d, Len(h) - Len(b)) BY <1>1, <1>9, RecoversMore
<1> HIDE DEF c, o, h2, b2
<1>a. c \in Seq(RawEvents) BY <1>3
<1>c. Append(c \o b, e) = c \o Append(b, e) BY <1>2, <1>a, AppendBehind, Zenon
<1>5. Append(c \o b, e) = c \o b2 BY <1>c DEF b2
<1>11. Len(h2) - Len(b2) = Len(h) - Len(b) /\ Len(b2) <= Len(h2) BY <1>6, <1>9
<1>12. ASSUME NEW j \in 0 .. Len(b2) PROVE Stands(c \o SubSeq(b2, 1, j), SubSeq(h2, 1, Len(h2) - Len(b2) + j))
  <2>1. CASE j <= Len(b)
    <3>1. j \in 0 .. Len(b) /\ Len(h) - Len(b) + j \in 0 .. Len(h) BY <1>6, <1>9, <2>1
    <3>2. SubSeq(b2, 1, j) = SubSeq(b, 1, j) BY <1>7, <3>1
    <3>3. SubSeq(h2, 1, Len(h) - Len(b) + j) = SubSeq(h, 1, Len(h) - Len(b) + j) BY <1>8, <3>1
    <3>4. Stands(c \o SubSeq(b, 1, j), SubSeq(h, 1, Len(h) - Len(b) + j)) BY <1>9, <3>1
    <3> QED BY <1>11, <3>2, <3>3, <3>4
  <2>2. CASE ~ (j <= Len(b))
    <3>a. Len(b2) = Len(b) + 1 /\ Len(b) \in Nat /\ j \in Nat /\ j <= Len(b2) BY <1>6
    <3>b. j = Len(b) + 1 BY <3>a, <2>2
    <3>c. Len(h2) - Len(b2) + j = Len(h) + 1 BY <3>b, <1>6
    <3>1. j = Len(b) + 1 /\ Len(h2) - Len(b2) + j = Len(h) + 1 BY <3>b, <3>c
    <3>2. SubSeq(b2, 1, j) = b2 /\ SubSeq(h2, 1, Len(h2) - Len(b2) + j) = h2 BY <1>7, <1>8, <3>1
    <3> QED BY <1>4, <1>5, <3>2
  <2> QED BY <2>1, <2>2
<1>13. Recovers(f, h2, d, Len(h2) - Len(b2)) BY <1>10, <1>11
<1>14. Running(f, b2, h2, d) BY <1>9, <1>11, <1>12, <1>13 DEF Running, c
<1> QED BY <1>4, <1>5, <1>14 DEF c, o, h2, b2

\* A beginning of the buffer is written.
LEMMA RunningPart ==
  ASSUME NEW f, FileType(f), NEW b \in Seq(RawEvents), NEW h \in Seq(Ops), NEW d \in Nat, Running(f, b, h, d),
         NEW from \in Nat, Enc(f.chunks) => from = Len(f.chunks), NEW n \in 0 .. Len(b)
  PROVE  Recovers(With(f, SubSeq(b, 1, n), from), h, d, Len(h) - Len(b) + n)
<1> DEFINE s == SubSeq(b, 1, n)
           g == With(f, s, from)
           B == Len(h) - Len(b)
<1>1. /\ Whole(f.chunks) /\ Len(b) <= Len(h) /\ Recovers(f, h, d, B)
      /\ \A j \in 0 .. Len(b) : Stands(Content(f.chunks) \o SubSeq(b, 1, j), SubSeq(h, 1, B + j))
  BY DEF Running
<1>2. /\ s \in Seq(RawEvents) /\ Len(s) = n /\ \A k \in 0 .. n : SubSeq(s, 1, k) = SubSeq(b, 1, k)
  BY FirstOfFirst
<1>3. /\ FileType(g) /\ g.synced = f.synced /\ g.chunks = f.chunks \o Written(s, Enc(f.chunks), from)
  BY <1>2, WithIs
<1>4. g.synced >= f.synced BY <1>3, FileParts
<1>5. Len(b) \in Nat /\ Len(h) \in Nat /\ n \in Nat /\ n <= Len(b) OBVIOUS
<1> HIDE DEF s, g
<1>6. B + Len(s) <= Len(h) BY <1>2, <1>5
<1>7. ASSUME NEW j \in 0 .. Len(s) PROVE Stands(Content(f.chunks) \o SubSeq(s, 1, j), SubSeq(h, 1, B + j))
  <2>1. j \in 0 .. n /\ j \in 0 .. Len(b) BY <1>2, <1>5
  <2> QED BY <1>1, <1>2, <2>1
<1> HIDE DEF B
<1>8. Recovers(g, h, d, B + Len(s)) BY <1>1, <1>2, <1>3, <1>4, <1>6, <1>7, RecoversWritten
<1> QED BY <1>2, <1>8 DEF s, g, B

\* All of the buffer is written.
LEMMA RunningWritten ==
  ASSUME NEW f, FileType(f), NEW b \in Seq(RawEvents), NEW h \in Seq(Ops), NEW d \in Nat, Running(f, b, h, d),
         NEW from \in Nat, Enc(f.chunks) => from = Len(f.chunks)
  PROVE  LET g == With(f, b, from) IN
         /\ Running(g, << >>, h, d) /\ Recovers(g, h, d, Len(h)) /\ Whole(g.chunks)
         /\ Content(g.chunks) = Content(f.chunks) \o b
         /\ Stands(Content(g.chunks), h)
<1> DEFINE g == With(f, b, from)
<1>1. Len(b) \in 0 .. Len(b) /\ SubSeq(b, 1, Len(b)) = b /\ Len(h) - Len(b) + Len(b) = Len(h)
  BY FirstOfFirst
<1>2. Recovers(With(f, SubSeq(b, 1, Len(b)), from), h, d, Len(h) - Len(b) + Len(b)) BY <1>1, RunningPart
<1>3. Recovers(g, h, d, Len(h)) BY <1>1, <1>2
<1>4. FileType(g) /\ g.chunks = f.chunks \o Written(b, Enc(f.chunks), from) BY WithIs
<1>5. f.chunks \in Seq(RawChunks) /\ Whole(f.chunks) BY FileParts DEF Running
<1> HIDE DEF g
<1>6. Whole(g.chunks) /\ Content(g.chunks) = Content(f.chunks) \o b BY <1>4, <1>5, WrittenRead
<1>7. Running(g, << >>, h, d) /\ Stands(Content(g.chunks), h) BY <1>3, <1>4, <1>6, RunningWhole
<1> QED BY <1>3, <1>6, <1>7 DEF g

\* The chunks of a file are of the type of the checks.
Typed(f) == f = NoFile \/ f.chunks \in Seq(Chunks)

\* The processor p holds what the operations h left, and no id above l.
Held(p, h, l) == Sound(p) /\ View(p) = Durable!Replay(h) /\ p.last_id <= l

\* The file f is one that a reindex completes for the operations h.
Complete(f, h, l) ==
  /\ Stands(Content(f.chunks), h) /\ Whole(f.chunks)
  /\ AfterEvents(Content(f.chunks)).last_id <= l

LHistory ==
  /\ fatal = FALSE
  /\ hist \in Seq(Ops) /\ Len(hist) <= MaxOps
  /\ dur \in 0 .. Len(hist) /\ base \in 0 .. Len(hist) /\ last_id_ \in 0 .. Len(hist)
LTypes == Typed(main) /\ Typed(newf) /\ buffer_ \in Seq(Events)

\* The file that init() would find, and each beginning of it that a power loss
\* may leave, stands for all the operations that are promised to be on disk.
LFound == \E B \in dur .. Len(hist) : Recovers(Restored, hist, dur, B)

\* The running log: the file and the buffer together hold all the operations,
\* the next write goes on at the right place of the keystream, the next id is
\* new to the file, and the file is synced unless need_sync_ says otherwise.
LRun == pc = "run" =>
  /\ Running(main, buffer_, hist, dur)
  /\ stream = IF Enc(main.chunks) THEN Len(main.chunks) ELSE 0
  /\ AfterEvents(Content(main.chunks) \o buffer_).last_id <= last_id_
  /\ Len(hist) > base /\ need_sync_ = FALSE /\ buffer_ = << >> => main.synced = Len(main.chunks)
LMemory ==
  /\ pc \in Stages \cup {"run"} => Held(processor_, hist, last_id_)
  /\ pc \in {"down", "destroy"} => processor_ = NoEvents /\ last_id_ = 0
LReindex == pc \in Stages => Complete(newf, hist, last_id_)

LogInv == LHistory /\ LTypes /\ LFound /\ LRun /\ LMemory /\ LReindex

\* The tails and failures under which the log is not kept are left out: zeros
\* that are taken for the end of the file, and a file with a bad tail of which
\* <path>.new could not be made.
Kept == ~ BadSizeTails /\ "cut" \notin FailOn

\* Beginnings of a file, and garbage behind it, have the type of the checks.
LEMMA TypedCut ==
  ASSUME NEW c \in Seq(Chunks), NEW n \in 0 .. Len(c)
  PROVE  /\ SubSeq(c, 1, n) \in Seq(Chunks)
         /\ \A x \in Garbage : Append(SubSeq(c, 1, n), x) \in Seq(Chunks) /\ Append(c, x) \in Seq(Chunks)
<1>1. SubSeq(c, 1, n) \in Seq(Chunks) BY FirstOfFirst
<1>2. \A x \in Garbage : x \in Chunks BY DEF Chunks
<1>3. \A s \in Seq(Chunks), x \in Chunks : Append(s, x) \in Seq(Chunks) OBVIOUS
<1> QED BY <1>1, <1>2, <1>3, Zenon

\* So has a file to which events are written.
LEMMA TypedWith ==
  ASSUME NEW f, FileType(f), f.chunks \in Seq(Chunks), NEW s \in Seq(Events), NEW from \in Nat,
         Enc(f.chunks) => from + Len(s) <= 2 * MaxOps + 2
  PROVE  With(f, s, from).chunks \in Seq(Chunks)
<1>1. s \in Seq(RawEvents)
  <2>1. \A e \in Events : e \in RawEvents BY EventsRaw
  <2> QED BY <2>1
<1>2. With(f, s, from).chunks = f.chunks \o Written(s, Enc(f.chunks), from) BY <1>1, WithIs
<1>3. Enc(f.chunks) \in BOOLEAN BY EncIs
<1>4. Written(s, Enc(f.chunks), from) \in Seq(Chunks) BY <1>3, WrittenBounded
<1>5. \A c, d \in Seq(Chunks) : c \o d \in Seq(Chunks) OBVIOUS
<1> QED BY <1>2, <1>4, <1>5, Zenon

\* What do_reindex() writes of a processor that holds the operations.
LEMMA HeldRegenerated ==
  ASSUME NEW p, NEW h \in Seq(Ops), NEW l \in 0 .. Len(h), Held(p, h, l), Len(h) <= MaxOps,
         NEW db_key \in DbKeys, NEW cached \in {NoKey, db_key}
  PROVE  /\ Complete(Regenerated(p, db_key, cached), h, l)
         /\ Typed(Regenerated(p, db_key, cached))
<1> DEFINE R == Regenerated(p, db_key, cached)
<1>1. Sound(p) /\ View(p) = Durable!Replay(h) /\ p.last_id <= l BY DEF Held
<1>2. IsProc(p) /\ p.last_id \in Nat BY <1>1, ProcParts DEF Sound
<1>3. p.last_id <= Len(h) /\ p.last_id <= MaxOps BY <1>1, <1>2, MaxOpsAssumption
<1>4. /\ Whole(R.chunks) /\ Content(R.chunks) = LiveEvents(p)
      /\ R.chunks \in Seq(Chunks)
  BY <1>1, <1>2, <1>3, RegeneratedIs
<1> HIDE DEF R
<1>5. Stands(LiveEvents(p), h) /\ AfterEvents(LiveEvents(p)).last_id <= p.last_id
  BY <1>1, <1>3, StandsRegenerated
<1>6. AfterEvents(LiveEvents(p)).last_id \in Nat
  <2>1. Fine(LiveEvents(p)) BY <1>5 DEF Stands
  <2>2. IsProc(AfterEvents(LiveEvents(p))) BY <2>1, FineSound DEF Sound
  <2> QED BY <2>2, ProcParts
<1>7. AfterEvents(LiveEvents(p)).last_id <= l BY <1>1, <1>2, <1>5, <1>6
<1>8. Complete(R, h, l) BY <1>4, <1>5, <1>7 DEF Complete
<1> QED BY <1>4, <1>8 DEF R, Typed

\* A completed file that is synced.
LEMMA CompleteRecovers ==
  ASSUME NEW f, FileType(f), f.synced = Len(f.chunks), NEW h \in Seq(Ops), NEW l, Complete(f, h, l),
         NEW d \in 0 .. Len(h)
  PROVE  Recovers(f, h, d, Len(h))
<1>1. SubSeq(h, 1, Len(h)) = h BY FirstOfFirst
<1>2. Stands(Content(f.chunks), SubSeq(h, 1, Len(h))) BY <1>1 DEF Complete
<1>3. d \in Nat /\ Len(h) \in d .. Len(h) OBVIOUS
<1> QED BY <1>2, <1>3, RecoversSynced

\* The beginning.
LEMMA LogInit ==
  ASSUME Init
  PROVE  LogInv
<1>1. Restored = EmptyFile BY DEF Init, Restored
<1>2. hist = << >> /\ dur = 0 /\ base = 0 /\ last_id_ = 0 /\ buffer_ = << >> BY DEF Init
<1>3. hist \in Seq(Ops) /\ Len(hist) = 0 /\ buffer_ \in Seq(Events) BY <1>2
<1>4. LHistory BY <1>2, <1>3, MaxOpsAssumption DEF Init, LHistory
<1>5. LTypes BY <1>3 DEF Init, LTypes, Typed
<1>6. 0 \in dur .. Len(hist) BY <1>2, <1>3
<1>7. Recovers(Restored, hist, dur, 0) BY <1>1, <1>2, EmptyFileIs
<1>8. LFound BY <1>6, <1>7 DEF LFound
<1>9. LRun /\ LMemory /\ LReindex BY DEF Init, LRun, LMemory, LReindex, Stages
<1> QED BY <1>4, <1>5, <1>8, <1>9 DEF LogInv

\* What Explains gives for a file that stands for some of the operations.
LEMMA ExplainsMax ==
  ASSUME KeyInv, LogInv, NEW f, FileType(f), NEW B, Recovers(f, hist, dur, B)
  PROVE  /\ B \in Explains(f) /\ Max(Explains(f)) \in B .. Len(hist)
         /\ Max(Explains(f)) \in Explains(f) /\ Explains(f) # {}
         /\ View(Loaded(f)) = Durable!Replay(SubSeq(hist, 1, Max(Explains(f))))
<1>1. hist \in Seq(Ops) /\ Len(hist) \in Nat /\ dur \in Nat BY DEF LogInv, LHistory
<1>2. B \in dur .. Len(hist) /\ B \in Nat BY <1>1 DEF Recovers
<1>3. View(AfterEvents(Content(f.chunks))) = Durable!Replay(SubSeq(hist, 1, B)) BY DEF Recovers, Stands
<1>4. Loaded(f) = AfterEvents(Content(f.chunks)) BY ByChunks
<1>5. Explains(f) = {k \in dur .. Len(hist) : Durable!Replay(SubSeq(hist, 1, k)) = View(Loaded(f))}
  BY DEF Explains
<1> DEFINE E == Explains(f)
<1>6. B \in E BY <1>2, <1>3, <1>4, <1>5
<1>7. E \in SUBSET (0 .. Len(hist)) BY <1>1, <1>5
<1>8. \A k \in E : Durable!Replay(SubSeq(hist, 1, k)) = View(Loaded(f)) BY <1>5
<1> HIDE DEF E
<1>9. Max(E) \in E /\ \A y \in E : y <= Max(E) BY <1>1, <1>6, <1>7, MaxOf
<1>a. Max(E) \in 0 .. Len(hist) BY <1>7, <1>9
<1>b. B <= Max(E) BY <1>6, <1>9
<1>10. Max(E) \in B .. Len(hist) BY <1>1, <1>2, <1>a, <1>b
<1> QED BY <1>6, <1>8, <1>9, <1>10 DEF E

\* Nothing of a file that stands for operations is refused.
LEMMA LoadsWell ==
  ASSUME NEW f, FileType(f), Fine(Content(f.chunks))
  PROVE  LoadFails(f) = FALSE /\ Sound(Loaded(f))
<1>1. EventsOf(f) = Content(f.chunks) /\ Loaded(f) = AfterEvents(Content(f.chunks)) BY ByChunks
<1> DEFINE c == Content(f.chunks)
<1>2. c \in Seq(Events) BY DEF Fine
<1>3. \A i \in 1 .. Len(c) : Accepts(AfterEvents(SubSeq(c, 1, i - 1)), c[i]) BY FineAccepted
<1>4. Sound(AfterEvents(c)) BY FineSound
<1> HIDE DEF c
<1>5. DOMAIN c = 1 .. Len(c) BY <1>2
<1>6. LoadFails(f) = \E i \in DOMAIN c : ~ Accepts(AfterEvents(SubSeq(c, 1, i - 1)), c[i])
  BY <1>1 DEF LoadFails, c
<1>7. ~ \E i \in DOMAIN c : ~ Accepts(AfterEvents(SubSeq(c, 1, i - 1)), c[i]) BY <1>3, <1>5, Zenon
<1>8. LoadFails(f) = FALSE BY <1>6, <1>7
<1> QED BY <1>1, <1>4, <1>8 DEF c

\* init() runs on without a reindex only when the whole file was read, or the
\* file is not encrypted.
LEMMA RunsOnWhole ==
  ASSUME Kept, NEW f, FileType(f), NEW db_key \in DbKeys, NEW forced \in ForcedReindex(f),
         \/ (IF forced THEN "cut" ELSE "whole") \in FailOn
         \/ ~ NeedReindex(f, db_key, forced)
  PROVE  Enc(f.chunks) => Valid(f.chunks) = Len(f.chunks)
<1>1. Encrypted(f) = Enc(f.chunks) /\ ValidLen(f) = Valid(f.chunks) BY ByChunks
<1>2. CASE Valid(f.chunks) = Len(f.chunks) BY <1>2
<1>3. CASE Valid(f.chunks) # Len(f.chunks)
  <2>1. forced = TRUE BY <1>1, <1>3 DEF ForcedReindex, Kept
  <2>2. ~ NeedReindex(f, db_key, forced) BY <2>1 DEF Kept
  <2>3. ~ Encrypted(f) BY <2>1, <2>2 DEF NeedReindex
  <2> QED BY <1>1, <2>3
<1> QED BY <1>2, <1>3

\* The type of the file that init() finds.
LEMMA RestoredTyped ==
  ASSUME LTypes
  PROVE  Restored.chunks \in Seq(Chunks)
<1>1. EmptyFile.chunks = << >> BY DEF EmptyFile
<1>2. EmptyFile.chunks \in Seq(Chunks) BY <1>1
<1> QED BY <1>2 DEF LTypes, Typed, Restored

\* init().
LEMMA LogOpen ==
  ASSUME Kept, KeyInv, LogInv, NEW db_key \in DbKeys, NEW old, Open(db_key, old)
  PROVE  LogInv'
<1> DEFINE f == Restored
           N == IF main = NoFile THEN NoFile ELSE newf
           p == Loaded(f)
           K == Max(Explains(f))
           h == SubSeq(hist, 1, K)
<1>1. FileType(f) /\ f.chunks \in Seq(Chunks) /\ Typed(N) BY RestoredType, RestoredTyped DEF KeyInv, LogInv, LTypes, Typed
<1>2. PICK B \in dur .. Len(hist) : Recovers(f, hist, dur, B) BY DEF LogInv, LFound
<1>3. /\ hist \in Seq(Ops) /\ Len(hist) \in Nat /\ Len(hist) <= MaxOps /\ dur \in Nat
  BY DEF LogInv, LHistory
<1>4. K \in B .. Len(hist) /\ Explains(f) # {} /\ View(p) = Durable!Replay(h)
  BY <1>1, <1>2, ExplainsMax
<1>5. /\ fatal' = LoadFails(f) /\ main' = Truncated(f) /\ processor_' = p /\ last_id_' = p.last_id
      /\ buffer_' = << >> /\ stream' = (IF Encrypted(f) THEN Len(f.chunks) ELSE 0)
      /\ hist' = IF Explains(f) = {} THEN hist ELSE SubSeq(hist, 1, Max(Explains(f)))
      /\ base' = Len(hist') /\ dur' = dur
  BY OpenParts
<1>6. PICK forced \in ForcedReindex(f) :
              \/ /\ newf' = Regenerated(p, db_key, NoKey)
                 /\ pc' = IF LoadFails(f) THEN "down" ELSE "rx_sync"
              \/ /\ (IF forced THEN "cut" ELSE "whole") \in FailOn
                 /\ newf' \in Unopened(N)
                 /\ pc' = IF LoadFails(f) THEN "down" ELSE "run"
              \/ /\ ~ NeedReindex(f, db_key, forced)
                 /\ newf' = N
                 /\ pc' = IF LoadFails(f) THEN "down" ELSE "run"
  <2>1. PICK forced \in ForcedReindex(f) :
              \/ /\ NeedReindex(f, db_key, forced) /\ aes_key' = NoKey
                 /\ newf' = Regenerated(Loaded(f), db_key, NoKey)
                 /\ pc' = IF LoadFails(f) THEN "down" ELSE "rx_sync"
              \/ /\ NeedReindex(f, db_key, forced) /\ aes_key' = NoKey
                 /\ (IF forced THEN "cut" ELSE "whole") \in FailOn
                 /\ newf' \in Unopened(IF main = NoFile THEN NoFile ELSE newf)
                 /\ pc' = IF LoadFails(f) THEN "down" ELSE "run"
              \/ /\ ~ NeedReindex(f, db_key, forced) /\ aes_key' = HeaderKey(f)
                 /\ newf' = IF main = NoFile THEN NoFile ELSE newf
                 /\ pc' = IF LoadFails(f) THEN "down" ELSE "run"
    BY OpenParts
  <2> QED BY <2>1, Zenon
<1>7. hist' = h BY <1>4, <1>5
<1>8. p = AfterEvents(Content(f.chunks)) BY ByChunks
<1>9. KeyInv' BY KeyOpen
<1> HIDE DEF f, N, p, K, h
<1>10. Stands(Content(f.chunks), SubSeq(hist, 1, B)) BY <1>2 DEF Recovers
<1>11. B \in Nat /\ K \in Nat /\ B \in 0 .. Len(hist) /\ K \in 0 .. Len(hist) /\ B <= K /\ dur <= B
  BY <1>2, <1>3, <1>4
<1>12. h \in Seq(Ops) /\ Len(h) = K /\ Len(SubSeq(hist, 1, B)) = B BY <1>3, <1>11, FirstOfFirst DEF h
<1>a. base' = Len(h) /\ dur' = dur BY <1>5, <1>7
<1>13. Fine(Content(f.chunks)) /\ p.last_id <= B BY <1>8, <1>10, <1>12 DEF Stands
<1>14. LoadFails(f) = FALSE /\ Sound(p) BY <1>1, <1>13, LoadsWell DEF p
<1>15. p.last_id \in Nat BY <1>14, ProcParts DEF Sound
<1>16. Recovers(f, hist, dur, K) BY <1>2, <1>3, <1>4, <1>8, RecoversUpTo DEF h
<1>17. K \in K .. Len(hist) BY <1>11
<1>18. Recovers(f, h, dur, K) BY <1>3, <1>16, <1>17, RecoversLess DEF h
<1>19. Recovers(main', h, dur, K) BY <1>1, <1>3, <1>5, <1>12, <1>18, RecoversTruncated
<1>20. /\ FileType(main') /\ Whole(main'.chunks) /\ Content(main'.chunks) = Content(f.chunks)
       /\ main'.chunks = SubSeq(f.chunks, 1, Valid(f.chunks)) /\ Len(main'.chunks) = Valid(f.chunks)
       /\ Enc(main'.chunks) = Enc(f.chunks)
  BY <1>1, <1>5, TruncatedIs
<1>21. Valid(f.chunks) \in 0 .. Len(f.chunks) BY <1>1, ValidIs
<1>22. Held(p, h, p.last_id) BY <1>4, <1>14, <1>15 DEF Held
<1>23. p.last_id \in 0 .. Len(h) /\ Len(h) <= MaxOps BY <1>3, <1>11, <1>12, <1>13, <1>15, MaxOpsAssumption
<1>24. LHistory'
  <2>1. fatal' = FALSE BY <1>5, <1>14
  <2>2. dur' \in 0 .. Len(h) /\ base' \in 0 .. Len(h) BY <1>3, <1>a, <1>11, <1>12
  <2>3. hist' \in Seq(Ops) /\ Len(hist') <= MaxOps /\ last_id_' \in 0 .. Len(hist')
    BY <1>5, <1>7, <1>12, <1>23
  <2> QED BY <1>7, <2>1, <2>2, <2>3 DEF LHistory
<1>25. pc' \in {"run", "rx_sync"} BY <1>6, <1>14
<1>26. LTypes'
  <2>1. main'.chunks \in Seq(Chunks) BY <1>1, <1>20, <1>21, TypedCut
  <2>2. Typed(Regenerated(p, db_key, NoKey)) BY <1>12, <1>22, <1>23, HeldRegenerated
  <2>3. EmptyFile.chunks \in Seq(Chunks)
    <3>1. EmptyFile.chunks = << >> BY DEF EmptyFile
    <3> QED BY <3>1
  <2>4. Typed(newf') BY <1>1, <1>6, <2>2, <2>3 DEF Unopened, Typed
  <2>5. buffer_' \in Seq(Events) BY <1>5
  <2> QED BY <2>1, <2>4, <2>5 DEF LTypes, Typed
<1>27. LFound'
  <2>1. Restored' = main' BY <1>20, RestoredNext
  <2>2. K \in dur' .. Len(hist') BY <1>3, <1>7, <1>a, <1>11, <1>12
  <2>3. Recovers(Restored', hist', dur', K) BY <1>5, <1>7, <1>19, <2>1
  <2> QED BY <2>2, <2>3 DEF LFound
<1>28. LRun'
  <2>1. SUFFICES ASSUME pc' = "run"
                 PROVE  /\ Running(main', buffer_', hist', dur')
                        /\ stream' = IF Enc(main'.chunks) THEN Len(main'.chunks) ELSE 0
                        /\ AfterEvents(Content(main'.chunks) \o buffer_').last_id <= last_id_'
                        /\ ~ Len(hist') > base'
    BY DEF LRun
  <2>2. \/ (IF forced THEN "cut" ELSE "whole") \in FailOn
        \/ ~ NeedReindex(f, db_key, forced)
    BY <1>6, <1>14, <2>1
  <2>3. Enc(f.chunks) => Valid(f.chunks) = Len(f.chunks) BY <1>1, <1>6, <2>2, RunsOnWhole
  <2>4. Encrypted(f) = Enc(f.chunks) BY ByChunks
  <2>5. stream' = IF Enc(main'.chunks) THEN Len(main'.chunks) ELSE 0 BY <1>5, <1>20, <2>3, <2>4
  <2>6. Recovers(main', h, dur, Len(h)) BY <1>12, <1>19
  <2>7. Running(main', << >>, h, dur) BY <1>12, <1>20, <2>6, RunningWhole
  <2>8. Running(main', buffer_', hist', dur') BY <1>5, <1>7, <2>7
  <2>9. Content(f.chunks) \in Seq(Events) BY <1>13 DEF Fine
  <2>10. Content(main'.chunks) \o buffer_' = Content(f.chunks) BY <1>5, <1>20, <2>9
  <2>11. AfterEvents(Content(main'.chunks) \o buffer_').last_id <= last_id_'
    BY <1>5, <1>8, <1>15, <2>10
  <2>12. ~ Len(hist') > base' BY <1>7, <1>a, <1>11, <1>12
  <2> QED BY <2>5, <2>8, <2>11, <2>12
<1>29. LMemory' BY <1>5, <1>7, <1>22, <1>25 DEF LMemory
<1>30. LReindex'
  <2>1. SUFFICES ASSUME pc' \in Stages PROVE Complete(newf', hist', last_id_') BY DEF LReindex
  <2>2. newf' = Regenerated(p, db_key, NoKey) BY <1>6, <1>14, <2>1 DEF Stages
  <2>3. Complete(Regenerated(p, db_key, NoKey), h, p.last_id) BY <1>12, <1>22, <1>23, HeldRegenerated
  <2> QED BY <1>5, <1>7, <2>2, <2>3
<1> QED BY <1>24, <1>26, <1>27, <1>28, <1>29, <1>30 DEF LogInv

\* init() with a wrong password.
LEMMA LogWrongPassword ==
  ASSUME KeyInv, LogInv, NEW db_key, NEW old, OpenWrongPassword(db_key, old)
  PROVE  LogInv'
<1>1. /\ main' = Restored /\ (newf' = NoFile \/ newf' = newf) /\ pc' = "down" /\ pc = "down"
      /\ UNCHANGED <<processor_, buffer_, last_id_, fatal, hist, dur, base>>
  BY DEF OpenWrongPassword, memory, history
<1>2. FileType(main') BY <1>1, RestoredType DEF KeyInv
<1>3. Restored' = Restored BY <1>1, <1>2, RestoredNext
<1>4. Restored.chunks \in Seq(Chunks) BY RestoredTyped DEF LogInv
<1>5. LHistory' BY <1>1 DEF LogInv, LHistory
<1>6. LTypes' BY <1>1, <1>4 DEF LogInv, LTypes, Typed
<1>7. LFound' BY <1>1, <1>3 DEF LogInv, LFound
<1>8. LRun' /\ LMemory' /\ LReindex' BY <1>1 DEF LogInv, LRun, LMemory, LReindex, Stages
<1> QED BY <1>5, <1>6, <1>7, <1>8 DEF LogInv

\* The parts of LogInv while the process runs.
LEMMA LogRunning ==
  ASSUME KeyInv, LogInv, pc = "run"
  PROVE  /\ FileType(main) /\ main.chunks \in Seq(Chunks) /\ stream \in Nat
         /\ buffer_ \in Seq(RawEvents) /\ buffer_ \in Seq(Events)
         /\ hist \in Seq(Ops) /\ Len(hist) \in Nat /\ Len(hist) <= MaxOps
         /\ dur \in Nat /\ dur \in 0 .. Len(hist) /\ base \in 0 .. Len(hist) /\ last_id_ \in 0 .. Len(hist)
         /\ Running(main, buffer_, hist, dur)
         /\ (Enc(main.chunks) => stream = Len(main.chunks))
         /\ AfterEvents(Content(main.chunks) \o buffer_).last_id <= last_id_
         /\ Held(processor_, hist, last_id_)
<1>1. FileType(main) /\ main # NoFile BY KeyRunning
<1>2. main.chunks \in Seq(Chunks) /\ buffer_ \in Seq(Events) BY <1>1 DEF LogInv, LTypes, Typed
<1>3. stream \in Nat /\ buffer_ \in Seq(RawEvents) BY DEF KeyInv, KMemory
<1>4. /\ hist \in Seq(Ops) /\ Len(hist) <= MaxOps
      /\ dur \in 0 .. Len(hist) /\ base \in 0 .. Len(hist) /\ last_id_ \in 0 .. Len(hist)
  BY DEF LogInv, LHistory
<1>5. Len(hist) \in Nat /\ dur \in Nat BY <1>4
<1>6. /\ Running(main, buffer_, hist, dur)
      /\ stream = IF Enc(main.chunks) THEN Len(main.chunks) ELSE 0
      /\ AfterEvents(Content(main.chunks) \o buffer_).last_id <= last_id_
  BY DEF LogInv, LRun
<1>7. Held(processor_, hist, last_id_) BY DEF LogInv, LMemory
<1>8. Enc(main.chunks) => stream = Len(main.chunks) BY <1>6
<1> QED BY <1>1, <1>2, <1>3, <1>4, <1>5, <1>6, <1>7, <1>8

\* The file that init() would find while the process runs or has just ended.
LEMMA FoundNext ==
  ASSUME FileType(main'), NEW B, Recovers(main', hist', dur', B)
  PROVE  LFound'
<1>1. Restored' = main' BY RestoredNext
<1>2. B \in dur' .. Len(hist') BY DEF Recovers
<1> QED BY <1>1, <1>2 DEF LFound

\* What the file is once the buffer is written.
LEMMA WrittenOut ==
  ASSUME NEW f, FileType(f), f.chunks \in Seq(Chunks), NEW b \in Seq(RawEvents), b \in Seq(Events),
         NEW h \in Seq(Ops), Len(h) <= MaxOps, NEW d \in Nat, Running(f, b, h, d),
         NEW from \in Nat, Enc(f.chunks) => from = Len(f.chunks)
  PROVE  LET g == With(f, b, from) IN
         /\ FileType(g) /\ g.chunks \in Seq(Chunks)
         /\ Running(g, << >>, h, d) /\ Recovers(g, h, d, Len(h))
         /\ Content(g.chunks) = Content(f.chunks) \o b
         /\ Content(g.chunks) \o << >> = Content(f.chunks) \o b
         /\ Enc(g.chunks) = Enc(f.chunks)
         /\ Enc(f.chunks) => from + Len(b) = Len(g.chunks)
         /\ g.synced = f.synced /\ Len(g.chunks) = Len(f.chunks) + Len(b)
<1> DEFINE g == With(f, b, from)
           c == Content(f.chunks)
<1>1. Len(f.chunks) <= Len(c) + 1 /\ Len(c) + Len(b) <= Len(h) /\ c \in Seq(RawEvents) BY RunningStands
<1>2. Len(f.chunks) \in Nat /\ Len(c) \in Nat /\ Len(b) \in Nat /\ Len(h) \in Nat BY <1>1, FileParts
<1>3. Len(f.chunks) + Len(b) <= 2 * MaxOps + 2
  <2> HIDE DEF c
  <2> QED BY <1>1, <1>2, MaxOpsAssumption
<1>4. g.chunks \in Seq(Chunks) BY <1>3, TypedWith
<1>5. /\ FileType(g) /\ Enc(g.chunks) = Enc(f.chunks) /\ g.synced = f.synced
      /\ Len(g.chunks) = Len(f.chunks) + Len(b)
  BY WithIs
<1>6. Running(g, << >>, h, d) /\ Recovers(g, h, d, Len(h)) /\ Content(g.chunks) = c \o b
  BY RunningWritten
<1> HIDE DEF g, c
<1>7. c \o b \in Seq(RawEvents) BY <1>1
<1>8. Content(g.chunks) \in Seq(RawEvents) BY <1>6, <1>7
<1>9. Content(g.chunks) \o << >> = Content(g.chunks) BY <1>8
<1>10. Enc(f.chunks) => from + Len(b) = Len(g.chunks) BY <1>2, <1>5
<1> QED BY <1>4, <1>5, <1>6, <1>9, <1>10 DEF g, c

\* add_event() with an event that fits the memory and the file.
LEMMA LogAddEvent ==
  ASSUME KeyInv, LogInv, NEW e \in Sent, AddEvent(e), Fits(processor_, e),
         Fits(AfterEvents(Content(main.chunks) \o buffer_), e), e.id <= last_id_ + 1
  PROVE  LogInv' /\ hist' = Append(hist, OpOf(e)) /\ pc' \in {"run", "rx_sync"} /\ dur' = dur
<1> DEFINE b == Append(buffer_, e)
           p == DoEvent(processor_, e)
           o == OpOf(e)
           h == Append(hist, o)
           c == Content(main.chunks)
<1>1. /\ pc = "run" /\ processor_' = p /\ last_id_' = last_id_ + 1 /\ Len(hist) < MaxOps
      /\ hist' = h /\ UNCHANGED <<db_key_, aes_key, dur, base>>
  BY DEF AddEvent, OpOf
<1>2. \/ buffer_' = b /\ UNCHANGED <<main, stream, need_sync_>>
      \/ Write(b) /\ need_sync_' = TRUE
  BY DEF AddEvent
<1>3. fatal' = ~ Accepts(processor_, e) BY DEF AddEvent
<1>4. \/ pc' = (IF Accepts(processor_, e) THEN "run" ELSE "down") /\ newf' = newf
      \/ newf' = Regenerated(p, db_key_, aes_key) /\ pc' = "rx_sync"
      \/ newf' \in Unopened(newf) /\ pc' = "run"
  BY DEF AddEvent
<1>5. /\ FileType(main) /\ main.chunks \in Seq(Chunks) /\ stream \in Nat
      /\ buffer_ \in Seq(RawEvents) /\ buffer_ \in Seq(Events)
      /\ hist \in Seq(Ops) /\ Len(hist) \in Nat
      /\ dur \in Nat /\ dur \in 0 .. Len(hist) /\ base \in 0 .. Len(hist) /\ last_id_ \in 0 .. Len(hist)
      /\ Running(main, buffer_, hist, dur)
      /\ (Enc(main.chunks) => stream = Len(main.chunks))
      /\ AfterEvents(c \o buffer_).last_id <= last_id_
      /\ Held(processor_, hist, last_id_)
  BY <1>1, LogRunning
<1> e \in Events BY DEF Sent
<1>6. o \in Ops /\ o.id = e.id /\ o.value = e.value BY EventsRaw DEF OpOf, Ops, Sent
<1>7. e \in RawEvents /\ e.id \in Nat BY EventsRaw
<1>8. KeyInv' BY <1>7, KeyAddEvent
<1>a. buffer_ \in Seq(RawEvents) /\ buffer_ \in Seq(Events) BY <1>5
<1>b. b \in Seq(RawEvents) /\ Len(b) = Len(buffer_) + 1 /\ b # << >> BY <1>a, <1>7
<1>c. b \in Seq(Events) BY <1>a
<1>9. b \in Seq(RawEvents) /\ b \in Seq(Events) /\ Len(b) = Len(buffer_) + 1 /\ b # << >> BY <1>b, <1>c
<1>10. h \in Seq(Ops) /\ Len(h) = Len(hist) + 1 BY <1>5, <1>6
<1>11. /\ Running(main, b, h, dur)
       /\ AfterEvents(c \o b).last_id \in {AfterEvents(c \o buffer_).last_id, e.id}
  <2>1. e.id <= Len(hist) + 1 BY <1>5, <1>7
  <2> QED BY <1>5, <2>1, RunningAppend
<1>12. AfterEvents(c \o buffer_).last_id \in Nat
  <2>1. Stands(c \o buffer_, hist) BY <1>5, RunningStands
  <2>2. Fine(c \o buffer_) BY <2>1 DEF Stands
  <2>3. IsProc(AfterEvents(c \o buffer_)) BY <2>2, FineSound DEF Sound
  <2> QED BY <2>3, ProcParts
<1>13. AfterEvents(c \o b).last_id <= last_id_ + 1
  <2> DEFINE q == AfterEvents(c \o buffer_).last_id
             r == AfterEvents(c \o b).last_id
  <2>1. r \in {q, e.id} /\ q \in Nat /\ q <= last_id_ BY <1>5, <1>11, <1>12
  <2> HIDE DEF q, r
  <2>2. r <= last_id_ + 1 BY <1>5, <1>7, <2>1
  <2> QED BY <2>2 DEF r
<1>14. Accepts(processor_, e) /\ Held(p, h, last_id_ + 1)
  <2>1. Sound(processor_) /\ View(processor_) = Durable!Replay(hist) /\ processor_.last_id <= last_id_
    BY <1>5 DEF Held
  <2>2. /\ Accepts(processor_, e) /\ Sound(p) /\ View(p) = Updated(View(processor_), e.id, e.value)
        /\ p.last_id \in {processor_.last_id, e.id}
    BY <2>1, FitsSound
  <2>3. Durable!Replay(h) = Updated(Durable!Replay(hist), e.id, e.value)
    BY <1>5, <1>6, ReplayAppend
  <2>4. View(p) = Durable!Replay(h) BY <2>1, <2>2, <2>3
  <2>5. processor_.last_id \in Nat BY <2>1, ProcParts DEF Sound
  <2>6. p.last_id <= last_id_ + 1
    <3> HIDE DEF p
    <3> QED BY <1>5, <1>7, <2>1, <2>2, <2>5
  <2> QED BY <2>2, <2>4, <2>6 DEF Held
<1> HIDE DEF b, p, o, h, c
<1>15. last_id_ + 1 \in 0 .. Len(h) /\ Len(h) <= MaxOps /\ Len(h) \in Nat BY <1>1, <1>5, <1>10, MaxOpsAssumption
<1>16. LHistory'
  <2>1. fatal' = FALSE BY <1>3, <1>14
  <2>2. dur' \in 0 .. Len(h) /\ base' \in 0 .. Len(h) BY <1>1, <1>5, <1>10
  <2> QED BY <1>1, <1>10, <1>15, <2>1, <2>2 DEF LHistory
<1>17. aes_key \in {NoKey, db_key_} /\ db_key_ \in DbKeys BY <1>1 DEF KeyInv, KRun, KMemory
<1>18. Complete(Regenerated(p, db_key_, aes_key), h, last_id_ + 1) /\ Typed(Regenerated(p, db_key_, aes_key))
  BY <1>10, <1>14, <1>15, <1>17, HeldRegenerated
<1>19. /\ FileType(main') /\ main'.chunks \in Seq(Chunks) /\ buffer_' \in Seq(Events)
       /\ Running(main', buffer_', h, dur)
       /\ stream' = (IF Enc(main'.chunks) THEN Len(main'.chunks) ELSE 0)
       /\ AfterEvents(Content(main'.chunks) \o buffer_').last_id <= last_id_ + 1
       /\ (need_sync_' = TRUE \/ buffer_' # << >>)
  <2>1. CASE buffer_' = b /\ UNCHANGED <<main, stream, need_sync_>>
    <3>1. stream = IF Enc(main.chunks) THEN Len(main.chunks) ELSE 0 BY <1>1 DEF LogInv, LRun
    <3> QED BY <1>5, <1>9, <1>11, <1>13, <2>1, <3>1 DEF c
  <2>2. CASE Write(b) /\ need_sync_' = TRUE
    <3>1. /\ main' = MainWith(b) /\ stream' = (IF Encrypted(main) THEN stream + Len(b) ELSE 0)
          /\ buffer_' = << >> /\ need_sync_' = TRUE
      BY <2>2 DEF Write
    <3>2. MainWith(b) = With(main, b, stream) BY DEF MainWith, With
    <3> DEFINE g == With(main, b, stream)
    <3>a. /\ FileType(main) /\ main.chunks \in Seq(Chunks) /\ stream \in Nat /\ dur \in Nat
          /\ (Enc(main.chunks) => stream = Len(main.chunks))
      BY <1>5
    <3>b. /\ b \in Seq(RawEvents) /\ b \in Seq(Events) /\ h \in Seq(Ops) /\ Len(h) <= MaxOps
          /\ Running(main, b, h, dur)
      BY <1>9, <1>10, <1>11, <1>15
    <3>3. /\ FileType(g) /\ g.chunks \in Seq(Chunks) /\ Running(g, << >>, h, dur)
          /\ Content(g.chunks) \o << >> = c \o b
          /\ Enc(g.chunks) = Enc(main.chunks) /\ (Enc(main.chunks) => stream + Len(b) = Len(g.chunks))
      BY <3>a, <3>b, WrittenOut DEF c
    <3> HIDE DEF g
    <3>4. main' = g BY <3>1, <3>2 DEF g
    <3>5. Encrypted(main) = Enc(main.chunks) BY ByChunks
    <3>6. stream' = IF Enc(main'.chunks) THEN Len(main'.chunks) ELSE 0 BY <3>1, <3>3, <3>4, <3>5
    <3>7. buffer_' \in Seq(Events) BY <3>1
    <3>8. AfterEvents(Content(main'.chunks) \o buffer_').last_id <= last_id_ + 1
      BY <1>13, <3>1, <3>3, <3>4
    <3> QED BY <3>1, <3>3, <3>4, <3>6, <3>7, <3>8
  <2> QED BY <1>2, <2>1, <2>2
<1>20. LTypes'
  <2>1. EmptyFile.chunks \in Seq(Chunks)
    <3>1. EmptyFile.chunks = << >> BY DEF EmptyFile
    <3> QED BY <3>1
  <2>2. Typed(newf) BY DEF LogInv, LTypes
  <2>3. Typed(newf') BY <1>4, <1>18, <2>1, <2>2 DEF Unopened, Typed
  <2> QED BY <1>19, <2>3 DEF LTypes, Typed
<1>21. Recovers(main', hist', dur', Len(h) - Len(buffer_')) BY <1>1, <1>19 DEF Running
<1>22. LFound' BY <1>19, <1>21, FoundNext
<1>23. pc' \in {"run", "rx_sync"} BY <1>4, <1>14
<1>24. LRun' BY <1>1, <1>19 DEF LRun
<1>25. LMemory' BY <1>1, <1>14, <1>23 DEF LMemory
<1>26. LReindex'
  <2>1. SUFFICES ASSUME pc' \in Stages PROVE Complete(newf', hist', last_id_') BY DEF LReindex
  <2>2. newf' = Regenerated(p, db_key_, aes_key) BY <1>4, <1>14, <2>1 DEF Stages
  <2> QED BY <1>1, <1>18, <2>2
<1>27. LogInv' BY <1>16, <1>20, <1>22, <1>24, <1>25, <1>26 DEF LogInv
<1> QED BY <1>1, <1>23, <1>27 DEF h, o

\* The events the log is given fit the memory and the file.
LEMMA AddedFit ==
  ASSUME KeyInv, LogInv, NEW e, AddEvent(e),
         \/ e = [id |-> last_id_ + 1, value |-> last_id_ + 1, rewrite |-> FALSE]
         \/ \E i \in LiveIds(processor_) : \/ e = [id |-> i, value |-> last_id_ + 1, rewrite |-> TRUE]
                                           \/ e = [id |-> i, value |-> Empty, rewrite |-> TRUE]
  PROVE  /\ e \in Sent /\ Fits(processor_, e) /\ e.id <= last_id_ + 1
         /\ Fits(AfterEvents(Content(main.chunks) \o buffer_), e)
<1> DEFINE q == AfterEvents(Content(main.chunks) \o buffer_)
           l == last_id_ + 1
<1>1. pc = "run" /\ Len(hist) < MaxOps BY DEF AddEvent
<1>2. /\ FileType(main) /\ buffer_ \in Seq(RawEvents) /\ hist \in Seq(Ops) /\ Len(hist) \in Nat
      /\ last_id_ \in 0 .. Len(hist) /\ Running(main, buffer_, hist, dur)
      /\ q.last_id <= last_id_ /\ Held(processor_, hist, last_id_)
  BY <1>1, LogRunning
<1>3. Sound(processor_) /\ View(processor_) = Durable!Replay(hist) /\ processor_.last_id <= last_id_
  BY <1>2 DEF Held
<1>4. Stands(Content(main.chunks) \o buffer_, hist) BY <1>2, RunningStands
<1>5. View(q) = Durable!Replay(hist) /\ Sound(q) BY <1>4, FineSound DEF Stands
<1> HIDE DEF q
<1>6. LiveIds(q) = LiveIds(processor_)
  <2>1. DOMAIN View(q) = LiveIds(q) /\ DOMAIN View(processor_) = LiveIds(processor_) BY ViewParts
  <2> QED BY <1>3, <1>5, <2>1
<1>7. q.last_id \in Nat /\ processor_.last_id \in Nat BY <1>3, <1>5, ProcParts DEF Sound
<1>8. l \in Ids /\ l > q.last_id /\ l > processor_.last_id /\ l <= last_id_ + 1 /\ last_id_ \in Nat
  BY <1>1, <1>2, <1>3, <1>7, MaxOpsAssumption, OperationsAssumption
<1>9. l # Empty BY <1>8, EventsAssumption, OperationsAssumption
<1> HIDE DEF l
<1>10. \A i \in LiveIds(processor_) : i \in Ids /\ i <= last_id_ + 1
  <2>1. \A i \in LiveIds(processor_) : i \in 1 .. processor_.last_id BY <1>3 DEF Sound, LiveIds
  <2> QED BY <1>1, <1>2, <1>3, <1>7, <2>1, MaxOpsAssumption, OperationsAssumption
<1>11. CASE e = [id |-> l, value |-> l, rewrite |-> FALSE]
  <2>1. e \in Sent BY <1>8, <1>11, OperationsAssumption DEF Events, Sent
  <2>2. e.id = l /\ e.value = l BY <1>11
  <2> QED BY <1>8, <1>9, <2>1, <2>2 DEF Fits, q
<1>12. ASSUME NEW i \in LiveIds(processor_), NEW v \in {l, Empty}, e = [id |-> i, value |-> v, rewrite |-> TRUE]
       PROVE  e \in Sent /\ Fits(processor_, e) /\ e.id <= last_id_ + 1 /\ Fits(q, e)
  <2>1. e \in Sent BY <1>8, <1>10, <1>12, OperationsAssumption DEF Events, Sent
  <2>2. e.id = i /\ e.rewrite = TRUE BY <1>12
  <2>3. e.id \in LiveIds(processor_) /\ e.id \in LiveIds(q) /\ e.id <= last_id_ + 1 BY <1>6, <1>10, <2>2
  <2> QED BY <2>1, <2>2, <2>3 DEF Fits
<1> QED BY <1>11, <1>12 DEF l, q

\* Every operation of the caller adds such an event.
LEMMA OperationEvents ==
  ASSUME KeyInv, LogInv, Add \/ \E i \in LiveIds(processor_) : Rewrite(i) \/ Erase(i)
  PROVE  /\ LogInv' /\ \E e \in Sent : hist' = Append(hist, OpOf(e))
         /\ pc = "run" /\ pc' \in {"run", "rx_sync"} /\ dur' = dur
<1>1. PICK e : /\ AddEvent(e)
               /\ \/ e = [id |-> last_id_ + 1, value |-> last_id_ + 1, rewrite |-> FALSE]
                  \/ \E i \in LiveIds(processor_) : \/ e = [id |-> i, value |-> last_id_ + 1, rewrite |-> TRUE]
                                                    \/ e = [id |-> i, value |-> Empty, rewrite |-> TRUE]
  BY Zenon DEF Add, Rewrite, Erase
<1>2. /\ e \in Sent /\ Fits(processor_, e) /\ e.id <= last_id_ + 1
      /\ Fits(AfterEvents(Content(main.chunks) \o buffer_), e)
  BY <1>1, AddedFit
<1>3. LogInv' /\ hist' = Append(hist, OpOf(e)) /\ pc' \in {"run", "rx_sync"} /\ dur' = dur
  BY <1>1, <1>2, LogAddEvent
<1>4. pc = "run" BY <1>1 DEF AddEvent
<1> QED BY <1>2, <1>3, <1>4

\* What flush(), sync() and close() make of the file.
LEMMA BufferOut ==
  ASSUME KeyInv, LogInv, pc = "run"
  PROVE  LET g == MainWith(buffer_) IN
         /\ FileType(g) /\ g.chunks \in Seq(Chunks)
         /\ Running(g, << >>, hist, dur) /\ Recovers(g, hist, dur, Len(hist))
         /\ AfterEvents(Content(g.chunks) \o << >>).last_id <= last_id_
         /\ (IF Encrypted(main) THEN stream + Len(buffer_) ELSE 0) = (IF Enc(g.chunks) THEN Len(g.chunks) ELSE 0)
         /\ g.synced = main.synced /\ Len(g.chunks) = Len(main.chunks) + Len(buffer_)
<1> DEFINE g == With(main, buffer_, stream)
<1>1. MainWith(buffer_) = g BY DEF MainWith, With
<1>2. /\ FileType(main) /\ main.chunks \in Seq(Chunks) /\ stream \in Nat
      /\ buffer_ \in Seq(RawEvents) /\ buffer_ \in Seq(Events)
      /\ hist \in Seq(Ops) /\ Len(hist) <= MaxOps /\ dur \in Nat
      /\ Running(main, buffer_, hist, dur)
      /\ (Enc(main.chunks) => stream = Len(main.chunks))
      /\ AfterEvents(Content(main.chunks) \o buffer_).last_id <= last_id_
  BY LogRunning
<1>3. /\ FileType(g) /\ g.chunks \in Seq(Chunks)
      /\ Running(g, << >>, hist, dur) /\ Recovers(g, hist, dur, Len(hist))
      /\ Content(g.chunks) \o << >> = Content(main.chunks) \o buffer_
      /\ Enc(g.chunks) = Enc(main.chunks)
      /\ (Enc(main.chunks) => stream + Len(buffer_) = Len(g.chunks))
      /\ g.synced = main.synced /\ Len(g.chunks) = Len(main.chunks) + Len(buffer_)
  BY <1>2, WrittenOut
<1> HIDE DEF g
<1>4. AfterEvents(Content(g.chunks) \o << >>).last_id <= last_id_ BY <1>2, <1>3
<1>5. Encrypted(main) = Enc(main.chunks) BY ByChunks
<1>6. (IF Encrypted(main) THEN stream + Len(buffer_) ELSE 0) = (IF Enc(g.chunks) THEN Len(g.chunks) ELSE 0)
  BY <1>3, <1>5
<1> QED BY <1>1, <1>3, <1>4, <1>6

\* flush().
LEMMA LogFlush ==
  ASSUME KeyInv, LogInv, Flush
  PROVE  LogInv'
<1>1. /\ pc = "run" /\ pc' = "run" /\ main' = MainWith(buffer_)
      /\ stream' = (IF Encrypted(main) THEN stream + Len(buffer_) ELSE 0)
      /\ buffer_' = << >> /\ need_sync_' = TRUE
      /\ UNCHANGED <<newf, processor_, last_id_, fatal, hist, dur, base>>
  BY DEF Flush, Write, history
<1>2. /\ FileType(main') /\ main'.chunks \in Seq(Chunks)
      /\ Running(main', << >>, hist, dur) /\ Recovers(main', hist, dur, Len(hist))
      /\ AfterEvents(Content(main'.chunks) \o << >>).last_id <= last_id_
      /\ stream' = (IF Enc(main'.chunks) THEN Len(main'.chunks) ELSE 0)
  BY <1>1, BufferOut
<1>3. LHistory' BY <1>1 DEF LogInv, LHistory
<1>4. buffer_' \in Seq(Events) BY <1>1
<1>5. LTypes' BY <1>1, <1>2, <1>4 DEF LogInv, LTypes, Typed
<1>6. LFound' BY <1>1, <1>2, FoundNext
<1>7. LRun' BY <1>1, <1>2 DEF LRun
<1>8. LMemory' /\ LReindex' BY <1>1 DEF LogInv, LMemory, LReindex, Stages
<1> QED BY <1>3, <1>5, <1>6, <1>7, <1>8 DEF LogInv

\* What sync() and close() make of the file, and what they promise.
LEMMA SyncedOut ==
  ASSUME KeyInv, LogInv, pc = "run", main' = Synced(MainWith(buffer_), buffer_ # << >>),
         dur' = Promised, hist' = hist, base' = base
  PROVE  /\ FileType(main') /\ main'.chunks \in Seq(Chunks)
         /\ Recovers(main', hist, dur', Len(hist)) /\ Running(main', << >>, hist, dur')
         /\ main'.chunks = MainWith(buffer_).chunks
         /\ Len(hist) > base => main'.synced = Len(main'.chunks) /\ dur' = Len(hist)
         /\ dur' \in 0 .. Len(hist) /\ dur' \in {dur, Len(hist)}
<1> DEFINE g == MainWith(buffer_)
<1>1. /\ FileType(g) /\ g.chunks \in Seq(Chunks)
      /\ Running(g, << >>, hist, dur) /\ Recovers(g, hist, dur, Len(hist))
      /\ g.synced = main.synced /\ Len(g.chunks) = Len(main.chunks) + Len(buffer_)
  BY BufferOut
<1>2. /\ hist \in Seq(Ops) /\ dur \in 0 .. Len(hist) /\ Len(hist) \in Nat /\ dur \in Nat
      /\ FileType(main) /\ buffer_ \in Seq(RawEvents) /\ base \in 0 .. Len(hist)
  BY LogRunning
<1>3. need_sync_ \in BOOLEAN BY DEF KeyInv, KMemory
<1>4. main' = IF need_sync_ \/ buffer_ # << >> THEN AllSynced(g) ELSE g BY DEF Synced, AllSynced
<1>5. dur' = IF Len(hist) > base THEN Len(hist) ELSE dur BY DEF Promised
<1> HIDE DEF g
<1>6. /\ FileType(AllSynced(g)) /\ AllSynced(g).chunks = g.chunks /\ AllSynced(g).synced = Len(g.chunks)
  BY <1>1, AllSyncedIs
<1>7. FileType(main') /\ main'.chunks = g.chunks BY <1>1, <1>4, <1>6
<1>8. Len(hist) > base => main'.synced = Len(main'.chunks)
  <2>1. CASE need_sync_ \/ buffer_ # << >> BY <1>4, <1>6, <2>1
  <2>2. CASE ~ (need_sync_ \/ buffer_ # << >>)
    <3>1. need_sync_ = FALSE /\ buffer_ = << >> BY <1>3, <2>2
    <3>2. Len(hist) > base => main.synced = Len(main.chunks) BY <3>1 DEF LogInv, LRun
    <3>3. Len(buffer_) = 0 /\ Len(main.chunks) \in Nat BY <1>2, <3>1, FileParts
    <3>4. Len(g.chunks) = Len(main.chunks) BY <1>1, <3>3
    <3> QED BY <1>1, <1>4, <2>2, <3>2, <3>4
  <2> QED BY <2>1, <2>2
<1>9. SubSeq(hist, 1, Len(hist)) = hist BY <1>2, FirstOfFirst
<1>10. Stands(Content(g.chunks), SubSeq(hist, 1, Len(hist))) /\ Whole(g.chunks)
  BY <1>1 DEF Recovers, Running
<1>11. dur' \in 0 .. Len(hist) /\ dur' \in Nat /\ Len(hist) \in dur' .. Len(hist) /\ dur' \in {dur, Len(hist)}
  BY <1>2, <1>5
<1>12. Recovers(main', hist, dur', Len(hist))
  <2>1. CASE main'.synced = Len(main'.chunks) BY <1>2, <1>7, <1>10, <1>11, <2>1, RecoversSynced
  <2>2. CASE main'.synced # Len(main'.chunks)
    <3>1. main' = g BY <1>4, <1>6, <2>2
    <3>2. dur' = dur BY <1>5, <1>8, <2>2
    <3> QED BY <1>1, <3>1, <3>2
  <2> QED BY <2>1, <2>2
<1>13. Running(main', << >>, hist, dur') BY <1>2, <1>7, <1>10, <1>12, RunningWhole
<1> QED BY <1>1, <1>5, <1>7, <1>8, <1>11, <1>12, <1>13 DEF g

\* sync().
LEMMA LogSync ==
  ASSUME KeyInv, LogInv, Sync
  PROVE  LogInv' /\ dur' \in {dur, Len(hist)}
<1>1. /\ pc = "run" /\ pc' = "run" /\ main' = Synced(MainWith(buffer_), buffer_ # << >>)
      /\ stream' = (IF Encrypted(main) THEN stream + Len(buffer_) ELSE 0)
      /\ buffer_' = << >> /\ dur' = Promised
      /\ UNCHANGED <<newf, processor_, last_id_, fatal, hist, base>>
  BY DEF Sync
<1>2. /\ FileType(main') /\ main'.chunks \in Seq(Chunks)
      /\ Recovers(main', hist, dur', Len(hist)) /\ Running(main', << >>, hist, dur')
      /\ main'.chunks = MainWith(buffer_).chunks
      /\ Len(hist) > base => main'.synced = Len(main'.chunks)
      /\ dur' \in 0 .. Len(hist) /\ dur' \in {dur, Len(hist)}
  BY <1>1, SyncedOut
<1>3. /\ AfterEvents(Content(main'.chunks) \o << >>).last_id <= last_id_
      /\ stream' = (IF Enc(main'.chunks) THEN Len(main'.chunks) ELSE 0)
  BY <1>1, <1>2, BufferOut
<1>4. LHistory' BY <1>1, <1>2 DEF LogInv, LHistory
<1>5. buffer_' \in Seq(Events) BY <1>1
<1>6. LTypes' BY <1>1, <1>2, <1>5 DEF LogInv, LTypes, Typed
<1>7. LFound' BY <1>1, <1>2, FoundNext
<1>8. LRun' BY <1>1, <1>2, <1>3 DEF LRun
<1>9. LMemory' /\ LReindex' BY <1>1 DEF LogInv, LMemory, LReindex, Stages
<1> QED BY <1>2, <1>4, <1>6, <1>7, <1>8, <1>9 DEF LogInv

\* A process that is not there.
LEMMA LogGone ==
  ASSUME Forget, pc' \in {"down", "destroy"}
  PROVE  LRun' /\ LMemory' /\ LReindex' /\ buffer_' \in Seq(Events) /\ last_id_' = 0
<1>1. processor_' = NoEvents /\ buffer_' = << >> /\ last_id_' = 0 BY DEF Forget
<1>2. buffer_' \in Seq(Events) BY <1>1
<1> QED BY <1>1, <1>2 DEF LRun, LMemory, LReindex, Stages

\* close().
LEMMA LogClose ==
  ASSUME KeyInv, LogInv, Close
  PROVE  LogInv' /\ dur' \in {dur, Len(hist)}
<1>1. /\ pc = "run" /\ pc' = "down" /\ main' = Synced(MainWith(buffer_), buffer_ # << >>)
      /\ dur' = Promised /\ Forget
      /\ UNCHANGED <<newf, fatal, hist, base>>
  BY DEF Close
<1>2. /\ FileType(main') /\ main'.chunks \in Seq(Chunks)
      /\ Recovers(main', hist, dur', Len(hist))
      /\ dur' \in 0 .. Len(hist) /\ dur' \in {dur, Len(hist)}
  BY <1>1, SyncedOut
<1>3. LRun' /\ LMemory' /\ LReindex' /\ buffer_' \in Seq(Events) /\ last_id_' = 0 BY <1>1, LogGone
<1>4. hist \in Seq(Ops) BY DEF LogInv, LHistory
<1>5. 0 \in 0 .. Len(hist) BY <1>4
<1>6. LHistory' BY <1>1, <1>2, <1>3, <1>5 DEF LogInv, LHistory
<1>7. LTypes' BY <1>1, <1>2, <1>3 DEF LogInv, LTypes, Typed
<1>8. LFound' BY <1>1, <1>2, FoundNext
<1> QED BY <1>2, <1>3, <1>6, <1>7, <1>8 DEF LogInv

\* The empty file has the type of the checks.
LEMMA EmptyTyped == EmptyFile.chunks \in Seq(Chunks)
<1>1. EmptyFile.chunks = << >> BY DEF EmptyFile
<1> QED BY <1>1

\* change_key(), with its do_reindex() begun or given up.
LEMMA LogChangeKey ==
  ASSUME KeyInv, LogInv, NEW k \in DbKeys, ChangeKey(k) \/ ChangeKeyFails(k)
  PROVE  LogInv'
<1>1. /\ pc = "run"
      /\ UNCHANGED <<main, processor_, buffer_, stream, last_id_, need_sync_, fatal, hist, dur, base>>
  BY DEF ChangeKey, ChangeKeyFails
<1>2. \/ newf' = Regenerated(processor_, k, NoKey) /\ pc' = "rx_sync"
      \/ newf' \in Unopened(newf) /\ pc' = "run"
  BY DEF ChangeKey, ChangeKeyFails
<1>3. /\ hist \in Seq(Ops) /\ Len(hist) <= MaxOps /\ last_id_ \in 0 .. Len(hist)
      /\ Held(processor_, hist, last_id_) /\ FileType(main)
  BY <1>1, LogRunning
<1>4. /\ Complete(Regenerated(processor_, k, NoKey), hist, last_id_)
      /\ Typed(Regenerated(processor_, k, NoKey))
  BY <1>3, HeldRegenerated
<1>5. LHistory' BY <1>1 DEF LogInv, LHistory
<1>6. Typed(newf') BY <1>2, <1>4, EmptyTyped DEF LogInv, LTypes, Unopened, Typed
<1>7. LTypes' BY <1>1, <1>6 DEF LogInv, LTypes, Typed
<1>8. main # NoFile BY <1>3, FileParts
<1>9. Restored' = Restored BY <1>1, <1>8 DEF Restored
<1>10. LFound' BY <1>1, <1>9 DEF LogInv, LFound
<1>11. LRun' BY <1>1 DEF LogInv, LRun
<1>12. pc' \in {"run", "rx_sync"} BY <1>2
<1>13. LMemory' BY <1>1, <1>3, <1>12 DEF LMemory
<1>14. LReindex'
  <2>1. SUFFICES ASSUME pc' \in Stages PROVE Complete(newf', hist', last_id_') BY DEF LReindex
  <2>2. newf' = Regenerated(processor_, k, NoKey) BY <1>2, <2>1 DEF Stages
  <2> QED BY <1>1, <1>4, <2>2
<1> QED BY <1>5, <1>7, <1>10, <1>11, <1>13, <1>14 DEF LogInv

\* The sync() of do_reindex().
LEMMA LogReindexSync ==
  ASSUME KeyInv, LogInv, ReindexSync
  PROVE  LogInv'
<1>1. /\ pc = "rx_sync" /\ pc' = "rx_unlink" /\ newf' = AllSynced(newf) /\ buffer_' = << >>
      /\ UNCHANGED <<main, processor_, last_id_, fatal, hist, dur, base>>
  BY DEF ReindexSync, AllSynced, history
<1>2. FileType(newf) /\ newf # NoFile /\ main # NoFile BY <1>1 DEF KeyInv, KReindex, KFiles, Stages
<1>3. newf'.chunks = newf.chunks BY <1>1, <1>2, AllSyncedIs
<1>4. LHistory' BY <1>1 DEF LogInv, LHistory
<1>5. buffer_' \in Seq(Events) BY <1>1
<1>6. LTypes' BY <1>1, <1>2, <1>3, <1>5 DEF LogInv, LTypes, Typed
<1>7. Restored' = Restored BY <1>1, <1>2 DEF Restored
<1>8. LFound' BY <1>1, <1>7 DEF LogInv, LFound
<1>9. LRun' BY <1>1 DEF LRun
<1>10. LMemory' BY <1>1 DEF LogInv, LMemory, Stages
<1>11. Complete(newf, hist, last_id_) BY <1>1 DEF LogInv, LReindex, Stages
<1>12. Complete(newf', hist', last_id_') BY <1>1, <1>3, <1>11 DEF Complete
<1>13. LReindex' BY <1>12 DEF LReindex
<1> QED BY <1>4, <1>6, <1>8, <1>9, <1>10, <1>13 DEF LogInv

\* What is known of <path>.new once it is synced.
LEMMA NewIsComplete ==
  ASSUME KeyInv, LogInv, pc \in {"rx_unlink", "rx_rename"}
  PROVE  /\ FileType(newf) /\ newf # NoFile /\ newf.chunks \in Seq(Chunks)
         /\ newf.synced = Len(newf.chunks)
         /\ Complete(newf, hist, last_id_) /\ hist \in Seq(Ops) /\ Len(hist) \in Nat
         /\ \A d \in 0 .. Len(hist) : Recovers(newf, hist, d, Len(hist))
<1>1. FileType(newf) /\ newf # NoFile /\ newf.synced = Len(newf.chunks)
  BY DEF KeyInv, KReindex, KFiles, Stages
<1>2. newf.chunks \in Seq(Chunks) BY <1>1 DEF LogInv, LTypes, Typed
<1>3. Complete(newf, hist, last_id_) BY DEF LogInv, LReindex, Stages
<1>4. hist \in Seq(Ops) /\ Len(hist) \in Nat BY DEF LogInv, LHistory
<1>5. \A d \in 0 .. Len(hist) : Recovers(newf, hist, d, Len(hist))
  BY <1>1, <1>3, <1>4, CompleteRecovers
<1> QED BY <1>1, <1>2, <1>3, <1>4, <1>5

\* unlink(path_).
LEMMA LogReindexUnlink ==
  ASSUME KeyInv, LogInv, ReindexUnlink
  PROVE  LogInv'
<1>1. /\ pc = "rx_unlink" /\ pc' = "rx_rename" /\ main' = NoFile
      /\ UNCHANGED <<newf, processor_, buffer_, last_id_, fatal, hist, dur, base>>
  BY DEF ReindexUnlink, memory, history
<1>2. /\ newf # NoFile /\ hist \in Seq(Ops) /\ Len(hist) \in Nat
      /\ \A d \in 0 .. Len(hist) : Recovers(newf, hist, d, Len(hist))
  BY <1>1, NewIsComplete
<1>3. LHistory' BY <1>1 DEF LogInv, LHistory
<1>4. LTypes' BY <1>1 DEF LogInv, LTypes, Typed
<1>5. Restored' = newf BY <1>1, <1>2 DEF Restored
<1>6. dur \in 0 .. Len(hist) BY DEF LogInv, LHistory
<1>7. Recovers(newf, hist, dur, Len(hist)) /\ Len(hist) \in dur .. Len(hist) BY <1>2, <1>6
<1>8. LFound' BY <1>1, <1>5, <1>7 DEF LFound
<1>9. LRun' /\ LMemory' /\ LReindex' BY <1>1 DEF LogInv, LRun, LMemory, LReindex, Stages
<1> QED BY <1>3, <1>4, <1>8, <1>9 DEF LogInv

\* rename(new_path, path_).
LEMMA LogReindexRename ==
  ASSUME KeyInv, LogInv, ReindexRename
  PROVE  LogInv' /\ dur' = Len(hist) /\ hist' = hist
<1>1. /\ pc = "rx_rename" /\ pc' = "run" /\ main' = newf /\ newf' = NoFile /\ dur' = Len(hist)
      /\ stream' = (IF Encrypted(newf) THEN Len(newf.chunks) ELSE 0)
      /\ UNCHANGED <<processor_, buffer_, last_id_, fatal, hist, base>>
  BY DEF ReindexRename
<1>2. /\ FileType(newf) /\ newf.chunks \in Seq(Chunks) /\ newf.synced = Len(newf.chunks)
      /\ Complete(newf, hist, last_id_) /\ hist \in Seq(Ops) /\ Len(hist) \in Nat
      /\ \A d \in 0 .. Len(hist) : Recovers(newf, hist, d, Len(hist))
  BY <1>1, NewIsComplete
<1>3. buffer_ = << >> BY <1>1 DEF KeyInv, KReindex
<1>4. Len(hist) \in 0 .. Len(hist) BY <1>2
<1>5. Recovers(newf, hist, Len(hist), Len(hist)) BY <1>2, <1>4
<1>6. Whole(newf.chunks) /\ Stands(Content(newf.chunks), hist) /\ AfterEvents(Content(newf.chunks)).last_id <= last_id_
  BY <1>2 DEF Complete
<1>7. Running(newf, << >>, hist, Len(hist)) BY <1>2, <1>5, <1>6, RunningWhole
<1>8. Content(newf.chunks) \in Seq(Events) BY <1>6 DEF Stands, Fine
<1>9. Content(newf.chunks) \o << >> = Content(newf.chunks) BY <1>8
<1>10. Encrypted(newf) = Enc(newf.chunks) BY ByChunks
<1>11. LHistory' BY <1>1, <1>4 DEF LogInv, LHistory
<1>12. LTypes' BY <1>1, <1>2 DEF LogInv, LTypes, Typed
<1>13. FileType(main') /\ Recovers(main', hist', dur', Len(hist)) BY <1>1, <1>2, <1>5
<1>14. LFound' BY <1>13, FoundNext
<1>15. stream' = IF Enc(main'.chunks) THEN Len(main'.chunks) ELSE 0 BY <1>1, <1>10
<1>16. Running(main', buffer_', hist', dur') BY <1>1, <1>3, <1>7
<1>17. AfterEvents(Content(main'.chunks) \o buffer_').last_id <= last_id_' BY <1>1, <1>3, <1>6, <1>9
<1>18. main'.synced = Len(main'.chunks) BY <1>1, <1>2
<1>19. LRun' BY <1>15, <1>16, <1>17, <1>18 DEF LRun
<1>20. LMemory' /\ LReindex' BY <1>1 DEF LogInv, LMemory, LReindex, Stages
<1> QED BY <1>1, <1>11, <1>12, <1>14, <1>19, <1>20 DEF LogInv

\* What is known when nothing of the log is left.
LEMMA LogNothing ==
  ASSUME main' = NoFile, newf' = NoFile, NoHistory, fatal' = FALSE, last_id_' = 0
  PROVE  LHistory' /\ LFound' /\ Typed(main') /\ Typed(newf')
<1>1. Restored' = EmptyFile BY DEF Restored
<1>2. hist' = << >> /\ dur' = 0 /\ base' = 0 BY DEF NoHistory
<1>3. hist' \in Seq(Ops) /\ Len(hist') = 0 BY <1>2
<1>4. LHistory' BY <1>2, <1>3, MaxOpsAssumption DEF LHistory
<1>5. 0 \in dur' .. Len(hist') BY <1>2, <1>3
<1>6. Recovers(Restored', hist', dur', 0) BY <1>1, <1>2, EmptyFileIs
<1>7. LFound' BY <1>5, <1>6 DEF LFound
<1> QED BY <1>4, <1>7 DEF Typed

\* The first step of destroy().
LEMMA LogDestroyNew ==
  ASSUME KeyInv, LogInv, DestroyNew
  PROVE  LogInv'
<1>1. /\ pc \in {"run", "down"} /\ pc' = "destroy" /\ newf' = NoFile /\ Forget /\ fatal' = fatal
      /\ main' = IF pc = "run" THEN MainWith(buffer_) ELSE main
      /\ IF main = NoFile THEN NoHistory ELSE UNCHANGED history
  BY DEF DestroyNew
<1>2. LRun' /\ LMemory' /\ LReindex' /\ buffer_' \in Seq(Events) /\ last_id_' = 0 BY <1>1, LogGone
<1>3. fatal' = FALSE BY <1>1 DEF LogInv, LHistory
<1>4. CASE main = NoFile
  <2>1. main' = NoFile BY <1>1, <1>4, KeyRunning
  <2>2. NoHistory BY <1>1, <1>4
  <2>3. LHistory' /\ LFound' /\ Typed(main') /\ Typed(newf') BY <1>1, <1>2, <1>3, <2>1, <2>2, LogNothing
  <2> QED BY <1>2, <2>3 DEF LogInv, LTypes
<1>5. CASE main # NoFile
  <2>1. UNCHANGED <<hist, dur, base>> BY <1>1, <1>5 DEF history
  <2>2. hist \in Seq(Ops) BY DEF LogInv, LHistory
  <2>3. 0 \in 0 .. Len(hist) BY <2>2
  <2>4. LHistory' BY <1>2, <1>3, <2>1, <2>3 DEF LogInv, LHistory
  <2>5. FileType(main') /\ main'.chunks \in Seq(Chunks) /\ \E B : Recovers(main', hist, dur, B)
    <3>1. CASE pc = "run" BY <1>1, <3>1, BufferOut
    <3>2. CASE pc # "run"
      <4>1. main' = main /\ Restored = main BY <1>1, <1>5, <3>2 DEF Restored
      <4>2. FileType(main) /\ main.chunks \in Seq(Chunks) BY <1>5 DEF KeyInv, KFiles, LogInv, LTypes, Typed
      <4> QED BY <4>1, <4>2 DEF LogInv, LFound
    <3> QED BY <3>1, <3>2
  <2>6. LFound' BY <2>1, <2>5, FoundNext
  <2>7. LTypes' BY <1>1, <1>2, <2>5 DEF LTypes, Typed
  <2> QED BY <1>2, <2>4, <2>6, <2>7 DEF LogInv
<1> QED BY <1>4, <1>5

\* The second step of destroy().
LEMMA LogDestroyMain ==
  ASSUME KeyInv, LogInv, DestroyMain
  PROVE  LogInv'
<1>1. /\ pc = "destroy" /\ pc' = "down" /\ main' = NoFile /\ newf' = newf /\ NoHistory
      /\ UNCHANGED <<processor_, buffer_, last_id_, fatal>>
  BY DEF DestroyMain, memory
<1>2. newf' = NoFile BY <1>1 DEF KeyInv, KDestroy
<1>3. fatal' = FALSE BY <1>1 DEF LogInv, LHistory
<1>4. last_id_' = 0 BY <1>1 DEF LogInv, LMemory
<1>5. LHistory' /\ LFound' /\ Typed(main') /\ Typed(newf') BY <1>1, <1>2, <1>3, <1>4, LogNothing
<1>6. LTypes' BY <1>1, <1>5 DEF LogInv, LTypes
<1>7. LRun' /\ LMemory' /\ LReindex' BY <1>1 DEF LogInv, LRun, LMemory, LReindex, Stages
<1> QED BY <1>5, <1>6, <1>7 DEF LogInv

\* The end of the process.
LEMMA LogKill ==
  ASSUME KeyInv, LogInv, Kill
  PROVE  LogInv'
<1>1. pc' = "down" /\ newf' = newf /\ Forget /\ UNCHANGED <<fatal, hist, dur, base>> BY DEF Kill, history
<1>2. LRun' /\ LMemory' /\ LReindex' /\ buffer_' \in Seq(Events) /\ last_id_' = 0 BY <1>1, LogGone
<1>3. hist \in Seq(Ops) /\ dur \in 0 .. Len(hist) BY DEF LogInv, LHistory
<1>4. 0 \in 0 .. Len(hist) BY <1>3
<1>5. LHistory' BY <1>1, <1>2, <1>4 DEF LogInv, LHistory
<1>6. CASE pc # "run"
  <2>1. main' = main BY <1>6 DEF Kill
  <2>2. Restored' = Restored BY <1>1, <2>1 DEF Restored
  <2>3. LTypes' BY <1>1, <1>2, <2>1 DEF LogInv, LTypes, Typed
  <2>4. LFound' BY <1>1, <2>2 DEF LogInv, LFound
  <2> QED BY <1>2, <1>5, <2>3, <2>4 DEF LogInv
<1>7. CASE pc = "run"
  <2>1. PICK n \in 0 .. Len(buffer_) :
           /\ SubSeq(buffer_, 1, n) \in Seq(RawEvents)
           /\ \/ main' = With(main, SubSeq(buffer_, 1, n), stream)
              \/ \E x \in Garbage : main' = Torn(main, SubSeq(buffer_, 1, n), stream, <<x>>)
    BY <1>7, KillParts
  <2>2. /\ FileType(main) /\ main.chunks \in Seq(Chunks) /\ stream \in Nat
        /\ buffer_ \in Seq(RawEvents) /\ buffer_ \in Seq(Events)
        /\ Len(hist) \in Nat /\ Len(hist) <= MaxOps /\ dur \in Nat
        /\ Running(main, buffer_, hist, dur)
        /\ (Enc(main.chunks) => stream = Len(main.chunks))
    BY <1>7, LogRunning
  <2> DEFINE s == SubSeq(buffer_, 1, n)
             g == With(main, s, stream)
             B == Len(hist) - Len(buffer_) + n
  <2>3. s \in Seq(RawEvents) BY <2>1
  <2>4. main' = g \/ \E x \in Garbage : main' = Torn(main, s, stream, <<x>>) BY <2>1
  <2>5. s \in Seq(Events) /\ Len(s) = n BY <2>2, FirstOfFirst
  <2>6. Recovers(g, hist, dur, B) BY <1>3, <2>2, RunningPart
  <2>7. FileType(g) /\ g.synced = main.synced BY <2>2, <2>3, WithIs
  <2>8. Len(main.chunks) + n <= 2 * MaxOps + 2
    <3>1. /\ Len(main.chunks) <= Len(Content(main.chunks)) + 1
          /\ Len(Content(main.chunks)) + Len(buffer_) <= Len(hist)
          /\ Content(main.chunks) \in Seq(RawEvents)
      BY <1>3, <2>2, RunningStands
    <3> DEFINE m == Len(Content(main.chunks))
               q == Len(main.chunks)
    <3>2. m \in Nat /\ q \in Nat /\ Len(buffer_) \in Nat BY <2>2, <3>1, FileParts
    <3>3. q <= m + 1 /\ m + Len(buffer_) <= Len(hist) BY <3>1
    <3> HIDE DEF m, q
    <3>4. q + n <= 2 * MaxOps + 2 BY <2>2, <3>2, <3>3, MaxOpsAssumption
    <3> QED BY <3>4 DEF q
  <2> HIDE DEF s
  <2>9. g.chunks \in Seq(Chunks) BY <2>2, <2>5, <2>8, TypedWith
  <2>10. FileType(main') /\ main'.chunks \in Seq(Chunks) /\ Recovers(main', hist, dur, B)
    <3>1. CASE main' = g BY <2>6, <2>7, <2>9, <3>1
    <3>2. ASSUME NEW x \in Garbage, main' = Torn(main, s, stream, <<x>>)
          PROVE  FileType(main') /\ main'.chunks \in Seq(Chunks) /\ Recovers(main', hist, dur, B)
      <4> DEFINE t == Torn(main, s, stream, <<x>>)
      <4>1. FileType(t) /\ t.chunks = Append(g.chunks, x) /\ t.synced = main.synced
        BY <2>2, <2>3, TornIs
      <4>2. t.synced >= g.synced BY <2>2, <2>7, <4>1, FileParts
      <4> HIDE DEF t, g, B
      <4>3. Recovers(t, hist, dur, B) BY <1>3, <2>2, <2>6, <2>7, <4>1, <4>2, RecoversTorn
      <4>4. 0 \in 0 .. Len(g.chunks) BY <2>7, FileParts
      <4>5. Append(g.chunks, x) \in Seq(Chunks) BY <2>9, <4>4, TypedCut
      <4>6. main' = t BY <3>2 DEF t
      <4>7. t.chunks \in Seq(Chunks) BY <4>1, <4>5
      <4> QED BY <4>1, <4>3, <4>6, <4>7
    <3> QED BY <2>4, <3>1, <3>2
  <2> HIDE DEF g, B
  <2>11. Recovers(main', hist', dur', B) BY <1>1, <2>10
  <2>12. LFound' BY <2>10, <2>11, FoundNext
  <2>13. LTypes' BY <1>1, <1>2, <2>10 DEF LogInv, LTypes, Typed
  <2> QED BY <1>2, <1>5, <2>12, <2>13 DEF LogInv
<1> QED BY <1>6, <1>7

\* What a power loss leaves has the type of the checks.
LEMMA SurvivorsTyped ==
  ASSUME NEW f, f = NoFile \/ FileType(f), Typed(f), NEW g \in Survivors(f)
  PROVE  Typed(g)
<1>1. CASE f = NoFile BY <1>1, NoSurvivor DEF Typed
<1>2. CASE f # NoFile
  <2>1. FileType(f) /\ f.chunks \in Seq(Chunks) BY <1>2 DEF Typed
  <2>2. PICK n \in f.synced .. Len(f.chunks) :
          \/ g.chunks = SubSeq(f.chunks, 1, n)
          \/ \E x \in Garbage : g.chunks = Append(SubSeq(f.chunks, 1, n), x)
    BY <2>1, SurvivorsAre
  <2>3. n \in 0 .. Len(f.chunks) BY <2>1, FileParts
  <2> QED BY <2>1, <2>2, <2>3, TypedCut DEF Typed
<1> QED BY <1>1, <1>2

\* The power goes away.
LEMMA LogPowerLoss ==
  ASSUME KeyInv, LogInv, PowerLoss
  PROVE  LogInv'
<1>1. /\ pc' = "down" /\ Forget /\ UNCHANGED <<fatal, hist, dur, base>>
      /\ main' \in Survivors(main) /\ newf' \in Survivors(newf)
  BY DEF PowerLoss, history
<1>2. LRun' /\ LMemory' /\ LReindex' /\ buffer_' \in Seq(Events) /\ last_id_' = 0 BY <1>1, LogGone
<1>3. hist \in Seq(Ops) /\ dur \in 0 .. Len(hist) BY DEF LogInv, LHistory
<1>4. 0 \in 0 .. Len(hist) /\ dur \in Nat BY <1>3
<1>5. LHistory' BY <1>1, <1>2, <1>4 DEF LogInv, LHistory
<1>6. LTypes' BY <1>1, <1>2, SurvivorsTyped DEF LogInv, LTypes, KeyInv, KFiles
<1>7. \/ Restored' = Restored
      \/ FileType(Restored) /\ Restored' \in Survivors(Restored)
  <2>1. ASSUME NEW f, NEW g \in Survivors(f), FileType(f) PROVE g # NoFile
    <3>1. FileType(g) BY <2>1, SurvivorsAre
    <3> QED BY <3>1, FileParts
  <2>2. CASE main # NoFile
    <3>1. FileType(main) BY <2>2 DEF KeyInv, KFiles
    <3>2. main' # NoFile BY <1>1, <2>1, <3>1
    <3> QED BY <1>1, <2>2, <3>1, <3>2 DEF Restored
  <2>3. CASE main = NoFile /\ newf # NoFile
    <3>1. FileType(newf) BY <2>3 DEF KeyInv, KFiles
    <3>2. main' = NoFile /\ newf' # NoFile BY <1>1, <2>1, <2>3, <3>1, NoSurvivor
    <3> QED BY <1>1, <2>3, <3>1, <3>2 DEF Restored
  <2>4. CASE main = NoFile /\ newf = NoFile
    <3>1. main' = NoFile /\ newf' = NoFile BY <1>1, <2>4, NoSurvivor
    <3> QED BY <2>4, <3>1 DEF Restored
  <2> QED BY <2>2, <2>3, <2>4
<1>8. PICK B \in dur .. Len(hist) : Recovers(Restored, hist, dur, B) BY DEF LogInv, LFound
<1>9. \E C \in dur .. Len(hist) : Recovers(Restored', hist, dur, C)
  <2>1. CASE Restored' = Restored BY <1>8, <2>1
  <2>2. CASE FileType(Restored) /\ Restored' \in Survivors(Restored)
    <3> DEFINE f == Restored
               g == Restored'
    <3>1. FileType(f) /\ g \in Survivors(f) /\ Recovers(f, hist, dur, B) BY <1>8, <2>2
    <3> HIDE DEF f, g
    <3>2. /\ FileType(g)
          /\ \E n \in f.synced .. Len(f.chunks) :
              /\ g.synced >= n
              /\ \/ g.chunks = SubSeq(f.chunks, 1, n)
                 \/ g.synced >= n + 1 /\ \E x \in Garbage : g.chunks = Append(SubSeq(f.chunks, 1, n), x)
      BY <3>1, SurvivorsAre
    <3>3. \E C \in dur .. Len(hist) : Recovers(g, hist, dur, C)
      BY <1>3, <1>4, <3>1, <3>2, RecoversCut
    <3> QED BY <3>3 DEF g
  <2> QED BY <1>7, <2>1, <2>2
<1>10. LFound' BY <1>1, <1>9 DEF LFound
<1> QED BY <1>2, <1>5, <1>6, <1>10 DEF LogInv

\* LogInv is inductive, given KeyInv.
LEMMA LogStep ==
  ASSUME Kept, KeyInv, LogInv, [Next]_vars
  PROVE  LogInv'
<1>1. ASSUME NEW k \in DbKeys, NEW old \in DbKeys, Open(k, old) \/ OpenWrongPassword(k, old)
      PROVE  LogInv'
  BY <1>1, LogOpen, LogWrongPassword
<1>2. ASSUME Add \/ \E i \in LiveIds(processor_) : Rewrite(i) \/ Erase(i) PROVE LogInv'
  BY <1>2, OperationEvents
<1>3. ASSUME Flush \/ Sync \/ Close PROVE LogInv' BY <1>3, LogFlush, LogSync, LogClose
<1>4. ASSUME NEW k \in DbKeys, ChangeKey(k) \/ ChangeKeyFails(k) PROVE LogInv' BY <1>4, LogChangeKey
<1>5. ASSUME ReindexSync \/ ReindexUnlink \/ ReindexRename PROVE LogInv'
  BY <1>5, LogReindexSync, LogReindexUnlink, LogReindexRename
<1>6. ASSUME DestroyNew \/ DestroyMain \/ Kill \/ PowerLoss PROVE LogInv'
  BY <1>6, LogDestroyNew, LogDestroyMain, LogKill, LogPowerLoss
<1>7. ASSUME UNCHANGED vars PROVE LogInv'
  <2>1. UNCHANGED <<main, newf, pc, processor_, buffer_, stream, last_id_, need_sync_, fatal, hist, dur, base>>
    BY <1>7 DEF vars, files, memory, history
  <2>2. Restored' = Restored BY <2>1 DEF Restored
  <2>3. LHistory' BY <2>1 DEF LogInv, LHistory
  <2>4. LTypes' /\ LFound' BY <2>1, <2>2 DEF LogInv, LTypes, LFound, Typed
  <2>5. LRun' BY <2>1 DEF LogInv, LRun
  <2>6. LMemory' /\ LReindex' BY <2>1 DEF LogInv, LMemory, LReindex
  <2> QED BY <2>3, <2>4, <2>5, <2>6 DEF LogInv
<1> QED BY <1>1, <1>2, <1>3, <1>4, <1>5, <1>6, <1>7 DEF Next

\* What the checks call the type of the files, the memory and the history.
LEMMA TypeHolds ==
  ASSUME KeyInv, LogInv
  PROVE  NeverFatal
<1>1. ASSUME NEW f, f = NoFile \/ FileType(f), Typed(f) PROVE IsFile(f)
  <2>1. SUFFICES ASSUME f # NoFile PROVE f.synced \in 0 .. Len(f.chunks) /\ Range(f.chunks) \subseteq Chunks
    BY DEF IsFile
  <2>2. f.synced \in 0 .. Len(f.chunks) BY <1>1, <2>1, FileParts
  <2>3. f.chunks \in Seq(Chunks) BY <1>1, <2>1 DEF Typed
  <2>4. Range(f.chunks) \subseteq Chunks BY <2>3 DEF Range
  <2> QED BY <2>2, <2>4
<1>2. IsFile(main) /\ IsFile(newf) BY <1>1 DEF KeyInv, KFiles, LogInv, LTypes
<1>3. pc \in {"down", "run", "rx_sync", "rx_unlink", "rx_rename", "destroy"} BY DEF KeyInv, KMemory, Stages
<1>4. hist \in Seq(Ops) /\ Len(hist) \in Nat /\ Len(hist) <= MaxOps BY DEF LogInv, LHistory
<1>5. dur \in 0 .. Len(hist) /\ base \in 0 .. Len(hist) /\ last_id_ \in 0 .. Len(hist) /\ fatal = FALSE
  BY DEF LogInv, LHistory
<1>6. last_id_ \in 0 .. MaxOps BY <1>4, <1>5, MaxOpsAssumption
<1>7. DOMAIN processor_.at \subseteq Ids
  <2>1. CASE pc \in Stages \cup {"run"}
    <3>1. Sound(processor_) /\ processor_.last_id <= last_id_ BY <2>1 DEF LogInv, LMemory, Held
    <3>2. DOMAIN processor_.at \subseteq 1 .. processor_.last_id BY <3>1 DEF Sound
    <3>3. processor_.last_id \in Nat BY <3>1, ProcParts DEF Sound
    <3> QED BY <1>6, <3>1, <3>2, <3>3, MaxOpsAssumption, OperationsAssumption
  <2>2. CASE pc \in {"down", "destroy"}
    <3>1. processor_ = NoEvents BY <2>2 DEF LogInv, LMemory
    <3> QED BY <3>1, NoEventsProc
  <2> QED BY <1>3, <2>1, <2>2 DEF Stages
<1>8. buffer_ \in Seq(Events) BY DEF LogInv, LTypes
<1>9. Range(buffer_) \subseteq Events BY <1>8 DEF Range
<1>10. Range(hist) \subseteq Ops BY <1>4 DEF Range
<1>11. {db_key_, aes_key} \subseteq DbKeys /\ keys \subseteq DbKeys /\ need_sync_ \in BOOLEAN
  BY DEF KeyInv, KMemory
<1>12. TypeOK BY <1>2, <1>3, <1>5, <1>6, <1>7, <1>9, <1>10, <1>11 DEF TypeOK
<1> QED BY <1>5, <1>12 DEF NeverFatal

\* The file and the buffer are what is in memory.
LEMMA AgreementHolds ==
  ASSUME KeyInv, LogInv
  PROVE  ReplayAgrees
<1>1. SUFFICES ASSUME pc = "run" PROVE View(Loaded(MainWith(buffer_))) = View(processor_)
  BY DEF ReplayAgrees
<1> DEFINE g == MainWith(buffer_)
<1>2. Recovers(g, hist, dur, Len(hist)) BY <1>1, BufferOut
<1> HIDE DEF g
<1>3. hist \in Seq(Ops) /\ Held(processor_, hist, last_id_) BY <1>1, LogRunning
<1>4. Len(hist) \in 0 .. Len(hist) BY <1>3
<1>5. SubSeq(hist, 1, Len(hist)) = hist BY <1>3, <1>4, FirstOfFirst
<1>6. View(AfterEvents(Content(g.chunks))) = Durable!Replay(hist) BY <1>2, <1>5 DEF Recovers, Stands
<1>7. Loaded(g) = AfterEvents(Content(g.chunks)) BY ByChunks
<1> QED BY <1>3, <1>6, <1>7 DEF Held, g

\* The file that init() finds stands for what was promised.
LEMMA DurableHolds ==
  ASSUME KeyInv, LogInv
  PROVE  NothingDurableIsLost
<1>1. FileType(Restored) BY RestoredType DEF KeyInv
<1>2. \E B : Recovers(Restored, hist, dur, B) BY DEF LogInv, LFound
<1>3. Explains(Restored) # {} BY <1>1, <1>2, ExplainsMax
<1> QED BY <1>3 DEF NothingDurableIsLost

\* What is said of the contents, for every step of the process and every crash.
THEOREM LogInvariant ==
  ASSUME ~ BadSizeTails, "cut" \notin FailOn
  PROVE  Spec => [](KeyInv /\ LogInv)
<1>1. Init => KeyInv /\ LogInv BY KeyInit, LogInit
<1>2. KeyInv /\ LogInv /\ [Next]_vars => (KeyInv /\ LogInv)' BY KeyStep, LogStep DEF Kept
<1> QED BY <1>1, <1>2, PTL DEF Spec

\* No LOG(FATAL) of do_event() is reached, by an operation or by a replay.
THEOREM NeverFatalHolds ==
  ASSUME ~ BadSizeTails, "cut" \notin FailOn
  PROVE  Spec => []NeverFatal
<1>1. KeyInv /\ LogInv => NeverFatal BY TypeHolds
<1> QED BY <1>1, LogInvariant, PTL

\* The next init() replays exactly what is in memory.
THEOREM ReplayAgreesHolds ==
  ASSUME ~ BadSizeTails, "cut" \notin FailOn
  PROVE  Spec => []ReplayAgrees
<1>1. KeyInv /\ LogInv => ReplayAgrees BY AgreementHolds
<1> QED BY <1>1, LogInvariant, PTL

\* No crash takes away an operation that a sync(), a close() or a reindex made
\* durable, whichever of the two files is there.
THEOREM NothingDurableIsLostHolds ==
  ASSUME ~ BadSizeTails, "cut" \notin FailOn
  PROVE  Spec => []NothingDurableIsLost
<1>1. KeyInv /\ LogInv => NothingDurableIsLost BY DurableHolds
<1> QED BY <1>1, LogInvariant, PTL

-----------------------------------------------------------------------------
(* The abstract durable log *)

\* What the user sees.
Seen == IF pc \in {"down", "destroy"} THEN Down ELSE View(processor_)

\* The log is open exactly when the user sees something.
LEMMA SeenIs ==
  ASSUME KeyInv, LogInv
  PROVE  /\ pc \in {"down", "destroy"} => Seen = Down
         /\ pc \notin {"down", "destroy"} => Seen = View(processor_) /\ Seen = Durable!Replay(hist) /\ Seen # Down
<1>1. SUFFICES ASSUME pc \notin {"down", "destroy"}
               PROVE  Seen = Durable!Replay(hist) /\ Seen # Down
  BY DEF Seen
<1>2. pc \in Stages \cup {"run"} BY <1>1 DEF KeyInv, KMemory
<1>3. Sound(processor_) /\ View(processor_) = Durable!Replay(hist) BY <1>2 DEF LogInv, LMemory, Held
<1>4. Seen = View(processor_) BY <1>1 DEF Seen
<1>5. DOMAIN processor_.at \subseteq Ids BY TypeHolds DEF NeverFatal, TypeOK
<1> DEFINE S == LiveIds(processor_)
<1>6. \A i \in S : i \in DOMAIN processor_.at /\ processor_.at[i] # Erased BY DEF LiveIds, ErasedIds
<1>7. \A i \in S : processor_.at[i] \in Events /\ processor_.at[i].value # Empty BY <1>3, <1>6 DEF Sound
<1>8. \A i \in S : processor_.at[i].value \in Data BY <1>7, EventsRaw
<1>9. S \in SUBSET Ids BY <1>5, <1>6
<1>10. View(processor_) \in [S -> Data] BY <1>8 DEF View
<1> QED BY <1>3, <1>4, <1>9, <1>10, MarksAssumption

\* The steps of the abstract log, in the terms of Binlog.
LEMMA AbstractSteps ==
  /\ (Seen' = Down /\ hist' = hist /\ dur' = dur) => Durable!Next
  /\ (Seen' = Down /\ hist' = << >> /\ dur' = 0) => Durable!Next
  /\ (Seen' \in {Seen, Down} /\ hist' = hist /\ dur' = Len(hist)) => Durable!Next
  /\ (Seen # Down /\ dur' = dur /\ Seen' = Durable!Replay(hist') /\ \E o \in Ops : hist' = Append(hist, o))
       => Durable!Next
  /\ (Seen = Down /\ dur' = dur /\ Seen' = Durable!Replay(hist')
       /\ \E k \in dur .. Len(hist) : hist' = SubSeq(hist, 1, k)) => Durable!Next
<1>1. (Seen' = Down /\ hist' = hist /\ dur' = dur) => Durable!Crash BY DEF Seen, Durable!Crash
<1>2. (Seen' = Down /\ hist' = << >> /\ dur' = 0) => Durable!Destroy BY DEF Seen, Durable!Destroy
<1>3. (Seen' \in {Seen, Down} /\ hist' = hist /\ dur' = Len(hist)) => Durable!Sync BY DEF Seen, Durable!Sync
<1>4. (Seen # Down /\ dur' = dur /\ Seen' = Durable!Replay(hist') /\ \E o \in Ops : hist' = Append(hist, o))
       => \E o \in Ops : Durable!Add(o)
  BY DEF Seen, Durable!Add
<1>5. (Seen = Down /\ dur' = dur /\ Seen' = Durable!Replay(hist')
       /\ \E k \in dur .. Len(hist) : hist' = SubSeq(hist, 1, k)) => Durable!Open
  BY DEF Seen, Durable!Open
<1> QED BY <1>1, <1>2, <1>3, <1>4, <1>5 DEF Durable!Next

\* Each step of Binlog is a step of the abstract log, or leaves it alone.
LEMMA DurableStep ==
  ASSUME Kept, KeyInv, LogInv, KeyInv', LogInv', [Next]_vars
  PROVE  Durable!Next \/ (hist' = hist /\ dur' = dur /\ Seen' = Seen)
<1>a. /\ pc \in {"down", "destroy"} => Seen = Down
      /\ pc \notin {"down", "destroy"} => Seen = View(processor_) /\ Seen # Down
  BY SeenIs
<1>b. pc' \notin {"down", "destroy"} => Seen' = View(processor_') /\ Seen' = Durable!Replay(hist')
  <2>1. (KeyInv /\ LogInv => (pc \notin {"down", "destroy"} => Seen = View(processor_) /\ Seen = Durable!Replay(hist)))'
    BY SeenIs, PTL
  <2> QED BY <2>1
<1>c. pc' \in {"down", "destroy"} => Seen' = Down BY DEF Seen
<1>1. ASSUME NEW k \in DbKeys, NEW old \in DbKeys, Open(k, old) PROVE Durable!Next
  <2>1. /\ pc = "down" /\ fatal' = LoadFails(Restored) /\ dur' = dur
        /\ hist' = IF Explains(Restored) = {} THEN hist ELSE SubSeq(hist, 1, Max(Explains(Restored)))
    BY <1>1, OpenParts
  <2>2. pc' \in {"rx_sync", "run"}
    <3>1. LoadFails(Restored) = FALSE BY <2>1 DEF LogInv, LHistory
    <3> QED BY <1>1, <3>1, OpenParts
  <2>3. FileType(Restored) BY RestoredType DEF KeyInv
  <2>4. PICK B \in dur .. Len(hist) : Recovers(Restored, hist, dur, B) BY DEF LogInv, LFound
  <2>5. Explains(Restored) # {} /\ Max(Explains(Restored)) \in B .. Len(hist) BY <2>3, <2>4, ExplainsMax
  <2>6. dur \in Nat /\ Len(hist) \in Nat BY DEF LogInv, LHistory
  <2>7. Max(Explains(Restored)) \in dur .. Len(hist) BY <2>4, <2>5, <2>6
  <2>8. \E j \in dur .. Len(hist) : hist' = SubSeq(hist, 1, j) BY <2>1, <2>5, <2>7
  <2>9. Seen = Down /\ Seen' = Durable!Replay(hist') BY <1>a, <1>b, <2>1, <2>2
  <2> QED BY <2>1, <2>8, <2>9, AbstractSteps
<1>2. ASSUME NEW k, NEW old, OpenWrongPassword(k, old) PROVE hist' = hist /\ dur' = dur /\ Seen' = Seen
  BY <1>2, <1>a, <1>c DEF OpenWrongPassword, history
<1>3. ASSUME Add \/ \E i \in LiveIds(processor_) : Rewrite(i) \/ Erase(i) PROVE Durable!Next
  <2>1. /\ \E e \in Sent : hist' = Append(hist, OpOf(e))
        /\ pc = "run" /\ pc' \in {"run", "rx_sync"} /\ dur' = dur
    BY <1>3, OperationEvents
  <2>2. \A e \in Sent : OpOf(e) \in Ops BY EventsRaw DEF OpOf, Ops, Sent
  <2>3. \E o \in Ops : hist' = Append(hist, o) BY <2>1, <2>2
  <2>4. Seen # Down /\ Seen' = Durable!Replay(hist') BY <1>a, <1>b, <2>1
  <2> QED BY <2>1, <2>3, <2>4, AbstractSteps
<1>4. ASSUME Flush \/ (\E k \in DbKeys : ChangeKey(k) \/ ChangeKeyFails(k)) \/ ReindexSync \/ ReindexUnlink
      PROVE  hist' = hist /\ dur' = dur /\ Seen' = Seen
  <2>1. hist' = hist /\ dur' = dur /\ processor_' = processor_
    BY <1>4 DEF Flush, ChangeKey, ChangeKeyFails, ReindexSync, ReindexUnlink, history, memory
  <2>2. pc \notin {"down", "destroy"} /\ pc' \notin {"down", "destroy"}
    BY <1>4 DEF Flush, ChangeKey, ChangeKeyFails, ReindexSync, ReindexUnlink
  <2> QED BY <1>a, <1>b, <2>1, <2>2
<1>5. ASSUME Sync PROVE Durable!Next \/ (hist' = hist /\ dur' = dur /\ Seen' = Seen)
  <2>1. dur' \in {dur, Len(hist)} BY <1>5, LogSync
  <2>2. hist' = hist /\ processor_' = processor_ /\ pc = "run" /\ pc' = "run" BY <1>5 DEF Sync
  <2>3. Seen' = Seen BY <1>a, <1>b, <2>2
  <2> QED BY <2>1, <2>2, <2>3, AbstractSteps
<1>6. ASSUME Close PROVE Durable!Next
  <2>1. dur' \in {dur, Len(hist)} BY <1>6, LogClose
  <2>2. hist' = hist /\ pc' = "down" BY <1>6 DEF Close
  <2>3. Seen' = Down BY <1>c, <2>2
  <2> QED BY <2>1, <2>2, <2>3, AbstractSteps
<1>7. ASSUME ReindexRename PROVE Durable!Next
  <2>1. hist' = hist /\ dur' = Len(hist) /\ processor_' = processor_ /\ pc = "rx_rename" /\ pc' = "run"
    BY <1>7 DEF ReindexRename
  <2>2. Seen' = Seen BY <1>a, <1>b, <2>1
  <2> QED BY <2>1, <2>2, AbstractSteps
<1>8. ASSUME DestroyNew PROVE Durable!Next
  <2>1. pc' = "destroy" BY <1>8 DEF DestroyNew
  <2>2. (hist' = << >> /\ dur' = 0) \/ (hist' = hist /\ dur' = dur) BY <1>8 DEF DestroyNew, NoHistory, history
  <2>3. Seen' = Down BY <1>c, <2>1
  <2> QED BY <2>2, <2>3, AbstractSteps
<1>9. ASSUME DestroyMain PROVE Durable!Next
  <2>1. pc' = "down" /\ hist' = << >> /\ dur' = 0 BY <1>9 DEF DestroyMain, NoHistory
  <2> QED BY <1>c, <2>1, AbstractSteps
<1>10. ASSUME Kill \/ PowerLoss PROVE Durable!Next
  <2>1. pc' = "down" /\ hist' = hist /\ dur' = dur BY <1>10 DEF Kill, PowerLoss, history
  <2> QED BY <1>c, <2>1, AbstractSteps
<1>11. ASSUME UNCHANGED vars PROVE hist' = hist /\ dur' = dur /\ Seen' = Seen
  BY <1>11 DEF vars, memory, history, Seen
<1> QED BY <1>1, <1>2, <1>3, <1>4, <1>5, <1>6, <1>7, <1>8, <1>9, <1>10, <1>11 DEF Next

\* Binlog, with its encryption, its two files and its crashes, implements the
\* abstract durable log.
THEOREM ImplementsDurableLogHolds ==
  ASSUME ~ BadSizeTails, "cut" \notin FailOn
  PROVE  Spec => ImplementsDurableLog
<1>1. Init => Durable!Init BY DEF Init, Durable!Init
<1>2. KeyInv /\ LogInv /\ (KeyInv /\ LogInv)' /\ [Next]_vars
        => [Durable!Next]_<<hist, dur, IF pc \in {"down", "destroy"} THEN Down ELSE View(processor_)>>
  BY DurableStep DEF Kept, Seen
<1> QED BY <1>1, <1>2, LogInvariant, PTL DEF Spec, ImplementsDurableLog, Durable!Spec

=============================================================================
