------------------------- MODULE ApplicationProofs -------------------------
(***************************************************************************)
(* Proofs about the threads of the example application, for any number of  *)
(* clients, chats, updates and messages: the merged flags are what the     *)
(* retrievers found (AdFilter), one client at a time has the database      *)
(* (AuthorizationLoop), and the list of chats is right (ChatList).         *)
(*                                                                         *)
(* The theorems are about ThreadsSpec.  Application, which adds the search,*)
(* uses RECURSIVE operators; its specification implies ThreadsSpec.        *)
(***************************************************************************)
EXTENDS ApplicationThreads, WellFoundedInduction, TLAPS

\* What the sizes of AuthorizationLoop and ChatList are.
LEMMA BoundsOK == Clients \in Nat \ {0} /\ Errors \in Nat
BY ThreadsAssumption

\* The sizes of ChatList.
LEMMA SizesOK ==
  /\ MaxChat \in Nat \ {0} /\ MaxOrder \in Nat \ {0} /\ MaxUpdates \in Nat
  /\ Groups \subseteq 1 .. MaxChat /\ Limits \subseteq Nat \ {0} /\ Uses \in Nat
BY ThreadsAssumption

\* A set of natural numbers that is not empty has a least one.
LEMMA LeastNat ==
  ASSUME NEW S \in SUBSET Nat, S # {}
  PROVE  \E n \in S : \A m \in S : n <= m
<1>1. PICK n \in S : \A m \in S : ~ (<<m, n>> \in OpToRel(<, Nat))
  <2> S \subseteq Nat OBVIOUS
  <2> QED BY NatLessThanWellFounded, WFMin
<1>2. \A m \in S : ~ (m < n)
  BY <1>1 DEF OpToRel
<1> QED BY <1>2

-----------------------------------------------------------------------------
\* The two that add to the shared set in place find the same flag or nothing.
Writers == {"objects", "words"}
Words == {"TRIGGER_WORD"}

\* What some retriever finds in the message.
Found(f) == message.text /\ \E r \in Filter!Retrievers : f \in Filter!Finds(r, message)

\* A retriever that threw had no text; one that did not throw had one.
PlacesOK ==
  \A r \in Filter!Retrievers :
    /\ tasks[r].pc = "failed" => ~message.text
    /\ tasks[r].pc \in {"copied", "read", "done", "null"} => message.text
    /\ tasks[r].pc = "null" <=> r = "hashTags" /\ tasks[r].pc # "start" /\ tasks[r].pc # "failed"

\* The shared set, and every copy of it, holds nothing that was not found.
CopiesOK ==
  /\ \A f \in shared : f \in Words /\ Found(f)
  /\ \A r \in Filter!Retrievers : \A f \in tasks[r].flags : Found(f)

\* What a writer found is in the shared set when it is done: the other one writes
\* back what it read, but it adds the same flag.
WritersOK ==
  \A r \in Writers :
    /\ tasks[r].pc = "read" => tasks[r].flags \subseteq Words /\ Filter!Finds(r, message) # {}
    /\ tasks[r].pc = "done" => Filter!Finds(r, message) \subseteq shared

\* The two that copy the set have added what they found when they are done.
CopiersOK ==
  \A r \in {"links", "verbs"} : tasks[r].pc = "done" => Filter!Finds(r, message) \subseteq tasks[r].flags

\* What was merged.
MergedOK ==
  merged => result = IF message.text THEN UNION {Filter!Finds(r, message) : r \in Filter!Retrievers} ELSE {}

\* The invariant of the filter.
IInv == Filter!TypeOK /\ PlacesOK /\ CopiesOK /\ WritersOK /\ CopiersOK /\ MergedOK

-----------------------------------------------------------------------------
\* What the retrievers can find at all.
LEMMA FindsFacts ==
  ASSUME NEW m
  PROVE  /\ \A r \in Filter!Retrievers : Filter!Finds(r, m) \subseteq Filter!Flags
         /\ \A r \in Writers : Filter!Finds(r, m) \subseteq Words
         /\ Filter!Finds("hashTags", m) = {}
<1>1. Filter!Finds("links", m) = Filter!LinkFlags(m) /\ Filter!Finds("verbs", m) = Filter!VerbFlags(m)
  BY DEF Filter!Finds
<1>2. Filter!Finds("objects", m) = Filter!ObjectFlags(m) /\ Filter!Finds("words", m) = Filter!WordFlags(m)
  BY DEF Filter!Finds
<1>3. Filter!Finds("hashTags", m) = {}
  BY DEF Filter!Finds
<1>4. Filter!LinkFlags(m) \subseteq Filter!Flags /\ Filter!VerbFlags(m) \subseteq Filter!Flags
  BY DEF Filter!LinkFlags, Filter!VerbFlags, Filter!Flags
<1>5. Filter!ObjectFlags(m) \subseteq Words /\ Filter!WordFlags(m) \subseteq Words /\ Words \subseteq Filter!Flags
  BY DEF Filter!ObjectFlags, Filter!WordFlags, Words, Filter!Flags
<1> QED
  BY <1>1, <1>2, <1>3, <1>4, <1>5 DEF Filter!Retrievers, Writers

\* A retriever goes on.
LEMMA GoesFacts ==
  ASSUME Filter!TypeOK, NEW r \in Filter!Retrievers, NEW p \in {"start", "copied", "read"} \cup Filter!Ended,
         NEW fs \in SUBSET Filter!Flags, Filter!Goes(r, p, fs)
  PROVE  /\ tasks' \in [Filter!Retrievers -> [pc : {"start", "copied", "read"} \cup Filter!Ended, flags : SUBSET Filter!Flags]]
         /\ tasks'[r].pc = p /\ tasks'[r].flags = fs
         /\ \A q \in Filter!Retrievers : q # r => tasks'[q] = tasks[q]
<1>1. tasks \in [Filter!Retrievers -> [pc : {"start", "copied", "read"} \cup Filter!Ended, flags : SUBSET Filter!Flags]]
  BY DEF Filter!TypeOK
<1>2. PICK x : x = [pc |-> p, flags |-> fs]
  OBVIOUS
<1>3. x \in [pc : {"start", "copied", "read"} \cup Filter!Ended, flags : SUBSET Filter!Flags] /\ x.pc = p /\ x.flags = fs
  BY <1>2
<1>4. tasks' = [tasks EXCEPT ![r] = x]
  BY <1>2 DEF Filter!Goes
<1>5. tasks'[r] = x /\ \A q \in Filter!Retrievers : q # r => tasks'[q] = tasks[q]
  BY <1>1, <1>4
<1>6. tasks' \in [Filter!Retrievers -> [pc : {"start", "copied", "read"} \cup Filter!Ended, flags : SUBSET Filter!Flags]]
  BY <1>1, <1>3, <1>4
<1> QED
  BY <1>3, <1>5, <1>6

\* What a step of retriever r has to show: its own new place and flags, and that
\* the shared set, if it changed, grew by what was found.
LEMMA RetrieverInv ==
  ASSUME IInv, NEW r \in Filter!Retrievers, NEW p \in {"start", "copied", "read"} \cup Filter!Ended,
         NEW fs \in SUBSET Filter!Flags, Filter!Goes(r, p, fs),
         UNCHANGED <<message, adFilterIsOn, result, merged, shown>>,
         p = "failed" => ~message.text,
         p \in {"copied", "read", "done", "null"} => message.text,
         p = "null" <=> r = "hashTags" /\ p # "start" /\ p # "failed",
         \A f \in fs : Found(f),
         \A f \in shared' : f \in Words /\ Found(f),
         shared' = shared \/ Words \subseteq shared',
         r \in Writers /\ p = "read" => fs \subseteq Words /\ Filter!Finds(r, message) # {},
         r \in Writers /\ p = "done" => Filter!Finds(r, message) \subseteq shared',
         r \in {"links", "verbs"} /\ p = "done" => Filter!Finds(r, message) \subseteq fs
  PROVE  IInv'
<1>1. /\ tasks' \in [Filter!Retrievers -> [pc : {"start", "copied", "read"} \cup Filter!Ended, flags : SUBSET Filter!Flags]]
      /\ tasks'[r].pc = p /\ tasks'[r].flags = fs
      /\ \A q \in Filter!Retrievers : q # r => tasks'[q] = tasks[q]
  BY GoesFacts DEF IInv
<1>2. \A f : Found(f)' <=> Found(f)
  BY DEF Found
<1>3. Words \subseteq Filter!Flags
  BY DEF Words, Filter!Flags
<1>4. Filter!TypeOK'
  BY <1>1, <1>3 DEF IInv, Filter!TypeOK
<1>5. PlacesOK'
  <2> SUFFICES ASSUME NEW q \in Filter!Retrievers
               PROVE  /\ tasks'[q].pc = "failed" => ~message.text
                      /\ tasks'[q].pc \in {"copied", "read", "done", "null"} => message.text
                      /\ tasks'[q].pc = "null"
                           <=> q = "hashTags" /\ tasks'[q].pc # "start" /\ tasks'[q].pc # "failed"
    BY DEF PlacesOK
  <2>1. CASE q = r
    BY <1>1, <2>1
  <2>2. CASE q # r
    BY <1>1, <2>2 DEF IInv, PlacesOK
  <2> QED
    BY <2>1, <2>2
<1>6. CopiesOK'
  <2>1. \A q \in Filter!Retrievers : \A f \in tasks'[q].flags : Found(f)
    <3> SUFFICES ASSUME NEW q \in Filter!Retrievers, NEW f \in tasks'[q].flags PROVE Found(f)
      OBVIOUS
    <3>1. CASE q = r
      BY <1>1, <3>1
    <3>2. CASE q # r
      BY <1>1, <3>2 DEF IInv, CopiesOK
    <3> QED
      BY <3>1, <3>2
  <2> QED
    BY <1>2, <2>1 DEF CopiesOK
<1>7. WritersOK'
  <2> SUFFICES ASSUME NEW q \in Writers
               PROVE  /\ tasks'[q].pc = "read" => tasks'[q].flags \subseteq Words /\ Filter!Finds(q, message) # {}
                      /\ tasks'[q].pc = "done" => Filter!Finds(q, message) \subseteq shared'
    BY DEF WritersOK
  <2>1. CASE q = r
    BY <1>1, <2>1
  <2>2. CASE q # r
    <3>1. tasks'[q] = tasks[q]
      BY <1>1, <2>2 DEF Writers, Filter!Retrievers
    <3>2. /\ tasks[q].pc = "read" => tasks[q].flags \subseteq Words /\ Filter!Finds(q, message) # {}
          /\ tasks[q].pc = "done" => Filter!Finds(q, message) \subseteq shared
      BY DEF IInv, WritersOK
    <3>3. Filter!Finds(q, message) \subseteq Words
      BY FindsFacts
    <3> QED
      BY <3>1, <3>2, <3>3
  <2> QED
    BY <2>1, <2>2
<1>8. CopiersOK'
  <2> SUFFICES ASSUME NEW q \in {"links", "verbs"}, tasks'[q].pc = "done"
               PROVE  Filter!Finds(q, message) \subseteq tasks'[q].flags
    BY DEF CopiersOK
  <2>1. CASE q = r
    BY <1>1, <2>1
  <2>2. CASE q # r
    BY <1>1, <2>2 DEF IInv, CopiersOK, Filter!Retrievers
  <2> QED
    BY <2>1, <2>2
<1>9. MergedOK'
  BY DEF IInv, MergedOK
<1> QED
  BY <1>4, <1>5, <1>6, <1>7, <1>8, <1>9 DEF IInv

\* The retriever throws.
LEMMA ThrowsInv ==
  ASSUME IInv, NEW r \in Filter!Retrievers, Filter!Throws(r)
  PROVE  IInv'
<1>1. /\ tasks[r].pc = "start" /\ ~message.text /\ Filter!Goes(r, "failed", {})
      /\ UNCHANGED <<message, adFilterIsOn, shared, result, merged, shown>>
  BY DEF Filter!Throws
<1>2. "failed" \in {"start", "copied", "read"} \cup Filter!Ended
  BY <1>1 DEF Filter!Ended
<1>3. \A f \in shared' : f \in Words /\ Found(f)
  BY <1>1 DEF IInv, CopiesOK
<1> QED
  BY <1>1, <1>2, <1>3, RetrieverInv

\* A retriever works on a copy of the shared set.
LEMMA CopyFlagsInv ==
  ASSUME IInv, NEW r \in Filter!Retrievers, Filter!CopyFlags(r)
  PROVE  IInv'
<1>1. /\ message.text /\ r \in {"links", "verbs"}
      /\ UNCHANGED <<message, adFilterIsOn, shared, result, merged, shown>>
  BY DEF Filter!CopyFlags
<1>2. r # "hashTags" /\ r \notin Writers
  BY <1>1 DEF Writers
<1>3. \A f \in shared' : f \in Words /\ Found(f)
  BY <1>1 DEF IInv, CopiesOK
<1>4. shared \in SUBSET Filter!Flags /\ tasks[r].flags \in SUBSET Filter!Flags
  BY DEF IInv, Filter!TypeOK
<1>5. Filter!Finds(r, message) \in SUBSET Filter!Flags
  BY FindsFacts
<1>6. CASE tasks[r].pc = "start" /\ Filter!Goes(r, "copied", shared)
  <2>1. "copied" \in {"start", "copied", "read"} \cup Filter!Ended
    BY <1>6 DEF Filter!Ended
  <2>2. \A f \in shared : Found(f)
    BY DEF IInv, CopiesOK
  <2> QED
    BY <1>1, <1>2, <1>3, <1>4, <1>6, <2>1, <2>2, RetrieverInv
<1>7. CASE tasks[r].pc = "copied" /\ Filter!Goes(r, "done", tasks[r].flags \cup Filter!Finds(r, message))
  <2>1. "done" \in {"start", "copied", "read"} \cup Filter!Ended
    BY <1>7 DEF Filter!Ended
  <2>2. PICK fs : fs = tasks[r].flags \cup Filter!Finds(r, message)
    OBVIOUS
  <2>3. fs \in SUBSET Filter!Flags /\ Filter!Finds(r, message) \subseteq fs /\ Filter!Goes(r, "done", fs)
    BY <1>4, <1>5, <1>7, <2>2
  <2>4. \A f \in fs : Found(f)
    BY <1>1, <2>2 DEF IInv, CopiesOK, Found
  <2> QED
    BY <1>1, <1>2, <1>3, <2>1, <2>3, <2>4, RetrieverInv
<1> QED
  BY <1>6, <1>7 DEF Filter!CopyFlags

\* A retriever reads the shared set and writes it back with its own flag: what the
\* other one wrote in between is lost, but it is the same flag.
LEMMA AddFlagsInv ==
  ASSUME IInv, NEW r \in Filter!Retrievers, Filter!AddFlags(r)
  PROVE  IInv'
<1>1. /\ message.text /\ r \in Writers
      /\ UNCHANGED <<message, adFilterIsOn, result, merged, shown>>
  BY DEF Filter!AddFlags, Writers
<1>2. r # "hashTags" /\ r \notin {"links", "verbs"}
  BY <1>1 DEF Writers
<1>3. \A f \in shared : f \in Words /\ Found(f)
  BY DEF IInv, CopiesOK
<1>4. shared \in SUBSET Filter!Flags /\ {} \in SUBSET Filter!Flags
  BY DEF IInv, Filter!TypeOK
<1>5. Filter!Finds(r, message) \subseteq Words
  BY <1>1, FindsFacts
<1>6. CASE /\ tasks[r].pc = "start" /\ Filter!Finds(r, message) = {}
           /\ Filter!Goes(r, "done", {}) /\ UNCHANGED shared
  <2>1. "done" \in {"start", "copied", "read"} \cup Filter!Ended
    BY <1>6 DEF Filter!Ended
  <2> QED
    BY <1>1, <1>2, <1>3, <1>4, <1>6, <2>1, RetrieverInv
<1>7. CASE /\ tasks[r].pc = "start" /\ Filter!Finds(r, message) # {}
           /\ Filter!Goes(r, "read", shared) /\ UNCHANGED shared
  <2>1. "read" \in {"start", "copied", "read"} \cup Filter!Ended
    BY <1>7 DEF Filter!Ended
  <2>2. shared \subseteq Words
    BY <1>3
  <2> QED
    BY <1>1, <1>2, <1>3, <1>4, <1>7, <2>1, <2>2, RetrieverInv
<1>8. CASE /\ tasks[r].pc = "read" /\ shared' = tasks[r].flags \cup Filter!Finds(r, message)
           /\ Filter!Goes(r, "done", {})
  <2>1. "done" \in {"start", "copied", "read"} \cup Filter!Ended
    BY <1>8 DEF Filter!Ended
  <2>2. tasks[r].flags \subseteq Words /\ Filter!Finds(r, message) # {}
    BY <1>1, <1>8 DEF IInv, WritersOK
  <2>3. Filter!Finds(r, message) = Words
    BY <1>5, <2>2 DEF Words
  <2>4. Words \subseteq shared' /\ Filter!Finds(r, message) \subseteq shared'
    BY <1>8, <2>3
  <2>5. \A f \in shared' : f \in Words /\ Found(f)
    BY <1>1, <1>8, <2>2, <2>3 DEF IInv, CopiesOK, Found
  <2> QED
    BY <1>1, <1>2, <1>4, <1>8, <2>1, <2>4, <2>5, RetrieverInv
<1> QED
  BY <1>6, <1>7, <1>8 DEF Filter!AddFlags

\* The retriever of hash tags returns null.
LEMMA LogHashTagsInv ==
  ASSUME IInv, Filter!LogHashTags
  PROVE  IInv'
<1>1. /\ message.text /\ tasks["hashTags"].pc = "start" /\ Filter!Goes("hashTags", "null", {})
      /\ UNCHANGED <<message, adFilterIsOn, shared, result, merged, shown>>
  BY DEF Filter!LogHashTags
<1>2. PICK r : r = "hashTags"
  OBVIOUS
<1>3. r \in Filter!Retrievers /\ r \notin Writers /\ r \notin {"links", "verbs"}
  BY <1>2 DEF Filter!Retrievers, Writers
<1>4. "null" \in {"start", "copied", "read"} \cup Filter!Ended
  BY <1>1, <1>2 DEF Filter!Ended
<1>5. \A f \in shared' : f \in Words /\ Found(f)
  BY <1>1 DEF IInv, CopiesOK
<1> QED
  BY <1>1, <1>2, <1>3, <1>4, <1>5, RetrieverInv

\* All retrievers ended: the union of their answers is what they found.
LEMMA MergeInv ==
  ASSUME IInv, Filter!Merge
  PROVE  IInv'
<1>1. /\ \A r \in Filter!Retrievers : tasks[r].pc \in Filter!Ended
      /\ merged' = TRUE /\ result' = UNION {Filter!Answer(r) : r \in Filter!Retrievers}
      /\ UNCHANGED <<message, adFilterIsOn, shared, tasks, shown>>
  BY DEF Filter!Merge
<1>2. \A r \in Filter!Retrievers : \A f \in Filter!Answer(r) : Found(f)
  BY DEF Filter!Answer, IInv, CopiesOK
<1>3. ASSUME message.text, NEW r \in Filter!Retrievers PROVE Filter!Finds(r, message) \subseteq Filter!Answer(r)
  <2>1. CASE r = "hashTags"
    BY <2>1, FindsFacts
  <2>2. CASE r # "hashTags"
    <3>1. tasks[r].pc = "done"
      BY <1>1, <1>3, <2>2 DEF IInv, PlacesOK, Filter!Ended
    <3>2. CASE r \in Writers
      <4>1. Filter!Answer(r) = shared
        BY <3>1, <3>2 DEF Filter!Answer, Writers
      <4> QED
        BY <3>1, <3>2, <4>1 DEF IInv, WritersOK
    <3>3. CASE r \in {"links", "verbs"}
      <4>1. Filter!Answer(r) = tasks[r].flags
        BY <3>1, <3>3 DEF Filter!Answer
      <4> QED
        BY <3>1, <3>3, <4>1 DEF IInv, CopiersOK
    <3> QED
      BY <2>2, <3>2, <3>3 DEF Filter!Retrievers, Writers
  <2> QED
    BY <2>1, <2>2
<1>4. MergedOK'
  <2>1. CASE message.text
    <3>1. \A f \in result' : \E r \in Filter!Retrievers : f \in Filter!Finds(r, message)
      BY <1>1, <1>2 DEF Found
    <3>2. \A r \in Filter!Retrievers : Filter!Finds(r, message) \subseteq result'
      BY <1>1, <1>3, <2>1
    <3>3. result' = UNION {Filter!Finds(r, message) : r \in Filter!Retrievers}
      BY <3>1, <3>2
    <3> QED
      BY <1>1, <2>1, <3>3 DEF MergedOK
  <2>2. CASE ~message.text
    <3>1. result' = {}
      BY <1>1, <1>2, <2>2 DEF Found
    <3> QED
      BY <1>1, <2>2, <3>1 DEF MergedOK
  <2> QED
    BY <2>1, <2>2
<1>5. Filter!TypeOK'
  <2>1. result' \subseteq Filter!Flags
    BY <1>1, <1>2, FindsFacts DEF Found
  <2> QED
    BY <1>1, <2>1 DEF IInv, Filter!TypeOK
<1>6. PlacesOK' /\ CopiesOK' /\ WritersOK' /\ CopiersOK'
  BY <1>1 DEF IInv, PlacesOK, CopiesOK, WritersOK, CopiersOK, Found
<1> QED
  BY <1>4, <1>5, <1>6 DEF IInv

\* The viewer shows the message.
LEMMA ShowInv ==
  ASSUME IInv, Filter!Show
  PROVE  IInv'
<1>1. /\ shown' \in {"message", "advertisement"}
      /\ UNCHANGED <<message, adFilterIsOn, shared, tasks, result, merged>>
  BY DEF Filter!Show
<1>2. Filter!TypeOK'
  BY <1>1 DEF IInv, Filter!TypeOK
<1>3. PlacesOK' /\ CopiesOK' /\ WritersOK' /\ CopiersOK' /\ MergedOK'
  BY <1>1 DEF IInv, PlacesOK, CopiesOK, WritersOK, CopiersOK, MergedOK, Found
<1> QED
  BY <1>2, <1>3 DEF IInv

\* The invariant holds at the beginning.
LEMMA FilterStarts ==
  ASSUME Filter!Init
  PROVE  IInv
<1>1. /\ message \in Filter!Messages /\ adFilterIsOn \in BOOLEAN /\ shared = {} /\ result = {}
      /\ merged = FALSE /\ shown = "nothing"
      /\ tasks = [r \in Filter!Retrievers |-> [pc |-> "start", flags |-> {}]]
  BY DEF Filter!Init
<1>2. \A r \in Filter!Retrievers : tasks[r].pc = "start" /\ tasks[r].flags = {}
  BY <1>1
<1>3. Filter!TypeOK
  BY <1>1 DEF Filter!TypeOK
<1>4. PlacesOK /\ CopiesOK /\ MergedOK
  BY <1>1, <1>2 DEF PlacesOK, CopiesOK, MergedOK
<1>5. WritersOK /\ CopiersOK
  BY <1>2 DEF WritersOK, CopiersOK, Writers, Filter!Retrievers
<1> QED
  BY <1>3, <1>4, <1>5 DEF IInv

\* Every step keeps it.
LEMMA FilterGoesOn ==
  ASSUME IInv, [Filter!Next]_(Filter!vars)
  PROVE  IInv'
<1>1. CASE \E r \in Filter!Retrievers : Filter!Throws(r) \/ Filter!CopyFlags(r) \/ Filter!AddFlags(r)
  BY <1>1, ThrowsInv, CopyFlagsInv, AddFlagsInv
<1>2. CASE Filter!LogHashTags
  BY <1>2, LogHashTagsInv
<1>3. CASE Filter!Merge
  BY <1>3, MergeInv
<1>4. CASE Filter!Show
  BY <1>4, ShowInv
<1>5. CASE UNCHANGED Filter!vars
  BY <1>5 DEF Filter!vars, IInv, Filter!TypeOK, PlacesOK, CopiesOK, WritersOK, CopiersOK, MergedOK,
     Found
<1> QED
  BY <1>1, <1>2, <1>3, <1>4, <1>5 DEF Filter!Next

-----------------------------------------------------------------------------
(* Sequences *)

\* Short sequences.
LEMMA LenNone ==
  ASSUME NEW R, NEW s \in Seq(R), Len(s) = 0
  PROVE  s = << >>
OBVIOUS

\* A sequence of two.
LEMMA LenTwo ==
  ASSUME NEW R, NEW s \in Seq(R), Len(s) = 2
  PROVE  s = <<s[1], s[2]>>
OBVIOUS

\* Two is one and one.
LEMMA OneAndOne ==
  ASSUME NEW i \in Nat, NEW j \in Nat, i >= 1, j >= 1, i + j = 2
  PROVE  i = 1 /\ j = 1
OBVIOUS

\* The first and the rest of short sequences.
LEMMA Tuples ==
  ASSUME NEW x, NEW y
  PROVE  /\ <<x>> # << >> /\ Head(<<x>>) = x /\ Tail(<<x>>) = << >>
         /\ <<x, y>> # << >> /\ Head(<<x, y>>) = x /\ Tail(<<x, y>>) = <<y>>
         /\ Append(<< >>, x) = <<x>> /\ Append(<<x>>, y) = <<x, y>>
<1>1. Len(<<x>>) = 1 /\ Len(<<x, y>>) = 2 /\ <<x>>[1] = x /\ <<x, y>>[1] = x /\ <<x, y>>[2] = y OBVIOUS
<1>2. <<x>> # << >> /\ <<x, y>> # << >> BY <1>1
<1>3. Head(<<x>>) = x /\ Head(<<x, y>>) = x BY <1>1
<1>4. <<x>> \in Seq({x, y}) /\ <<x, y>> \in Seq({x, y}) /\ << >> \in Seq({x, y}) OBVIOUS
<1>5. Tail(<<x>>) = << >>
  <2>1. Len(Tail(<<x>>)) = 0 /\ Tail(<<x>>) \in Seq({x, y}) BY <1>1, <1>2, <1>4
  <2> QED BY <2>1
<1>6. Tail(<<x, y>>) = <<y>>
  <2>1. Len(Tail(<<x, y>>)) = 1 /\ Tail(<<x, y>>) \in Seq({x, y}) /\ Tail(<<x, y>>)[1] = y
    BY <1>1, <1>2, <1>4
  <2> QED BY <2>1
<1>7. Append(<< >>, x) = <<x>> OBVIOUS
<1>8. Append(<<x>>, y) = <<x, y>>
  <2>1. /\ Append(<<x>>, y) \in Seq({x, y}) /\ Len(Append(<<x>>, y)) = 2
        /\ Append(<<x>>, y)[1] = x /\ Append(<<x>>, y)[2] = y
    BY <1>1, <1>4
  <2> QED BY <2>1, LenTwo
<1> QED BY <1>2, <1>3, <1>5, <1>6, <1>7, <1>8

\* What goes from the second sequence to the end of the first.
LEMMA JoinMoves ==
  ASSUME NEW R, NEW T, NEW b \in Seq(R), NEW o \in Seq(T), o # << >>
  PROVE  Append(b, Head(o)) \o Tail(o) = b \o o
OBVIOUS

\* What is taken from the first one.
LEMMA JoinTail ==
  ASSUME NEW R, NEW T, NEW b \in Seq(R), NEW o \in Seq(T), b # << >>
  PROVE  b \o o # << >> /\ Head(b \o o) = Head(b) /\ Tail(b) \o o = Tail(b \o o)
OBVIOUS

\* What is put behind both.
LEMMA JoinAppend ==
  ASSUME NEW R, NEW T, NEW b \in Seq(R), NEW o \in Seq(T), NEW x \in T
  PROVE  b \o Append(o, x) = Append(b \o o, x)
OBVIOUS

\* Nothing in both.
LEMMA JoinNone ==
  ASSUME NEW R, NEW T, NEW b \in Seq(R), NEW o \in Seq(T)
  PROVE  /\ b \o o = << >> <=> b = << >> /\ o = << >>
         /\ o = << >> => b \o o = b
         /\ b = << >> => b \o o = o
OBVIOUS

\* The last of both, when there are one or two and it cannot be in the first sequence.
LEMMA JoinLast ==
  ASSUME NEW R, NEW T, NEW b \in Seq(R), NEW o \in Seq(T), o # << >>, Head(o) \notin R
  PROVE  \A x : /\ b \o o = <<Head(o)>> => b = << >> /\ Tail(o) = << >>
                /\ b \o o = <<x, Head(o)>> /\ x \in R => b \o Tail(o) = <<x>>
                /\ b \o o = <<x>> => x = Head(o)
<1> DEFINE y == Head(o)
<1> SUFFICES ASSUME NEW x
             PROVE  /\ b \o o = <<y>> => b = << >> /\ Tail(o) = << >>
                    /\ b \o o = <<x, y>> /\ x \in R => b \o Tail(o) = <<x>>
                    /\ b \o o = <<x>> => x = y
  OBVIOUS
<1>a. Head(o) = y /\ y \notin R OBVIOUS
<1> HIDE DEF y
<1>1. Len(b) \in Nat /\ Len(o) \in Nat /\ Len(o) >= 1 /\ Len(b \o o) = Len(b) + Len(o) OBVIOUS
<1>2. b # << >> => Len(b) >= 1 /\ b[1] \in R /\ (b \o o)[1] = b[1] OBVIOUS
<1>3. b = << >> => b \o o = o /\ b \o Tail(o) = Tail(o) OBVIOUS
<1>4. Len(<<y>>) = 1 /\ <<y>>[1] = y /\ Len(<<x, y>>) = 2 /\ Len(<<x>>) = 1 /\ <<x>>[1] = x
      /\ <<x, y>>[1] = x
  OBVIOUS
<1>5. ASSUME b \o o = <<y>> PROVE b = << >> /\ Tail(o) = << >>
  <2>1. b = << >> BY <1>2, <1>4, <1>5, <1>a
  <2>2. o = <<y>> BY <2>1, <1>3, <1>5
  <2> QED BY <2>1, <2>2, Tuples
<1>6. ASSUME b \o o = <<x>> PROVE x = y
  <2>1. b = << >> BY <1>1, <1>2, <1>4, <1>6
  <2> QED BY <2>1, <1>3, <1>6, <1>a, Tuples
<1>7. ASSUME b \o o = <<x, y>>, x \in R PROVE b \o Tail(o) = <<x>>
  <2>1. b # << >>
    <3> SUFFICES ASSUME b = << >> PROVE FALSE OBVIOUS
    <3>1. o = <<x, y>> BY <1>3, <1>7
    <3>2. Head(<<x, y>>) = x BY Tuples
    <3> QED BY <3>1, <3>2, <1>7, <1>a
  <2>a. Len(b) + Len(o) = 2 BY <1>1, <1>4, <1>7
  <2>b. (b \o o)[1] = x BY <1>4, <1>7
  <2>c. Len(b) >= 1 BY <2>1, <1>2
  <2>d. Len(b) = 1 /\ Len(o) = 1 BY <2>a, <2>c, <1>1, OneAndOne
  <2>e. b[1] = x BY <2>1, <2>b, <1>2
  <2>2. Len(b) = 1 /\ Len(o) = 1 /\ b[1] = x BY <2>d, <2>e
  <2>f. Len(Tail(o)) = 0 /\ Tail(o) \in Seq(T) BY <2>d
  <2>3. Tail(o) = << >> BY <2>f, LenNone
  <2>4. b = <<x>> BY <2>2
  <2>5. b \o << >> = b OBVIOUS
  <2> QED BY <2>3, <2>4, <2>5
<1> QED BY <1>5, <1>6, <1>7

-----------------------------------------------------------------------------
(* The newest client *)

\* n is the newest client of t.
IsNewest(t, n) ==
  /\ n \in 0 .. Clients
  /\ n > 0 => t[n].state # "none"
  /\ \A d \in Login!Ids : d > n => t[d].state = "none"

\* The newest client of t.
NewestOf(t) ==
  CHOOSE c \in 0 .. Clients :
    /\ c > 0 => t[c].state # "none"
    /\ \A d \in Login!Ids : d > c => t[d].state = "none"

\* There is one.
LEMMA NewestExists ==
  ASSUME NEW t
  PROVE  IsNewest(t, NewestOf(t))
<1> DEFINE K == {n \in Nat : n <= Clients /\ \A d \in Login!Ids : d > n => t[d].state = "none"}
<1>1. Clients \in K BY BoundsOK DEF Login!Ids
<1>2. PICK n \in K : \A m \in K : n <= m
  <2>1. K \in SUBSET Nat /\ K # {} BY <1>1
  <2> HIDE DEF K
  <2> QED BY <2>1, LeastNat
<1>3. n \in 0 .. Clients /\ \A d \in Login!Ids : d > n => t[d].state = "none" BY BoundsOK
<1>4. ASSUME n > 0, t[n].state = "none" PROVE FALSE
  <2>1. n - 1 \in Nat /\ n - 1 <= Clients BY <1>3, <1>4, BoundsOK
  <2>2. ASSUME NEW d \in Login!Ids, d > n - 1 PROVE t[d].state = "none"
    <3>1. d = n \/ d > n BY <2>2, <1>3 DEF Login!Ids
    <3> QED BY <3>1, <1>3, <1>4
  <2>3. n - 1 \in K BY <2>1, <2>2
  <2>4. n <= n - 1 BY <2>3, <1>2
  <2> QED BY <2>4, <1>3
<1>5. \E c \in 0 .. Clients :
        (c > 0 => t[c].state # "none") /\ \A d \in Login!Ids : d > c => t[d].state = "none"
  BY <1>3, <1>4
<1> QED BY <1>5 DEF NewestOf, IsNewest

\* There is only one.
LEMMA NewestUnique ==
  ASSUME NEW t, NEW n, IsNewest(t, n)
  PROVE  NewestOf(t) = n
<1> DEFINE m == NewestOf(t)
<1>1. IsNewest(t, m) BY NewestExists
<1> HIDE DEF m
<1>2. m \in 0 .. Clients /\ n \in 0 .. Clients BY <1>1 DEF IsNewest
<1>3. ~ (m > n)
  <2> SUFFICES ASSUME m > n PROVE FALSE OBVIOUS
  <2>1. m \in Login!Ids /\ m > 0 BY <1>2, BoundsOK DEF Login!Ids
  <2> QED BY <2>1, <1>1 DEF IsNewest
<1>4. ~ (n > m)
  <2> SUFFICES ASSUME n > m PROVE FALSE OBVIOUS
  <2>1. n \in Login!Ids /\ n > 0 BY <1>2, BoundsOK DEF Login!Ids
  <2> QED BY <2>1, <1>1 DEF IsNewest
<1>5. m = n BY <1>2, <1>3, <1>4, BoundsOK
<1> QED BY <1>5 DEF m

\* Newest of AuthorizationLoop is the newest client of tds.
LEMMA NewestIs == Login!Newest = NewestOf(tds)
BY DEF Login!Newest, NewestOf

-----------------------------------------------------------------------------
(* Types *)

\* The states of an instance, its requests and its responses, and where the threads are.
States == Login!AuthStates \cup {"none", "fresh", "gone"}
Requests == {"start", "params", "key", "login", "logOut", "close"}
Instances == [state : States, inbox : Seq(Requests), hung : BOOLEAN]
Handled == [client : Login!Ids, what : Login!AuthStates \cup {"error"}]
Responses == [client : Login!Ids, what : Login!AuthStates \cup {"error", "report"}]
Mains == {"create", "assign", "loop", "await", "waiting", "commands", "prompt", "lo", "q",
          "logOut", "close", "drain", "done"}
Places == {"collect", "handle", "prompt", "signal", "create", "assign"}

\* What the threads of the application hold.
ThreadsTyped ==
  /\ main \in Mains /\ recv \in [pc : Places, batch : Seq(Handled)]
  /\ last \in Login!AuthStates \cup {"none"}
  /\ haveAuthorization \in BOOLEAN /\ needQuit \in BOOLEAN /\ canQuit \in BOOLEAN
  /\ serverLogout \in BOOLEAN /\ slowAssign \in BOOLEAN
\* What TDLib holds.
LibraryTyped ==
  /\ tds \in [Login!Ids -> Instances] /\ out \in Seq(Responses) /\ errors \in 0 .. Errors
\* The field client names a client that was created.
ClientTyped == client \in 0 .. Clients /\ (client > 0 => tds[client].state # "none")

AuthTypes == ThreadsTyped /\ LibraryTyped /\ ClientTyped /\ Login!NoLostWakeup

\* AuthTypes is stronger than TypeOK.
LEMMA AuthTypesOK ==
  ASSUME AuthTypes
  PROVE  Login!TypeOK
<1> DEFINE n == Login!Newest
<1>1. IsNewest(tds, n) BY NewestExists, NewestIs
<1> HIDE DEF n
<1>2. client \in 0 .. n
  <2>1. client \in 0 .. Clients /\ n \in 0 .. Clients BY <1>1 DEF AuthTypes, ClientTyped, IsNewest
  <2>2. ASSUME client > n PROVE FALSE
    <3>1. client \in Login!Ids /\ client > 0 BY <2>1, <2>2, BoundsOK DEF Login!Ids
    <3> QED BY <3>1, <2>2, <1>1 DEF IsNewest, AuthTypes, ClientTyped
  <2> QED BY <2>1, <2>2, BoundsOK
<1>3. client \in 0 .. Login!Newest BY <1>2 DEF n
<1>4. recv.pc \in Places /\ \A k \in DOMAIN recv.batch : recv.batch[k].what \in Login!AuthStates \cup {"error"}
  <2>1. recv.pc \in Places /\ recv.batch \in Seq(Handled) BY DEF AuthTypes, ThreadsTyped
  <2>2. \A k \in DOMAIN recv.batch : recv.batch[k] \in Handled BY <2>1
  <2>3. \A r \in Handled : r.what \in Login!AuthStates \cup {"error"} BY DEF Handled
  <2> QED BY <2>1, <2>2, <2>3
<1>5. \A c \in Login!Ids : tds[c].state \in Login!AuthStates \cup {"none", "fresh", "gone"}
  BY DEF AuthTypes, LibraryTyped, Instances, States
<1>6. Login!flags \in BOOLEAN \X BOOLEAN \X BOOLEAN BY DEF Login!flags, AuthTypes, ThreadsTyped
<1> QED
  BY <1>3, <1>4, <1>5, <1>6 DEF Login!TypeOK, AuthTypes, ThreadsTyped, LibraryTyped, Mains, Places

\* An instance in which only the state, the inbox or the flag changes.
LEMMA InstanceParts ==
  ASSUME NEW c \in Login!Ids, LibraryTyped
  PROVE  /\ tds[c] \in Instances
         /\ \A s \in States : [tds[c] EXCEPT !.state = s] \in Instances
         /\ \A q \in Requests : [tds[c] EXCEPT !.inbox = Append(@, q)] \in Instances
         /\ tds[c].inbox # << >> =>
              /\ [tds[c] EXCEPT !.inbox = Tail(@)] \in Instances
              /\ Head(tds[c].inbox) \in Requests
         /\ [tds[c] EXCEPT !.hung = TRUE] \in Instances
<1> DEFINE td == tds[c]
<1>1. td \in Instances BY DEF LibraryTyped
<1>2. td \in [state : States, inbox : Seq(Requests), hung : BOOLEAN] BY <1>1 DEF Instances
<1> HIDE DEF td
<1>3. td.inbox \in Seq(Requests) BY <1>2
<1>4. ASSUME NEW s \in States PROVE [td EXCEPT !.state = s] \in Instances BY <1>2 DEF Instances
<1>5. ASSUME NEW q \in Requests PROVE [td EXCEPT !.inbox = Append(@, q)] \in Instances
  <2>1. Append(td.inbox, q) \in Seq(Requests) BY <1>3
  <2> QED BY <2>1, <1>2 DEF Instances
<1>6. ASSUME td.inbox # << >>
      PROVE  [td EXCEPT !.inbox = Tail(@)] \in Instances /\ Head(td.inbox) \in Requests
  <2>1. Tail(td.inbox) \in Seq(Requests) /\ Head(td.inbox) \in Requests BY <1>3, <1>6
  <2> QED BY <2>1, <1>2 DEF Instances
<1>7. [td EXCEPT !.hung = TRUE] \in Instances BY <1>2 DEF Instances
<1> QED BY <1>1, <1>4, <1>5, <1>6, <1>7 DEF td

\* Create makes an instance of the newest number.
LEMMA CreateTyped ==
  ASSUME LibraryTyped, Login!Create
  PROVE  /\ tds' \in [Login!Ids -> Instances]
         /\ \A c \in Login!Ids : tds[c].state # "none" => tds'[c].state # "none"
<1>1. IsNewest(tds, Login!Newest) BY NewestExists, NewestIs
<1>2. Login!Newest + 1 \in Login!Ids BY <1>1, BoundsOK DEF IsNewest, Login!Create, Login!Ids
<1>3. [state |-> "fresh", inbox |-> <<"start">>, hung |-> FALSE] \in Instances
  BY DEF Instances, States, Requests
<1> QED BY <1>2, <1>3 DEF Login!Create, LibraryTyped

\* Send asks an instance, or answers for it.
LEMMA SendTyped ==
  ASSUME LibraryTyped, NEW c \in 0 .. Clients, NEW q \in Requests, Login!Send(c, q)
  PROVE  /\ tds' \in [Login!Ids -> Instances] /\ out' \in Seq(Responses)
         /\ \A d \in Login!Ids : tds'[d].state = tds[d].state
<1>1. CASE c = 0 BY <1>1 DEF Login!Send, LibraryTyped
<1>2. CASE c # 0
  <2>1. c \in Login!Ids BY <1>2, BoundsOK DEF Login!Ids
  <2>2. Login!Response(c, "error") \in Responses BY <2>1 DEF Login!Response, Responses
  <2>3. CASE tds[c].hung BY <1>2, <2>2, <2>3 DEF Login!Send, LibraryTyped
  <2>4. CASE ~ tds[c].hung
    <3>1. tds' = [tds EXCEPT ![c] = [tds[c] EXCEPT !.inbox = Append(@, q)]] /\ out' = out
      BY <1>2, <2>4 DEF Login!Send, LibraryTyped
    <3>2. [tds[c] EXCEPT !.inbox = Append(@, q)] \in Instances BY <2>1, InstanceParts
    <3>3. [tds[c] EXCEPT !.inbox = Append(@, q)].state = tds[c].state
      BY <2>1 DEF LibraryTyped, Instances
    <3> QED BY <3>1, <3>2, <3>3, <2>1 DEF LibraryTyped
  <2> QED BY <2>3, <2>4
<1> QED BY <1>1, <1>2

\* One lemma per action: the types, and no signal of the authorization is lost.
LEMMA CollectTyped ==
  ASSUME AuthTypes, Login!Collect, UNCHANGED Login!environment
  PROVE  AuthTypes'
<1> USE DEF AuthTypes
<1>1. UNCHANGED <<main, client, haveAuthorization, needQuit, canQuit, last, errors, serverLogout, slowAssign>>
  BY DEF Login!Collect, Login!flags, Login!environment
<1>2. recv.batch \in Seq(Handled) /\ recv \in [pc : Places, batch : Seq(Handled)] /\ out \in Seq(Responses)
  BY DEF ThreadsTyped, LibraryTyped
<1>3. out # << >> => Head(out) \in Responses /\ Tail(out) \in Seq(Responses) BY <1>2
<1>4. recv' \in [pc : Places, batch : Seq(Handled)] /\ recv'.pc \in {"collect", "handle"}
  <2>1. CASE out # << >> /\ Head(out).what # "report" /\ recv' = [recv EXCEPT !.batch = Append(@, Head(out))]
    <3>1. Head(out) \in Handled BY <1>3, <2>1 DEF Responses, Handled
    <3>2. Append(recv.batch, Head(out)) \in Seq(Handled) BY <3>1, <1>2
    <3> QED BY <2>1, <3>2, <1>2 DEF Login!Collect
  <2>2. CASE recv' = [recv EXCEPT !.pc = "handle"] BY <2>2, <1>2 DEF Places
  <2> QED BY <2>1, <2>2 DEF Login!Collect
<1>5. out' \in Seq(Responses) BY <1>2, <1>3 DEF Login!Collect
<1>6. tds' \in [Login!Ids -> Instances] /\ \A c \in Login!Ids : tds'[c].state = tds[c].state
  <2>1. CASE UNCHANGED tds BY <2>1 DEF LibraryTyped
  <2>2. CASE out # << >> /\ tds' = [tds EXCEPT ![Head(out).client].hung = TRUE]
    <3>1. Head(out).client \in Login!Ids BY <1>3, <2>2 DEF Responses
    <3>2. tds' = [tds EXCEPT ![Head(out).client] = [tds[Head(out).client] EXCEPT !.hung = TRUE]]
      BY <2>2
    <3>3. [tds[Head(out).client] EXCEPT !.hung = TRUE] \in Instances BY <3>1, InstanceParts
    <3>4. [tds[Head(out).client] EXCEPT !.hung = TRUE].state = tds[Head(out).client].state
      BY <3>1 DEF LibraryTyped, Instances
    <3> QED BY <3>1, <3>2, <3>3, <3>4 DEF LibraryTyped
  <2> QED BY <2>1, <2>2 DEF Login!Collect
<1>7. client > 0 /\ client \in 0 .. Clients => client \in Login!Ids BY BoundsOK DEF Login!Ids
<1>8. Login!NoLostWakeup' BY <1>1 DEF Login!NoLostWakeup, Login!Collect
<1>9. ThreadsTyped' BY <1>1, <1>4 DEF ThreadsTyped
<1>10. LibraryTyped' BY <1>1, <1>5, <1>6 DEF LibraryTyped
<1>11. ClientTyped' BY <1>1, <1>6, <1>7 DEF ClientTyped
<1> QED BY <1>8, <1>9, <1>10, <1>11

\* A step of the receiver that goes to the place p with the rest of the batch.
LEMMA GoesTyped ==
  ASSUME ThreadsTyped, NEW p \in Places, Login!Goes(p), recv.batch # << >>
  PROVE  recv' \in [pc : Places, batch : Seq(Handled)] /\ recv'.pc = p /\ recv'.batch = Tail(recv.batch)
<1>1. recv.batch \in Seq(Handled) BY DEF ThreadsTyped
<1>2. Tail(recv.batch) \in Seq(Handled) BY <1>1
<1> QED BY <1>2 DEF Login!Goes

\* The handler takes over a state of the authorization.
LEMMA StateUpdatedTyped ==
  ASSUME AuthTypes, NEW state \in Login!AuthStates \cup {"none"}, Login!StateUpdated(state), recv.batch # << >>, recv.pc = "handle",
         last' \in Login!AuthStates \cup {"none"}, UNCHANGED Login!environment
  PROVE  AuthTypes'
<1> USE DEF AuthTypes
<1>1. UNCHANGED <<main, client, needQuit, errors, serverLogout, slowAssign>>
  BY DEF Login!StateUpdated, Login!environment
<1>2. /\ recv' \in [pc : Places, batch : Seq(Handled)]
      /\ haveAuthorization' \in BOOLEAN /\ canQuit' \in BOOLEAN
      /\ haveAuthorization' => haveAuthorization \/ recv'.pc = "signal"
  <2>1. PICK p \in Places :
          /\ Login!Goes(p) /\ haveAuthorization' \in {haveAuthorization, TRUE, FALSE} /\ canQuit' \in {canQuit, TRUE}
          /\ haveAuthorization' = haveAuthorization \/ haveAuthorization' = FALSE \/ p = "signal"
    BY DEF Login!StateUpdated, Login!OnReady, Login!OnClosing, Login!OnClosed, Places
  <2>2. recv' \in [pc : Places, batch : Seq(Handled)] /\ recv'.pc = p BY <2>1, GoesTyped
  <2> QED BY <2>1, <2>2 DEF ThreadsTyped
<1>3. tds' \in [Login!Ids -> Instances] /\ out' \in Seq(Responses) /\ \A c \in Login!Ids : tds'[c].state = tds[c].state
  <2>1. CASE UNCHANGED <<tds, out>> BY <2>1 DEF LibraryTyped
  <2>2. CASE \E q \in Requests : Login!Send(client, q)
    BY <2>2, SendTyped DEF ClientTyped
  <2> QED BY <2>1, <2>2 DEF Login!StateUpdated, Requests
<1>7. client > 0 /\ client \in 0 .. Clients => client \in Login!Ids BY BoundsOK DEF Login!Ids
<1>8. Login!NoLostWakeup' BY <1>1, <1>2 DEF Login!NoLostWakeup
<1>9. ThreadsTyped' BY <1>1, <1>2 DEF ThreadsTyped
<1>10. LibraryTyped' BY <1>1, <1>3 DEF LibraryTyped
<1>11. ClientTyped' BY <1>1, <1>3, <1>7 DEF ClientTyped
<1> QED BY <1>8, <1>9, <1>10, <1>11

\* It handles a response of the batch.
LEMMA HandleTyped ==
  ASSUME AuthTypes, Login!HandleResponse, UNCHANGED Login!environment
  PROVE  AuthTypes'
<1>1. recv.batch # << >> /\ recv.pc = "handle" /\ recv.batch \in Seq(Handled)
  BY DEF Login!HandleResponse, AuthTypes, ThreadsTyped
<1>2. Head(recv.batch) \in Handled BY <1>1
<1>3. CASE Head(recv.batch).what = "error"
  <2>1. Login!StateUpdated(last) /\ last' = last BY <1>3 DEF Login!HandleResponse, Login!Repeated
  <2>2. last \in Login!AuthStates \cup {"none"} BY DEF AuthTypes, ThreadsTyped
  <2> QED BY <2>1, <2>2, <1>1, StateUpdatedTyped
<1>4. CASE Head(recv.batch).what # "error"
  <2>1. Login!StateUpdated(Head(recv.batch).what) /\ last' = Head(recv.batch).what
    BY <1>4 DEF Login!HandleResponse
  <2>2. Head(recv.batch).what \in Login!AuthStates \cup {"none"} BY <1>2, <1>4 DEF Handled
  <2> QED BY <2>1, <2>2, <1>1, StateUpdatedTyped
<1> QED BY <1>3, <1>4

\* The steps of the receiver thread.
LEMMA ReceiverTyped ==
  ASSUME AuthTypes, Login!Receiver, UNCHANGED Login!environment
  PROVE  AuthTypes'
<1> USE DEF AuthTypes
<1>0. client > 0 /\ client \in 0 .. Clients => client \in Login!Ids BY BoundsOK DEF Login!Ids
<1>1. CASE Login!Collect BY <1>1, CollectTyped
<1>2. CASE Login!BatchEnds
  BY <1>2 DEF Login!BatchEnds, Login!flags, Login!environment, ThreadsTyped, LibraryTyped,
     ClientTyped, Login!NoLostWakeup, Places
<1>3. CASE Login!HandleResponse BY <1>3, HandleTyped
<1>4. CASE Login!PromptAnswered
  <2>1. tds' \in [Login!Ids -> Instances] /\ out' \in Seq(Responses) /\ \A c \in Login!Ids : tds'[c].state = tds[c].state
    BY <1>4, SendTyped DEF Login!PromptAnswered, ClientTyped, Requests
  <2>2. ThreadsTyped' /\ Login!NoLostWakeup'
    BY <1>4 DEF Login!PromptAnswered, Login!flags, Login!environment, ThreadsTyped,
       Login!NoLostWakeup, Places
  <2> QED BY <1>0, <1>4, <2>1, <2>2 DEF Login!PromptAnswered, LibraryTyped, ClientTyped
<1>5. CASE Login!Signal
  BY <1>5 DEF Login!Signal, Login!flags, Login!environment, ThreadsTyped, LibraryTyped,
     ClientTyped, Login!NoLostWakeup, Places, Mains
<1>6. CASE Login!Recreate
  <2>1. ThreadsTyped' /\ Login!NoLostWakeup'
    BY <1>6 DEF Login!Recreate, Login!flags, Login!environment, ThreadsTyped, Login!NoLostWakeup,
       Places
  <2> QED BY <1>0, <1>6, <2>1, CreateTyped DEF Login!Recreate, LibraryTyped, ClientTyped
<1>7. CASE Login!Reassign
  <2>1. IsNewest(tds, client') BY <1>7, NewestExists, NewestIs DEF Login!Reassign
  <2>2. ThreadsTyped' /\ Login!NoLostWakeup'
    BY <1>7 DEF Login!Reassign, Login!flags, Login!environment, ThreadsTyped, Login!NoLostWakeup,
       Places
  <2> QED BY <1>7, <2>1, <2>2 DEF Login!Reassign, LibraryTyped, ClientTyped, IsNewest
<1> QED BY <1>1, <1>2, <1>3, <1>4, <1>5, <1>6, <1>7 DEF Login!Receiver

\* The steps of the main thread, and of the user who types a command.
LEMMA MainTyped ==
  ASSUME AuthTypes, Login!MainThread \/ \E c \in {"other", "lo", "q"} : Login!Command(c), UNCHANGED Login!environment
  PROVE  AuthTypes'
<1> USE DEF AuthTypes
<1>0. client > 0 /\ client \in 0 .. Clients => client \in Login!Ids BY BoundsOK DEF Login!Ids
<1>1. CASE Login!MainCreate
  <2>1. ThreadsTyped' /\ Login!NoLostWakeup'
    BY <1>1 DEF Login!MainCreate, Login!flags, Login!environment, ThreadsTyped, Login!NoLostWakeup,
       Mains
  <2> QED BY <1>0, <1>1, <2>1, CreateTyped DEF Login!MainCreate, LibraryTyped, ClientTyped
<1>2. CASE Login!MainAssign
  <2>1. IsNewest(tds, client') BY <1>2, NewestExists, NewestIs DEF Login!MainAssign
  <2>2. ThreadsTyped' /\ Login!NoLostWakeup'
    BY <1>2 DEF Login!MainAssign, Login!flags, Login!environment, ThreadsTyped, Login!NoLostWakeup,
       Mains
  <2> QED BY <1>2, <2>1, <2>2 DEF Login!MainAssign, LibraryTyped, ClientTyped, IsNewest
<1>3. CASE Login!MainStep
  <2>1. main' \in Mains /\ (main' = "waiting" => main = "waiting" \/ ~ haveAuthorization)
    BY <1>3 DEF Login!MainStep, ThreadsTyped, Mains
  <2> QED
    BY <1>3, <2>1 DEF Login!MainStep, Login!flags, Login!environment, ThreadsTyped, LibraryTyped,
       ClientTyped, Login!NoLostWakeup
<1>4. CASE Login!ForgetAuthorization
  BY <1>4 DEF Login!ForgetAuthorization, Login!environment, ThreadsTyped, LibraryTyped,
     ClientTyped, Login!NoLostWakeup, Mains
<1>5. CASE Login!SendCommand
  <2>1. tds' \in [Login!Ids -> Instances] /\ out' \in Seq(Responses) /\ \A c \in Login!Ids : tds'[c].state = tds[c].state
    BY <1>5, SendTyped DEF Login!SendCommand, ClientTyped, Requests
  <2>2. ThreadsTyped' /\ Login!NoLostWakeup'
    BY <1>5 DEF Login!SendCommand, Login!flags, Login!environment, ThreadsTyped,
       Login!NoLostWakeup, Mains
  <2> QED BY <1>0, <1>5, <2>1, <2>2 DEF Login!SendCommand, LibraryTyped, ClientTyped
<1>6. CASE \E c \in {"other", "lo", "q"} : Login!Command(c)
  BY <1>6 DEF Login!Command, Login!environment, ThreadsTyped, LibraryTyped, ClientTyped,
     Login!NoLostWakeup, Mains
<1> QED BY <1>1, <1>2, <1>3, <1>4, <1>5, <1>6 DEF Login!MainThread

\* What an instance answers, and that it does not become one that was never created.
LEMMA LeadsTyped ==
  ASSUME NEW s, NEW q, NEW t \in Login!Leads(s, q)
  PROVE  t \in Login!AuthStates
BY DEF Login!Leads, Login!AuthStates, Login!Asking

\* The steps of an instance of TDLib.
LEMMA TdTyped ==
  ASSUME AuthTypes, NEW c \in Login!Ids, Login!Td(c) \/ Login!ServerLogsOut(c), UNCHANGED Login!environment
  PROVE  AuthTypes'
<1> USE DEF AuthTypes
<1>0. client > 0 /\ client \in 0 .. Clients => client \in Login!Ids BY BoundsOK DEF Login!Ids
<1>1. UNCHANGED <<main, recv, client, haveAuthorization, needQuit, canQuit, last, serverLogout, slowAssign>>
  BY DEF Login!Td, Login!TdTakes, Login!TdCloses, Login!TdGone, Login!ServerLogsOut, Login!flags,
     Login!environment
<1>2. \A w \in Login!AuthStates \cup {"error", "report"} :
        Login!Response(c, w) \in Responses /\ Append(out, Login!Response(c, w)) \in Seq(Responses)
  <2>1. \A w \in Login!AuthStates \cup {"error", "report"} : Login!Response(c, w) \in Responses
    BY DEF Login!Response, Responses
  <2> QED BY <2>1 DEF LibraryTyped
<1>3. /\ tds' \in [Login!Ids -> Instances] /\ out' \in Seq(Responses) /\ errors' \in 0 .. Errors
      /\ \A d \in Login!Ids : tds[d].state # "none" => tds'[d].state # "none"
  <2>1. CASE Login!TdTakes(c)
    <3> DEFINE q == Head(tds[c].inbox)
               td == [tds[c] EXCEPT !.inbox = Tail(@)]
    <3>1. td \in Instances /\ q \in Requests /\ td.state = tds[c].state
      BY <2>1, InstanceParts DEF Login!TdTakes, LibraryTyped, Instances
    <3>2. \/ \E s \in Login!AuthStates : tds' = [tds EXCEPT ![c] = [td EXCEPT !.state = s]] /\ out' = Append(out, Login!Response(c, s))
          \/ tds' = [tds EXCEPT ![c] = td] /\ out' \in {out, Append(out, Login!Response(c, "error"))}
      BY <2>1, LeadsTyped DEF Login!TdTakes, Login!Becomes
    <3>3. errors' \in 0 .. Errors BY <2>1, BoundsOK DEF Login!TdTakes, LibraryTyped
    <3> HIDE DEF td
    <3>4. \A s \in Login!AuthStates : [td EXCEPT !.state = s] \in Instances /\ [td EXCEPT !.state = s].state = s
      BY <3>1 DEF Instances, States
    <3>5. "none" \notin Login!AuthStates BY DEF Login!AuthStates, Login!Asking
    <3>6. CASE \E s \in Login!AuthStates : tds' = [tds EXCEPT ![c] = [td EXCEPT !.state = s]] /\ out' = Append(out, Login!Response(c, s))
      <4>1. PICK s \in Login!AuthStates : tds' = [tds EXCEPT ![c] = [td EXCEPT !.state = s]] /\ out' = Append(out, Login!Response(c, s))
        BY <3>6
      <4>2. out' \in Seq(Responses) BY <4>1, <1>2
      <4>3. [td EXCEPT !.state = s] \in Instances /\ [td EXCEPT !.state = s].state = s BY <3>4
      <4>4. /\ tds' \in [Login!Ids -> Instances]
            /\ \A d \in Login!Ids : tds[d].state # "none" => tds'[d].state # "none"
        BY <4>1, <4>3, <3>5 DEF LibraryTyped
      <4> QED BY <4>2, <4>4, <3>3
    <3>7. CASE tds' = [tds EXCEPT ![c] = td] /\ out' \in {out, Append(out, Login!Response(c, "error"))}
      <4>1. out' \in Seq(Responses) BY <3>7, <1>2 DEF LibraryTyped
      <4>2. /\ tds' \in [Login!Ids -> Instances]
            /\ \A d \in Login!Ids : tds[d].state # "none" => tds'[d].state # "none"
        BY <3>7, <3>1 DEF LibraryTyped
      <4> QED BY <4>1, <4>2, <3>3
    <3> QED BY <3>2, <3>6, <3>7
  <2>2. CASE Login!TdCloses(c) \/ Login!TdGone(c) \/ Login!ServerLogsOut(c)
    <3>1. PICK s \in {"Closed", "gone", "LoggingOut"}, w \in Login!AuthStates \cup {"report"} :
            tds' = [tds EXCEPT ![c] = [tds[c] EXCEPT !.state = s]] /\ out' = Append(out, Login!Response(c, w)) /\ errors' = errors
      BY <2>2 DEF Login!TdCloses, Login!TdGone, Login!ServerLogsOut, Login!Becomes, Login!AuthStates
    <3>2. s \in States /\ s # "none" BY DEF States, Login!AuthStates
    <3>3. [tds[c] EXCEPT !.state = s] \in Instances /\ [tds[c] EXCEPT !.state = s].state = s
      BY <3>2, InstanceParts DEF LibraryTyped, Instances
    <3> QED BY <3>1, <3>2, <3>3, <1>2 DEF LibraryTyped
  <2> QED BY <2>1, <2>2 DEF Login!Td
<1>4. ThreadsTyped' /\ Login!NoLostWakeup' BY <1>1 DEF ThreadsTyped, Login!NoLostWakeup
<1> QED BY <1>0, <1>1, <1>3, <1>4 DEF LibraryTyped, ClientTyped

\* The types hold at the beginning.
LEMMA AuthTypesInit == Login!Init => AuthTypes
<1> SUFFICES ASSUME Login!Init PROVE AuthTypes OBVIOUS
<1>1. recv \in [pc : Places, batch : Seq(Handled)] BY DEF Login!Init, Places
<1>2. [state |-> "none", inbox |-> << >>, hung |-> FALSE] \in Instances BY DEF Instances, States
<1>3. tds \in [Login!Ids -> Instances] BY <1>2 DEF Login!Init
<1>4. ThreadsTyped /\ Login!NoLostWakeup
  BY <1>1 DEF Login!Init, ThreadsTyped, Login!NoLostWakeup, Mains
<1>5. LibraryTyped /\ ClientTyped BY <1>3, BoundsOK DEF Login!Init, LibraryTyped, ClientTyped
<1> QED BY <1>4, <1>5 DEF AuthTypes

\* Every step keeps them.
LEMMA AuthTypesStep ==
  ASSUME AuthTypes, [Login!Next]_(Login!vars)
  PROVE  AuthTypes'
<1>1. CASE Login!Next
  <2>1. UNCHANGED Login!environment BY <1>1 DEF Login!Next
  <2> QED BY <1>1, <2>1, ReceiverTyped, MainTyped, TdTyped DEF Login!Next
<1>2. CASE UNCHANGED Login!vars
  BY <1>2 DEF Login!vars, AuthTypes, ThreadsTyped, LibraryTyped, ClientTyped, Login!NoLostWakeup
<1> QED BY <1>1, <1>2

-----------------------------------------------------------------------------
(* The clients in turn, when nobody else logs the user out *)

\* What the receiver thread has still to handle.
Pipe == recv.batch \o out

\* The instance before it is created, and after it is gone.
NeverUsed == [state |-> "none", inbox |-> << >>, hung |-> FALSE]
UsedUp == [state |-> "gone", inbox |-> << >>, hung |-> TRUE]

\* The states in which an instance closes.
Closings == {"LoggingOut", "Closing"}

\* The main thread, before the client n is authorized.
Outside ==
  /\ ~ haveAuthorization /\ ~ needQuit /\ ~ canQuit
  /\ main \in {"assign", "loop", "await", "waiting", "commands"}

\* The main thread, after it sent logOut or close.
Afterwards ==
  /\ ~ haveAuthorization
  /\ main \in IF needQuit THEN {"commands", "loop", "drain"}
              ELSE {"commands", "loop", "await", "waiting"}

\* Where the receiver is when the client does something else than assign or signal.
Resting == recv.pc \in {"collect", "handle"}
Assigns == recv.pc \in {"collect", "handle", "assign"}
Signals == recv.pc \in {"collect", "handle", "signal"}

\* What the application answers to a state that asks for something.
Request(s) ==
  CASE s = "WaitTdlibParameters" -> "params" [] s = "WaitEncryptionKey" -> "key" [] OTHER -> "login"

\* No client yet.
Begins ==
  /\ main = "create" /\ recv.pc = "collect" /\ Pipe = << >> /\ client = 0
  /\ ~ haveAuthorization /\ ~ needQuit /\ ~ canQuit
  /\ \A c \in Login!Ids : tds[c] = NeverUsed

\* The client n was created.
Fresh(n) ==
  /\ tds[n] = [state |-> "fresh", inbox |-> <<"start">>, hung |-> FALSE]
  /\ Pipe = << >> /\ Assigns /\ Outside

\* It asks for something, and one request, answer or question is under way, or none.
Asks(n) == \E s \in Login!Asking :
  /\ tds[n].state = s /\ ~ tds[n].hung /\ Outside
  /\ \/ Assigns /\ tds[n].inbox = << >> /\ Pipe = <<Login!Response(n, s)>>
     \/ Resting /\ tds[n].inbox = << >> /\ Pipe = << >>
     \/ /\ main # "assign" /\ last = s
        /\ \/ Resting /\ tds[n].inbox = << >> /\ Pipe = <<Login!Response(n, "error")>>
           \/ Resting /\ tds[n].inbox = <<Request(s)>> /\ Pipe = << >>
           \/ s = "WaitPhoneNumber" /\ recv.pc = "prompt" /\ tds[n].inbox = << >> /\ Pipe = << >>
  /\ main = "assign" => s = "WaitTdlibParameters"

\* It is authorized, and the main thread does not know it.
ReadyComes(n) ==
  /\ tds[n] = [state |-> "Ready", inbox |-> << >>, hung |-> FALSE]
  /\ Resting /\ Pipe = <<Login!Response(n, "Ready")>> /\ Outside /\ main # "assign"

\* The main thread takes commands.
Works(n) ==
  /\ tds[n] = [state |-> "Ready", inbox |-> << >>, hung |-> FALSE]
  /\ Signals /\ Pipe = << >>
  /\ haveAuthorization /\ ~ canQuit /\ (needQuit <=> main = "q")
  /\ main \in {"loop", "await", "waiting", "commands", "prompt", "lo", "q"}

\* It is about to send logOut or close.
Leaves(n) ==
  /\ tds[n] = [state |-> "Ready", inbox |-> << >>, hung |-> FALSE]
  /\ Signals /\ Pipe = << >>
  /\ ~ haveAuthorization /\ ~ canQuit /\ main \in {"logOut", "close"} /\ (needQuit <=> main = "close")

\* It has sent it.
Told(n) ==
  /\ tds[n].state = "Ready" /\ ~ tds[n].hung /\ tds[n].inbox \in {<<"logOut">>, <<"close">>}
  /\ Signals /\ Pipe = << >> /\ Afterwards /\ ~ canQuit

\* The instance closes.
Going(n) ==
  /\ tds[n].state \in Closings /\ ~ tds[n].hung /\ tds[n].inbox = << >>
  /\ Signals /\ Afterwards /\ ~ canQuit
  /\ Pipe = << >> \/ Pipe = <<Login!Response(n, tds[n].state)>>

\* It has closed its databases, and reports it.
Reports(n) ==
  /\ tds[n].state = "Closed" /\ tds[n].inbox = << >>
  /\ Signals /\ Afterwards /\ ~ canQuit
  /\ \/ tds[n].hung /\ (Pipe = << >> \/ \E s \in Closings : Pipe = <<Login!Response(n, s)>>)
     \/ /\ ~ tds[n].hung
        /\ \/ Pipe = <<Login!Response(n, "report")>>
           \/ \E s \in Closings : Pipe = <<Login!Response(n, s), Login!Response(n, "report")>>

\* It is gone, and the receiver thread will know it.
Ends(n) ==
  /\ tds[n] = UsedUp /\ Signals /\ Afterwards /\ ~ canQuit
  /\ \/ Pipe = <<Login!Response(n, "Closed")>>
     \/ \E s \in Closings : Pipe = <<Login!Response(n, s), Login!Response(n, "Closed")>>

\* The next client is to be created.
Follows(n) ==
  /\ tds[n] = UsedUp /\ recv.pc = "create" /\ Pipe = << >>
  /\ Afterwards /\ ~ needQuit /\ ~ canQuit

\* The program ends.
Quits(n) ==
  /\ tds[n] = UsedUp /\ Resting /\ Pipe = << >>
  /\ ~ haveAuthorization /\ needQuit /\ canQuit /\ main \in {"commands", "loop", "drain", "done"}

\* What can be under way at a time.
Phase(n) ==
  \/ Fresh(n) \/ Asks(n) \/ ReadyComes(n) \/ Works(n) \/ Leaves(n) \/ Told(n)
  \/ Going(n) \/ Reports(n) \/ Ends(n) \/ Follows(n) \/ Quits(n)

\* The field client names the client n, once it is assigned.
Assigned(n) ==
  IF main = "assign" THEN client = 0 /\ recv.pc # "assign"
  ELSE recv.pc = "assign" \/ client = n

\* The clients before n are gone, and those after it do not exist.
Others(n) ==
  /\ \A c \in Login!Ids : c < n => tds[c] = UsedUp
  /\ \A c \in Login!Ids : c > n => tds[c] = NeverUsed

\* The client n has its turn.
Turn(n) == Others(n) /\ Assigned(n) /\ Phase(n)

\* One client has its turn, unless another device logs the user out.
InTurn == ~ serverLogout => Begins \/ \E n \in Login!Ids : Turn(n)

\* One of two.
LEMMA JoinTwo ==
  ASSUME NEW R, NEW T, NEW b \in Seq(R), NEW o \in Seq(T), NEW x, NEW z, o # << >>
  PROVE  b \o o = <<x, z>> => Head(o) \in {x, z}
<1>1. Len(b) \in Nat /\ Len(o) \in Nat /\ Len(o) >= 1 /\ Len(b \o o) = Len(b) + Len(o) OBVIOUS
<1>2. Head(o) = (b \o o)[Len(b) + 1] /\ Len(b) + 1 \in 1 .. Len(b \o o) BY <1>1
<1>3. Len(<<x, z>>) = 2 /\ <<x, z>>[1] = x /\ <<x, z>>[2] = z OBVIOUS
<1>a. SUFFICES ASSUME b \o o = <<x, z>> PROVE Head(o) \in {x, z} OBVIOUS
<1>4. Len(b) + 1 \in 1 .. 2 /\ Head(o) = <<x, z>>[Len(b) + 1] BY <1>2, <1>3, <1>a
<1>5. Len(b) + 1 = 1 \/ Len(b) + 1 = 2 BY <1>4, <1>1
<1> QED BY <1>3, <1>4, <1>5

\* What is under way stays when neither the batch nor the queue of the library changes.
LEMMA PipeStays ==
  ASSUME UNCHANGED <<recv, out>>
  PROVE  Pipe' = Pipe
BY DEF Pipe

\* The response r of n.
LEMMA ResponseParts ==
  ASSUME NEW n, NEW w
  PROVE  Login!Response(n, w).what = w /\ Login!Response(n, w).client = n
BY DEF Login!Response

\* The client n is the newest.
LEMMA TurnNewest ==
  ASSUME AuthTypes, NEW n \in Login!Ids, Turn(n)
  PROVE  Login!Newest = n
<1>1. tds[n].state # "none"
  BY DEF Turn, Phase, Fresh, Asks, ReadyComes, Works, Leaves, Told, Going, Reports, Ends, Follows,
         Quits, Login!Asking, Closings, UsedUp
<1>2. \A c \in Login!Ids : c > n => tds[c].state = "none" BY DEF Turn, Others, NeverUsed
<1>3. IsNewest(tds, n) BY <1>1, <1>2, BoundsOK DEF IsNewest, Login!Ids
<1> QED BY <1>3, NewestUnique, NewestIs

\* The main thread looks at its flags.
LEMMA MainStepTurn ==
  ASSUME AuthTypes, NEW n \in Login!Ids, Turn(n), Login!MainStep
  PROVE  Turn(n)'
<1>1. UNCHANGED <<recv, client, haveAuthorization, needQuit, canQuit, last, tds, out>>
  BY DEF Login!MainStep, Login!flags
<1>2. Pipe' = Pipe BY <1>1, PipeStays
<1>3. Others(n)' BY <1>1 DEF Turn, Others
<1>4. main' = main \/ (main = "loop" /\ main' = IF needQuit THEN "drain" ELSE "await")
      \/ (main = "await" /\ main' = IF haveAuthorization THEN "commands" ELSE "waiting")
      \/ (main = "commands" /\ main' = IF haveAuthorization THEN "prompt" ELSE "loop")
      \/ (main = "drain" /\ main' = IF canQuit THEN "done" ELSE "drain")
  BY DEF Login!MainStep
<1>5. Assigned(n)' BY <1>1, <1>4 DEF Turn, Assigned
<1>6. main' = "assign" => main = "assign" BY <1>4
<1>7. Outside => Outside' BY <1>1, <1>4 DEF Outside
<1>8. Afterwards /\ ~ canQuit => Afterwards' BY <1>1, <1>4 DEF Afterwards
<1>9. (Resting <=> Resting') /\ (Signals <=> Signals') /\ (Assigns <=> Assigns')
  BY <1>1 DEF Resting, Signals, Assigns
<1>10. ASSUME Fresh(n) PROVE Phase(n)' BY <1>10, <1>1, <1>2, <1>7, <1>9 DEF Fresh, Phase
<1>11. ASSUME Asks(n) PROVE Phase(n)' BY <1>11, <1>1, <1>2, <1>6, <1>7, <1>9 DEF Asks, Phase
<1>12. ASSUME ReadyComes(n) PROVE Phase(n)'
  BY <1>12, <1>1, <1>2, <1>6, <1>7, <1>9 DEF ReadyComes, Phase
<1>13. ASSUME Works(n) PROVE Phase(n)' BY <1>13, <1>1, <1>2, <1>4, <1>9 DEF Works, Phase
<1>14. ASSUME Leaves(n) PROVE Phase(n)' BY <1>14, <1>1, <1>2, <1>4, <1>9 DEF Leaves, Phase
<1>15. ASSUME Told(n) PROVE Phase(n)' BY <1>15, <1>1, <1>2, <1>8, <1>9 DEF Told, Phase
<1>16. ASSUME Going(n) PROVE Phase(n)' BY <1>16, <1>1, <1>2, <1>8, <1>9 DEF Going, Phase
<1>17. ASSUME Reports(n) PROVE Phase(n)' BY <1>17, <1>1, <1>2, <1>8, <1>9 DEF Reports, Phase
<1>18. ASSUME Ends(n) PROVE Phase(n)' BY <1>18, <1>1, <1>2, <1>8, <1>9 DEF Ends, Phase
<1>19. ASSUME Follows(n) PROVE Phase(n)' BY <1>19, <1>1, <1>2, <1>8, <1>9 DEF Follows, Phase
<1>20. ASSUME Quits(n) PROVE Phase(n)' BY <1>20, <1>1, <1>2, <1>4, <1>9 DEF Quits, Phase
<1>21. Phase(n)'
  BY <1>10, <1>11, <1>12, <1>13, <1>14, <1>15, <1>16, <1>17, <1>18, <1>19, <1>20 DEF Turn, Phase
<1> QED BY <1>3, <1>5, <1>21 DEF Turn

\* The main thread assigns the field.
LEMMA MainAssignTurn ==
  ASSUME AuthTypes, NEW n \in Login!Ids, Turn(n), Login!MainAssign
  PROVE  Turn(n)'
<1>1. UNCHANGED <<recv, haveAuthorization, needQuit, canQuit, last, tds, out>>
  BY DEF Login!MainAssign, Login!flags
<1>2. main = "assign" /\ main' = "loop" /\ client' = n BY TurnNewest DEF Login!MainAssign
<1>3. Pipe' = Pipe BY <1>1, PipeStays
<1>4. Others(n)' BY <1>1 DEF Turn, Others
<1>5. Assigned(n)' BY <1>1, <1>2 DEF Turn, Assigned
<1>6. Outside => Outside' BY <1>1, <1>2 DEF Outside
<1>7. (Resting <=> Resting') /\ (Assigns <=> Assigns') BY <1>1 DEF Resting, Assigns
<1>8. Fresh(n) \/ Asks(n)
  BY <1>2 DEF Turn, Phase, ReadyComes, Works, Leaves, Told, Going, Reports, Ends, Follows, Quits,
     Afterwards
<1>9. ASSUME Fresh(n) PROVE Phase(n)' BY <1>9, <1>1, <1>3, <1>6, <1>7 DEF Fresh, Phase
<1>10. ASSUME Asks(n) PROVE Phase(n)' BY <1>10, <1>1, <1>2, <1>3, <1>6, <1>7 DEF Asks, Phase
<1> QED BY <1>4, <1>5, <1>8, <1>9, <1>10 DEF Turn, Phase

\* The user types a line.
LEMMA CommandTurn ==
  ASSUME AuthTypes, NEW n \in Login!Ids, Turn(n), NEW c, Login!Command(c)
  PROVE  Turn(n)'
<1>1. UNCHANGED <<recv, client, haveAuthorization, canQuit, last, tds, out>> /\ main = "prompt"
  BY DEF Login!Command
<1>2. Pipe' = Pipe BY <1>1, PipeStays
<1>3. Works(n)
  BY <1>1 DEF Turn, Phase, Fresh, Asks, ReadyComes, Leaves, Told, Going, Reports, Ends, Follows,
     Quits,
              Outside, Afterwards
<1>4. Works(n)' BY <1>1, <1>2, <1>3 DEF Works, Login!Command, Signals
<1>5. Others(n)' BY <1>1 DEF Turn, Others
<1>6. Assigned(n)' BY <1>1 DEF Turn, Assigned, Login!Command
<1> QED BY <1>4, <1>5, <1>6 DEF Turn, Phase

\* lo and q first forget the authorization.
LEMMA ForgetTurn ==
  ASSUME AuthTypes, NEW n \in Login!Ids, Turn(n), Login!ForgetAuthorization
  PROVE  Turn(n)'
<1>1. /\ UNCHANGED <<recv, client, needQuit, canQuit, last, tds, out>> /\ main \in {"lo", "q"}
      /\ haveAuthorization' = FALSE /\ main' = IF main = "lo" THEN "logOut" ELSE "close"
  BY DEF Login!ForgetAuthorization
<1>2. Pipe' = Pipe BY <1>1, PipeStays
<1>3. Works(n)
  BY <1>1 DEF Turn, Phase, Fresh, Asks, ReadyComes, Leaves, Told, Going, Reports, Ends, Follows,
     Quits,
              Outside, Afterwards
<1>4. Leaves(n)' BY <1>1, <1>2, <1>3 DEF Works, Leaves, Signals
<1>5. Others(n)' BY <1>1 DEF Turn, Others
<1>6. Assigned(n)' BY <1>1 DEF Turn, Assigned
<1> QED BY <1>4, <1>5, <1>6 DEF Turn, Phase

\* Send to the client n, whose instance is there.
LEMMA SendTurn ==
  ASSUME LibraryTyped, NEW n \in Login!Ids, ~ tds[n].hung, NEW q, Login!Send(n, q)
  PROVE  /\ out' = out
         /\ tds[n].inbox = << >> => tds'[n] = [state |-> tds[n].state, inbox |-> <<q>>, hung |-> FALSE]
         /\ \A c \in Login!Ids : c # n => tds'[c] = tds[c]
<1>1. n # 0 BY BoundsOK DEF Login!Ids
<1>2. tds' = [tds EXCEPT ![n] = [tds[n] EXCEPT !.inbox = Append(@, q)]] /\ out' = out
  BY <1>1 DEF Login!Send, LibraryTyped
<1> DEFINE td == tds[n]
<1>3. td \in [state : States, inbox : Seq(Requests), hung : BOOLEAN] BY DEF LibraryTyped, Instances
<1>4. td.hung = FALSE BY <1>3
<1>5. tds'[n] = [td EXCEPT !.inbox = Append(@, q)] BY <1>2 DEF LibraryTyped
<1> HIDE DEF td
<1>6. [td EXCEPT !.inbox = Append(@, q)] = [state |-> td.state, inbox |-> Append(td.inbox, q), hung |-> td.hung]
  BY <1>3
<1>7. Append(<< >>, q) = <<q>> BY Tuples
<1>8. td.inbox = << >> => tds'[n] = [state |-> td.state, inbox |-> <<q>>, hung |-> FALSE]
  BY <1>4, <1>5, <1>6, <1>7
<1> QED BY <1>2, <1>8 DEF LibraryTyped, td

\* logOut or close goes to the instance.
LEMMA SendCommandTurn ==
  ASSUME AuthTypes, NEW n \in Login!Ids, Turn(n), Login!SendCommand
  PROVE  Turn(n)'
<1>1. /\ UNCHANGED <<recv, client, haveAuthorization, needQuit, canQuit, last>>
      /\ main \in {"logOut", "close"} /\ main' = "commands" /\ Login!Send(client, main)
  BY DEF Login!SendCommand, Login!flags
<1>2. Leaves(n)
  BY <1>1 DEF Turn, Phase, Fresh, Asks, ReadyComes, Works, Told, Going, Reports, Ends, Follows,
     Quits,
              Outside, Afterwards
<1>3. client = n BY <1>1, <1>2 DEF Turn, Assigned, Leaves, Signals
<1>4. tds[n] = [state |-> "Ready", inbox |-> << >>, hung |-> FALSE] BY <1>2 DEF Leaves
<1>5. /\ out' = out /\ tds'[n] = [state |-> "Ready", inbox |-> <<main>>, hung |-> FALSE]
      /\ \A c \in Login!Ids : c # n => tds'[c] = tds[c]
  <2>1. Login!Send(n, main) /\ ~ tds[n].hung /\ LibraryTyped BY <1>1, <1>3, <1>4 DEF AuthTypes
  <2> QED BY <2>1, <1>4, SendTurn
<1>7. Pipe' = Pipe BY <1>1, <1>5, PipeStays
<1>8. Afterwards' BY <1>1, <1>2 DEF Afterwards, Leaves
<1>9. tds'[n].inbox \in {<<"logOut">>, <<"close">>} BY <1>1, <1>5
<1>10. Told(n)' BY <1>1, <1>2, <1>5, <1>7, <1>8, <1>9 DEF Told, Leaves, Signals
<1>11. Others(n)' BY <1>5 DEF Turn, Others, Login!Ids
<1>12. Assigned(n)' BY <1>1, <1>3 DEF Assigned
<1> QED BY <1>10, <1>11, <1>12 DEF Turn, Phase

\* The receiver thread goes on, with the same responses before it.
LEMMA RestsTurn ==
  ASSUME NEW n \in Login!Ids, Turn(n), Resting, recv'.pc \in {"collect", "handle"}, Pipe' = Pipe,
         UNCHANGED <<main, client, haveAuthorization, needQuit, canQuit, last, tds>>
  PROVE  Turn(n)'
<1>1. Others(n)' BY DEF Turn, Others
<1>2. Assigned(n)' BY DEF Turn, Assigned, Resting
<1>3. Outside => Outside' BY DEF Outside
<1>4. Afterwards => Afterwards' BY DEF Afterwards
<1>5. Resting' /\ Signals' /\ Assigns' BY DEF Resting, Signals, Assigns
<1>6. recv.pc # "prompt" /\ recv.pc # "create" BY DEF Resting
<1>10. ASSUME Fresh(n) PROVE Phase(n)' BY <1>10, <1>3, <1>5 DEF Fresh, Phase
<1>11. ASSUME Asks(n) PROVE Phase(n)' BY <1>11, <1>3, <1>5, <1>6 DEF Asks, Phase
<1>12. ASSUME ReadyComes(n) PROVE Phase(n)' BY <1>12, <1>3, <1>5 DEF ReadyComes, Phase
<1>13. ASSUME Works(n) PROVE Phase(n)' BY <1>13, <1>5 DEF Works, Phase
<1>14. ASSUME Leaves(n) PROVE Phase(n)' BY <1>14, <1>5 DEF Leaves, Phase
<1>15. ASSUME Told(n) PROVE Phase(n)' BY <1>15, <1>4, <1>5 DEF Told, Phase
<1>16. ASSUME Going(n) PROVE Phase(n)' BY <1>16, <1>4, <1>5 DEF Going, Phase
<1>17. ASSUME Reports(n) PROVE Phase(n)' BY <1>17, <1>4, <1>5 DEF Reports, Phase
<1>18. ASSUME Ends(n) PROVE Phase(n)' BY <1>18, <1>4, <1>5 DEF Ends, Phase
<1>19. ASSUME Quits(n) PROVE Phase(n)' BY <1>19, <1>5 DEF Quits, Phase
<1>20. ~ Follows(n) BY <1>6 DEF Follows
<1>21. Phase(n)'
  BY <1>10, <1>11, <1>12, <1>13, <1>14, <1>15, <1>16, <1>17, <1>18, <1>19, <1>20 DEF Turn, Phase
<1> QED BY <1>1, <1>2, <1>21 DEF Turn

\* Only a client that closes has a report under way, as the last of its responses.
LEMMA ReportTurn ==
  ASSUME AuthTypes, NEW n \in Login!Ids, Turn(n), recv.pc = "collect", out # << >>, Head(out).what = "report"
  PROVE  /\ Reports(n) /\ ~ tds[n].hung /\ Head(out).client = n
         /\ \/ recv.batch \o Tail(out) = << >>
            \/ \E s \in Closings : recv.batch \o Tail(out) = <<Login!Response(n, s)>>
<1> DEFINE b == recv.batch
           y == Head(out)
<1>1. b \in Seq(Handled) /\ out \in Seq(Responses) BY DEF AuthTypes, ThreadsTyped, LibraryTyped
<1>2. y \notin Handled BY DEF Handled, Login!AuthStates, Login!Asking
<1>3. Pipe = b \o out BY DEF Pipe
<1>4. Pipe # << >> BY <1>1, <1>3, JoinNone
<1>a. y.what = "report" /\ Head(out) = y OBVIOUS
<1> HIDE DEF b, y
<1>b. ASSUME NEW x
      PROVE  /\ b \o out = <<y>> => b = << >> /\ Tail(out) = << >>
             /\ b \o out = <<x, y>> /\ x \in Handled => b \o Tail(out) = <<x>>
             /\ b \o out = <<x>> => x = y
  <2>1. out # << >> /\ Head(out) \notin Handled BY <1>2, <1>a
  <2>2. \A z : /\ b \o out = <<Head(out)>> => b = << >> /\ Tail(out) = << >>
               /\ b \o out = <<z, Head(out)>> /\ z \in Handled => b \o Tail(out) = <<z>>
               /\ b \o out = <<z>> => z = Head(out)
    BY <1>1, <2>1, JoinLast
  <2>3. /\ b \o out = <<Head(out)>> => b = << >> /\ Tail(out) = << >>
        /\ b \o out = <<x, Head(out)>> /\ x \in Handled => b \o Tail(out) = <<x>>
        /\ b \o out = <<x>> => x = Head(out)
    BY <2>2
  <2>4. Head(out) = y BY <1>a
  <2> QED BY <2>3, <2>4
<1>5. \A x : Pipe = <<x>> => x = y /\ b = << >> /\ Tail(out) = << >>
  <2> SUFFICES ASSUME NEW x, b \o out = <<x>> PROVE x = y /\ b = << >> /\ Tail(out) = << >> BY <1>3
  <2>1. x = y BY <1>b
  <2>2. b \o out = <<y>> BY <2>1
  <2> QED BY <2>1, <2>2, <1>b
<1>6. \A x, z : Pipe = <<x, z>> => y \in {x, z}
  <2> SUFFICES ASSUME NEW x, NEW z PROVE b \o out = <<x, z>> => Head(out) \in {x, z} BY <1>3, <1>a
  <2> QED BY <1>1, JoinTwo
<1>7. \A x : Pipe = <<x, y>> /\ x \in Handled => b \o Tail(out) = <<x>> BY <1>3, <1>b
<1>8. \A w : Login!Response(n, w).what = w /\ Login!Response(n, w).client = n BY ResponseParts
<1>9. \A s \in Closings : Login!Response(n, s) \in Handled
  BY DEF Login!Response, Handled, Closings, Login!AuthStates
<1>10. \A s \in Closings : s # "report" BY DEF Closings
<1>11. ASSUME NEW w, w # "report" PROVE Pipe # <<Login!Response(n, w)>> BY <1>5, <1>8, <1>11, <1>a
<1>12. ASSUME NEW s \in Closings, NEW w, w # "report" PROVE Pipe # <<Login!Response(n, s), Login!Response(n, w)>>
  BY <1>6, <1>8, <1>10, <1>12, <1>a
<1>13. Reports(n) /\ ~ tds[n].hung
  <2>1. ~ Fresh(n) BY <1>4 DEF Fresh
  <2>2. ~ Asks(n) BY <1>4, <1>11 DEF Asks, Login!Asking
  <2>3. ~ ReadyComes(n) BY <1>11 DEF ReadyComes
  <2>4. ~ Works(n) /\ ~ Leaves(n) /\ ~ Told(n) /\ ~ Follows(n) /\ ~ Quits(n)
    BY <1>4 DEF Works, Leaves, Told, Follows, Quits
  <2>5. ~ Going(n) BY <1>4, <1>10, <1>11 DEF Going
  <2>6. ~ Ends(n) BY <1>11, <1>12 DEF Ends
  <2>7. Reports(n) BY <2>1, <2>2, <2>3, <2>4, <2>5, <2>6 DEF Turn, Phase
  <2> QED BY <2>7, <1>4, <1>10, <1>11 DEF Reports
<1>14. Pipe = <<Login!Response(n, "report")>> \/ \E s \in Closings : Pipe = <<Login!Response(n, s), Login!Response(n, "report")>>
  BY <1>13 DEF Reports
<1>15. CASE Pipe = <<Login!Response(n, "report")>>
  <2>1. y = Login!Response(n, "report") /\ b = << >> /\ Tail(out) = << >> BY <1>5, <1>15
  <2>2. y.client = n BY <2>1, <1>8
  <2>3. b \o Tail(out) = << >> BY <2>1
  <2> QED BY <2>2, <2>3, <1>13 DEF b, y
<1>16. CASE \E s \in Closings : Pipe = <<Login!Response(n, s), Login!Response(n, "report")>>
  <2>1. PICK s \in Closings : Pipe = <<Login!Response(n, s), Login!Response(n, "report")>> BY <1>16
  <2>2. y = Login!Response(n, "report") BY <2>1, <1>6, <1>8, <1>10, <1>a
  <2>3. y.client = n BY <2>2, <1>8
  <2>4. b \o Tail(out) = <<Login!Response(n, s)>> BY <2>1, <2>2, <1>7, <1>9
  <2> QED BY <2>3, <2>4, <1>13 DEF b, y
<1> QED BY <1>14, <1>15, <1>16

\* One lemma per action again: the phase goes on to the one that follows.  Here the
\* receiver takes a response from TDLib.
LEMMA CollectTurn ==
  ASSUME AuthTypes, NEW n \in Login!Ids, Turn(n), Login!Collect
  PROVE  Turn(n)'
<1>1. UNCHANGED <<main, client, haveAuthorization, needQuit, canQuit, last>> /\ recv.pc = "collect"
  BY DEF Login!Collect, Login!flags
<1>2. recv \in [pc : Places, batch : Seq(Handled)] /\ recv.batch \in Seq(Handled) /\ out \in Seq(Responses)
  BY DEF AuthTypes, ThreadsTyped, LibraryTyped
<1>3. Resting BY <1>1 DEF Resting
<1>4. CASE out # << >> /\ recv' = [recv EXCEPT !.batch = Append(@, Head(out))] /\ out' = Tail(out) /\ tds' = tds
  <2>1. recv'.pc = "collect" /\ recv'.batch = Append(recv.batch, Head(out)) BY <1>1, <1>2, <1>4
  <2>2. Append(recv.batch, Head(out)) \o Tail(out) = recv.batch \o out BY <1>2, <1>4, JoinMoves
  <2>3. Pipe' = Pipe BY <2>1, <2>2, <1>4 DEF Pipe
  <2> QED BY <2>1, <2>3, <1>1, <1>3, <1>4, RestsTurn
<1>5. CASE recv' = [recv EXCEPT !.pc = "handle"] /\ out' = out /\ tds' = tds
  <2>1. recv'.pc = "handle" /\ recv'.batch = recv.batch BY <1>2, <1>5
  <2>2. Pipe' = Pipe BY <2>1, <1>5 DEF Pipe
  <2> QED BY <2>1, <2>2, <1>1, <1>3, <1>5, RestsTurn
<1>6. CASE /\ out # << >> /\ Head(out).what = "report" /\ tds' = [tds EXCEPT ![Head(out).client].hung = TRUE]
           /\ recv' = [recv EXCEPT !.pc = "handle"] /\ out' = Tail(out)
  <2>1. /\ Reports(n) /\ ~ tds[n].hung /\ Head(out).client = n
        /\ \/ recv.batch \o Tail(out) = << >>
           \/ \E s \in Closings : recv.batch \o Tail(out) = <<Login!Response(n, s)>>
    BY <1>1, <1>6, ReportTurn
  <2>2. recv'.pc = "handle" /\ recv'.batch = recv.batch BY <1>2, <1>6
  <2>3. Pipe' = recv.batch \o Tail(out) BY <2>2, <1>6 DEF Pipe
  <2>4. /\ tds'[n].state = tds[n].state /\ tds'[n].inbox = tds[n].inbox /\ tds'[n].hung
        /\ \A c \in Login!Ids : c # n => tds'[c] = tds[c]
    BY <2>1, <1>6 DEF AuthTypes, LibraryTyped, Instances
  <2>5. Afterwards' /\ Signals' BY <2>1, <2>2, <1>1 DEF Reports, Afterwards, Signals
  <2>6. Reports(n)' BY <2>1, <2>3, <2>4, <2>5, <1>1 DEF Reports
  <2>7. Others(n)' BY <2>4 DEF Turn, Others, Login!Ids
  <2>8. Assigned(n)' BY <2>2, <1>1 DEF Turn, Assigned
  <2> QED BY <2>6, <2>7, <2>8 DEF Turn, Phase
<1> QED BY <1>4, <1>5, <1>6 DEF Login!Collect

\* The receiver has handled its batch.
LEMMA BatchEndsTurn ==
  ASSUME AuthTypes, NEW n \in Login!Ids, Turn(n), Login!BatchEnds
  PROVE  Turn(n)'
<1>1. recv \in [pc : Places, batch : Seq(Handled)] BY DEF AuthTypes, ThreadsTyped
<1>2. recv'.pc = "collect" /\ recv'.batch = recv.batch /\ Resting
  BY <1>1 DEF Login!BatchEnds, Resting
<1>3. Pipe' = Pipe BY <1>2 DEF Pipe, Login!BatchEnds
<1> QED BY <1>2, <1>3, RestsTurn DEF Login!BatchEnds, Login!flags

\* The response the receiver thread handles is the first of those under way.
LEMMA HandledFirst ==
  ASSUME AuthTypes, recv.batch # << >>, NEW p \in Places, Login!Goes(p)
  PROVE  /\ Pipe # << >> /\ Head(recv.batch) = Head(Pipe) /\ Head(recv.batch) \in Handled
         /\ recv'.pc = p
         /\ out' = out => Pipe' = Tail(Pipe)
<1>1. recv.batch \in Seq(Handled) /\ out \in Seq(Responses)
  BY DEF AuthTypes, ThreadsTyped, LibraryTyped
<1>2. recv'.pc = p /\ recv'.batch = Tail(recv.batch) BY DEF Login!Goes
<1>3. /\ recv.batch \o out # << >> /\ Head(recv.batch \o out) = Head(recv.batch)
      /\ Tail(recv.batch) \o out = Tail(recv.batch \o out)
  BY <1>1, JoinTail
<1>4. Head(recv.batch) \in Handled BY <1>1
<1> QED BY <1>2, <1>3, <1>4 DEF Pipe

\* The authorization goes on, for a state or for the error that repeats it.
LEMMA AskedTurn ==
  ASSUME AuthTypes, NEW n \in Login!Ids, Turn(n), recv.pc = "handle", recv.batch # << >>,
         NEW s \in Login!Asking, tds[n].state = s, ~ tds[n].hung, tds[n].inbox = << >>, Outside,
         main = "assign" => s = "WaitTdlibParameters",
         NEW x, Pipe = <<x>>, Login!StateUpdated(s), last' = s
  PROVE  Turn(n)'
<1>1. UNCHANGED <<main, client, needQuit>> BY DEF Login!StateUpdated
<1>2. UNCHANGED <<haveAuthorization, canQuit>> /\ Outside'
  BY <1>1 DEF Login!StateUpdated, Login!Asking, Outside
<1>3. Tail(Pipe) = << >> BY Tuples
<1>4. CASE s \in {"WaitTdlibParameters", "WaitEncryptionKey"}
  <2>1. Login!Goes("handle") /\ Login!Send(client, Request(s))
    BY <1>4 DEF Login!StateUpdated, Request
  <2>2. recv'.pc = "handle" /\ (out' = out => Pipe' = << >>) BY <2>1, <1>3, HandledFirst DEF Places
  <2>3. CASE main = "assign"
    <3>1. client = 0 BY <2>3 DEF Turn, Assigned
    <3>2. tds' = tds /\ out' = out BY <2>1, <3>1 DEF Login!Send
    <3>3. Asks(n)' BY <3>2, <2>2, <2>3, <1>1, <1>2 DEF Asks, Resting
    <3>4. Others(n)' BY <3>2 DEF Turn, Others
    <3>5. Assigned(n)' BY <2>2, <2>3, <3>1, <1>1 DEF Assigned
    <3> QED BY <3>3, <3>4, <3>5 DEF Turn, Phase
  <2>4. CASE main # "assign"
    <3>1. client = n BY <2>4 DEF Turn, Assigned
    <3>2. Login!Send(n, Request(s)) /\ LibraryTyped BY <2>1, <3>1 DEF AuthTypes
    <3>3. /\ out' = out /\ tds'[n] = [state |-> s, inbox |-> <<Request(s)>>, hung |-> FALSE]
          /\ \A c \in Login!Ids : c # n => tds'[c] = tds[c]
      BY <3>2, SendTurn
    <3>4. Asks(n)' BY <3>3, <2>2, <2>4, <1>1, <1>2 DEF Asks, Resting
    <3>5. Others(n)' BY <3>3 DEF Turn, Others, Login!Ids
    <3>6. Assigned(n)' BY <2>4, <3>1, <1>1 DEF Assigned
    <3> QED BY <3>4, <3>5, <3>6 DEF Turn, Phase
  <2> QED BY <2>3, <2>4
<1>5. CASE s = "WaitPhoneNumber"
  <2>1. Login!Goes("prompt") /\ tds' = tds /\ out' = out BY <1>5 DEF Login!StateUpdated
  <2>2. recv'.pc = "prompt" /\ Pipe' = << >> BY <2>1, <1>3, HandledFirst DEF Places
  <2>3. main # "assign" BY <1>5
  <2>4. Asks(n)' BY <2>1, <2>2, <2>3, <1>1, <1>2, <1>5 DEF Asks
  <2>5. Others(n)' BY <2>1 DEF Turn, Others
  <2>6. Assigned(n)' BY <2>3, <1>1 DEF Turn, Assigned
  <2> QED BY <2>4, <2>5, <2>6 DEF Turn, Phase
<1> QED BY <1>4, <1>5 DEF Login!Asking

\* It handles a response.
LEMMA HandleTurn ==
  ASSUME AuthTypes, NEW n \in Login!Ids, Turn(n), Login!HandleResponse
  PROVE  Turn(n)'
<1>1. recv.pc = "handle" /\ recv.batch # << >> BY DEF Login!HandleResponse
<1>2. recv.batch \in Seq(Handled) /\ out \in Seq(Responses)
  BY DEF AuthTypes, ThreadsTyped, LibraryTyped
<1>3. Pipe # << >> /\ Head(recv.batch) = Head(Pipe) /\ Head(recv.batch) \in Handled
  <2>1. recv.batch \o out # << >> /\ Head(recv.batch \o out) = Head(recv.batch)
    BY <1>1, <1>2, JoinTail
  <2> QED BY <2>1, <1>1, <1>2 DEF Pipe
<1>4. \A x : Pipe = <<x>> => Head(recv.batch) = x /\ Tail(Pipe) = << >> BY <1>3, Tuples
<1>5. \A x, y : Pipe = <<x, y>> => Head(recv.batch) = x /\ Tail(Pipe) = <<y>>
  <2> SUFFICES ASSUME NEW x, NEW y, Pipe = <<x, y>> PROVE Head(Pipe) = x /\ Tail(Pipe) = <<y>>
    BY <1>3
  <2>1. Head(<<x, y>>) = x /\ Tail(<<x, y>>) = <<y>> BY Tuples
  <2> QED BY <2>1
<1>6. \A w : Login!Response(n, w).what = w BY ResponseParts
<1>7. Head(recv.batch).what # "report" BY <1>3 DEF Handled, Login!AuthStates, Login!Asking
<1>8. /\ Head(recv.batch).what = "error" => Login!StateUpdated(last) /\ last' = last
      /\ Head(recv.batch).what # "error" => Login!StateUpdated(Head(recv.batch).what)
                                            /\ last' = Head(recv.batch).what
  BY DEF Login!HandleResponse, Login!Repeated
<1>9. Resting /\ recv.pc # "prompt" /\ recv.pc # "create" /\ recv.pc # "assign" BY <1>1 DEF Resting
<1>10. CASE Asks(n)
  <2>1. PICK s \in Login!Asking :
          /\ tds[n].state = s /\ ~ tds[n].hung /\ Outside /\ tds[n].inbox = << >>
          /\ Pipe = <<Login!Response(n, s)>> \/ (Pipe = <<Login!Response(n, "error")>> /\ last = s)
          /\ main = "assign" => s = "WaitTdlibParameters"
    BY <1>3, <1>9, <1>10 DEF Asks
  <2>2. s # "error" BY DEF Login!Asking
  <2>3. PICK x : Pipe = <<x>> BY <2>1
  <2>4. Login!StateUpdated(s) /\ last' = s BY <2>1, <2>2, <1>4, <1>6, <1>8
  <2> QED BY <2>1, <2>3, <2>4, <1>1, AskedTurn
<1>11. CASE ReadyComes(n)
  <2>1. Pipe = <<Login!Response(n, "Ready")>> BY <1>11 DEF ReadyComes
  <2>2. Login!StateUpdated("Ready") BY <2>1, <1>4, <1>6, <1>8
  <2>3. UNCHANGED <<main, client, needQuit, canQuit, tds, out>> /\ haveAuthorization' = TRUE /\ Login!Goes("signal")
    BY <2>2 DEF Login!StateUpdated, Login!OnReady
  <2>4. recv'.pc = "signal" /\ Pipe' = << >> BY <2>1, <2>3, <1>1, <1>4, HandledFirst DEF Places
  <2>5. Works(n)' BY <2>3, <2>4, <1>11 DEF ReadyComes, Works, Outside, Signals
  <2>6. Others(n)' BY <2>3 DEF Turn, Others
  <2>7. Assigned(n)' BY <2>3, <2>4, <1>9, <1>11 DEF Turn, Assigned, ReadyComes
  <2> QED BY <2>5, <2>6, <2>7 DEF Turn, Phase
<1>12. ASSUME NEW s \in Closings, Head(recv.batch).what = s
       PROVE  /\ UNCHANGED <<main, client, needQuit, canQuit, tds, out>> /\ haveAuthorization' = FALSE
              /\ recv'.pc = "handle" /\ Pipe' = Tail(Pipe) /\ Others(n)' /\ Assigned(n)' /\ Signals'
              /\ Afterwards => Afterwards'
  <2>1. Login!StateUpdated(s) BY <1>8, <1>12 DEF Closings
  <2>2. UNCHANGED <<main, client, needQuit, canQuit, tds, out>> /\ haveAuthorization' = FALSE /\ Login!Goes("handle")
    BY <2>1 DEF Login!StateUpdated, Login!OnClosing, Closings
  <2>3. recv'.pc = "handle" /\ Pipe' = Tail(Pipe) BY <2>2, <1>1, HandledFirst DEF Places
  <2>4. Others(n)' BY <2>2 DEF Turn, Others
  <2>5. Assigned(n)' BY <2>2, <2>3, <1>9 DEF Turn, Assigned
  <2>6. Afterwards => Afterwards' BY <2>2 DEF Afterwards
  <2> QED BY <2>2, <2>3, <2>4, <2>5, <2>6 DEF Signals
<1>13. CASE Going(n)
  <2>1. Pipe = <<Login!Response(n, tds[n].state)>> /\ tds[n].state \in Closings
    BY <1>3, <1>13 DEF Going
  <2>2. Head(recv.batch).what = tds[n].state /\ Tail(Pipe) = << >> BY <2>1, <1>4, <1>6
  <2>3. Going(n)' BY <2>1, <2>2, <1>12, <1>13 DEF Going
  <2> QED BY <2>1, <2>2, <2>3, <1>12 DEF Turn, Phase
<1>14. CASE Reports(n)
  <2>1. CASE tds[n].hung
    <3>1. PICK s \in Closings : Pipe = <<Login!Response(n, s)>> BY <2>1, <1>3, <1>14 DEF Reports
    <3>2. Head(recv.batch).what = s /\ Tail(Pipe) = << >> BY <3>1, <1>4, <1>6
    <3>3. Reports(n)' BY <2>1, <3>2, <1>12, <1>14 DEF Reports
    <3> QED BY <3>2, <3>3, <1>12 DEF Turn, Phase
  <2>2. CASE ~ tds[n].hung
    <3>1. Pipe # <<Login!Response(n, "report")>> BY <1>4, <1>6, <1>7
    <3>2. PICK s \in Closings : Pipe = <<Login!Response(n, s), Login!Response(n, "report")>>
      BY <2>2, <3>1, <1>14 DEF Reports
    <3>3. Head(recv.batch).what = s /\ Tail(Pipe) = <<Login!Response(n, "report")>>
      BY <3>2, <1>5, <1>6
    <3>4. Reports(n)' BY <2>2, <3>3, <1>12, <1>14 DEF Reports
    <3> QED BY <3>3, <3>4, <1>12 DEF Turn, Phase
  <2> QED BY <2>1, <2>2
<1>15. CASE Ends(n)
  <2>1. CASE \E s \in Closings : Pipe = <<Login!Response(n, s), Login!Response(n, "Closed")>>
    <3>1. PICK s \in Closings : Pipe = <<Login!Response(n, s), Login!Response(n, "Closed")>> BY <2>1
    <3>2. Head(recv.batch).what = s /\ Tail(Pipe) = <<Login!Response(n, "Closed")>>
      BY <3>1, <1>5, <1>6
    <3>3. Ends(n)' BY <3>2, <1>12, <1>15 DEF Ends
    <3> QED BY <3>2, <3>3, <1>12 DEF Turn, Phase
  <2>2. CASE Pipe = <<Login!Response(n, "Closed")>>
    <3>1. Login!StateUpdated("Closed") /\ Tail(Pipe) = << >> BY <2>2, <1>4, <1>6, <1>8
    <3>2. UNCHANGED <<main, client, haveAuthorization, needQuit, tds, out>> /\ Login!OnClosed
      BY <3>1 DEF Login!StateUpdated, Login!OnClosed
    <3>3. Others(n)' BY <3>2 DEF Turn, Others
    <3>4. CASE needQuit
      <4>1. canQuit' = TRUE /\ Login!Goes("handle") BY <3>2, <3>4 DEF Login!OnClosed
      <4>2. recv'.pc = "handle" /\ Pipe' = << >> BY <4>1, <3>1, <3>2, <1>1, HandledFirst DEF Places
      <4>3. Quits(n)' BY <4>1, <4>2, <3>2, <3>4, <1>15 DEF Ends, Quits, Afterwards, Resting
      <4>4. Assigned(n)' BY <4>2, <3>2, <1>9 DEF Turn, Assigned
      <4> QED BY <3>3, <4>3, <4>4 DEF Turn, Phase
    <3>5. CASE ~ needQuit
      <4>1. canQuit' = canQuit /\ Login!Goes("create") BY <3>2, <3>5 DEF Login!OnClosed
      <4>2. recv'.pc = "create" /\ Pipe' = << >> BY <4>1, <3>1, <3>2, <1>1, HandledFirst DEF Places
      <4>3. Follows(n)' BY <4>1, <4>2, <3>2, <3>5, <1>15 DEF Ends, Follows, Afterwards
      <4>4. Assigned(n)' BY <4>2, <3>2, <1>9 DEF Turn, Assigned
      <4> QED BY <3>3, <4>3, <4>4 DEF Turn, Phase
    <3> QED BY <3>4, <3>5
  <2> QED BY <2>1, <2>2, <1>15 DEF Ends
<1>16. ~ Fresh(n) /\ ~ Works(n) /\ ~ Leaves(n) /\ ~ Told(n) /\ ~ Follows(n) /\ ~ Quits(n)
  BY <1>3 DEF Fresh, Works, Leaves, Told, Follows, Quits
<1> QED BY <1>10, <1>11, <1>13, <1>14, <1>15, <1>16 DEF Turn, Phase

\* The user answered a question.
LEMMA PromptTurn ==
  ASSUME AuthTypes, NEW n \in Login!Ids, Turn(n), Login!PromptAnswered
  PROVE  Turn(n)'
<1>1. /\ UNCHANGED <<main, client, haveAuthorization, needQuit, canQuit, last>>
      /\ recv.pc = "prompt" /\ Login!Send(client, "login")
  BY DEF Login!PromptAnswered, Login!flags
<1>2. recv \in [pc : Places, batch : Seq(Handled)] BY DEF AuthTypes, ThreadsTyped
<1>3. recv'.pc = "handle" /\ recv'.batch = recv.batch BY <1>2 DEF Login!PromptAnswered
<1>4. Asks(n)
  BY <1>1 DEF Turn, Phase, Fresh, ReadyComes, Works, Leaves, Told, Going, Reports, Ends, Follows,
     Quits,
              Resting, Signals, Assigns
<1>5. /\ tds[n].state = "WaitPhoneNumber" /\ ~ tds[n].hung /\ Outside /\ tds[n].inbox = << >>
      /\ Pipe = << >> /\ main # "assign" /\ last = "WaitPhoneNumber"
  BY <1>1, <1>4 DEF Asks, Resting, Assigns
<1>6. client = n BY <1>1, <1>5 DEF Turn, Assigned
<1>7. Login!Send(n, "login") /\ LibraryTyped BY <1>1, <1>6 DEF AuthTypes
<1>8. /\ out' = out /\ tds'[n] = [state |-> "WaitPhoneNumber", inbox |-> <<"login">>, hung |-> FALSE]
      /\ \A c \in Login!Ids : c # n => tds'[c] = tds[c]
  BY <1>5, <1>7, SendTurn
<1>9. Pipe' = << >> BY <1>3, <1>5, <1>8 DEF Pipe
<1>10. Outside' /\ Resting' BY <1>1, <1>3, <1>5 DEF Outside, Resting
<1>11. Request("WaitPhoneNumber") = "login" /\ "WaitPhoneNumber" \in Login!Asking
  BY DEF Request, Login!Asking
<1>12. Asks(n)' BY <1>1, <1>5, <1>8, <1>9, <1>10, <1>11 DEF Asks
<1>13. Others(n)' BY <1>8 DEF Turn, Others, Login!Ids
<1>14. Assigned(n)' BY <1>1, <1>5, <1>6 DEF Assigned
<1> QED BY <1>12, <1>13, <1>14 DEF Turn, Phase

\* The receiver tells main that there is an authorization.
LEMMA SignalTurn ==
  ASSUME AuthTypes, NEW n \in Login!Ids, Turn(n), Login!Signal
  PROVE  Turn(n)'
<1>1. /\ UNCHANGED <<client, haveAuthorization, needQuit, canQuit, last, tds, out>> /\ recv.pc = "signal"
      /\ main' = IF main = "waiting" THEN "await" ELSE main
  BY DEF Login!Signal, Login!flags
<1>2. recv \in [pc : Places, batch : Seq(Handled)] BY DEF AuthTypes, ThreadsTyped
<1>3. recv'.pc = "handle" /\ recv'.batch = recv.batch BY <1>2 DEF Login!Signal
<1>4. Pipe' = Pipe BY <1>1, <1>3 DEF Pipe
<1>5. Signals' BY <1>3 DEF Signals
<1>6. Afterwards => Afterwards' BY <1>1 DEF Afterwards
<1>7. Others(n)' BY <1>1 DEF Turn, Others
<1>8. Assigned(n)' BY <1>1, <1>3 DEF Turn, Assigned
<1>10. ASSUME Works(n) PROVE Phase(n)' BY <1>10, <1>1, <1>4, <1>5 DEF Works, Phase
<1>11. ASSUME Leaves(n) PROVE Phase(n)' BY <1>11, <1>1, <1>4, <1>5 DEF Leaves, Phase
<1>12. ASSUME Told(n) PROVE Phase(n)' BY <1>12, <1>1, <1>4, <1>5, <1>6 DEF Told, Phase
<1>13. ASSUME Going(n) PROVE Phase(n)' BY <1>13, <1>1, <1>4, <1>5, <1>6 DEF Going, Phase
<1>14. ASSUME Reports(n) PROVE Phase(n)' BY <1>14, <1>1, <1>4, <1>5, <1>6 DEF Reports, Phase
<1>15. ASSUME Ends(n) PROVE Phase(n)' BY <1>15, <1>1, <1>4, <1>5, <1>6 DEF Ends, Phase
<1>16. ~ Fresh(n) /\ ~ Asks(n) /\ ~ ReadyComes(n) /\ ~ Follows(n) /\ ~ Quits(n)
  BY <1>1 DEF Fresh, Asks, ReadyComes, Follows, Quits, Resting, Assigns
<1> QED BY <1>7, <1>8, <1>10, <1>11, <1>12, <1>13, <1>14, <1>15, <1>16 DEF Turn, Phase

\* The next client, after the one before it is used up.
LEMMA RecreateTurn ==
  ASSUME AuthTypes, NEW n \in Login!Ids, Turn(n), Login!Recreate
  PROVE  n + 1 \in Login!Ids /\ Turn(n + 1)'
<1>1. UNCHANGED <<main, client, haveAuthorization, needQuit, canQuit, last, out>> /\ recv.pc = "create" /\ Login!Create
  BY DEF Login!Recreate, Login!flags
<1>2. recv \in [pc : Places, batch : Seq(Handled)] BY DEF AuthTypes, ThreadsTyped
<1>3. recv'.pc = "assign" /\ recv'.batch = recv.batch BY <1>2 DEF Login!Recreate
<1>4. Follows(n)
  BY <1>1 DEF Turn, Phase, Fresh, Asks, ReadyComes, Works, Leaves, Told, Going, Reports, Ends,
     Quits,
              Resting, Signals, Assigns
<1>5. Login!Newest = n BY TurnNewest
<1>6. n + 1 \in Login!Ids BY <1>1, <1>5, BoundsOK DEF Login!Create, Login!Ids
<1>7. /\ tds'[n + 1] = [state |-> "fresh", inbox |-> <<"start">>, hung |-> FALSE]
      /\ \A c \in Login!Ids : c # n + 1 => tds'[c] = tds[c]
  BY <1>1, <1>5, <1>6 DEF Login!Create, AuthTypes, LibraryTyped
<1>8. Pipe' = << >> BY <1>1, <1>3, <1>4 DEF Pipe, Follows
<1>9. Outside' BY <1>1, <1>4 DEF Outside, Follows, Afterwards
<1>10. Fresh(n + 1)' BY <1>3, <1>7, <1>8, <1>9 DEF Fresh, Assigns
<1>11. Others(n + 1)'
  <2>1. ASSUME NEW c \in Login!Ids, c < n + 1 PROVE tds'[c] = UsedUp
    <3>1. c = n \/ c < n BY <2>1 DEF Login!Ids
    <3> QED BY <3>1, <2>1, <1>4, <1>7 DEF Turn, Others, Follows, Login!Ids
  <2>2. ASSUME NEW c \in Login!Ids, c > n + 1 PROVE tds'[c] = NeverUsed
    <3>1. c > n /\ c # n + 1 BY <2>2 DEF Login!Ids
    <3> QED BY <3>1, <1>7 DEF Turn, Others
  <2> QED BY <2>1, <2>2 DEF Others
<1>12. Assigned(n + 1)' BY <1>1, <1>3, <1>4 DEF Assigned, Follows, Afterwards
<1> QED BY <1>6, <1>10, <1>11, <1>12 DEF Turn, Phase

\* The field client is set to the new client.
LEMMA ReassignTurn ==
  ASSUME AuthTypes, NEW n \in Login!Ids, Turn(n), Login!Reassign
  PROVE  Turn(n)'
<1>1. UNCHANGED <<main, haveAuthorization, needQuit, canQuit, last, tds, out>> /\ recv.pc = "assign" /\ client' = n
  BY TurnNewest DEF Login!Reassign, Login!flags
<1>2. recv \in [pc : Places, batch : Seq(Handled)] BY DEF AuthTypes, ThreadsTyped
<1>3. recv'.pc = "handle" /\ recv'.batch = recv.batch BY <1>2 DEF Login!Reassign
<1>4. Pipe' = Pipe BY <1>1, <1>3 DEF Pipe
<1>5. Outside => Outside' BY <1>1 DEF Outside
<1>6. Assigns' BY <1>3 DEF Assigns
<1>7. Others(n)' BY <1>1 DEF Turn, Others
<1>8. Assigned(n)' BY <1>1 DEF Turn, Assigned
<1>9. ASSUME Fresh(n) PROVE Phase(n)' BY <1>9, <1>1, <1>4, <1>5, <1>6 DEF Fresh, Phase
<1>10. ASSUME Asks(n) PROVE Phase(n)' BY <1>10, <1>1, <1>4, <1>5, <1>6 DEF Asks, Phase, Resting
<1>11. Fresh(n) \/ Asks(n)
  BY <1>1 DEF Turn, Phase, ReadyComes, Works, Leaves, Told, Going, Reports, Ends, Follows, Quits,
              Resting, Signals
<1> QED BY <1>7, <1>8, <1>9, <1>10, <1>11 DEF Turn

\* The first client.
LEMMA MainCreateTurn ==
  ASSUME AuthTypes, Begins, Login!MainCreate
  PROVE  1 \in Login!Ids /\ Turn(1)'
<1>1. UNCHANGED <<recv, client, haveAuthorization, needQuit, canQuit, last, out>> /\ main' = "assign" /\ Login!Create
  BY DEF Login!MainCreate, Login!flags
<1>2. IsNewest(tds, 0) BY BoundsOK DEF IsNewest, Begins, NeverUsed
<1>3. Login!Newest = 0 BY <1>2, NewestUnique, NewestIs
<1>4. 1 \in Login!Ids /\ 0 + 1 = 1 BY BoundsOK DEF Login!Ids
<1>5. /\ tds'[1] = [state |-> "fresh", inbox |-> <<"start">>, hung |-> FALSE]
      /\ \A c \in Login!Ids : c # 1 => tds'[c] = tds[c]
  BY <1>1, <1>3, <1>4 DEF Login!Create, AuthTypes, LibraryTyped
<1>6. Pipe' = << >> BY <1>1, PipeStays DEF Begins
<1>7. Outside' /\ Assigns' BY <1>1 DEF Begins, Outside, Assigns
<1>8. Fresh(1)' BY <1>5, <1>6, <1>7 DEF Fresh
<1>9. Others(1)' BY <1>5, BoundsOK DEF Begins, Others, Login!Ids
<1>10. Assigned(1)' BY <1>1 DEF Begins, Assigned
<1> QED BY <1>4, <1>8, <1>9, <1>10 DEF Turn, Phase

\* A response of the client n is put behind those under way.
LEMMA AnswerPipe ==
  ASSUME AuthTypes, NEW n \in Login!Ids, NEW w \in Login!AuthStates \cup {"error", "report"},
         recv' = recv, out' = Append(out, Login!Response(n, w))
  PROVE  /\ Pipe' = Append(Pipe, Login!Response(n, w))
         /\ Pipe = << >> => Pipe' = <<Login!Response(n, w)>>
         /\ \A x : Pipe = <<x>> => Pipe' = <<x, Login!Response(n, w)>>
<1>1. recv.batch \in Seq(Handled) /\ out \in Seq(Responses)
  BY DEF AuthTypes, ThreadsTyped, LibraryTyped
<1>2. Login!Response(n, w) \in Responses BY DEF Login!Response, Responses
<1>3. recv.batch \o Append(out, Login!Response(n, w)) = Append(recv.batch \o out, Login!Response(n, w))
  <2> DEFINE b == recv.batch
             r == Login!Response(n, w)
  <2>1. b \in Seq(Handled) /\ out \in Seq(Responses) /\ r \in Responses BY <1>1, <1>2
  <2> HIDE DEF b, r
  <2>2. b \o Append(out, r) = Append(b \o out, r) BY <2>1, JoinAppend
  <2> QED BY <2>2 DEF b, r
<1>4. Pipe' = Append(Pipe, Login!Response(n, w)) BY <1>3 DEF Pipe
<1>5. Append(<< >>, Login!Response(n, w)) = <<Login!Response(n, w)>> BY Tuples
<1>6. \A x : Append(<<x>>, Login!Response(n, w)) = <<x, Login!Response(n, w)>> BY Tuples
<1> QED BY <1>4, <1>5, <1>6

\* The fields of an instance that changes.
LEMMA InstanceFields ==
  ASSUME NEW t \in [state : States, inbox : Seq(Requests), hung : BOOLEAN], NEW s, NEW q
  PROVE  /\ [t EXCEPT !.state = s] = [state |-> s, inbox |-> t.inbox, hung |-> t.hung]
         /\ [t EXCEPT !.inbox = q] = [state |-> t.state, inbox |-> q, hung |-> t.hung]
OBVIOUS

\* Only the instance of the client n has something to do.
LEMMA OnlyNewest ==
  ASSUME NEW n \in Login!Ids, Others(n), NEW c \in Login!Ids, c # n
  PROVE  tds[c].inbox = << >> /\ tds[c].state \in {"none", "gone"}
<1>1. c < n \/ c > n BY DEF Login!Ids
<1> QED BY <1>1 DEF Others, UsedUp, NeverUsed

\* What the newest instance does, leaves the threads and the other clients alone.
LEMMA InstanceTurn ==
  ASSUME NEW n \in Login!Ids, Turn(n), NEW td, tds' = [tds EXCEPT ![n] = td], LibraryTyped,
         UNCHANGED <<main, recv, client, haveAuthorization, needQuit, canQuit>>
  PROVE  /\ tds'[n] = td /\ Others(n)' /\ Assigned(n)'
         /\ (Outside => Outside') /\ (Afterwards => Afterwards')
         /\ (Resting => Resting') /\ (Signals => Signals') /\ (Assigns => Assigns')
<1>1. tds'[n] = td /\ \A c \in Login!Ids : c # n => tds'[c] = tds[c] BY DEF LibraryTyped
<1>2. Others(n)' BY <1>1 DEF Turn, Others, Login!Ids
<1>3. Assigned(n)' BY DEF Turn, Assigned
<1> QED BY <1>1, <1>2, <1>3 DEF Outside, Afterwards, Resting, Signals, Assigns

\* The client takes a request.
LEMMA TdTakesTurn ==
  ASSUME AuthTypes, NEW n \in Login!Ids, Turn(n), NEW c \in Login!Ids, Login!TdTakes(c)
  PROVE  Turn(n)'
<1>1. c = n BY OnlyNewest DEF Turn, Login!TdTakes
<1>2. UNCHANGED <<main, recv, client, haveAuthorization, needQuit, canQuit, last>> /\ tds[n].inbox # << >>
  BY <1>1 DEF Login!TdTakes, Login!flags
<1> DEFINE q == Head(tds[n].inbox)
           td == [tds[n] EXCEPT !.inbox = Tail(@)]
<1>3. \/ \E s \in Login!Leads(td.state, q) :
           tds' = [tds EXCEPT ![n] = Login!Becomes(td, s)] /\ out' = Append(out, Login!Response(n, s))
      \/ /\ tds' = [tds EXCEPT ![n] = td]
         /\ out' = IF q \in Login!Authorizing THEN Append(out, Login!Response(n, "error")) ELSE out
         /\ Login!Leads(td.state, q) = {} \/ q \in Login!Authorizing
  BY <1>1 DEF Login!TdTakes
<1>4. tds[n] \in [state : States, inbox : Seq(Requests), hung : BOOLEAN]
  BY DEF AuthTypes, LibraryTyped, Instances
<1>5. td = [state |-> tds[n].state, inbox |-> Tail(tds[n].inbox), hung |-> tds[n].hung]
  BY <1>4, InstanceFields
<1>6. td.state = tds[n].state BY <1>5
<1>7. \A s : Login!Becomes(td, s) = [state |-> s, inbox |-> Tail(tds[n].inbox), hung |-> tds[n].hung]
  <2>1. Tail(tds[n].inbox) \in Seq(Requests)
    <3>1. tds[n].inbox \in Seq(Requests) BY <1>4
    <3> QED BY <3>1, <1>2
  <2>2. td \in [state : States, inbox : Seq(Requests), hung : BOOLEAN] BY <1>4, <1>5, <2>1
  <2>3. td.inbox = Tail(tds[n].inbox) /\ td.hung = tds[n].hung BY <1>5
  <2> HIDE DEF td
  <2> QED BY <2>2, <2>3, InstanceFields DEF Login!Becomes
<1>8. LibraryTyped BY DEF AuthTypes
<1> HIDE DEF td
<1>9. ASSUME NEW s, tds' = [tds EXCEPT ![n] = Login!Becomes(td, s)]
      PROVE  /\ tds'[n] = [state |-> s, inbox |-> Tail(tds[n].inbox), hung |-> tds[n].hung]
             /\ Others(n)' /\ Assigned(n)' /\ (Outside => Outside') /\ (Afterwards => Afterwards')
             /\ (Resting => Resting') /\ (Signals => Signals') /\ (Assigns => Assigns')
  BY <1>2, <1>7, <1>8, <1>9, InstanceTurn
<1>10. ASSUME tds' = [tds EXCEPT ![n] = td]
       PROVE  /\ tds'[n] = [state |-> tds[n].state, inbox |-> Tail(tds[n].inbox), hung |-> tds[n].hung]
              /\ Others(n)' /\ Assigned(n)' /\ (Outside => Outside') /\ (Resting => Resting')
  BY <1>2, <1>5, <1>8, <1>10, InstanceTurn
<1>11. \A x : tds[n].inbox = <<x>> => q = x /\ Tail(tds[n].inbox) = << >> BY Tuples
<1>12. CASE Fresh(n)
  <2>1. tds[n].state = "fresh" /\ q = "start" /\ Tail(tds[n].inbox) = << >> /\ tds[n].hung = FALSE
    BY <1>11, <1>12 DEF Fresh
  <2>2. Login!Leads(td.state, q) = {"WaitTdlibParameters"} /\ q \notin Login!Authorizing
    BY <2>1, <1>6 DEF Login!Leads, Login!Authorizing
  <2> DEFINE s == "WaitTdlibParameters"
  <2>3. tds' = [tds EXCEPT ![n] = Login!Becomes(td, s)] /\ out' = Append(out, Login!Response(n, s))
    BY <2>2, <1>3
  <2>4. Pipe' = <<Login!Response(n, s)>>
    <3>1. s \in Login!AuthStates BY DEF Login!AuthStates, Login!Asking
    <3> QED BY <2>3, <3>1, <1>2, <1>12, AnswerPipe DEF Fresh
  <2>5. Asks(n)'
    <3>1. s \in Login!Asking BY DEF Login!Asking
    <3>a. tds'[n] = [state |-> s, inbox |-> Tail(tds[n].inbox), hung |-> tds[n].hung] BY <2>3, <1>9
    <3>b. tds'[n] = [state |-> s, inbox |-> << >>, hung |-> FALSE] BY <3>a, <2>1
    <3>2. tds'[n].state = s /\ tds'[n].inbox = << >> /\ tds'[n].hung = FALSE BY <3>b
    <3>3. Outside' /\ Assigns' BY <2>3, <1>9, <1>12 DEF Fresh
    <3> QED BY <3>1, <3>2, <3>3, <2>4 DEF Asks
  <2> QED BY <2>3, <2>5, <1>9 DEF Turn, Phase
<1>13. CASE Asks(n)
  <2>1. PICK s \in Login!Asking :
          /\ tds[n].state = s /\ ~ tds[n].hung /\ Outside /\ main # "assign" /\ last = s
          /\ Resting /\ tds[n].inbox = <<Request(s)>> /\ Pipe = << >>
    BY <1>2, <1>13 DEF Asks
  <2>2. q = Request(s) /\ Tail(tds[n].inbox) = << >> /\ tds[n].hung = FALSE BY <2>1, <1>4, <1>11
  <2>3. CASE \E t \in Login!Leads(td.state, q) :
               tds' = [tds EXCEPT ![n] = Login!Becomes(td, t)] /\ out' = Append(out, Login!Response(n, t))
    <3>1. PICK t \in Login!Leads(td.state, q) :
             tds' = [tds EXCEPT ![n] = Login!Becomes(td, t)] /\ out' = Append(out, Login!Response(n, t))
               BY <2>3
    <3>2. t \in {"WaitEncryptionKey", "WaitPhoneNumber", "Ready"}
      BY <2>1, <2>2, <1>6 DEF Login!Leads, Request, Login!Asking
    <3>3. Pipe' = <<Login!Response(n, t)>>
      <4>1. t \in Login!AuthStates BY <3>2 DEF Login!AuthStates, Login!Asking
      <4> QED BY <3>1, <4>1, <2>1, <1>2, AnswerPipe
    <3>4. CASE t = "Ready"
      <4>1. ReadyComes(n)' BY <3>1, <3>3, <3>4, <2>1, <2>2, <1>2, <1>9 DEF ReadyComes
      <4> QED BY <3>1, <4>1, <1>9 DEF Turn, Phase
    <3>5. CASE t # "Ready"
      <4>1. t \in Login!Asking BY <3>2, <3>5 DEF Login!Asking
      <4>2. Assigns' BY <3>1, <2>1, <1>9 DEF Resting, Assigns
      <4>a. tds'[n] = [state |-> t, inbox |-> Tail(tds[n].inbox), hung |-> tds[n].hung] /\ Outside' /\ main' # "assign"
        BY <3>1, <2>1, <1>2, <1>9
      <4>b. tds'[n] = [state |-> t, inbox |-> << >>, hung |-> FALSE] BY <4>a, <2>2
      <4>c. tds'[n].state = t /\ tds'[n].inbox = << >> /\ tds'[n].hung = FALSE BY <4>b
      <4>3. Asks(n)' BY <3>3, <4>1, <4>2, <4>a, <4>c DEF Asks
      <4> QED BY <3>1, <4>3, <1>9 DEF Turn, Phase
    <3> QED BY <3>4, <3>5
  <2>4. CASE tds' = [tds EXCEPT ![n] = td] /\ out' = IF q \in Login!Authorizing THEN Append(out, Login!Response(n, "error")) ELSE out
    <3>1. q \in Login!Authorizing BY <2>2 DEF Login!Authorizing, Request
    <3>2. Pipe' = <<Login!Response(n, "error")>> BY <2>4, <3>1, <2>1, <1>2, AnswerPipe
    <3>3. Asks(n)' BY <3>2, <2>1, <2>2, <2>4, <1>2, <1>10 DEF Asks
    <3> QED BY <2>4, <3>3, <1>10 DEF Turn, Phase
  <2> QED BY <2>3, <2>4, <1>3
<1>14. CASE Told(n)
  <2>1. /\ tds[n].state = "Ready" /\ tds[n].hung = FALSE /\ Signals /\ Pipe = << >> /\ Afterwards /\ ~ canQuit
        /\ q \in {"logOut", "close"} /\ Tail(tds[n].inbox) = << >>
    BY <1>4, <1>11, <1>14 DEF Told
  <2>2. Login!Leads(td.state, q) \subseteq Closings /\ Login!Leads(td.state, q) # {} /\ q \notin Login!Authorizing
    BY <2>1, <1>6 DEF Login!Leads, Login!Authorizing, Closings
  <2>3. PICK t \in Closings : tds' = [tds EXCEPT ![n] = Login!Becomes(td, t)] /\ out' = Append(out, Login!Response(n, t))
    BY <2>2, <1>3
  <2>4. Pipe' = <<Login!Response(n, t)>>
    <3>1. t \in Login!AuthStates BY DEF Login!AuthStates, Closings
    <3> QED BY <2>1, <2>3, <3>1, <1>2, AnswerPipe
  <2>5. Going(n)'
    <3>a. tds'[n] = [state |-> t, inbox |-> Tail(tds[n].inbox), hung |-> tds[n].hung] BY <2>3, <1>9
    <3>b. tds'[n] = [state |-> t, inbox |-> << >>, hung |-> FALSE] BY <3>a, <2>1
    <3>1. tds'[n].state = t /\ tds'[n].inbox = << >> /\ tds'[n].hung = FALSE BY <3>b
    <3>2. Signals' /\ Afterwards' /\ ~ canQuit' BY <2>1, <2>3, <1>2, <1>9
    <3> QED BY <3>1, <3>2, <2>4 DEF Going
  <2> QED BY <2>3, <2>5, <1>9 DEF Turn, Phase
<1>15. ~ ReadyComes(n) /\ ~ Works(n) /\ ~ Leaves(n) /\ ~ Going(n) /\ ~ Reports(n) /\ ~ Ends(n) /\ ~ Follows(n) /\ ~ Quits(n)
  BY <1>2 DEF ReadyComes, Works, Leaves, Going, Reports, Ends, Follows, Quits, UsedUp
<1> QED BY <1>12, <1>13, <1>14, <1>15 DEF Turn, Phase

\* It has closed its databases.
LEMMA TdClosesTurn ==
  ASSUME AuthTypes, NEW n \in Login!Ids, Turn(n), NEW c \in Login!Ids, Login!TdCloses(c)
  PROVE  Turn(n)'
<1>1. c = n BY OnlyNewest DEF Turn, Login!TdCloses
<1>2. UNCHANGED <<main, recv, client, haveAuthorization, needQuit, canQuit, last>> /\ tds[n].state \in Closings
  BY <1>1 DEF Login!TdCloses, Login!flags, Closings
<1>3. Going(n)
  BY <1>2 DEF Turn, Phase, Fresh, Asks, ReadyComes, Works, Leaves, Told, Reports, Ends, Follows,
     Quits,
              UsedUp, Closings, Login!Asking
<1>4. tds[n] \in [state : States, inbox : Seq(Requests), hung : BOOLEAN]
  BY DEF AuthTypes, LibraryTyped, Instances
<1>5. [tds[n] EXCEPT !.state = "Closed"] = [state |-> "Closed", inbox |-> tds[n].inbox, hung |-> tds[n].hung]
  BY <1>4, InstanceFields
<1>6. tds' = [tds EXCEPT ![n] = [state |-> "Closed", inbox |-> tds[n].inbox, hung |-> tds[n].hung]]
      /\ out' = Append(out, Login!Response(n, "report"))
  BY <1>1, <1>5 DEF Login!TdCloses, Login!Becomes
<1>7. /\ tds'[n] = [state |-> "Closed", inbox |-> tds[n].inbox, hung |-> tds[n].hung]
      /\ Others(n)' /\ Assigned(n)' /\ (Afterwards => Afterwards') /\ (Signals => Signals')
  BY <1>2, <1>6, InstanceTurn DEF AuthTypes
<1>8. /\ Pipe = << >> => Pipe' = <<Login!Response(n, "report")>>
      /\ \A x : Pipe = <<x>> => Pipe' = <<x, Login!Response(n, "report")>>
  BY <1>2, <1>6, AnswerPipe
<1>9. \/ Pipe' = <<Login!Response(n, "report")>>
      \/ \E s \in Closings : Pipe' = <<Login!Response(n, s), Login!Response(n, "report")>>
  BY <1>2, <1>3, <1>8 DEF Going
<1>10. Reports(n)' BY <1>2, <1>3, <1>7, <1>9 DEF Going, Reports
<1> QED BY <1>7, <1>10 DEF Turn, Phase

\* It is gone, and its last update is on the way.
LEMMA TdGoneTurn ==
  ASSUME AuthTypes, NEW n \in Login!Ids, Turn(n), NEW c \in Login!Ids, Login!TdGone(c)
  PROVE  Turn(n)'
<1>1. c = n BY OnlyNewest DEF Turn, Login!TdGone
<1>2. UNCHANGED <<main, recv, client, haveAuthorization, needQuit, canQuit, last>> /\ tds[n].state = "Closed" /\ tds[n].hung
  BY <1>1 DEF Login!TdGone, Login!flags
<1>3. Reports(n)
  BY <1>2 DEF Turn, Phase, Fresh, Asks, ReadyComes, Works, Leaves, Told, Going, Ends, Follows,
     Quits,
              UsedUp, Closings, Login!Asking
<1>4. tds[n] \in [state : States, inbox : Seq(Requests), hung : BOOLEAN]
  BY DEF AuthTypes, LibraryTyped, Instances
<1>5. [tds[n] EXCEPT !.state = "gone"] = UsedUp
  <2>1. tds[n].hung = TRUE /\ tds[n].inbox = << >> BY <1>2, <1>3, <1>4 DEF Reports
  <2> QED BY <2>1, <1>4, InstanceFields DEF UsedUp
<1>6. tds' = [tds EXCEPT ![n] = UsedUp] /\ out' = Append(out, Login!Response(n, "Closed"))
  BY <1>1, <1>5 DEF Login!TdGone, Login!Becomes
<1>7. tds'[n] = UsedUp /\ Others(n)' /\ Assigned(n)' /\ (Afterwards => Afterwards') /\ (Signals => Signals')
  BY <1>2, <1>6, InstanceTurn DEF AuthTypes
<1>8. /\ Pipe = << >> => Pipe' = <<Login!Response(n, "Closed")>>
      /\ \A x : Pipe = <<x>> => Pipe' = <<x, Login!Response(n, "Closed")>>
  BY <1>2, <1>6, AnswerPipe DEF Login!AuthStates
<1>9. \/ Pipe' = <<Login!Response(n, "Closed")>>
      \/ \E s \in Closings : Pipe' = <<Login!Response(n, s), Login!Response(n, "Closed")>>
  BY <1>2, <1>3, <1>8 DEF Reports
<1>10. Ends(n)' BY <1>2, <1>3, <1>7, <1>9 DEF Reports, Ends
<1> QED BY <1>7, <1>10 DEF Turn, Phase

\* No client has its turn at the beginning.
LEMMA InTurnInit == Login!Init => InTurn
<1> SUFFICES ASSUME Login!Init PROVE Begins BY DEF InTurn
<1>1. Pipe = << >> BY DEF Login!Init, Pipe
<1> QED BY <1>1 DEF Login!Init, Begins, NeverUsed

\* Before the first client only MainCreate changes something.
LEMMA BeginsStep ==
  ASSUME AuthTypes, Begins, Login!Next, ~ serverLogout
  PROVE  Begins' \/ \E n \in Login!Ids : Turn(n)'
<1>1. main = "create" /\ recv.pc = "collect" /\ Pipe = << >> /\ \A c \in Login!Ids : tds[c] = NeverUsed
  BY DEF Begins
<1>2. recv.batch = << >> /\ out = << >>
  <2>1. recv.batch \in Seq(Handled) /\ out \in Seq(Responses)
    BY DEF AuthTypes, ThreadsTyped, LibraryTyped
  <2>2. recv.batch \o out = << >> BY <1>1 DEF Pipe
  <2> QED BY <2>1, <2>2, JoinNone
<1>3. ~ Login!Receiver
  BY <1>1, <1>2 DEF Login!Receiver, Login!Collect, Login!BatchEnds, Login!HandleResponse,
     Login!PromptAnswered, Login!Signal, Login!Recreate, Login!Reassign
<1>4. ASSUME NEW c \in Login!Ids PROVE ~ Login!Td(c) /\ ~ Login!ServerLogsOut(c)
  BY <1>1 DEF Login!Td, Login!TdTakes, Login!TdCloses, Login!TdGone, Login!ServerLogsOut, NeverUsed
<1>5. ASSUME NEW c PROVE ~ Login!Command(c) BY <1>1 DEF Login!Command
<1>6. ~ Login!MainAssign /\ ~ Login!ForgetAuthorization /\ ~ Login!SendCommand
  BY <1>1 DEF Login!MainAssign, Login!ForgetAuthorization, Login!SendCommand
<1>7. CASE Login!MainCreate BY <1>7, MainCreateTurn
<1>8. CASE Login!MainStep
  <2>1. UNCHANGED <<main, recv, client, haveAuthorization, needQuit, canQuit, tds, out>>
    BY <1>1, <1>8 DEF Login!MainStep, Login!flags
  <2>2. Pipe' = Pipe BY <2>1, PipeStays
  <2> QED BY <2>1, <2>2 DEF Begins
<1> QED BY <1>3, <1>4, <1>5, <1>6, <1>7, <1>8 DEF Login!Next, Login!MainThread

\* Every step keeps the turns.
LEMMA InTurnStep ==
  ASSUME AuthTypes, InTurn, [Login!Next]_(Login!vars)
  PROVE  InTurn'
<1>1. CASE UNCHANGED Login!vars
  <2>1. UNCHANGED <<main, recv, client, haveAuthorization, needQuit, canQuit, last, tds, out, serverLogout>>
    BY <1>1 DEF Login!vars
  <2>2. Pipe' = Pipe BY <2>1, PipeStays
  <2>3. (Outside <=> Outside') /\ (Afterwards <=> Afterwards') /\ (Resting <=> Resting') /\ (Signals <=> Signals') /\ (Assigns <=> Assigns')
    BY <2>1 DEF Outside, Afterwards, Resting, Signals, Assigns
  <2>4. Begins => Begins' BY <2>1, <2>2 DEF Begins
  <2>5. ASSUME NEW n \in Login!Ids, Turn(n) PROVE Turn(n)'
    <3>1. Others(n)' /\ Assigned(n)' BY <2>1, <2>5 DEF Turn, Others, Assigned
    <3>2. Phase(n)'
      BY <2>1, <2>2, <2>3, <2>5 DEF Turn, Phase, Fresh, Asks, ReadyComes, Works, Leaves, Told,
         Going, Reports, Ends, Follows, Quits
    <3> QED BY <3>1, <3>2 DEF Turn
  <2> QED BY <2>1, <2>4, <2>5 DEF InTurn
<1>2. CASE Login!Next
  <2>1. serverLogout' = serverLogout BY <1>2 DEF Login!Next, Login!environment
  <2>2. SUFFICES ASSUME ~ serverLogout PROVE Begins' \/ \E n \in Login!Ids : Turn(n)'
    BY <2>1 DEF InTurn
  <2>3. CASE Begins BY <2>2, <2>3, <1>2, BeginsStep
  <2>4. CASE ~ Begins
    <3>1. PICK n \in Login!Ids : Turn(n) BY <2>2, <2>4 DEF InTurn
    <3>2. ~ Login!MainCreate
      BY <3>1 DEF Login!MainCreate, Turn, Phase, Fresh, Asks, ReadyComes, Works, Leaves, Told,
         Going, Reports, Ends,
                  Follows, Quits, Outside, Afterwards
    <3>3. CASE Login!Receiver
      BY <3>1, <3>3, CollectTurn, BatchEndsTurn, HandleTurn, PromptTurn, SignalTurn, RecreateTurn,
         ReassignTurn
         DEF Login!Receiver
    <3>4. CASE Login!MainThread
      BY <3>1, <3>2, <3>4, MainAssignTurn, MainStepTurn, ForgetTurn, SendCommandTurn
         DEF Login!MainThread
    <3>5. CASE \E c \in {"other", "lo", "q"} : Login!Command(c) BY <3>1, <3>5, CommandTurn
    <3>6. ASSUME NEW c \in Login!Ids, Login!Td(c) \/ Login!ServerLogsOut(c) PROVE \E m \in Login!Ids : Turn(m)'
      <4>1. ~ Login!ServerLogsOut(c) BY <2>2 DEF Login!ServerLogsOut
      <4> QED BY <3>1, <3>6, <4>1, TdTakesTurn, TdClosesTurn, TdGoneTurn DEF Login!Td
    <3> QED BY <1>2, <3>3, <3>4, <3>5, <3>6 DEF Login!Next
  <2> QED BY <2>3, <2>4
<1> QED BY <1>1, <1>2

\* What the phases say of the clients.
LEMMA InTurnHolds ==
  ASSUME AuthTypes, InTurn
  PROVE  Login!ClientsInTurn
<1>1. Login!TypeOK BY AuthTypesOK
<1>2. Login!NoLostWakeup BY DEF AuthTypes
<1>3. Login!OneLiveClient
  <2> SUFFICES ASSUME ~ serverLogout, NEW c \in Login!Ids, NEW d \in Login!Ids, c < d, tds[d].state # "none"
               PROVE  tds[c].state = "gone"
    BY DEF Login!OneLiveClient
  <2>1. ~ Begins BY DEF Begins, NeverUsed
  <2>2. PICK n \in Login!Ids : Turn(n) BY <2>1 DEF InTurn
  <2>3. ~ (d > n) BY <2>2 DEF Turn, Others, NeverUsed
  <2>4. c < n BY <2>3 DEF Login!Ids
  <2> QED BY <2>2, <2>4 DEF Turn, Others, UsedUp
<1>4. Login!DoneMeansClosed
  <2> SUFFICES ASSUME ~ serverLogout, main = "done", NEW c \in Login!Ids PROVE tds[c].state \in {"none", "gone"}
    BY DEF Login!DoneMeansClosed
  <2>1. ~ Begins BY DEF Begins
  <2>2. PICK n \in Login!Ids : Turn(n) BY <2>1 DEF InTurn
  <2>3. Quits(n)
    BY <2>2 DEF Turn, Phase, Fresh, Asks, ReadyComes, Works, Leaves, Told, Going, Reports, Ends,
       Follows,
                Outside, Afterwards
  <2>4. CASE c = n BY <2>3, <2>4 DEF Quits, UsedUp
  <2>5. CASE c # n BY <2>2, <2>5, OnlyNewest DEF Turn
  <2> QED BY <2>4, <2>5
<1> QED BY <1>1, <1>2, <1>3, <1>4 DEF Login!ClientsInTurn

-----------------------------------------------------------------------------
(* Sequences *)

\* A sequence and its first element.
LEMMA FirstOff ==
  ASSUME NEW R, NEW s \in Seq(R), s # << >>
  PROVE  /\ <<Head(s)>> \o Tail(s) = s /\ Head(s) = s[1] /\ Head(s) \in R
         /\ Tail(s) \in Seq(R) /\ Len(s) \in Nat \ {0} /\ DOMAIN s = 1 .. Len(s)
         /\ DOMAIN Tail(s) = 1 .. Len(s) - 1
         /\ \A i \in 1 .. Len(s) - 1 : Tail(s)[i] = s[i + 1]
OBVIOUS

\* An element put before a sequence.
LEMMA Ahead ==
  ASSUME NEW R, NEW e \in R, NEW s \in Seq(R)
  PROVE  /\ <<e>> \o s \in Seq(R) /\ <<e>> \o s # << >> /\ (<<e>> \o s)[1] = e /\ Tail(<<e>> \o s) = s
OBVIOUS

\* An element put behind it.
LEMMA Behind ==
  ASSUME NEW R, NEW s \in Seq(R), NEW x \in R
  PROVE  /\ Append(s, x) \in Seq(R) /\ Len(s) \in Nat /\ DOMAIN s = 1 .. Len(s)
         /\ DOMAIN Append(s, x) = 1 .. Len(s) + 1
         /\ \A i \in 1 .. Len(s) : Append(s, x)[i] = s[i]
         /\ Append(s, x)[Len(s) + 1] = x
OBVIOUS

\* One before and one behind.
LEMMA AheadBehind ==
  ASSUME NEW R, NEW e \in R, NEW s \in Seq(R), NEW x \in R
  PROVE  <<e>> \o Append(s, x) = Append(<<e>> \o s, x)
OBVIOUS

\* Three behind.
LEMMA ThreeBehind ==
  ASSUME NEW R, NEW s \in Seq(R), NEW x \in R, NEW y \in R, NEW z \in R
  PROVE  s \o <<x, y, z>> = Append(Append(Append(s, x), y), z)
OBVIOUS

\* Sequences are joined in any grouping.
LEMMA Joined ==
  ASSUME NEW R, NEW a \in Seq(R), NEW b \in Seq(R), NEW c \in Seq(R)
  PROVE  (a \o b) \o c = a \o (b \o c)
OBVIOUS

\* What is before and after an element.
LEMMA Parts ==
  ASSUME NEW R, NEW s \in Seq(R), NEW f \in 1 .. Len(s) + 1
  PROVE  SubSeq(s, 1, f - 1) \in Seq(R) /\ SubSeq(s, f + 1, Len(s)) \in Seq(R)
<1>1. Len(s) \in Nat /\ f \in Nat OBVIOUS
<1> QED BY <1>1

\* What is left of a sequence when one element is taken out.
LEMMA TakenOut ==
  ASSUME NEW R, NEW s \in Seq(R), NEW f \in 1 .. Len(s) + 1
  PROVE  LET rest == SubSeq(s, 1, f - 1) \o SubSeq(s, f + 1, Len(s)) IN
         /\ rest \in Seq(R)
         /\ \A i \in DOMAIN rest : \E j \in 1 .. Len(s) : j # f /\ rest[i] = s[j]
<1> DEFINE a == SubSeq(s, 1, f - 1)
           b == SubSeq(s, f + 1, Len(s))
<1>1. Len(s) \in Nat /\ f \in Nat OBVIOUS
<1>2. a \in Seq(R) /\ Len(a) = f - 1 /\ \A i \in 1 .. f - 1 : a[i] = s[i] BY <1>1
<1>3. CASE f = Len(s) + 1
  <2>1. b = << >> BY <1>1, <1>3
  <2>3. DOMAIN a = 1 .. f - 1 BY <1>2
  <2> HIDE DEF a, b
  <2>2. a \o b = a BY <2>1, <1>2
  <2>4. \A i \in DOMAIN a : i \in 1 .. Len(s) /\ i # f /\ a[i] = s[i] BY <1>1, <1>2, <1>3, <2>3
  <2>5. (a \o b) \in Seq(R) /\ \A i \in DOMAIN (a \o b) : \E j \in 1 .. Len(s) : j # f /\ (a \o b)[i] = s[j]
    BY <2>2, <2>4, <1>2
  <2> QED BY <2>5 DEF a, b
<1>4. CASE f # Len(s) + 1
  <2>1. f <= Len(s) BY <1>1, <1>4
  <2>2. b \in Seq(R) /\ Len(b) = Len(s) - f /\ \A i \in 1 .. Len(s) - f : b[i] = s[i + f]
    BY <1>1, <2>1
  <2> HIDE DEF a, b
  <2>3. a \o b \in Seq(R) /\ DOMAIN (a \o b) = 1 .. Len(s) - 1 BY <1>1, <1>2, <2>1, <2>2
  <2>4. ASSUME NEW i \in 1 .. Len(s) - 1 PROVE \E j \in 1 .. Len(s) : j # f /\ (a \o b)[i] = s[j]
    <3>1. CASE i <= f - 1
      <4>1. (a \o b)[i] = a[i] BY <3>1, <1>1, <1>2, <2>2
      <4>2. i \in 1 .. f - 1 /\ i \in 1 .. Len(s) /\ i # f BY <3>1, <1>1
      <4> QED BY <4>1, <4>2, <1>2
    <3>2. CASE i > f - 1
      <4>1. (a \o b)[i] = b[i - (f - 1)] BY <3>2, <1>1, <1>2, <2>1, <2>2
      <4>2. i - (f - 1) \in 1 .. Len(s) - f BY <3>2, <1>1, <2>1
      <4>3. b[i - (f - 1)] = s[i - (f - 1) + f] BY <4>2, <2>2
      <4>4. i - (f - 1) + f = i + 1 /\ i + 1 \in 1 .. Len(s) /\ i + 1 # f BY <3>2, <1>1
      <4> QED BY <4>1, <4>3, <4>4
    <3>3. i <= f - 1 \/ i > f - 1 BY <1>1
    <3> QED BY <3>1, <3>2, <3>3
  <2>5. (a \o b) \in Seq(R) /\ \A i \in DOMAIN (a \o b) : \E j \in 1 .. Len(s) : j # f /\ (a \o b)[i] = s[j]
    BY <2>3, <2>4
  <2> QED BY <2>5 DEF a, b
<1> QED BY <1>3, <1>4
-----------------------------------------------------------------------------
(* What TDLib sends *)

\* The entries of the list, and the positions of a chat: at most one is in the main list.
Entries == (1 .. MaxOrder) \X List!Chats
OneMain(ps) == \A i, j \in DOMAIN ps : ps[i][1] = "main" /\ ps[j][1] = "main" => i = j
Placed == {ps \in Seq(List!Position) : OneMain(ps)}

\* The updates and answers.
NewEvents == {"newChat"} \X List!Chats \X Placed
LastEvents == {"lastMessage"} \X List!Chats \X Placed
PlaceEvents == {List!ChatPosition(c, o) : c \in List!Chats, o \in 0 .. MaxOrder}
OtherEvents == {List!OtherPosition(c) : c \in List!Chats}
FieldEvents == {List!Field(c) : c \in List!Chats}
AnswerEvents == {"ok", "notFound"} \X {"gcs", "refresh"} \X Limits

\* What the handler takes the monitor of a chat for.
ChatEvents == NewEvents \cup LastEvents \cup PlaceEvents \cup FieldEvents
Events == ChatEvents \cup OtherEvents \cup AnswerEvents

-----------------------------------------------------------------------------
(* The invariant *)

\* Where a thread can be.
Ats ==
  {"idle", "gcs", "refresh", "print", "clear", "stream", "fill", "full", "chat", "positions"}
Points == [at : Ats, limit : {0} \cup Limits, todo : SUBSET Entries, ev : ChatEvents \cup Seq(Groups)]

\* What it holds there.
PointTyped(t, p) ==
  /\ p.at \in {"gcs", "refresh"} => p.limit \in Limits
  /\ p.at \in {"chat", "positions"} => t = "td" /\ p.ev \in ChatEvents
  /\ p.at = "fill" => p.ev \in Seq(Groups) /\ \A e \in p.todo : e[2] \in Groups

\* The types of the variables, part by part.
TdlibTyped ==
  /\ known \subseteq List!Chats /\ order \in [List!Chats -> 0 .. MaxOrder]
  /\ requests \in Seq({p \in Points : p.at \in {"gcs", "refresh"} /\ p.limit \in Limits})
  /\ queue \in Seq(Events)
  /\ left \in [updates : Nat, uses : 0 .. Uses] /\ user \in {"gcs", "refresh", "relogin"}
PointsTyped ==
  /\ pc \in [List!Threads -> Points]
  /\ \A t \in List!Threads : PointTyped(t, pc[t])
StoreTyped ==
  /\ DOMAIN positions \subseteq List!Chats
  /\ \A c \in DOMAIN positions : positions[c] \in Placed
  /\ mainChatList \subseteq Entries
LocksTyped ==
  /\ listLock \in List!Threads \cup {List!Nobody} /\ chatLock \in {0} \cup List!Chats
  /\ pc["td"].at = "positions" =>
       chatLock = pc["td"].ev[2] /\ chatLock \in DOMAIN positions /\ pc["td"].ev[1] # "field"
FlagsTyped ==
  haveFull \in BOOLEAN /\ changed \in SUBSET List!Threads /\ failed \in BOOLEAN /\ model \subseteq Groups

\* All types.
ListTypes == TdlibTyped /\ PointsTyped /\ StoreTyped /\ LocksTyped /\ FlagsTyped

\* The updates that are not handled yet.
Pending == IF pc["td"].at \in {"chat", "positions"} THEN <<pc["td"].ev>> \o queue ELSE queue

\* An update is about the chat c, and announces it.
Speaks(ev, c) == ev[1] \in {"newChat", "chatPosition", "lastMessage", "field"} /\ ev[2] = c
IsNew(ev, c) == ev[1] = "newChat" /\ ev[2] = c
\* an update that brings the place of a chat in the main list
Orders(ev, c) ==
  /\ Speaks(ev, c)
  /\ ev[1] \in {"newChat", "lastMessage"} \/ (ev[1] = "chatPosition" /\ ev[3][1][1] = "main")
\* What the list has of a chat at the order o, and whether an update brings it there.
Single(c, o) == IF o = 0 THEN {} ELSE {<<o, c>>}
Carries(ev, o) ==
  IF ev[1] = "chatPosition" THEN ev[3][1][2] = o ELSE List!InMain(ev[2], ev[3]) = Single(ev[2], o)

\* A chat TDLib speaks of was announced: k are the chats it knows, d those the
\* application has, q the updates.
AnnouncedIn(k, d, q) ==
  /\ \A c \in k : c \in d \/ \E i \in DOMAIN q : IsNew(q[i], c)
  /\ \A i \in DOMAIN q, c \in List!Chats : Speaks(q[i], c) => c \in d \/ \E j \in 1 .. i : IsNew(q[j], c)

\* It was announced once, and the application has nothing of it before; p are the
\* positions it has, b tells whether it is about to set some.
OnceIn(k, p, q, b) ==
  /\ \A c \in List!Chats \ k : c \notin DOMAIN p /\ \A i \in DOMAIN q : ~ Speaks(q[i], c)
  /\ \A i \in DOMAIN q, c \in List!Chats : IsNew(q[i], c) =>
       /\ \A j \in DOMAIN q : IsNew(q[j], c) => j = i
       /\ c \in DOMAIN p => i = 1 /\ b /\ p[c] = << >>

\* The last update of the chat c has its place o in the main list, or the application has it.
LastOf(c, o, p, q) ==
  \/ \E i \in DOMAIN q :
       /\ Orders(q[i], c) /\ Carries(q[i], o)
       /\ \A j \in DOMAIN q : j > i => ~ Orders(q[j], c)
  \/ /\ \A i \in DOMAIN q : ~ Orders(q[i], c)
     /\ c \in DOMAIN p /\ List!InMain(c, p[c]) = Single(c, o)

\* The parts of the invariant.
Announced == AnnouncedIn(known, DOMAIN positions, Pending)
AnnouncedOnce == OnceIn(known, positions, Pending, pc["td"].at = "positions")
LastCounts == \A c \in known : LastOf(c, order[c], positions, Pending)

\* The list holds the main positions of the chats.
Matches ==
  ~ failed /\ mainChatList = UNION {List!InMain(c, positions[c]) : c \in DOMAIN positions}

\* The invariant of the list; all but its first part hold for the first login.
ListInv == Announced /\ (List!FirstLogin => AnnouncedOnce /\ LastCounts /\ Matches)

-----------------------------------------------------------------------------
(* The updates *)

\* What an update is, by its kind.
LEMMA Kinds ==
  ASSUME NEW ev \in Events
  PROVE  /\ ev[1] \in {"newChat", "lastMessage"} => ev[2] \in List!Chats /\ ev[3] \in Placed
         /\ ev[1] = "chatPosition" =>
              /\ ev[2] \in List!Chats
              /\ \/ ev[3] = <<<<"folder", 1>>>>
                 \/ \E o \in 0 .. MaxOrder : ev[3] = <<<<"main", o>>>>
         /\ ev[1] = "field" => ev[2] \in List!Chats
         /\ ev[1] \in {"ok", "notFound"} => ev[2] \in {"gcs", "refresh"} /\ ev[3] \in Limits
         /\ ev[1] \in {"newChat", "lastMessage", "chatPosition", "field", "ok", "notFound"}
<1>1. CASE ev \in NewEvents \cup LastEvents BY <1>1 DEF NewEvents, LastEvents
<1>2. CASE ev \in PlaceEvents BY <1>2 DEF PlaceEvents, List!ChatPosition
<1>3. CASE ev \in OtherEvents BY <1>3 DEF OtherEvents, List!OtherPosition
<1>4. CASE ev \in FieldEvents BY <1>4 DEF FieldEvents, List!Field
<1>5. CASE ev \in AnswerEvents BY <1>5 DEF AnswerEvents
<1> QED BY <1>1, <1>2, <1>3, <1>4, <1>5 DEF Events, ChatEvents

\* What the handler takes the monitor of a chat for.
LEMMA KindsOfChats ==
  ASSUME NEW ev \in Events, ev[1] \in {"newChat", "lastMessage", "chatPosition", "field"},
         ev[1] = "chatPosition" => ev[3][1][1] = "main"
  PROVE  ev \in ChatEvents
<1>1. ASSUME ev \in OtherEvents PROVE FALSE
  <2>1. PICK c \in List!Chats : ev = <<"chatPosition", c, <<<<"folder", 1>>>>>>
    BY <1>1 DEF OtherEvents, List!OtherPosition
  <2>2. ev[1] = "chatPosition" /\ ev[3][1][1] = "folder" BY <2>1
  <2> QED BY <2>2
<1>2. ASSUME ev \in AnswerEvents PROVE FALSE
  <2>1. ev[1] \in {"ok", "notFound"} BY <1>2 DEF AnswerEvents
  <2> QED BY <2>1
<1> QED BY <1>1, <1>2 DEF Events

\* What an update of a chat carries, by its kind.
LEMMA ChatKinds ==
  ASSUME NEW ev \in ChatEvents
  PROVE  /\ ev \in Events /\ ev[2] \in List!Chats
         /\ ev[1] \in {"newChat", "lastMessage", "chatPosition", "field"}
         /\ ev[1] = "chatPosition" => \E o \in 0 .. MaxOrder : ev[3] = <<<<"main", o>>>>
         /\ ev[1] \in {"newChat", "lastMessage"} => ev[3] \in Placed
<1>1. CASE ev \in NewEvents \cup LastEvents BY <1>1 DEF NewEvents, LastEvents, Events
<1>2. CASE ev \in PlaceEvents BY <1>2 DEF PlaceEvents, List!ChatPosition, Events
<1>3. CASE ev \in FieldEvents BY <1>3 DEF FieldEvents, List!Field, Events
<1> QED BY <1>1, <1>2, <1>3 DEF ChatEvents

\* The main positions of a list that has at most one.
LEMMA NoMain ==
  ASSUME NEW ps \in Seq(List!Position), \A i \in DOMAIN ps : ps[i][1] # "main", NEW c
  PROVE  List!InMain(c, ps) = {} /\ ps \in Placed
BY DEF List!InMain, Placed, OneMain

\* A main position put before positions that are none.
LEMMA OneMainFirst ==
  ASSUME NEW ps \in Seq(List!Position), \A i \in DOMAIN ps : ps[i][1] # "main", NEW c, NEW o \in 1 .. MaxOrder
  PROVE  /\ List!InMain(c, <<<<"main", o>>>> \o ps) = {<<o, c>>}
         /\ <<<<"main", o>>>> \o ps \in Placed
<1> DEFINE new == <<<<"main", o>>>> \o ps
           p == <<"main", o>>
<1>1. p \in List!Position /\ p[1] = "main" /\ p[2] = o BY DEF List!Position, List!Lists
<1>2. new \in Seq(List!Position) /\ new[1] = p /\ DOMAIN new = 1 .. Len(ps) + 1 /\ Len(ps) \in Nat
      /\ \A i \in 2 .. Len(ps) + 1 : new[i] = ps[i - 1]
  <2> HIDE DEF p
  <2>1. <<p>> \in Seq(List!Position) /\ Len(<<p>>) = 1 /\ <<p>>[1] = p BY <1>1
  <2>2. (<<p>> \o ps) \in Seq(List!Position) /\ (<<p>> \o ps)[1] = p /\ DOMAIN (<<p>> \o ps) = 1 .. Len(ps) + 1
        /\ Len(ps) \in Nat /\ \A i \in 2 .. Len(ps) + 1 : (<<p>> \o ps)[i] = ps[i - 1]
    BY <2>1
  <2> QED BY <2>2 DEF p
<1>3. \A i \in 2 .. Len(ps) + 1 : i - 1 \in DOMAIN ps BY <1>2
<1> HIDE DEF new, p
<1>4. \A i \in DOMAIN new : new[i][1] = "main" <=> i = 1
  <2> SUFFICES ASSUME NEW i \in DOMAIN new PROVE new[i][1] = "main" <=> i = 1 OBVIOUS
  <2>1. CASE i = 1 BY <2>1, <1>1, <1>2
  <2>2. CASE i # 1
    <3>1. i \in 2 .. Len(ps) + 1 BY <2>2, <1>2
    <3> QED BY <3>1, <2>2, <1>2, <1>3
  <2> QED BY <2>1, <2>2
<1>5. 1 \in DOMAIN new BY <1>2
<1>6. {j \in DOMAIN new : new[j][1] = "main"} = {1} BY <1>4, <1>5
<1>7. List!InMain(c, new) = {<<o, c>>} BY <1>1, <1>2, <1>6 DEF List!InMain
<1>8. new \in Placed BY <1>2, <1>4 DEF Placed, OneMain
<1> QED BY <1>7, <1>8 DEF new, p

\* What NewPositions makes of the positions of a chat.
LEMMA Replaces ==
  ASSUME NEW ev \in ChatEvents, ev[1] # "field", NEW old \in Placed
  PROVE  /\ List!NewPositions(ev, old) \in Placed
         /\ \A o \in 0 .. MaxOrder : Carries(ev, o) => List!InMain(ev[2], List!NewPositions(ev, old)) = Single(ev[2], o)
<1>1. CASE ev[1] # "chatPosition"
  BY <1>1, ChatKinds DEF List!NewPositions, Carries
<1>2. CASE ev[1] = "chatPosition"
  <2> DEFINE IsMain(i) == old[i][1] = "main"
             F(i) == (i = Len(old) + 1 \/ IsMain(i)) /\ \A j \in 1 .. i - 1 : ~ IsMain(j)
             first == CHOOSE i \in 1 .. Len(old) + 1 : F(i)
             rest == SubSeq(old, 1, first - 1) \o SubSeq(old, first + 1, Len(old))
  <2>1. old \in Seq(List!Position) /\ Len(old) \in Nat /\ DOMAIN old = 1 .. Len(old) /\ OneMain(old)
    BY DEF Placed
  <2>2. PICK o \in 0 .. MaxOrder : ev[3] = <<<<"main", o>>>> BY <1>2, ChatKinds
  <2>3. first \in 1 .. Len(old) + 1 /\ F(first)
    <3> DEFINE K == {i \in 1 .. Len(old) + 1 : i = Len(old) + 1 \/ IsMain(i)}
    <3>1. K \in SUBSET Nat /\ Len(old) + 1 \in K BY <2>1
    <3>2. PICK n \in K : \A m \in K : n <= m
      <4> HIDE DEF K
      <4> QED BY <3>1, LeastNat
    <3>3. n \in 1 .. Len(old) + 1 /\ (n = Len(old) + 1 \/ IsMain(n)) OBVIOUS
    <3>4. ASSUME NEW j \in 1 .. n - 1 PROVE ~ IsMain(j)
      <4>1. j \in 1 .. Len(old) + 1 /\ ~ (n <= j) BY <3>3, <2>1
      <4> QED BY <4>1, <3>2
    <3>5. \E i \in 1 .. Len(old) + 1 : F(i) BY <3>3, <3>4
    <3> HIDE DEF F
    <3> QED BY <3>5
  <2> HIDE DEF first, F
  <2>a. rest = SubSeq(old, 1, first - 1) \o SubSeq(old, first + 1, Len(old)) OBVIOUS
  <2> HIDE DEF rest
  <2>4. rest \in Seq(List!Position) /\ \A i \in DOMAIN rest : \E j \in 1 .. Len(old) : j # first /\ rest[i] = old[j]
    <3>1. first \in 1 .. Len(old) + 1 BY <2>3
    <3>2. LET r == SubSeq(old, 1, first - 1) \o SubSeq(old, first + 1, Len(old)) IN
          r \in Seq(List!Position) /\ \A i \in DOMAIN r : \E j \in 1 .. Len(old) : j # first /\ r[i] = old[j]
      BY <3>1, <2>1, TakenOut, Zenon
    <3> QED BY <3>2 DEF rest
  <2>5. \A j \in 1 .. Len(old) : j # first => ~ IsMain(j)
    BY <2>1, <2>3 DEF OneMain, F
  <2>6. \A i \in DOMAIN rest : rest[i][1] # "main" BY <2>4, <2>5
  <2>7. ev[3][1][2] = o BY <2>2
  <2>8. List!NewPositions(ev, old) = (IF o = 0 THEN << >> ELSE <<<<"main", o>>>>) \o rest
    <3>1. List!NewPositions(ev, old) = (IF ev[3][1][2] = 0 THEN << >> ELSE ev[3]) \o SubSeq(old, 1, first - 1) \o SubSeq(old, first + 1, Len(old))
      BY <1>2 DEF List!NewPositions, first, F
    <3>2. SubSeq(old, 1, first - 1) \in Seq(List!Position) /\ SubSeq(old, first + 1, Len(old)) \in Seq(List!Position)
      BY <2>1, <2>3, Parts
    <3> DEFINE h == IF o = 0 THEN << >> ELSE <<<<"main", o>>>>
    <3>3. h \in Seq(List!Position)
      <4>1. o # 0 => <<"main", o>> \in List!Position BY SizesOK DEF List!Position, List!Lists
      <4> QED BY <4>1
    <3> HIDE DEF h
    <3>4. (h \o SubSeq(old, 1, first - 1)) \o SubSeq(old, first + 1, Len(old)) = h \o rest
      <4> DEFINE a == SubSeq(old, 1, first - 1)
                 b == SubSeq(old, first + 1, Len(old))
      <4>1. a \in Seq(List!Position) /\ b \in Seq(List!Position) /\ rest = a \o b BY <3>2, <2>a
      <4> HIDE DEF a, b
      <4>2. (h \o a) \o b = h \o (a \o b) BY <4>1, <3>3, Joined
      <4> QED BY <4>1, <4>2 DEF a, b
    <3> QED BY <3>1, <3>4, <2>2, <2>7 DEF h
  <2>9. CASE o = 0
    <3>1. << >> \o rest = rest BY <2>4
    <3>2. List!NewPositions(ev, old) = rest BY <3>1, <2>8, <2>9
    <3>3. List!InMain(ev[2], rest) = {} /\ rest \in Placed BY <2>4, <2>6, NoMain
    <3> QED BY <3>2, <3>3, <2>7, <2>9, <1>2 DEF Carries, Single
  <2>10. CASE o # 0
    <3>1. List!NewPositions(ev, old) = <<<<"main", o>>>> \o rest BY <2>8, <2>10
    <3>2. o \in 1 .. MaxOrder BY <2>10, SizesOK
    <3>3. List!InMain(ev[2], List!NewPositions(ev, old)) = {<<o, ev[2]>>} /\ List!NewPositions(ev, old) \in Placed
      <4> DEFINE c == ev[2]
      <4> HIDE DEF c
      <4>1. List!InMain(c, <<<<"main", o>>>> \o rest) = {<<o, c>>} /\ <<<<"main", o>>>> \o rest \in Placed
        BY <3>2, <2>4, <2>6, OneMainFirst
      <4> QED BY <4>1, <3>1 DEF c
    <3> QED BY <3>3, <2>7, <2>10, <1>2 DEF Carries, Single
  <2> QED BY <2>9, <2>10
<1> QED BY <1>1, <1>2

-----------------------------------------------------------------------------
(* What an update more, or an update less, does to the invariant *)

\* A chat is announced.
LEMMA OneMoreNew ==
  ASSUME NEW k \in SUBSET List!Chats, NEW p, NEW q \in Seq(Events), NEW b \in BOOLEAN,
         NEW c \in List!Chats, c \notin k, NEW ev \in NewEvents, ev[2] = c
  PROVE  /\ AnnouncedIn(k, DOMAIN p, q) => AnnouncedIn(k \cup {c}, DOMAIN p, Append(q, ev))
         /\ OnceIn(k, p, q, b) => OnceIn(k \cup {c}, p, Append(q, ev), b)
<1> DEFINE r == Append(q, ev)
           n == Len(q) + 1
<1>1. ev \in Events /\ ev[1] = "newChat" BY DEF NewEvents, ChatEvents, Events
<1>2. /\ n \in Nat \ {0} /\ DOMAIN q = 1 .. n - 1 /\ DOMAIN r = 1 .. n /\ r[n] = ev
      /\ \A i \in 1 .. n - 1 : r[i] = q[i]
  BY <1>1, Behind
<1> HIDE DEF r, n
<1>3. \A d : (IsNew(ev, d) <=> d = c) /\ (Speaks(ev, d) <=> d = c) BY <1>1 DEF IsNew, Speaks
<1>4. \A i \in DOMAIN r : i \in DOMAIN q \/ i = n BY <1>2
<1>5. ASSUME AnnouncedIn(k, DOMAIN p, q) PROVE AnnouncedIn(k \cup {c}, DOMAIN p, r)
  <2>1. ASSUME NEW d \in k \cup {c} PROVE d \in DOMAIN p \/ \E i \in DOMAIN r : IsNew(r[i], d)
    <3>1. CASE d = c BY <3>1, <1>2, <1>3
    <3>2. CASE d \in k
      <4>1. d \in DOMAIN p \/ \E i \in DOMAIN q : IsNew(q[i], d) BY <3>2, <1>5 DEF AnnouncedIn
      <4>2. \A i \in DOMAIN q : i \in DOMAIN r /\ r[i] = q[i] BY <1>2
      <4> QED BY <4>1, <4>2
    <3> QED BY <3>1, <3>2
  <2>2. ASSUME NEW i \in DOMAIN r, NEW d \in List!Chats, Speaks(r[i], d)
        PROVE  d \in DOMAIN p \/ \E j \in 1 .. i : IsNew(r[j], d)
    <3>1. CASE i = n
      <4>1. i \in 1 .. i /\ IsNew(r[i], d) BY <3>1, <2>2, <1>2, <1>3
      <4> QED BY <4>1
    <3>2. CASE i \in DOMAIN q
      <4>1. r[i] = q[i] /\ \A j \in 1 .. i : r[j] = q[j] BY <3>2, <1>2
      <4>2. d \in DOMAIN p \/ \E j \in 1 .. i : IsNew(q[j], d)
        BY <3>2, <4>1, <2>2, <1>5 DEF AnnouncedIn
      <4> QED BY <4>1, <4>2
    <3> QED BY <3>1, <3>2, <1>4
  <2> QED BY <2>1, <2>2 DEF AnnouncedIn
<1>6. ASSUME OnceIn(k, p, q, b) PROVE OnceIn(k \cup {c}, p, r, b)
  <2>0. c \notin DOMAIN p /\ \A i \in DOMAIN q : ~ Speaks(q[i], c) /\ ~ IsNew(q[i], c)
    <3>1. c \notin DOMAIN p /\ \A i \in DOMAIN q : ~ Speaks(q[i], c) BY <1>6 DEF OnceIn
    <3> QED BY <3>1 DEF Speaks, IsNew
  <2>1. ASSUME NEW d \in List!Chats \ (k \cup {c}) PROVE d \notin DOMAIN p /\ \A i \in DOMAIN r : ~ Speaks(r[i], d)
    <3>1. d \notin DOMAIN p /\ \A i \in DOMAIN q : ~ Speaks(q[i], d) BY <1>6 DEF OnceIn
    <3> QED BY <3>1, <1>2, <1>3, <1>4
  <2>2. ASSUME NEW i \in DOMAIN r, NEW d \in List!Chats, IsNew(r[i], d)
        PROVE  /\ \A j \in DOMAIN r : IsNew(r[j], d) => j = i
               /\ d \in DOMAIN p => i = 1 /\ b /\ p[d] = << >>
    <3>1. CASE d = c
      <4>1. \A j \in DOMAIN r : IsNew(r[j], c) => j = n BY <2>0, <1>2, <1>4
      <4> QED BY <3>1, <4>1, <2>0, <2>2
    <3>2. CASE d # c
      <4>1. \A j \in DOMAIN r : IsNew(r[j], d) => j \in DOMAIN q /\ IsNew(q[j], d)
        BY <3>2, <1>2, <1>3, <1>4
      <4>2. i \in DOMAIN q /\ IsNew(q[i], d) BY <4>1, <2>2
      <4>3. /\ \A j \in DOMAIN q : IsNew(q[j], d) => j = i
            /\ d \in DOMAIN p => i = 1 /\ b /\ p[d] = << >>
        BY <4>2, <1>6 DEF OnceIn
      <4> QED BY <4>1, <4>3
    <3> QED BY <3>1, <3>2
  <2> QED BY <2>1, <2>2 DEF OnceIn
<1> QED BY <1>5, <1>6 DEF r

\* TDLib speaks of a chat it knows, or answers.
LEMMA OneMore ==
  ASSUME NEW k \in SUBSET List!Chats, NEW p, NEW q \in Seq(Events), NEW b \in BOOLEAN,
         NEW ev \in Events, ev[1] # "newChat", \A c \in List!Chats : Speaks(ev, c) => c \in k
  PROVE  /\ AnnouncedIn(k, DOMAIN p, q) => AnnouncedIn(k, DOMAIN p, Append(q, ev))
         /\ OnceIn(k, p, q, b) => OnceIn(k, p, Append(q, ev), b)
<1> DEFINE r == Append(q, ev)
           n == Len(q) + 1
<1>2. /\ n \in Nat \ {0} /\ DOMAIN q = 1 .. n - 1 /\ DOMAIN r = 1 .. n /\ r[n] = ev
      /\ \A i \in 1 .. n - 1 : r[i] = q[i]
  BY Behind
<1> HIDE DEF r, n
<1>3. \A d : ~ IsNew(ev, d) BY DEF IsNew
<1>4. \A i \in DOMAIN r : i \in DOMAIN q \/ i = n BY <1>2
<1>7. \A i \in DOMAIN q : i \in DOMAIN r /\ r[i] = q[i] BY <1>2
<1>5. ASSUME AnnouncedIn(k, DOMAIN p, q) PROVE AnnouncedIn(k, DOMAIN p, r)
  <2>1. ASSUME NEW d \in k PROVE d \in DOMAIN p \/ \E i \in DOMAIN q : IsNew(q[i], d)
    BY <1>5 DEF AnnouncedIn
  <2>2. ASSUME NEW i \in DOMAIN r, NEW d \in List!Chats, Speaks(r[i], d)
        PROVE  d \in DOMAIN p \/ \E j \in 1 .. i : IsNew(r[j], d)
    <3>1. CASE i = n
      <4>1. d \in k BY <3>1, <2>2, <1>2
      <4>2. \A j \in DOMAIN q : j \in 1 .. i BY <3>1, <1>2
      <4> QED BY <4>1, <4>2, <2>1, <1>7
    <3>2. CASE i \in DOMAIN q
      <4>1. r[i] = q[i] /\ \A j \in 1 .. i : r[j] = q[j] BY <3>2, <1>2
      <4>2. d \in DOMAIN p \/ \E j \in 1 .. i : IsNew(q[j], d)
        BY <3>2, <4>1, <2>2, <1>5 DEF AnnouncedIn
      <4> QED BY <4>1, <4>2
    <3> QED BY <3>1, <3>2, <1>4
  <2> QED BY <2>1, <2>2, <1>7 DEF AnnouncedIn
<1>6. ASSUME OnceIn(k, p, q, b) PROVE OnceIn(k, p, r, b)
  <2>1. ASSUME NEW d \in List!Chats \ k PROVE d \notin DOMAIN p /\ \A i \in DOMAIN r : ~ Speaks(r[i], d)
    <3>1. d \notin DOMAIN p /\ \A i \in DOMAIN q : ~ Speaks(q[i], d) BY <1>6 DEF OnceIn
    <3> QED BY <3>1, <1>2, <1>4
  <2>2. ASSUME NEW i \in DOMAIN r, NEW d \in List!Chats, IsNew(r[i], d)
        PROVE  /\ \A j \in DOMAIN r : IsNew(r[j], d) => j = i
               /\ d \in DOMAIN p => i = 1 /\ b /\ p[d] = << >>
    <3>1. \A j \in DOMAIN r : IsNew(r[j], d) => j \in DOMAIN q /\ IsNew(q[j], d) BY <1>2, <1>3, <1>4
    <3>2. i \in DOMAIN q /\ IsNew(q[i], d) BY <3>1, <2>2
    <3>3. /\ \A j \in DOMAIN q : IsNew(q[j], d) => j = i
          /\ d \in DOMAIN p => i = 1 /\ b /\ p[d] = << >>
      BY <3>2, <1>6 DEF OnceIn
    <3> QED BY <3>1, <3>3
  <2> QED BY <2>1, <2>2 DEF OnceIn
<1> QED BY <1>5, <1>6 DEF r

\* The place of a chat in the main list is that of the last update that has one.
LEMMA OneMoreLast ==
  ASSUME NEW q \in Seq(Events), NEW p, NEW ev \in Events, NEW c, NEW o
  PROVE  /\ Orders(ev, c) /\ Carries(ev, o) => LastOf(c, o, p, Append(q, ev))
         /\ ~ Orders(ev, c) /\ LastOf(c, o, p, q) => LastOf(c, o, p, Append(q, ev))
<1> DEFINE r == Append(q, ev)
           n == Len(q) + 1
<1>1. /\ n \in Nat \ {0} /\ DOMAIN q = 1 .. n - 1 /\ DOMAIN r = 1 .. n /\ r[n] = ev
      /\ \A i \in 1 .. n - 1 : r[i] = q[i]
  BY Behind
<1> HIDE DEF r, n
<1>2. ASSUME Orders(ev, c), Carries(ev, o) PROVE LastOf(c, o, p, r)
  <2>1. n \in DOMAIN r /\ \A j \in DOMAIN r : ~ (j > n) BY <1>1
  <2> QED BY <2>1, <1>1, <1>2 DEF LastOf
<1>3. ASSUME ~ Orders(ev, c), LastOf(c, o, p, q) PROVE LastOf(c, o, p, r)
  <2>1. \A i \in DOMAIN r : Orders(r[i], c) => i \in DOMAIN q /\ r[i] = q[i] BY <1>1, <1>3
  <2>2. \A i \in DOMAIN q : i \in DOMAIN r /\ r[i] = q[i] BY <1>1
  <2>3. CASE \A i \in DOMAIN q : ~ Orders(q[i], c)
    <3>1. c \in DOMAIN p /\ List!InMain(c, p[c]) = Single(c, o) BY <2>3, <1>3 DEF LastOf
    <3> QED BY <3>1, <2>1, <2>3 DEF LastOf
  <2>4. CASE ~ \A i \in DOMAIN q : ~ Orders(q[i], c)
    <3>1. PICK i \in DOMAIN q :
            /\ Orders(q[i], c) /\ Carries(q[i], o)
            /\ \A j \in DOMAIN q : j > i => ~ Orders(q[j], c)
      BY <2>4, <1>3 DEF LastOf
    <3>2. i \in DOMAIN r /\ Orders(r[i], c) /\ Carries(r[i], o) BY <3>1, <2>2
    <3>3. \A j \in DOMAIN r : j > i => ~ Orders(r[j], c) BY <3>1, <2>1
    <3> QED BY <3>2, <3>3 DEF LastOf
  <2> QED BY <2>3, <2>4
<1> QED BY <1>2, <1>3 DEF r

\* An update is handled.
LEMMA OneLess ==
  ASSUME NEW k \in SUBSET List!Chats, NEW p, NEW p2, NEW q \in Seq(Events), NEW b \in BOOLEAN, NEW b2 \in BOOLEAN,
         q # << >>, DOMAIN p2 = DOMAIN p, \A c \in List!Chats : IsNew(q[1], c) => c \in DOMAIN p
  PROVE  /\ AnnouncedIn(k, DOMAIN p, q) => AnnouncedIn(k, DOMAIN p2, Tail(q))
         /\ OnceIn(k, p, q, b) => OnceIn(k, p2, Tail(q), b2)
<1> DEFINE r == Tail(q)
           n == Len(q)
<1>1. /\ n \in Nat \ {0} /\ DOMAIN q = 1 .. n /\ DOMAIN r = 1 .. n - 1
      /\ \A i \in 1 .. n - 1 : r[i] = q[i + 1]
  BY FirstOff
<1> HIDE DEF r, n
<1>2. \A i \in DOMAIN r : i + 1 \in DOMAIN q /\ r[i] = q[i + 1] /\ i + 1 # 1 BY <1>1
<1>3. \A i \in DOMAIN q : i = 1 \/ (i - 1 \in DOMAIN r /\ r[i - 1] = q[i])
  <2> SUFFICES ASSUME NEW i \in DOMAIN q, i # 1 PROVE i - 1 \in DOMAIN r /\ r[i - 1] = q[i] OBVIOUS
  <2>1. i - 1 \in 1 .. n - 1 /\ i - 1 + 1 = i BY <1>1
  <2> QED BY <2>1, <1>1
<1>4. ASSUME AnnouncedIn(k, DOMAIN p, q) PROVE AnnouncedIn(k, DOMAIN p2, r)
  <2>1. ASSUME NEW d \in k PROVE d \in DOMAIN p2 \/ \E i \in DOMAIN r : IsNew(r[i], d)
    <3>1. d \in DOMAIN p \/ \E i \in DOMAIN q : IsNew(q[i], d) BY <1>4 DEF AnnouncedIn
    <3> QED BY <3>1, <1>3
  <2>2. ASSUME NEW i \in DOMAIN r, NEW d \in List!Chats, Speaks(r[i], d)
        PROVE  d \in DOMAIN p2 \/ \E j \in 1 .. i : IsNew(r[j], d)
    <3>1. d \in DOMAIN p \/ \E j \in 1 .. i + 1 : IsNew(q[j], d) BY <2>2, <1>2, <1>4 DEF AnnouncedIn
    <3>2. ASSUME NEW j \in 1 .. i + 1, IsNew(q[j], d) PROVE d \in DOMAIN p2 \/ \E m \in 1 .. i : IsNew(r[m], d)
      <4>1. CASE j = 1 BY <4>1, <3>2
      <4>2. CASE j # 1
        <5>1. j - 1 \in 1 .. i /\ j \in DOMAIN q BY <4>2, <1>1
        <5> QED BY <5>1, <4>2, <3>2, <1>3
      <4> QED BY <4>1, <4>2
    <3> QED BY <3>1, <3>2
  <2> QED BY <2>1, <2>2 DEF AnnouncedIn
<1>5. ASSUME OnceIn(k, p, q, b) PROVE OnceIn(k, p2, r, b2)
  <2>1. ASSUME NEW d \in List!Chats \ k PROVE d \notin DOMAIN p2 /\ \A i \in DOMAIN r : ~ Speaks(r[i], d)
    BY <1>2, <1>5 DEF OnceIn
  <2>2. ASSUME NEW i \in DOMAIN r, NEW d \in List!Chats, IsNew(r[i], d)
        PROVE  d \notin DOMAIN p2 /\ \A j \in DOMAIN r : IsNew(r[j], d) => j = i
    <3>1. /\ \A j \in DOMAIN q : IsNew(q[j], d) => j = i + 1
          /\ d \in DOMAIN p => i + 1 = 1
      BY <2>2, <1>2, <1>5 DEF OnceIn
    <3>2. d \notin DOMAIN p2 BY <3>1, <1>2
    <3>3. ASSUME NEW j \in DOMAIN r, IsNew(r[j], d) PROVE j = i
      <4>1. j + 1 = i + 1 BY <3>1, <3>3, <1>2
      <4> QED BY <4>1, <1>1
    <3> QED BY <3>2, <3>3
  <2> QED BY <2>1, <2>2 DEF OnceIn
<1> QED BY <1>4, <1>5 DEF r

\* The last update of a chat, when the first update is handled.
LEMMA OneLessLast ==
  ASSUME NEW q \in Seq(Events), q # << >>, NEW p, NEW p2, NEW c, NEW o, LastOf(c, o, p, q),
         Orders(q[1], c) => c \in DOMAIN p2 /\ (Carries(q[1], o) => List!InMain(c, p2[c]) = Single(c, o)),
         ~ Orders(q[1], c) => (c \in DOMAIN p => c \in DOMAIN p2 /\ p2[c] = p[c])
  PROVE  LastOf(c, o, p2, Tail(q))
<1> DEFINE r == Tail(q)
           n == Len(q)
<1>1. /\ n \in Nat \ {0} /\ DOMAIN q = 1 .. n /\ DOMAIN r = 1 .. n - 1
      /\ \A i \in 1 .. n - 1 : r[i] = q[i + 1]
  BY FirstOff
<1> HIDE DEF r, n
<1>2. \A i \in DOMAIN r : i + 1 \in DOMAIN q /\ r[i] = q[i + 1] /\ i + 1 > 1 BY <1>1
<1>3. CASE \A i \in DOMAIN q : ~ Orders(q[i], c)
  <2>1. 1 \in DOMAIN q /\ c \in DOMAIN p /\ List!InMain(c, p[c]) = Single(c, o)
    BY <1>1, <1>3 DEF LastOf
  <2>2. c \in DOMAIN p2 /\ p2[c] = p[c] BY <2>1, <1>3
  <2>3. \A i \in DOMAIN r : ~ Orders(r[i], c) BY <1>2, <1>3
  <2> QED BY <2>1, <2>2, <2>3 DEF LastOf, r
<1>4. CASE ~ \A i \in DOMAIN q : ~ Orders(q[i], c)
  <2>1. PICK i \in DOMAIN q :
          /\ Orders(q[i], c) /\ Carries(q[i], o)
          /\ \A j \in DOMAIN q : j > i => ~ Orders(q[j], c)
    BY <1>4 DEF LastOf
  <2>2. CASE i = 1
    <3>1. \A j \in DOMAIN r : ~ Orders(r[j], c) BY <2>1, <2>2, <1>2
    <3>2. c \in DOMAIN p2 /\ List!InMain(c, p2[c]) = Single(c, o) BY <2>1, <2>2
    <3> QED BY <3>1, <3>2 DEF LastOf, r
  <2>3. CASE i # 1
    <3>1. i - 1 \in DOMAIN r /\ i - 1 + 1 = i BY <2>3, <1>1
    <3>2. r[i - 1] = q[i] BY <3>1, <1>2
    <3>3. ASSUME NEW j \in DOMAIN r, j > i - 1 PROVE ~ Orders(r[j], c)
      <4>1. j + 1 > i BY <3>3, <1>1
      <4> QED BY <4>1, <2>1, <1>2
    <3>4. \E m \in DOMAIN r : /\ Orders(r[m], c) /\ Carries(r[m], o)
                              /\ \A j \in DOMAIN r : j > m => ~ Orders(r[j], c)
      BY <3>1, <3>2, <3>3, <2>1
    <3> QED BY <3>4 DEF LastOf, r
  <2> QED BY <2>2, <2>3
<1> QED BY <1>3, <1>4

\* The application makes room for a chat that was announced.
LEMMA RoomMade ==
  ASSUME NEW k \in SUBSET List!Chats, NEW p, NEW p2, NEW q \in Seq(Events), q # << >>,
         NEW c \in List!Chats, IsNew(q[1], c),
         DOMAIN p2 = DOMAIN p \cup {c}, p2[c] = << >>, \A d \in DOMAIN p : d # c => p2[d] = p[d]
  PROVE  /\ AnnouncedIn(k, DOMAIN p, q) => AnnouncedIn(k, DOMAIN p2, q)
         /\ OnceIn(k, p, q, FALSE) => OnceIn(k, p2, q, TRUE)
         /\ \A d, o : LastOf(d, o, p, q) => LastOf(d, o, p2, q)
<1>1. 1 \in DOMAIN q BY FirstOff
<1>2. AnnouncedIn(k, DOMAIN p, q) => AnnouncedIn(k, DOMAIN p2, q) BY DEF AnnouncedIn
<1>3. ASSUME OnceIn(k, p, q, FALSE) PROVE OnceIn(k, p2, q, TRUE)
  <2>1. Speaks(q[1], c) BY DEF IsNew, Speaks
  <2>2. c \in k BY <2>1, <1>1, <1>3 DEF OnceIn
  <2>3. ASSUME NEW d \in List!Chats \ k PROVE d \notin DOMAIN p2 /\ \A i \in DOMAIN q : ~ Speaks(q[i], d)
    BY <2>2, <1>3 DEF OnceIn
  <2>4. ASSUME NEW i \in DOMAIN q, NEW d \in List!Chats, IsNew(q[i], d)
        PROVE  /\ \A j \in DOMAIN q : IsNew(q[j], d) => j = i
               /\ d \in DOMAIN p2 => i = 1 /\ p2[d] = << >>
    <3>1. d \notin DOMAIN p /\ \A j \in DOMAIN q : IsNew(q[j], d) => j = i BY <2>4, <1>3 DEF OnceIn
    <3>2. CASE d = c BY <3>1, <3>2, <1>1
    <3>3. CASE d # c BY <3>1, <3>3
    <3> QED BY <3>2, <3>3
  <2> QED BY <2>3, <2>4 DEF OnceIn
<1>4. ASSUME NEW d, NEW o, LastOf(d, o, p, q) PROVE LastOf(d, o, p2, q)
  <2>1. CASE d = c
    <3>1. Orders(q[1], c) BY DEF IsNew, Orders, Speaks
    <3> QED BY <3>1, <2>1, <1>1, <1>4 DEF LastOf
  <2>2. CASE d # c BY <2>2, <1>4 DEF LastOf
  <2> QED BY <2>1, <2>2
<1> QED BY <1>2, <1>3, <1>4

\* What the list holds besides the positions of the chat c is of other chats.
ListOf(p) == UNION {List!InMain(d, p[d]) : d \in DOMAIN p}

\* The list, when the positions of one chat are replaced.
LEMMA ListWithout ==
  ASSUME NEW p, NEW c, NEW ps, NEW p2,
         p2 = [d \in DOMAIN p \cup {c} |-> IF d = c THEN ps ELSE p[d]]
  PROVE  /\ c \in DOMAIN p => List!InMain(c, p[c]) \subseteq ListOf(p)
         /\ c \in DOMAIN p => (ListOf(p) \ List!InMain(c, p[c])) \cap List!InMain(c, ps) = {}
         /\ c \in DOMAIN p => ListOf(p2) = (ListOf(p) \ List!InMain(c, p[c])) \cup List!InMain(c, ps)
         /\ c \notin DOMAIN p => ListOf(p2) = ListOf(p) \cup List!InMain(c, ps)
<1> DEFINE u == ListOf(p)
           u2 == ListOf(p2)
<1>1. \A d, s : \A e \in List!InMain(d, s) : e[2] = d BY DEF List!InMain
<1>2. DOMAIN p2 = DOMAIN p \cup {c} /\ p2[c] = ps /\ \A d \in DOMAIN p : d # c => p2[d] = p[d] OBVIOUS
<1>3. \A e : e \in u <=> \E d \in DOMAIN p : e \in List!InMain(d, p[d]) BY DEF ListOf
<1>4. \A e : e \in u2 <=> \E d \in DOMAIN p2 : e \in List!InMain(d, p2[d]) BY DEF ListOf
<1> HIDE DEF u, u2
<1>5. c \in DOMAIN p => List!InMain(c, p[c]) \subseteq u BY <1>3
<1>6. c \in DOMAIN p => (u \ List!InMain(c, p[c])) \cap List!InMain(c, ps) = {}
  <2> SUFFICES ASSUME c \in DOMAIN p, NEW e \in u, e \notin List!InMain(c, p[c]), e \in List!InMain(c, ps) PROVE FALSE OBVIOUS
  <2>1. PICK d \in DOMAIN p : e \in List!InMain(d, p[d]) BY <1>3
  <2> QED BY <2>1, <1>1
<1>7. \A e : e \in u2 <=> (e \in List!InMain(c, ps) \/ \E d \in DOMAIN p : d # c /\ e \in List!InMain(d, p[d]))
  BY <1>2, <1>4
<1>8. c \in DOMAIN p => u2 = (u \ List!InMain(c, p[c])) \cup List!InMain(c, ps)
  <2> SUFFICES ASSUME c \in DOMAIN p, NEW e PROVE e \in u2 <=> e \in (u \ List!InMain(c, p[c])) \cup List!InMain(c, ps) OBVIOUS
  <2>1. (e \in u /\ e \notin List!InMain(c, p[c])) <=> \E d \in DOMAIN p : d # c /\ e \in List!InMain(d, p[d])
    BY <1>1, <1>3
  <2> QED BY <2>1, <1>7
<1>9. c \notin DOMAIN p => u2 = u \cup List!InMain(c, ps) BY <1>3, <1>7
<1> QED BY <1>5, <1>6, <1>8, <1>9 DEF u, u2

-----------------------------------------------------------------------------
(* The places of the threads *)

\* The points the actions go to.
LEMMA AtPoint ==
  ASSUME NEW w \in Ats
  PROVE  /\ List!At(w) \in Points /\ List!At(w).at = w
         /\ List!Idle \in Points /\ List!Idle.at = "idle"
<1>1. << >> \in Seq(Groups) OBVIOUS
<1> QED BY <1>1 DEF Points, List!At, List!Idle, Ats

\* The points a thread can be at, one lemma for each form: it asks for the list.
LEMMA AskingPoint ==
  ASSUME NEW w \in Ats, NEW l \in Limits
  PROVE  List!Asking(w, l) \in Points /\ List!Asking(w, l).at = w /\ List!Asking(w, l).limit = l
<1>1. << >> \in Seq(Groups) OBVIOUS
<1> QED BY <1>1 DEF Points, List!At, List!Asking, Ats

\* It has chats to go through.
LEMMA TodoPoint ==
  ASSUME NEW w \in Ats, NEW d \in SUBSET Entries
  PROVE  /\ [List!At(w) EXCEPT !.todo = d] \in Points /\ [List!At(w) EXCEPT !.todo = d].at = w
         /\ [List!At(w) EXCEPT !.todo = d].todo = d /\ [List!At(w) EXCEPT !.todo = d].ev = << >>
<1>1. << >> \in Seq(Groups) OBVIOUS
<1> QED BY <1>1 DEF Points, List!At, Ats

\* It handles an update.
LEMMA EventPoint ==
  ASSUME NEW w \in Ats, NEW e \in ChatEvents
  PROVE  [List!At(w) EXCEPT !.ev = e] \in Points /\ [List!At(w) EXCEPT !.ev = e].at = w /\ [List!At(w) EXCEPT !.ev = e].ev = e
BY DEF Points, List!At, Ats

\* The points that follow another one.
LEMMA PointMoves ==
  ASSUME NEW p \in Points, NEW w \in Ats
  PROVE  [p EXCEPT !.at = w] \in Points /\ [p EXCEPT !.at = w].at = w /\ [p EXCEPT !.at = w].ev = p.ev
BY DEF Points

\* A thread goes somewhere.
LEMMA Goes ==
  ASSUME PointsTyped, NEW t \in List!Threads, NEW p \in Points, PointTyped(t, p), List!Goto(t, p)
  PROVE  PointsTyped' /\ pc'[t] = p /\ \A s \in List!Threads : s # t => pc'[s] = pc[s]
<1>1. pc' = [pc EXCEPT ![t] = p] /\ pc \in [List!Threads -> Points] BY DEF List!Goto, PointsTyped
<1>2. pc' \in [List!Threads -> Points] /\ pc'[t] = p /\ \A s \in List!Threads : s # t => pc'[s] = pc[s]
  BY <1>1
<1>3. ASSUME NEW s \in List!Threads PROVE PointTyped(s, pc'[s])
  <2>1. CASE s = t BY <2>1, <1>2
  <2>2. CASE s # t BY <2>2, <1>2 DEF PointsTyped
  <2> QED BY <2>1, <2>2
<1>4. \A s \in List!Threads : PointTyped(s, pc[s])' BY <1>3 DEF PointTyped
<1> QED BY <1>2, <1>4 DEF PointsTyped

\* The updates that are not handled.
LEMMA PendingTyped ==
  ASSUME ListTypes
  PROVE  /\ Pending \in Seq(Events)
         /\ pc["td"].at \in {"chat", "positions"} =>
              /\ pc["td"].ev \in ChatEvents /\ Pending # << >> /\ Pending[1] = pc["td"].ev
              /\ Tail(Pending) = queue
<1>1. "td" \in List!Threads BY DEF List!Threads
<1>2. queue \in Seq(Events) BY DEF ListTypes, TdlibTyped
<1>3. CASE pc["td"].at \in {"chat", "positions"}
  <2> DEFINE e == pc["td"].ev
  <2>1. e \in ChatEvents BY <1>1, <1>3 DEF ListTypes, PointsTyped, PointTyped
  <2>2. e \in Events BY <2>1, ChatKinds
  <2>3. Pending = <<e>> \o queue BY <1>3 DEF Pending
  <2> HIDE DEF e
  <2>4. Pending \in Seq(Events) /\ Pending # << >> /\ Pending[1] = e /\ Tail(Pending) = queue
    BY <1>2, <2>2, <2>3, Ahead
  <2> QED BY <2>1, <2>4 DEF e
<1>4. CASE pc["td"].at \notin {"chat", "positions"} BY <1>2, <1>4 DEF Pending
<1> QED BY <1>3, <1>4

\* Nothing of what the invariant speaks of changes.
LEMMA ListInvStays ==
  ASSUME ListInv, UNCHANGED <<known, order, positions, mainChatList, failed>>, Pending' = Pending,
         List!FirstLogin' => List!FirstLogin, pc["td"].at = "positions" => pc'["td"].at = "positions"
  PROVE  ListInv'
<1>1. Announced' BY DEF ListInv, Announced
<1>2. ASSUME List!FirstLogin' PROVE AnnouncedOnce' /\ LastCounts' /\ Matches'
  <2>1. AnnouncedOnce /\ LastCounts /\ Matches BY <1>2 DEF ListInv
  <2>2. AnnouncedOnce'
    <3>1. OnceIn(known, positions, Pending, pc["td"].at = "positions") BY <2>1 DEF AnnouncedOnce
    <3>2. OnceIn(known, positions, Pending, pc'["td"].at = "positions") BY <3>1 DEF OnceIn
    <3> QED BY <3>2 DEF AnnouncedOnce
  <2>3. LastCounts' BY <2>1 DEF LastCounts
  <2>4. Matches' BY <2>1 DEF Matches
  <2> QED BY <2>2, <2>3, <2>4
<1> QED BY <1>1, <1>2 DEF ListInv

-----------------------------------------------------------------------------
(* The threads that look at the list *)

\* A thread that handles no update of a chat goes on, and nothing else happens to the list.
LEMMA ReaderGoes ==
  ASSUME ListTypes, ListInv, NEW t \in List!Threads, NEW p \in Points, PointTyped(t, p), List!Goto(t, p),
         pc[t].at \notin {"chat", "positions"}, p.at \notin {"chat", "positions"},
         UNCHANGED <<known, order, queue, positions, mainChatList, failed, chatLock>>,
         List!FirstLogin' => List!FirstLogin, listLock' \in List!Threads \cup {List!Nobody}
  PROVE  ListInv' /\ PointsTyped' /\ StoreTyped' /\ LocksTyped'
<1>1. PointsTyped' /\ pc'[t] = p /\ \A s \in List!Threads : s # t => pc'[s] = pc[s]
  BY Goes DEF ListTypes
<1>2. "td" \in List!Threads BY DEF List!Threads
<1>3. Pending' = Pending
  <2>1. CASE t = "td" BY <2>1, <1>1 DEF Pending
  <2>2. CASE t # "td" BY <2>2, <1>1, <1>2 DEF Pending
  <2> QED BY <2>1, <2>2
<1>4. pc["td"].at = "positions" => pc'["td"] = pc["td"] BY <1>1, <1>2
<1>5. pc'["td"].at = "positions" => pc["td"].at = "positions" BY <1>1, <1>2
<1>6. ListInv' BY <1>3, <1>4, ListInvStays
<1>7. StoreTyped' BY DEF ListTypes, StoreTyped
<1>8. LocksTyped' BY <1>4, <1>5 DEF ListTypes, LocksTyped
<1> QED BY <1>1, <1>6, <1>7, <1>8

\* What the user spends of his uses.
LEMMA Spends ==
  ASSUME TdlibTyped, NEW w \in {"updates", "uses"}, List!Spend(w)
  PROVE  /\ left' \in [updates : Nat, uses : 0 .. Uses]
         /\ w = "updates" => left'.uses = left.uses
         /\ w = "uses" => left.uses > 0 /\ left'.uses = left.uses - 1
<1>1. left \in [updates : Nat, uses : 0 .. Uses] /\ left[w] > 0 /\ left' = [left EXCEPT ![w] = @ - 1]
  BY DEF TdlibTyped, List!Spend
<1>2. CASE w = "updates"
  <2>1. left.updates > 0 /\ left' = [left EXCEPT !.updates = @ - 1] BY <1>1, <1>2
  <2> QED BY <1>1, <1>2, <2>1
<1>3. CASE w = "uses"
  <2>1. left.uses > 0 /\ left' = [left EXCEPT !.uses = @ - 1] BY <1>1, <1>3
  <2>2. left.uses \in 0 .. Uses BY <1>1
  <2>3. left.uses - 1 \in 0 .. Uses BY <2>1, <2>2, SizesOK
  <2> QED BY <1>1, <1>3, <2>1, <2>3
<1> QED BY <1>2, <1>3

\* The user asks for the list.
LEMMA AskSteps ==
  ASSUME ListTypes, ListInv, NEW limit \in Limits, List!AskGcs(limit) \/ List!AskRefresh(limit)
  PROVE  ListTypes' /\ ListInv'
<1>1. PICK t \in List!Threads, w \in {"gcs", "refresh"} :
        pc[t] = List!Idle /\ user = w /\ List!Spend("uses") /\ List!Goto(t, List!Asking(w, limit))
  BY DEF List!AskGcs, List!AskRefresh, List!Threads
<1>2. UNCHANGED <<known, order, requests, user, queue, positions, mainChatList, haveFull, listLock, chatLock, changed, model, failed>>
  BY DEF List!AskGcs, List!AskRefresh
<1>3. List!Asking(w, limit) \in Points /\ List!Asking(w, limit).at = w /\ List!Asking(w, limit).limit = limit /\ List!Idle.at = "idle"
  BY AskingPoint, AtPoint DEF Ats
<1>4. PointTyped(t, List!Asking(w, limit)) BY <1>3 DEF PointTyped
<1>5. left' \in [updates : Nat, uses : 0 .. Uses] BY <1>1, Spends DEF ListTypes
<1>6. List!FirstLogin BY <1>1 DEF List!FirstLogin
<1>7. ListInv' /\ PointsTyped' /\ StoreTyped' /\ LocksTyped'
  BY <1>1, <1>2, <1>3, <1>4, <1>6, ReaderGoes DEF ListTypes, LocksTyped
<1>8. TdlibTyped' BY <1>2, <1>5 DEF ListTypes, TdlibTyped
<1>9. FlagsTyped' BY <1>2 DEF ListTypes, FlagsTyped
<1> QED BY <1>7, <1>8, <1>9 DEF ListTypes

\* A thread reads the list.
LEMMA ReaderSteps ==
  ASSUME ListTypes, ListInv, NEW t \in List!Threads, List!GetChatList(t)
  PROVE  ListTypes' /\ ListInv'
<1>0. pc[t] \in Points /\ PointTyped(t, pc[t]) BY DEF ListTypes, PointsTyped
<1>1. /\ UNCHANGED <<known, order, left, user, queue, positions, mainChatList, haveFull, chatLock, failed>>
      /\ pc[t].at \notin {"chat", "positions"}
  BY DEF List!GetChatList, List!SendLoad, List!PrintBegin, List!PrintChat, List!PrintEnd,
     List!FillBegin, List!FillClear, List!FillStream, List!FillChat, List!FillEnd, List!tdlib
<1>2. List!FirstLogin' => List!FirstLogin BY <1>1 DEF List!FirstLogin
<1>3. List!Idle \in Points /\ List!Idle.at = "idle" /\ PointTyped(t, List!Idle)
  BY AtPoint DEF Ats, PointTyped
<1>4. listLock \in List!Threads \cup {List!Nobody} BY DEF ListTypes, LocksTyped
<1>5. FlagsTyped /\ TdlibTyped /\ mainChatList \in SUBSET Entries BY DEF ListTypes, StoreTyped
<1>6. ASSUME UNCHANGED requests PROVE TdlibTyped' BY <1>1, <1>5, <1>6 DEF TdlibTyped
<1>7. ASSUME NEW p \in Points, PointTyped(t, p), List!Goto(t, p), p.at \notin {"chat", "positions"},
             listLock' \in List!Threads \cup {List!Nobody}
      PROVE  ListInv' /\ PointsTyped' /\ StoreTyped' /\ LocksTyped'
  BY <1>1, <1>2, <1>7, ReaderGoes
<1>8. CASE List!SendLoad(t)
  <2>1. pc[t].at \in {"gcs", "refresh"} /\ requests' = Append(requests, pc[t]) /\ List!Goto(t, List!Idle)
        /\ UNCHANGED <<listLock, changed, model>>
    BY <1>8 DEF List!SendLoad
  <2>2. pc[t] \in {p \in Points : p.at \in {"gcs", "refresh"} /\ p.limit \in Limits}
    BY <2>1, <1>0 DEF PointTyped
  <2>3. requests' \in Seq({p \in Points : p.at \in {"gcs", "refresh"} /\ p.limit \in Limits})
    <3> DEFINE T == {p \in Points : p.at \in {"gcs", "refresh"} /\ p.limit \in Limits}
               x == pc[t]
    <3>1. requests \in Seq(T) /\ x \in T /\ requests' = Append(requests, x)
      BY <2>1, <2>2, <1>5 DEF TdlibTyped
    <3> HIDE DEF T, x
    <3>2. requests' \in Seq(T) BY <3>1, Behind
    <3> QED BY <3>2 DEF T
  <2>4. TdlibTyped' BY <2>3, <1>1, <1>5 DEF TdlibTyped
  <2>5. FlagsTyped' BY <2>1, <1>1, <1>5 DEF FlagsTyped
  <2> QED BY <2>1, <2>4, <2>5, <1>3, <1>4, <1>7 DEF ListTypes
<1>9. CASE List!PrintBegin(t)
  <2> DEFINE d == List!First(pc[t].limit)
             p == [List!At("print") EXCEPT !.todo = d]
  <2>1. listLock' = t /\ List!Goto(t, p) /\ UNCHANGED <<requests, changed, model>>
    BY <1>9 DEF List!PrintBegin, List!tdlib
  <2>2. d \in SUBSET Entries BY <1>5 DEF List!First
  <2> HIDE DEF d
  <2>a. "print" \in Ats BY DEF Ats
  <2>3. p \in Points /\ p.at = "print" BY ONLY <2>2, <2>a, TodoPoint
  <2> HIDE DEF p
  <2>4. PointTyped(t, p) BY <2>3 DEF PointTyped
  <2>5. FlagsTyped' BY <2>1, <1>1, <1>5 DEF FlagsTyped
  <2> QED BY <2>1, <2>3, <2>4, <2>5, <1>6, <1>7 DEF ListTypes
<1>10. CASE List!PrintChat(t)
  <2>1. PICK e : List!Goto(t, [pc[t] EXCEPT !.todo = @ \ {e}]) /\ UNCHANGED <<requests, listLock, changed, model>> /\ pc[t].at = "print"
    BY <1>10 DEF List!PrintChat, List!tdlib
  <2> DEFINE d == pc[t].todo \ {e}
             p == [pc[t] EXCEPT !.todo = d]
  <2>2. d \in SUBSET Entries BY <1>0 DEF Points
  <2>3. List!Goto(t, p) BY <2>1
  <2> HIDE DEF d
  <2>4. p \in Points /\ p.at = "print"
    <3> DEFINE x == pc[t]
    <3>1. x \in Points /\ x.at = "print" BY <1>0, <2>1
    <3> HIDE DEF x
    <3>2. [x EXCEPT !.todo = d] \in Points /\ [x EXCEPT !.todo = d].at = x.at
      BY <2>2, <3>1 DEF Points
    <3> QED BY <3>1, <3>2 DEF x
  <2> HIDE DEF p
  <2>5. PointTyped(t, p) BY <2>4 DEF PointTyped
  <2>6. FlagsTyped' BY <2>1, <1>1, <1>5 DEF FlagsTyped
  <2> QED BY <2>1, <2>3, <2>4, <2>5, <2>6, <1>4, <1>6, <1>7 DEF ListTypes
<1>11. CASE List!PrintEnd(t)
  <2>1. listLock' = List!Nobody /\ List!Goto(t, List!Idle) /\ UNCHANGED <<requests, changed, model>>
    BY <1>11 DEF List!PrintEnd, List!tdlib
  <2>2. FlagsTyped' BY <2>1, <1>1, <1>5 DEF FlagsTyped
  <2> QED BY <2>1, <2>2, <1>3, <1>6, <1>7 DEF ListTypes
<1>12. \A w \in {"clear", "stream"} :
         List!At(w) \in Points /\ List!At(w).at = w /\ PointTyped(t, List!At(w))
  BY AtPoint DEF Ats, PointTyped
<1>13. CASE List!FillBegin(t)
  <2>1. List!Goto(t, List!At("clear")) /\ UNCHANGED <<requests, listLock, changed, model>>
    BY <1>13 DEF List!FillBegin, List!tdlib
  <2>2. FlagsTyped' BY <2>1, <1>1, <1>5 DEF FlagsTyped
  <2> QED BY <2>1, <2>2, <1>4, <1>6, <1>7, <1>12 DEF ListTypes
<1>14. CASE List!FillClear(t)
  <2>1. List!Goto(t, List!At("stream")) /\ model' = {} /\ UNCHANGED <<requests, listLock, changed>>
    BY <1>14 DEF List!FillClear, List!tdlib
  <2>2. FlagsTyped' BY <2>1, <1>1, <1>5 DEF FlagsTyped
  <2> QED BY <2>1, <2>2, <1>4, <1>6, <1>7, <1>12 DEF ListTypes
<1>15. CASE List!FillStream(t)
  <2> DEFINE d == {e \in mainChatList : e[2] \in Groups}
             p == [List!At("fill") EXCEPT !.todo = d]
  <2>1. List!Goto(t, p) /\ changed' = changed \ {t} /\ UNCHANGED <<requests, listLock, model>>
    BY <1>15 DEF List!FillStream, List!tdlib
  <2>2. d \in SUBSET Entries /\ \A e \in d : e[2] \in Groups BY <1>5
  <2> HIDE DEF d
  <2>a. "fill" \in Ats BY DEF Ats
  <2>3. p \in Points /\ p.at = "fill" /\ p.todo = d /\ p.ev = << >> BY ONLY <2>2, <2>a, TodoPoint
  <2> HIDE DEF p
  <2>4. << >> \in Seq(Groups) OBVIOUS
  <2>5. PointTyped(t, p) BY <2>2, <2>3, <2>4 DEF PointTyped
  <2>6. FlagsTyped' BY <2>1, <1>1, <1>5 DEF FlagsTyped
  <2> QED BY <2>1, <2>3, <2>5, <2>6, <1>4, <1>6, <1>7 DEF ListTypes
<1>16. CASE List!FillChat(t)
  <2>1. PICK e \in pc[t].todo : List!Goto(t, [pc[t] EXCEPT !.todo = @ \ {e}, !.ev = Append(@, e[2])])
    BY <1>16 DEF List!FillChat
  <2>a. UNCHANGED <<requests, listLock, changed, model>> /\ pc[t].at = "fill"
    BY <1>16 DEF List!FillChat, List!tdlib
  <2> DEFINE x == pc[t]
             d == x.todo \ {e}
             v == Append(x.ev, e[2])
             p == [x EXCEPT !.todo = d, !.ev = v]
  <2>2. List!Goto(t, p) BY <2>1
  <2>3. x \in Points /\ x.at = "fill" /\ x.ev \in Seq(Groups) /\ \A f \in x.todo : f[2] \in Groups
    BY <1>0, <2>a DEF PointTyped
  <2>4. e \in x.todo OBVIOUS
  <2> HIDE DEF x
  <2>5. d \in SUBSET Entries /\ \A f \in d : f[2] \in Groups BY <2>3 DEF Points
  <2>6. v \in Seq(Groups) BY <2>3, <2>4
  <2> HIDE DEF d, v
  <2>7. p \in Points /\ p.at = "fill" /\ p.todo = d /\ p.ev = v
    <3>1. d \in SUBSET Entries /\ v \in Seq(Groups) /\ x \in Points BY <2>3, <2>5, <2>6
    <3>2. /\ [x EXCEPT !.todo = d, !.ev = v] \in Points /\ [x EXCEPT !.todo = d, !.ev = v].at = x.at
          /\ [x EXCEPT !.todo = d, !.ev = v].todo = d /\ [x EXCEPT !.todo = d, !.ev = v].ev = v
      BY <3>1 DEF Points
    <3> QED BY <3>2, <2>3
  <2> HIDE DEF p
  <2>8. PointTyped(t, p) BY <2>5, <2>6, <2>7 DEF PointTyped
  <2>9. FlagsTyped' BY <2>a, <1>1, <1>5 DEF FlagsTyped
  <2> QED BY <2>a, <2>2, <2>7, <2>8, <2>9, <1>4, <1>6, <1>7 DEF ListTypes
<1>17. CASE List!FillEnd(t)
  <2>1. /\ List!Goto(t, List!Idle) /\ UNCHANGED <<requests, listLock, changed>> /\ pc[t].at = "fill"
        /\ model' = IF t \in changed THEN model ELSE model \cup {pc[t].ev[i] : i \in DOMAIN pc[t].ev}
    BY <1>17 DEF List!FillEnd, List!tdlib
  <2>2. pc[t].ev \in Seq(Groups) BY <2>1, <1>0 DEF PointTyped
  <2>3. model' \subseteq Groups BY <2>1, <2>2, <1>5 DEF FlagsTyped
  <2>4. FlagsTyped' BY <2>1, <2>3, <1>1, <1>5 DEF FlagsTyped
  <2> QED BY <2>1, <2>4, <1>3, <1>4, <1>6, <1>7 DEF ListTypes
<1> QED BY <1>8, <1>9, <1>10, <1>11, <1>13, <1>14, <1>15, <1>16, <1>17 DEF List!GetChatList

-----------------------------------------------------------------------------
(* The thread of TDLib *)

\* The list is known to be complete.
LEMMA SetFullStep ==
  ASSUME ListTypes, ListInv, List!SetFull
  PROVE  ListTypes' /\ ListInv'
<1>1. /\ pc["td"].at = "full" /\ List!Goto("td", List!Idle) /\ haveFull' = TRUE
      /\ UNCHANGED <<known, order, requests, left, user, queue, positions, mainChatList, listLock, chatLock, changed, model, failed>>
  BY DEF List!SetFull, List!tdlib
<1>2. "td" \in List!Threads /\ List!Idle \in Points /\ List!Idle.at = "idle" /\ PointTyped("td", List!Idle)
  BY AtPoint DEF List!Threads, Ats, PointTyped
<1>3. List!FirstLogin' => List!FirstLogin BY <1>1 DEF List!FirstLogin
<1>4. ListInv' /\ PointsTyped' /\ StoreTyped' /\ LocksTyped'
  BY <1>1, <1>2, <1>3, ReaderGoes DEF ListTypes, LocksTyped
<1>5. TdlibTyped' /\ FlagsTyped' BY <1>1 DEF ListTypes, TdlibTyped, FlagsTyped
<1> QED BY <1>4, <1>5 DEF ListTypes

\* An update that says nothing about the main list is over.
LEMMA UpdateOver ==
  ASSUME ListTypes, ListInv, UNCHANGED <<known, order, positions, mainChatList, failed>>,
         Pending # << >>, Pending' = Tail(Pending), \A c : ~ IsNew(Pending[1], c) /\ ~ Orders(Pending[1], c),
         List!FirstLogin' => List!FirstLogin
  PROVE  ListInv'
<1>1. Pending \in Seq(Events) /\ known \in SUBSET List!Chats
  BY PendingTyped DEF ListTypes, TdlibTyped
<1> DEFINE q == Pending
           b == (pc["td"].at = "positions")
           b2 == (pc["td"].at = "positions")'
<1>2. b \in BOOLEAN /\ b2 \in BOOLEAN OBVIOUS
<1> HIDE DEF q, b, b2
<1>3. q \in Seq(Events) /\ q # << >> /\ Pending' = Tail(q) /\ \A c : ~ IsNew(q[1], c) /\ ~ Orders(q[1], c)
  BY <1>1 DEF q
<1>4. AnnouncedIn(known, DOMAIN positions, Tail(q))
  BY <1>1, <1>2, <1>3, OneLess DEF ListInv, Announced, q
<1>5. ASSUME List!FirstLogin PROVE OnceIn(known, positions, Tail(q), b2)
  BY <1>1, <1>2, <1>3, <1>5, OneLess DEF ListInv, AnnouncedOnce, q, b
<1>6. ASSUME List!FirstLogin, NEW c \in known PROVE LastOf(c, order[c], positions, Tail(q))
  <2>1. LastOf(c, order[c], positions, q) BY <1>6 DEF ListInv, LastCounts, q
  <2> DEFINE o == order[c]
  <2> HIDE DEF o
  <2>2. LastOf(c, o, positions, q) BY <2>1 DEF o
  <2>3. LastOf(c, o, positions, Tail(q)) BY <2>2, <1>3, OneLessLast
  <2> QED BY <2>3 DEF o
<1>7. Announced' BY <1>3, <1>4 DEF Announced
<1>8. ASSUME List!FirstLogin' PROVE AnnouncedOnce' /\ LastCounts' /\ Matches'
  <2>1. AnnouncedOnce' BY <1>3, <1>5, <1>8 DEF AnnouncedOnce, b2
  <2>2. LastCounts' BY <1>3, <1>6, <1>8 DEF LastCounts
  <2>3. Matches' BY <1>8 DEF ListInv, Matches
  <2> QED BY <2>1, <2>2, <2>3
<1> QED BY <1>7, <1>8 DEF ListInv

\* The handler takes an update.
LEMMA ReceiveStep ==
  ASSUME ListTypes, ListInv, List!Receive
  PROVE  ListTypes' /\ ListInv'
<1> DEFINE ev == Head(queue)
<1>1. /\ pc["td"] = List!Idle /\ queue # << >> /\ queue' = Tail(queue)
      /\ UNCHANGED <<known, order, requests, left, user, positions, mainChatList, haveFull, listLock, chatLock, changed, model, failed>>
      /\ List!Goto("td", CASE ev[1] = "ok" -> List!Asking(ev[2], ev[3])
                      [] ev[1] = "notFound" -> List!At("full")
                      [] ev[1] = "chatPosition" /\ ev[3][1][1] # "main" -> List!Idle
                      [] OTHER -> [List!At("chat") EXCEPT !.ev = ev])
  BY DEF List!Receive, List!tdlib
<1>2. queue \in Seq(Events) /\ "td" \in List!Threads BY DEF ListTypes, TdlibTyped, List!Threads
<1>3. ev \in Events /\ ev = queue[1] /\ Tail(queue) \in Seq(Events) /\ <<ev>> \o Tail(queue) = queue
  BY <1>1, <1>2, FirstOff
<1>4. List!Idle.at = "idle" /\ List!Idle \in Points /\ List!At("full") \in Points /\ List!At("full").at = "full"
  BY AtPoint DEF Ats
<1>5. Pending = queue BY <1>1, <1>4 DEF Pending
<1>6. List!FirstLogin' => List!FirstLogin BY <1>1 DEF List!FirstLogin
<1>7. TdlibTyped' /\ FlagsTyped' /\ StoreTyped'
  BY <1>1, <1>3 DEF ListTypes, TdlibTyped, FlagsTyped, StoreTyped
<1>8. listLock \in List!Threads \cup {List!Nobody} /\ chatLock \in {0} \cup List!Chats
  BY DEF ListTypes, LocksTyped
<1> HIDE DEF ev
<1>9. ASSUME NEW p \in Points, List!Goto("td", p), PointTyped("td", p), p.at \notin {"chat", "positions"},
             \A c : ~ IsNew(ev, c) /\ ~ Orders(ev, c)
      PROVE  ListTypes' /\ ListInv'
  <2>1. PointsTyped' /\ pc'["td"] = p BY <1>2, <1>9, Goes DEF ListTypes
  <2>2. Pending' = Tail(Pending) BY <2>1, <1>1, <1>5, <1>9 DEF Pending
  <2>3. ListInv' BY <2>2, <1>1, <1>3, <1>5, <1>6, <1>9, UpdateOver
  <2>4. LocksTyped' BY <2>1, <1>1, <1>8, <1>9 DEF LocksTyped
  <2> QED BY <2>1, <2>3, <2>4, <1>7 DEF ListTypes
<1>10. CASE ev[1] = "ok"
  <2> DEFINE p == List!Asking(ev[2], ev[3])
  <2>1. List!Goto("td", p) BY <1>1, <1>10
  <2>2. ev[2] \in {"gcs", "refresh"} /\ ev[3] \in Limits BY <1>3, <1>10, Kinds
  <2>3. p \in Points /\ p.at = ev[2] /\ p.limit = ev[3]
    <3> DEFINE w == ev[2]
               l == ev[3]
    <3>1. w \in Ats /\ l \in Limits BY <2>2 DEF Ats
    <3> HIDE DEF w, l
    <3>2. List!Asking(w, l) \in Points /\ List!Asking(w, l).at = w /\ List!Asking(w, l).limit = l
      BY <3>1, AskingPoint
    <3> QED BY <3>2 DEF w, l
  <2> HIDE DEF p
  <2>4. PointTyped("td", p) /\ p.at \notin {"chat", "positions"} BY <2>2, <2>3 DEF PointTyped
  <2>5. \A c : ~ IsNew(ev, c) /\ ~ Orders(ev, c) BY <1>10 DEF IsNew, Orders, Speaks
  <2> QED BY <2>1, <2>3, <2>4, <2>5, <1>9
<1>11. CASE ev[1] = "notFound"
  <2>1. List!Goto("td", List!At("full")) BY <1>1, <1>11
  <2>2. PointTyped("td", List!At("full")) BY <1>4 DEF PointTyped
  <2>3. \A c : ~ IsNew(ev, c) /\ ~ Orders(ev, c) BY <1>11 DEF IsNew, Orders, Speaks
  <2> QED BY <2>1, <2>2, <2>3, <1>4, <1>9
<1>12. CASE ev[1] = "chatPosition" /\ ev[3][1][1] # "main"
  <2>1. List!Goto("td", List!Idle) BY <1>1, <1>12
  <2>2. PointTyped("td", List!Idle) BY <1>4 DEF PointTyped
  <2>3. \A c : ~ IsNew(ev, c) /\ ~ Orders(ev, c) BY <1>12 DEF IsNew, Orders, Speaks
  <2> QED BY <2>1, <2>2, <2>3, <1>4, <1>9
<1>13. CASE ev[1] \notin {"ok", "notFound"} /\ (ev[1] = "chatPosition" => ev[3][1][1] = "main")
  <2> DEFINE p == [List!At("chat") EXCEPT !.ev = ev]
  <2>1. List!Goto("td", p) BY <1>1, <1>13
  <2>2. ev[1] \in {"newChat", "lastMessage", "chatPosition", "field"} BY <1>3, <1>13, Kinds
  <2>3. ev \in ChatEvents BY <2>2, <1>3, <1>13, KindsOfChats
  <2>4. p \in Points /\ p.at = "chat" /\ p.ev = ev BY <2>3, EventPoint DEF Ats
  <2> HIDE DEF p
  <2>5. PointTyped("td", p) BY <2>3, <2>4 DEF PointTyped
  <2>6. PointsTyped' /\ pc'["td"] = p BY <2>1, <2>4, <2>5, <1>2, Goes DEF ListTypes
  <2>7. Pending' = Pending BY <2>4, <2>6, <1>1, <1>3, <1>5 DEF Pending
  <2>8. ListInv' BY <2>7, <1>1, <1>4, <1>6, ListInvStays
  <2>9. LocksTyped' BY <2>4, <2>6, <1>1, <1>8 DEF LocksTyped
  <2> QED BY <2>6, <2>8, <2>9, <1>7 DEF ListTypes
<1> QED BY <1>10, <1>11, <1>12, <1>13

\* It takes the monitor of the chat.
LEMMA LockChatStep ==
  ASSUME ListTypes, ListInv, List!LockChat
  PROVE  ListTypes' /\ ListInv'
<1> DEFINE ev == pc["td"].ev
           c == ev[2]
           q == Pending
<1>1. /\ pc["td"].at = "chat"
      /\ UNCHANGED <<known, order, requests, left, user, queue, mainChatList, haveFull, listLock, changed, model, failed>>
      /\ IF ev[1] = "field"
         THEN List!Goto("td", List!Idle) /\ UNCHANGED <<positions, chatLock>>
         ELSE /\ chatLock' = c
              /\ positions' = IF ev[1] = "newChat" THEN List!With(c, << >>) ELSE positions
              /\ List!Goto("td", [pc["td"] EXCEPT !.at = "positions"])
  BY DEF List!LockChat, List!tdlib
<1>2. "td" \in List!Threads /\ pc["td"] \in Points BY DEF ListTypes, PointsTyped, List!Threads
<1>3. ev \in ChatEvents /\ q \in Seq(Events) /\ q # << >> /\ q[1] = ev /\ Tail(q) = queue
  BY <1>1, PendingTyped
<1>4. ev \in Events /\ c \in List!Chats /\ ev[1] \in {"newChat", "lastMessage", "chatPosition", "field"}
  BY <1>3, ChatKinds
<1>5. List!FirstLogin' => List!FirstLogin BY <1>1 DEF List!FirstLogin
<1>6. TdlibTyped' /\ FlagsTyped' BY <1>1 DEF ListTypes, TdlibTyped, FlagsTyped
<1>7. listLock \in List!Threads \cup {List!Nobody} /\ chatLock \in {0} \cup List!Chats
  BY DEF ListTypes, LocksTyped
<1>8. CASE ev[1] = "field"
  <2>1. List!Goto("td", List!Idle) /\ UNCHANGED <<positions, chatLock>> BY <1>1, <1>8
  <2>2. List!Idle \in Points /\ List!Idle.at = "idle" /\ PointTyped("td", List!Idle)
    BY AtPoint DEF Ats, PointTyped
  <2>3. PointsTyped' /\ pc'["td"] = List!Idle BY <2>1, <2>2, <1>2, Goes DEF ListTypes
  <2>4. Pending' = Tail(Pending) BY <2>2, <2>3, <1>1, <1>3 DEF Pending
  <2>5. \A d : ~ IsNew(ev, d) /\ ~ Orders(ev, d) BY <1>8 DEF IsNew, Orders, Speaks
  <2>6. ListInv' BY <2>1, <2>4, <2>5, <1>1, <1>3, <1>5, UpdateOver
  <2>7. LocksTyped' BY <2>1, <2>2, <2>3, <1>1, <1>7 DEF LocksTyped
  <2>8. StoreTyped' BY <2>1, <1>1 DEF ListTypes, StoreTyped
  <2> QED BY <2>3, <2>6, <2>7, <2>8, <1>6 DEF ListTypes
<1>9. CASE ev[1] # "field"
  <2> DEFINE p == [pc["td"] EXCEPT !.at = "positions"]
  <2>1. /\ chatLock' = c /\ List!Goto("td", p)
        /\ positions' = IF ev[1] = "newChat" THEN List!With(c, << >>) ELSE positions
    BY <1>1, <1>9
  <2>2. p \in Points /\ p.at = "positions" /\ p.ev = ev BY <1>2, PointMoves DEF Ats
  <2>3. PointTyped("td", p) BY <2>2, <1>3 DEF PointTyped
  <2> HIDE DEF p
  <2>4. PointsTyped' /\ pc'["td"] = p BY <2>1, <2>2, <2>3, <1>2, Goes DEF ListTypes
  <2>5. Pending' = Pending BY <2>2, <2>4, <1>1 DEF Pending
  <2>6. CASE ev[1] # "newChat"
    <3>1. positions' = positions BY <2>1, <2>6
    <3>2. c \in DOMAIN positions
      <4>1. Speaks(q[1], c) /\ ~ IsNew(q[1], c) BY <2>6, <1>3, <1>4 DEF Speaks, IsNew
      <4>2. 1 \in DOMAIN q BY <1>3, FirstOff
      <4>3. \A j \in 1 .. 1 : j = 1 OBVIOUS
      <4> HIDE DEF c, q
      <4>4. AnnouncedIn(known, DOMAIN positions, q) BY DEF ListInv, Announced, q
      <4> QED BY <4>1, <4>2, <4>3, <4>4, <1>4 DEF AnnouncedIn
    <3>3. ListInv' BY <3>1, <2>2, <2>4, <2>5, <1>1, <1>5, ListInvStays
    <3>4. LocksTyped' BY <3>1, <3>2, <2>1, <2>2, <2>4, <1>1, <1>4, <1>7, <1>9 DEF LocksTyped
    <3>5. StoreTyped' BY <3>1, <1>1 DEF ListTypes, StoreTyped
    <3> QED BY <2>4, <3>3, <3>4, <3>5, <1>6 DEF ListTypes
  <2>7. CASE ev[1] = "newChat"
    <3>1. positions' = [d \in DOMAIN positions \cup {c} |-> IF d = c THEN << >> ELSE positions[d]]
      BY <2>1, <2>7 DEF List!With
    <3> HIDE DEF c
    <3>2. /\ DOMAIN positions' = DOMAIN positions \cup {c} /\ positions'[c] = << >>
          /\ \A d \in DOMAIN positions : d # c => positions'[d] = positions[d]
      BY <3>1
    <3>3. IsNew(q[1], c) BY <2>7, <1>3 DEF IsNew, c
    <3> DEFINE p1 == positions
               p2 == positions'
    <3>a. /\ DOMAIN p2 = DOMAIN p1 \cup {c} /\ p2[c] = << >> /\ \A d \in DOMAIN p1 : d # c => p2[d] = p1[d]
      BY <3>2
    <3>b. known \in SUBSET List!Chats BY DEF ListTypes, TdlibTyped
    <3> HIDE DEF p1, p2, q
    <3>4. /\ AnnouncedIn(known, DOMAIN p1, q) => AnnouncedIn(known, DOMAIN p2, q)
          /\ OnceIn(known, p1, q, FALSE) => OnceIn(known, p2, q, TRUE)
          /\ \A d, o : LastOf(d, o, p1, q) => LastOf(d, o, p2, q)
      BY <3>a, <3>b, <3>3, <1>3, <1>4, RoomMade
    <3>5. Announced' BY <3>4, <2>5, <1>1 DEF ListInv, Announced, p1, p2, q
    <3>6. ASSUME List!FirstLogin' PROVE AnnouncedOnce' /\ LastCounts' /\ Matches'
      <4>1. AnnouncedOnce /\ LastCounts /\ Matches BY <3>6, <1>5 DEF ListInv
      <4>2. AnnouncedOnce'
        <5>1. (pc["td"].at = "positions") = FALSE /\ (pc'["td"].at = "positions") = TRUE
          BY <1>1, <2>2, <2>4
        <5>2. OnceIn(known, p1, q, FALSE) BY <4>1, <5>1 DEF AnnouncedOnce, p1, q
        <5>3. OnceIn(known, p2, q, TRUE) BY <5>2, <3>4
        <5> QED BY <5>1, <5>3, <2>5, <1>1 DEF AnnouncedOnce, p2, q
      <4>3. LastCounts' BY <4>1, <3>4, <2>5, <1>1 DEF LastCounts, p1, p2, q
      <4>4. c \notin DOMAIN positions
        <5>1. OnceIn(known, positions, q, FALSE) BY <4>1, <1>1 DEF AnnouncedOnce, q
        <5>2. 1 \in DOMAIN q BY <1>3, FirstOff
        <5> QED BY <5>1, <5>2, <3>3, <1>4 DEF OnceIn
      <4>5. Matches'
        <5>1. List!InMain(c, << >>) = {} BY DEF List!InMain
        <5>2. ListOf(p2) = ListOf(p1)
          <6>1. \A e : e \in ListOf(p2) <=> \E d \in DOMAIN p2 : e \in List!InMain(d, p2[d])
            BY DEF ListOf
          <6>2. \A e : e \in ListOf(p1) <=> \E d \in DOMAIN p1 : e \in List!InMain(d, p1[d])
            BY DEF ListOf
          <6>3. c \notin DOMAIN p1 BY <4>4 DEF p1
          <6>4. \A e : e \in ListOf(p2) <=> e \in ListOf(p1) BY <6>1, <6>2, <6>3, <3>a, <5>1
          <6> QED BY <6>4 DEF ListOf
        <5> QED BY <5>2, <4>1, <1>1 DEF Matches, ListOf, p1, p2
      <4> QED BY <4>2, <4>3, <4>5
    <3>7. LocksTyped' BY <3>2, <2>1, <2>2, <2>4, <1>1, <1>4, <1>7, <1>9 DEF LocksTyped, c
    <3>8. << >> \in Placed BY DEF Placed, OneMain
    <3>9. StoreTyped' BY <3>2, <3>8, <1>1, <1>4 DEF ListTypes, StoreTyped
    <3> QED BY <2>4, <3>5, <3>6, <3>7, <3>9, <1>6 DEF ListTypes, ListInv
  <2> QED BY <2>6, <2>7
<1> QED BY <1>8, <1>9

\* It takes the monitor of the list and sets the positions of the chat.
LEMMA SetChatPositionsStep ==
  ASSUME ListTypes, ListInv, List!SetChatPositions
  PROVE  ListTypes' /\ ListInv'
<1> DEFINE ev == pc["td"].ev
           c == chatLock
           old == positions[c]
           new == List!NewPositions(ev, old)
           rest == mainChatList \ List!InMain(c, old)
           q == Pending
<1>1. /\ pc["td"].at = "positions" /\ chatLock' = 0 /\ List!Goto("td", List!Idle)
      /\ UNCHANGED <<known, order, requests, left, user, queue, haveFull, listLock, model>>
      /\ mainChatList' = rest \cup List!InMain(c, new)
      /\ failed' = (failed \/ ~ (List!InMain(c, old) \subseteq mainChatList) \/ rest \cap List!InMain(c, new) # {})
      /\ positions' = List!With(c, new)
      /\ changed' \in {changed, changed \cup {t \in List!Threads : pc[t].at = "fill"}}
  BY DEF List!SetChatPositions, List!tdlib
<1>2. "td" \in List!Threads /\ pc["td"] \in Points BY DEF ListTypes, PointsTyped, List!Threads
<1>3. ev \in ChatEvents /\ q \in Seq(Events) /\ q # << >> /\ q[1] = ev /\ Tail(q) = queue
  BY <1>1, PendingTyped
<1>4. ev[2] = c /\ c \in DOMAIN positions /\ ev[1] # "field" /\ listLock \in List!Threads \cup {List!Nobody}
  BY <1>1 DEF ListTypes, LocksTyped
<1>5. old \in Placed /\ c \in List!Chats BY <1>4 DEF ListTypes, StoreTyped
<1>6. new \in Placed /\ \A o \in 0 .. MaxOrder : Carries(ev, o) => List!InMain(c, new) = Single(c, o)
  <2> HIDE DEF old
  <2>1. /\ List!NewPositions(ev, old) \in Placed
        /\ \A o \in 0 .. MaxOrder : Carries(ev, o) => List!InMain(ev[2], List!NewPositions(ev, old)) = Single(ev[2], o)
    BY <1>3, <1>4, <1>5, Replaces
  <2> QED BY <2>1, <1>4
<1>7. List!FirstLogin' => List!FirstLogin BY <1>1 DEF List!FirstLogin
<1>8. List!Idle \in Points /\ List!Idle.at = "idle" /\ PointTyped("td", List!Idle)
  BY AtPoint DEF Ats, PointTyped
<1>9. PointsTyped' /\ pc'["td"] = List!Idle BY <1>1, <1>2, <1>8, Goes DEF ListTypes
<1>10. Pending' = Tail(q) BY <1>1, <1>3, <1>8, <1>9 DEF Pending
<1> HIDE DEF ev, new, q
<1>11. positions' = [d \in DOMAIN positions \cup {c} |-> IF d = c THEN new ELSE positions[d]]
  BY <1>1 DEF List!With
<1>12. /\ DOMAIN positions' = DOMAIN positions /\ positions'[c] = new
       /\ \A d \in DOMAIN positions : d # c => positions'[d] = positions[d]
  BY <1>4, <1>11
<1>13. List!InMain(c, new) \subseteq Entries
  <2>1. new \in Seq(List!Position) BY <1>6 DEF Placed
  <2>2. \A i \in DOMAIN new : new[i][2] \in 1 .. MaxOrder BY <2>1 DEF List!Position
  <2> QED BY <2>2, <1>5 DEF List!InMain, Entries
<1>14. StoreTyped'
  <2>1. mainChatList' \subseteq Entries BY <1>1, <1>13 DEF ListTypes, StoreTyped
  <2>2. \A d \in DOMAIN positions : positions'[d] \in Placed
    BY <1>6, <1>12 DEF ListTypes, StoreTyped
  <2> QED BY <2>1, <2>2, <1>12 DEF ListTypes, StoreTyped
<1>15. TdlibTyped' BY <1>1 DEF ListTypes, TdlibTyped
<1>16. FlagsTyped' BY <1>1 DEF ListTypes, FlagsTyped
<1>17. LocksTyped' BY <1>1, <1>4, <1>8, <1>9 DEF LocksTyped
<1> DEFINE p1 == positions
           p2 == positions'
           b == (pc["td"].at = "positions")
           b2 == (pc["td"].at = "positions")'
<1>18. /\ DOMAIN p2 = DOMAIN p1 /\ p2[c] = new /\ c \in DOMAIN p1 /\ \A d \in DOMAIN p1 : d # c => p2[d] = p1[d]
       /\ known \in SUBSET List!Chats /\ b \in BOOLEAN /\ b2 \in BOOLEAN
  BY <1>4, <1>12 DEF ListTypes, TdlibTyped
<1>19. \A d : IsNew(q[1], d) => d = c BY <1>3, <1>4 DEF IsNew
<1>20. \A d : Orders(q[1], d) => d = c BY <1>3, <1>4 DEF Orders, Speaks
<1>21. Orders(q[1], c)
  <2>1. ev[1] \in {"newChat", "lastMessage", "chatPosition"} BY <1>3, <1>4, ChatKinds
  <2>2. ev[1] = "chatPosition" => \E o \in 0 .. MaxOrder : ev[3] = <<<<"main", o>>>>
    BY <1>3, ChatKinds
  <2>3. ev[1] = "chatPosition" => ev[3][1][1] = "main" BY <2>2
  <2> QED BY <2>1, <2>3, <1>3, <1>4 DEF Orders, Speaks
<1> HIDE DEF p1, p2, b, b2, c
<1>22. /\ AnnouncedIn(known, DOMAIN p1, q) => AnnouncedIn(known, DOMAIN p2, Tail(q))
       /\ OnceIn(known, p1, q, b) => OnceIn(known, p2, Tail(q), b2)
  BY <1>3, <1>18, <1>19, OneLess
<1>23. Announced' BY <1>1, <1>10, <1>22 DEF ListInv, Announced, p1, p2, q
<1>24. ASSUME List!FirstLogin' PROVE AnnouncedOnce' /\ LastCounts' /\ Matches'
  <2>1. AnnouncedOnce /\ LastCounts /\ Matches BY <1>24, <1>7 DEF ListInv
  <2>2. AnnouncedOnce' BY <2>1, <1>1, <1>10, <1>22 DEF AnnouncedOnce, p1, p2, q, b, b2
  <2>3. ASSUME NEW d \in known PROVE LastOf(d, order[d], p2, Tail(q))
    <3> DEFINE o == order[d]
    <3>1. o \in 0 .. MaxOrder BY <1>18 DEF ListTypes, TdlibTyped
    <3>2. LastOf(d, o, p1, q) BY <2>1 DEF LastCounts, p1, q
    <3> HIDE DEF o
    <3>3. Orders(q[1], d) => d \in DOMAIN p2 /\ (Carries(q[1], o) => List!InMain(d, p2[d]) = Single(d, o))
      BY <3>1, <1>3, <1>6, <1>18, <1>20
    <3>4. ~ Orders(q[1], d) => (d \in DOMAIN p1 => d \in DOMAIN p2 /\ p2[d] = p1[d]) BY <1>18, <1>21
    <3>5. LastOf(d, o, p2, Tail(q)) BY <3>2, <3>3, <3>4, <1>3, OneLessLast
    <3> QED BY <3>5 DEF o
  <2>4. LastCounts' BY <2>3, <1>1, <1>10 DEF LastCounts, p2
  <2>5. Matches'
    <3>0. p2 = [d \in DOMAIN p1 \cup {c} |-> IF d = c THEN new ELSE p1[d]] BY <1>11 DEF p1, p2
    <3>1. /\ List!InMain(c, p1[c]) \subseteq ListOf(p1) /\ (ListOf(p1) \ List!InMain(c, p1[c])) \cap List!InMain(c, new) = {}
          /\ ListOf(p2) = (ListOf(p1) \ List!InMain(c, p1[c])) \cup List!InMain(c, new)
      BY <3>0, <1>18, ListWithout
    <3>2. mainChatList = ListOf(p1) /\ ~ failed BY <2>1 DEF Matches, ListOf, p1
    <3>a. old = p1[c] BY DEF p1
    <3> HIDE DEF old
    <3>3. ~ failed' /\ mainChatList' = ListOf(p2) BY <3>1, <3>2, <3>a, <1>1
    <3> QED BY <3>3 DEF Matches, ListOf, p2
  <2> QED BY <2>2, <2>4, <2>5
<1> QED BY <1>9, <1>14, <1>15, <1>16, <1>17, <1>23, <1>24 DEF ListTypes, ListInv

-----------------------------------------------------------------------------
(* TDLib *)

\* The positions that TDLib sends.
LEMMA Sent ==
  ASSUME NEW o \in 0 .. MaxOrder, NEW c
  PROVE  /\ List!MainPositions(o) \in Placed /\ List!InMain(c, List!MainPositions(o)) = Single(c, o)
         /\ List!MainPositions(o) \o <<<<"folder", 1>>>> \in Placed
         /\ List!InMain(c, List!MainPositions(o) \o <<<<"folder", 1>>>>) = Single(c, o)
<1> DEFINE f == <<<<"folder", 1>>>>
<1>1. << >> \in Seq(List!Position) /\ \A i \in DOMAIN << >> : << >>[i][1] # "main" OBVIOUS
<1>2. f \in Seq(List!Position) /\ \A i \in DOMAIN f : f[i][1] # "main"
  <2>1. <<"folder", 1>> \in List!Position BY SizesOK DEF List!Position, List!Lists
  <2> QED BY <2>1
<1>3. << >> \o f = f /\ << >> \o << >> = << >> OBVIOUS
<1> HIDE DEF f
<1>4. CASE o = 0
  <2>1. List!MainPositions(o) = << >> BY <1>4 DEF List!MainPositions
  <2>2. List!InMain(c, << >>) = {} /\ << >> \in Placed BY <1>1, NoMain
  <2>3. List!InMain(c, f) = {} /\ f \in Placed BY <1>2, NoMain
  <2> QED BY <2>1, <2>2, <2>3, <1>3, <1>4 DEF Single, f
<1>5. CASE o # 0
  <2>1. List!MainPositions(o) = <<<<"main", o>>>> /\ o \in 1 .. MaxOrder
    BY <1>5, SizesOK DEF List!MainPositions
  <2>2. <<<<"main", o>>>> \o << >> = <<<<"main", o>>>>
    <3>1. <<<<"main", o>>>> \in Seq({<<"main", o>>}) OBVIOUS
    <3> QED BY <3>1
  <2>3. List!InMain(c, <<<<"main", o>>>> \o << >>) = {<<o, c>>} /\ <<<<"main", o>>>> \o << >> \in Placed
    BY <1>1, <2>1, OneMainFirst
  <2>4. List!InMain(c, <<<<"main", o>>>> \o f) = {<<o, c>>} /\ <<<<"main", o>>>> \o f \in Placed
    BY <1>2, <2>1, OneMainFirst
  <2> QED BY <2>1, <2>2, <2>3, <2>4, <1>5 DEF Single, f
<1> QED BY <1>4, <1>5

\* An update more, seen from the application.
LEMMA PendingMore ==
  ASSUME ListTypes, pc' = pc, NEW ev \in Events
  PROVE  queue' = Append(queue, ev) => Pending' = Append(Pending, ev)
<1> SUFFICES ASSUME queue' = Append(queue, ev) PROVE Pending' = Append(Pending, ev) OBVIOUS
<1>1. queue \in Seq(Events) BY DEF ListTypes, TdlibTyped
<1>2. CASE pc["td"].at \in {"chat", "positions"}
  <2> DEFINE e == pc["td"].ev
  <2>1. e \in Events BY <1>2, PendingTyped, ChatKinds
  <2>2. Pending = <<e>> \o queue /\ Pending' = <<e>> \o Append(queue, ev) BY <1>2 DEF Pending
  <2> HIDE DEF e
  <2> QED BY <1>1, <2>1, <2>2, AheadBehind
<1>3. CASE pc["td"].at \notin {"chat", "positions"} BY <1>3 DEF Pending
<1> QED BY <1>2, <1>3

\* What TDLib does leaves the application alone.
LEMMA ApplicationRests ==
  ASSUME ListTypes, UNCHANGED <<positions, mainChatList, haveFull, pc, listLock, chatLock, changed, model, failed>>
  PROVE  PointsTyped' /\ StoreTyped' /\ LocksTyped' /\ FlagsTyped'
<1>1. PointsTyped' BY DEF ListTypes, PointsTyped, PointTyped
<1>2. StoreTyped' BY DEF ListTypes, StoreTyped
<1>3. LocksTyped' BY DEF ListTypes, LocksTyped
<1>4. FlagsTyped' BY DEF ListTypes, FlagsTyped
<1> QED BY <1>1, <1>2, <1>3, <1>4

\* The updates TDLib can send.
LEMMA SentEvents ==
  ASSUME NEW c \in List!Chats, NEW o \in 0 .. MaxOrder, NEW ps \in Placed, NEW w \in {"gcs", "refresh"}, NEW l \in Limits,
         NEW ok \in BOOLEAN
  PROVE  /\ List!NewChat(c, ps) \in NewEvents /\ List!NewChat(c, ps) \in Events
         /\ List!ChatPosition(c, o) \in Events /\ List!OtherPosition(c) \in Events /\ List!LastMessage(c, ps) \in Events
         /\ List!Field(c) \in Events /\ List!Answer(w, l, ok) \in Events
<1>1. List!NewChat(c, ps) \in NewEvents BY DEF List!NewChat, NewEvents
<1>2. List!ChatPosition(c, o) \in PlaceEvents BY DEF PlaceEvents
<1>3. List!OtherPosition(c) \in OtherEvents BY DEF OtherEvents
<1>4. List!LastMessage(c, ps) \in LastEvents BY DEF List!LastMessage, LastEvents
<1>5. List!Field(c) \in FieldEvents BY DEF FieldEvents
<1>6. List!Answer(w, l, ok) \in AnswerEvents BY DEF List!Answer, AnswerEvents
<1> QED BY <1>1, <1>2, <1>3, <1>4, <1>5, <1>6 DEF Events, ChatEvents

\* What they say.
LEMMA Says ==
  ASSUME NEW c, NEW o, NEW ps, NEW w, NEW l, NEW ok
  PROVE  /\ List!NewChat(c, ps)[1] = "newChat" /\ List!NewChat(c, ps)[2] = c /\ List!NewChat(c, ps)[3] = ps
         /\ List!ChatPosition(c, o)[1] = "chatPosition" /\ List!ChatPosition(c, o)[2] = c
         /\ List!ChatPosition(c, o)[3][1][1] = "main" /\ List!ChatPosition(c, o)[3][1][2] = o
         /\ List!OtherPosition(c)[1] = "chatPosition" /\ List!OtherPosition(c)[2] = c
         /\ List!OtherPosition(c)[3][1][1] = "folder"
         /\ List!LastMessage(c, ps)[1] = "lastMessage" /\ List!LastMessage(c, ps)[2] = c /\ List!LastMessage(c, ps)[3] = ps
         /\ List!Field(c)[1] = "field" /\ List!Field(c)[2] = c
         /\ List!Answer(w, l, ok)[1] \in {"ok", "notFound"}
BY DEF List!NewChat, List!ChatPosition, List!OtherPosition, List!LastMessage, List!Field,
   List!Answer

\* TDLib speaks of a chat it knows: of its place in the main list, or of something else.
LEMMA Spoken ==
  ASSUME ListTypes, ListInv, UNCHANGED <<known, positions, mainChatList, pc, failed>>, List!FirstLogin' => List!FirstLogin,
         NEW ev \in Events, ev[1] # "newChat", \A d \in List!Chats : Speaks(ev, d) => d \in known,
         Pending' = Append(Pending, ev),
         \A d \in known : \/ Orders(ev, d) /\ Carries(ev, order'[d])
                          \/ ~ Orders(ev, d) /\ order'[d] = order[d]
  PROVE  ListInv'
<1> DEFINE q == Pending
           b == (pc["td"].at = "positions")
           p == positions
<1>1. q \in Seq(Events) /\ known \in SUBSET List!Chats /\ b \in BOOLEAN
  BY PendingTyped DEF ListTypes, TdlibTyped
<1> HIDE DEF q, b, p
<1>2. /\ AnnouncedIn(known, DOMAIN p, q) => AnnouncedIn(known, DOMAIN p, Append(q, ev))
      /\ OnceIn(known, p, q, b) => OnceIn(known, p, Append(q, ev), b)
  BY <1>1, OneMore
<1>3. Announced' BY <1>2 DEF ListInv, Announced, p, q
<1>4. ASSUME List!FirstLogin' PROVE AnnouncedOnce' /\ LastCounts' /\ Matches'
  <2>1. AnnouncedOnce /\ LastCounts /\ Matches BY <1>4 DEF ListInv
  <2>2. AnnouncedOnce' BY <2>1, <1>2 DEF AnnouncedOnce, p, q, b
  <2>3. ASSUME NEW d \in known PROVE LastOf(d, order'[d], p, Append(q, ev))
    <3> DEFINE o == order'[d]
    <3>1. LastOf(d, order[d], p, q) BY <2>1 DEF LastCounts, p, q
    <3>2. (Orders(ev, d) /\ Carries(ev, o)) \/ (~ Orders(ev, d) /\ LastOf(d, o, p, q))
      <4>1. CASE Orders(ev, d) /\ Carries(ev, order'[d]) BY <4>1
      <4>2. CASE ~ Orders(ev, d) /\ order'[d] = order[d]
        <5>1. LastOf(d, o, p, q) BY <4>2, <3>1
        <5> QED BY <4>2, <5>1
      <4> QED BY <4>1, <4>2
    <3> HIDE DEF o
    <3>3. LastOf(d, o, p, Append(q, ev)) BY <3>2, <1>1, OneMoreLast
    <3> QED BY <3>3 DEF o
  <2>4. LastCounts' BY <2>3 DEF LastCounts, p, q
  <2>5. Matches' BY <2>1 DEF Matches
  <2> QED BY <2>2, <2>4, <2>5
<1> QED BY <1>3, <1>4 DEF ListInv

\* TDLib announces a chat.
LEMMA AnnounceStep ==
  ASSUME ListTypes, ListInv, NEW c \in List!Chats, List!Announce(c),
         UNCHANGED <<positions, mainChatList, haveFull, pc, listLock, chatLock, changed, model, failed>>
  PROVE  ListTypes' /\ ListInv'
<1> DEFINE ps == List!MainPositions(order[c])
           ev == List!NewChat(c, ps)
           q == Pending
           b == (pc["td"].at = "positions")
           p == positions
<1>1. /\ c \notin known /\ List!Spend("updates") /\ known' = known \cup {c} /\ queue' = Append(queue, ev)
      /\ UNCHANGED <<order, requests, user>>
  BY DEF List!Announce
<1>2. /\ known \in SUBSET List!Chats /\ order[c] \in 0 .. MaxOrder /\ queue \in Seq(Events) /\ q \in Seq(Events) /\ b \in BOOLEAN
  BY PendingTyped DEF ListTypes, TdlibTyped
<1>3. ps \in Placed /\ List!InMain(c, ps) = Single(c, order[c])
  <2> DEFINE o == order[c]
  <2> HIDE DEF o
  <2>1. o \in 0 .. MaxOrder BY <1>2 DEF o
  <2>2. List!MainPositions(o) \in Placed /\ List!InMain(c, List!MainPositions(o)) = Single(c, o)
    BY <2>1, Sent
  <2> QED BY <2>2 DEF o
<1> HIDE DEF ps, q, b, p
<1>4. ev \in NewEvents /\ ev \in Events /\ ev[1] = "newChat" /\ ev[2] = c /\ ev[3] = ps
  BY <1>3 DEF List!NewChat, NewEvents, ChatEvents, Events
<1> HIDE DEF ev
<1>5. Pending' = Append(q, ev) BY <1>1, <1>4, PendingMore DEF q
<1>6. left' \in [updates : Nat, uses : 0 .. Uses] /\ left'.uses = left.uses
  BY <1>1, Spends DEF ListTypes
<1>7. List!FirstLogin' => List!FirstLogin BY <1>1, <1>6 DEF List!FirstLogin
<1>8. TdlibTyped'
  <2>1. queue' \in Seq(Events) BY <1>1, <1>2, <1>4, Behind
  <2> QED BY <2>1, <1>1, <1>2, <1>6 DEF ListTypes, TdlibTyped
<1>9. /\ AnnouncedIn(known, DOMAIN p, q) => AnnouncedIn(known \cup {c}, DOMAIN p, Append(q, ev))
      /\ OnceIn(known, p, q, b) => OnceIn(known \cup {c}, p, Append(q, ev), b)
  <2>1. c \notin known /\ known \in SUBSET List!Chats /\ q \in Seq(Events) /\ b \in BOOLEAN
    BY <1>1, <1>2
  <2>2. ev \in NewEvents /\ ev[2] = c BY <1>4
  <2> QED BY <2>1, <2>2, OneMoreNew
<1>10. Announced' BY <1>1, <1>5, <1>9 DEF ListInv, Announced, p, q
<1>11. ASSUME List!FirstLogin' PROVE AnnouncedOnce' /\ LastCounts' /\ Matches'
  <2>1. AnnouncedOnce /\ LastCounts /\ Matches BY <1>7, <1>11 DEF ListInv
  <2>2. AnnouncedOnce' BY <2>1, <1>1, <1>5, <1>9 DEF AnnouncedOnce, p, q, b
  <2>3. ASSUME NEW d \in known \cup {c} PROVE LastOf(d, order[d], p, Append(q, ev))
    <3> DEFINE o == order[d]
    <3>1. d = c => Orders(ev, d) /\ Carries(ev, o) BY <1>3, <1>4 DEF Orders, Speaks, Carries
    <3>2. d # c => ~ Orders(ev, d) BY <1>4 DEF Orders, Speaks
    <3>3. d # c => LastOf(d, o, p, q) BY <2>1 DEF LastCounts, p, q
    <3> HIDE DEF o
    <3>4. LastOf(d, o, p, Append(q, ev)) BY <3>1, <3>2, <3>3, <1>2, <1>4, OneMoreLast
    <3> QED BY <3>4 DEF o
  <2>4. LastCounts' BY <2>3, <1>1, <1>5 DEF LastCounts, p
  <2>5. Matches' BY <2>1 DEF Matches
  <2> QED BY <2>2, <2>4, <2>5
<1>12. PointsTyped' /\ StoreTyped' /\ LocksTyped' /\ FlagsTyped' BY ApplicationRests
<1> QED BY <1>8, <1>10, <1>11, <1>12 DEF ListTypes, ListInv

\* TDLib moves a chat.
LEMMA ChangeStep ==
  ASSUME ListTypes, ListInv, NEW c \in List!Chats, NEW o \in 0 .. MaxOrder, List!Change(c, o),
         UNCHANGED <<positions, mainChatList, haveFull, pc, listLock, chatLock, changed, model, failed>>
  PROVE  ListTypes' /\ ListInv'
<1>1. c \in known /\ List!Spend("updates") /\ order' = [order EXCEPT ![c] = o] /\ UNCHANGED <<known, requests, user>>
  BY DEF List!Change
<1>2. known \in SUBSET List!Chats /\ order \in [List!Chats -> 0 .. MaxOrder] /\ queue \in Seq(Events)
  BY DEF ListTypes, TdlibTyped
<1>3. PICK ev \in Events : /\ queue' = Append(queue, ev) /\ ev[1] \in {"chatPosition", "lastMessage"} /\ ev[2] = c
                           /\ Orders(ev, c) /\ Carries(ev, o)
  <2>1. CASE queue' = Append(queue, List!ChatPosition(c, o))
    <3> DEFINE ev == List!ChatPosition(c, o)
    <3>1. ev \in Events BY DEF PlaceEvents, ChatEvents, Events
    <3>2. ev[1] = "chatPosition" /\ ev[2] = c /\ ev[3][1][1] = "main" /\ ev[3][1][2] = o BY Says
    <3> HIDE DEF ev
    <3>3. Orders(ev, c) /\ Carries(ev, o) BY <3>2 DEF Orders, Carries, Speaks
    <3>4. queue' = Append(queue, ev) BY <2>1 DEF ev
    <3> QED BY <3>1, <3>2, <3>3, <3>4
  <2>2. ASSUME NEW ps \in Placed, List!InMain(c, ps) = Single(c, o), queue' = Append(queue, List!LastMessage(c, ps))
        PROVE  \E ev \in Events : /\ queue' = Append(queue, ev) /\ ev[1] \in {"chatPosition", "lastMessage"} /\ ev[2] = c
                                  /\ Orders(ev, c) /\ Carries(ev, o)
    <3> DEFINE ev == List!LastMessage(c, ps)
    <3>1. ev \in Events BY DEF List!LastMessage, LastEvents, ChatEvents, Events
    <3>2. ev[1] = "lastMessage" /\ ev[2] = c /\ ev[3] = ps BY DEF List!LastMessage
    <3> HIDE DEF ev
    <3>3. Orders(ev, c) /\ Carries(ev, o) BY <2>2, <3>2 DEF Orders, Carries, Speaks
    <3>4. queue' = Append(queue, ev) BY <2>2 DEF ev
    <3> QED BY <3>1, <3>2, <3>3, <3>4
  <2>3. /\ List!MainPositions(o) \in Placed /\ List!InMain(c, List!MainPositions(o)) = Single(c, o)
        /\ List!MainPositions(o) \o <<<<"folder", 1>>>> \in Placed
        /\ List!InMain(c, List!MainPositions(o) \o <<<<"folder", 1>>>>) = Single(c, o)
    BY Sent
  <2>4. CASE queue' = Append(queue, List!LastMessage(c, List!MainPositions(o))) BY <2>2, <2>3, <2>4
  <2>5. CASE queue' = Append(queue, List!LastMessage(c, List!MainPositions(o) \o <<<<"folder", 1>>>>))
    BY <2>2, <2>3, <2>5
  <2> QED BY <2>1, <2>4, <2>5 DEF List!Change
<1>4. Pending' = Append(Pending, ev) BY <1>3, PendingMore
<1>5. left' \in [updates : Nat, uses : 0 .. Uses] /\ left'.uses = left.uses
  BY <1>1, Spends DEF ListTypes
<1>6. List!FirstLogin' => List!FirstLogin BY <1>1, <1>5 DEF List!FirstLogin
<1>7. TdlibTyped'
  <2>1. queue' \in Seq(Events) BY <1>2, <1>3, Behind
  <2>2. order' \in [List!Chats -> 0 .. MaxOrder] BY <1>1, <1>2
  <2> QED BY <2>1, <2>2, <1>1, <1>5 DEF ListTypes, TdlibTyped
<1>8. \A d \in known : \/ Orders(ev, d) /\ Carries(ev, order'[d])
                       \/ ~ Orders(ev, d) /\ order'[d] = order[d]
  <2> SUFFICES ASSUME NEW d \in known
               PROVE  (Orders(ev, d) /\ Carries(ev, order'[d])) \/ (~ Orders(ev, d) /\ order'[d] = order[d])
    OBVIOUS
  <2>1. CASE d = c
    <3>1. order'[d] = o BY <2>1, <1>1, <1>2
    <3> QED BY <2>1, <3>1, <1>3
  <2>2. CASE d # c
    <3>1. ~ Orders(ev, d) BY <2>2, <1>3 DEF Orders, Speaks
    <3>2. order'[d] = order[d] BY <2>2, <1>1, <1>2
    <3> QED BY <3>1, <3>2
  <2> QED BY <2>1, <2>2
<1>9. ev[1] # "newChat" /\ \A d \in List!Chats : Speaks(ev, d) => d \in known
  BY <1>1, <1>3 DEF Speaks
<1>10. ListInv' BY <1>1, <1>4, <1>6, <1>8, <1>9, Spoken
<1>11. PointsTyped' /\ StoreTyped' /\ LocksTyped' /\ FlagsTyped' BY ApplicationRests
<1> QED BY <1>7, <1>10, <1>11 DEF ListTypes

\* TDLib sends an update that moves nothing.
LEMMA NotifyStep ==
  ASSUME ListTypes, ListInv, NEW c \in List!Chats, List!Notify(c),
         UNCHANGED <<positions, mainChatList, haveFull, pc, listLock, chatLock, changed, model, failed>>
  PROVE  ListTypes' /\ ListInv'
<1>1. c \in known /\ List!Spend("updates") /\ UNCHANGED <<known, order, requests, user>>
  BY DEF List!Notify
<1>2. known \in SUBSET List!Chats /\ queue \in Seq(Events) BY DEF ListTypes, TdlibTyped
<1>3. PICK ev \in Events : /\ queue' = Append(queue, ev) /\ ev[1] \in {"field", "chatPosition"} /\ ev[2] = c
                           /\ ev[1] = "chatPosition" => ev[3][1][1] # "main"
  <2>1. List!Field(c) \in Events /\ List!OtherPosition(c) \in Events
    BY DEF FieldEvents, OtherEvents, ChatEvents, Events
  <2>2. /\ List!Field(c)[1] = "field" /\ List!Field(c)[2] = c /\ List!OtherPosition(c)[1] = "chatPosition" /\ List!OtherPosition(c)[2] = c
        /\ List!OtherPosition(c)[3][1][1] = "folder"
    BY Says
  <2> QED BY <2>1, <2>2 DEF List!Notify
<1>4. Pending' = Append(Pending, ev) BY <1>3, PendingMore
<1>5. left' \in [updates : Nat, uses : 0 .. Uses] /\ left'.uses = left.uses
  BY <1>1, Spends DEF ListTypes
<1>6. List!FirstLogin' => List!FirstLogin BY <1>1, <1>5 DEF List!FirstLogin
<1>7. TdlibTyped'
  <2>1. queue' \in Seq(Events) BY <1>2, <1>3, Behind
  <2> QED BY <2>1, <1>1, <1>5 DEF ListTypes, TdlibTyped
<1>8. ev[1] # "newChat" /\ (\A d \in List!Chats : Speaks(ev, d) => d \in known) /\ \A d : ~ Orders(ev, d)
  BY <1>1, <1>3 DEF Speaks, Orders
<1>9. ListInv' BY <1>1, <1>4, <1>6, <1>8, Spoken
<1>10. PointsTyped' /\ StoreTyped' /\ LocksTyped' /\ FlagsTyped' BY ApplicationRests
<1> QED BY <1>7, <1>9, <1>10 DEF ListTypes

\* LoadChats is answered: all are known, or one more chat comes before the answer.
LEMMA LoadStep ==
  ASSUME ListTypes, ListInv, List!Load,
         UNCHANGED <<positions, mainChatList, haveFull, pc, listLock, chatLock, changed, model, failed>>
  PROVE  ListTypes' /\ ListInv'
<1> DEFINE T == {x \in Points : x.at \in {"gcs", "refresh"} /\ x.limit \in Limits}
           r == Head(requests)
           unknown == {c \in List!Chats \ known : order[c] # 0}
           ans(ok) == List!Answer(r.at, r.limit, ok)
<1>1. requests # << >> /\ requests' = Tail(requests) /\ UNCHANGED <<order, left, user>>
  BY DEF List!Load
<1>2. known \in SUBSET List!Chats /\ order \in [List!Chats -> 0 .. MaxOrder] /\ queue \in Seq(Events) /\ requests \in Seq(T)
  BY DEF ListTypes, TdlibTyped
<1>3. r \in T /\ requests' \in Seq(T)
  <2> HIDE DEF T
  <2> QED BY <1>1, <1>2, FirstOff
<1>4. \A ok \in BOOLEAN : ans(ok) \in Events /\ ans(ok)[1] \in {"ok", "notFound"}
  BY <1>3 DEF List!Answer, AnswerEvents, Events
<1>5. List!FirstLogin' => List!FirstLogin BY <1>1 DEF List!FirstLogin
<1>6. PointsTyped' /\ StoreTyped' /\ LocksTyped' /\ FlagsTyped' BY ApplicationRests
<1>7. CASE queue' = Append(queue, ans(FALSE)) /\ UNCHANGED known
  <2> DEFINE ev == ans(FALSE)
  <2>1. ev \in Events /\ ev[1] \in {"ok", "notFound"} BY <1>4
  <2>2. queue' = Append(queue, ev) BY <1>7
  <2> HIDE DEF ev
  <2>3. Pending' = Append(Pending, ev) BY <2>1, <2>2, PendingMore
  <2>4. ev[1] # "newChat" /\ (\A d \in List!Chats : Speaks(ev, d) => d \in known) /\ \A d : ~ Orders(ev, d)
    BY <2>1 DEF Speaks, Orders
  <2>5. ListInv' BY <2>1, <2>3, <2>4, <1>1, <1>5, <1>7, Spoken
  <2>6. queue' \in Seq(Events) BY <2>1, <2>2, <1>2, Behind
  <2>7. TdlibTyped' BY <2>6, <1>1, <1>3, <1>7 DEF ListTypes, TdlibTyped
  <2> QED BY <2>5, <2>7, <1>6 DEF ListTypes
<1>8. ASSUME NEW c \in unknown, known' = known \cup {c},
             queue' = queue \o <<List!NewChat(c, << >>), List!ChatPosition(c, order[c]), ans(TRUE)>>
      PROVE  ListTypes' /\ ListInv'
  <2> DEFINE o == order[c]
             x == List!NewChat(c, << >>)
             y == List!ChatPosition(c, o)
             z == ans(TRUE)
             q == Pending
             q1 == Append(q, x)
             q2 == Append(q1, y)
             q3 == Append(q2, z)
             b == (pc["td"].at = "positions")
             p == positions
             k == known \cup {c}
  <2>1. c \in List!Chats /\ c \notin known /\ o \in 0 .. MaxOrder BY <1>2
  <2>2. x \in NewEvents /\ x \in Events /\ x[1] = "newChat" /\ x[2] = c
    <3>1. << >> \in Placed BY DEF Placed, OneMain
    <3> QED BY <2>1, <3>1 DEF List!NewChat, NewEvents, ChatEvents, Events
  <2> HIDE DEF o
  <2>3. y \in Events /\ y[1] = "chatPosition" /\ y[2] = c /\ y[3][1][1] = "main" /\ y[3][1][2] = o
    <3>1. y \in Events BY <2>1 DEF PlaceEvents, ChatEvents, Events
    <3> QED BY <3>1, Says
  <2>4. z \in Events /\ z[1] \in {"ok", "notFound"} BY <1>4
  <2>5. queue' = Append(Append(Append(queue, x), y), z)
    <3>1. queue' = queue \o <<x, y, z>> BY <1>8 DEF o
    <3> HIDE DEF x, y, z
    <3> QED BY <3>1, <2>2, <2>3, <2>4, <1>2, ThreeBehind
  <2> HIDE DEF x, y, z
  <2>6. Append(queue, x) \in Seq(Events) /\ Append(Append(queue, x), y) \in Seq(Events) /\ queue' \in Seq(Events)
    <3>1. Append(queue, x) \in Seq(Events) BY <2>2, <1>2, Behind
    <3>2. Append(Append(queue, x), y) \in Seq(Events) BY <2>3, <3>1, Behind
    <3>3. queue' \in Seq(Events) BY <2>4, <2>5, <3>2, Behind
    <3> QED BY <3>1, <3>2, <3>3
  <2>7. q \in Seq(Events) BY PendingTyped
  <2>8. q1 \in Seq(Events) /\ q2 \in Seq(Events)
    <3> HIDE DEF q
    <3>1. q1 \in Seq(Events) BY <2>2, <2>7, Behind
    <3> HIDE DEF q1
    <3>2. q2 \in Seq(Events) BY <2>3, <3>1, Behind
    <3> QED BY <3>1, <3>2
  <2>9. Pending' = q3
    <3>1. CASE pc["td"].at \in {"chat", "positions"}
      <4> DEFINE e == pc["td"].ev
      <4>1. e \in Events BY <3>1, PendingTyped, ChatKinds
      <4>2. q = <<e>> \o queue /\ Pending' = <<e>> \o queue' BY <3>1 DEF Pending
      <4> HIDE DEF e
      <4>3. q1 = <<e>> \o Append(queue, x) BY <4>1, <4>2, <2>2, <1>2, AheadBehind
      <4>4. q2 = <<e>> \o Append(Append(queue, x), y) BY <4>1, <4>3, <2>3, <2>6, AheadBehind
      <4>5. q3 = <<e>> \o Append(Append(Append(queue, x), y), z)
        <5> DEFINE s == Append(Append(queue, x), y)
        <5>1. s \in Seq(Events) /\ q3 = Append(<<e>> \o s, z) BY <4>4, <2>6
        <5> HIDE DEF s, q3
        <5>2. q3 = <<e>> \o Append(s, z) BY <5>1, <4>1, <2>4, AheadBehind
        <5> QED BY <5>2 DEF s
      <4> QED BY <4>2, <4>5, <2>5
    <3>2. CASE pc["td"].at \notin {"chat", "positions"}
      <4>1. q = queue /\ Pending' = queue' BY <3>2 DEF Pending
      <4> QED BY <4>1, <2>5
    <3> QED BY <3>1, <3>2
  <2>10. TdlibTyped' BY <2>1, <2>6, <1>1, <1>2, <1>3, <1>8 DEF ListTypes, TdlibTyped
  <2>11. k \in SUBSET List!Chats /\ b \in BOOLEAN BY <2>1, <1>2
  <2> HIDE DEF q, b, p
  <2>12. /\ AnnouncedIn(known, DOMAIN p, q) => AnnouncedIn(k, DOMAIN p, q1)
         /\ OnceIn(known, p, q, b) => OnceIn(k, p, q1, b)
    <3>1. known \in SUBSET List!Chats /\ c \in List!Chats /\ c \notin known BY <2>1, <1>2
    <3>2. x \in NewEvents /\ x[2] = c BY <2>2
    <3> QED BY <3>1, <3>2, <2>7, <2>11, OneMoreNew
  <2> HIDE DEF q1, k
  <2>13. /\ AnnouncedIn(k, DOMAIN p, q1) => AnnouncedIn(k, DOMAIN p, q2)
         /\ OnceIn(k, p, q1, b) => OnceIn(k, p, q2, b)
    <3>1. y[1] # "newChat" /\ \A d \in List!Chats : Speaks(y, d) => d \in k BY <2>3 DEF Speaks, k
    <3> QED BY <3>1, <2>3, <2>8, <2>11, OneMore
  <2> HIDE DEF q2
  <2>14. /\ AnnouncedIn(k, DOMAIN p, q2) => AnnouncedIn(k, DOMAIN p, q3)
         /\ OnceIn(k, p, q2, b) => OnceIn(k, p, q3, b)
    <3>1. z[1] # "newChat" /\ \A d \in List!Chats : Speaks(z, d) => d \in k BY <2>4 DEF Speaks
    <3> QED BY <3>1, <2>4, <2>8, <2>11, OneMore
  <2>15. Announced'
    <3>1. AnnouncedIn(known, DOMAIN p, q) BY DEF ListInv, Announced, p, q
    <3>2. AnnouncedIn(k, DOMAIN p, q3) BY <3>1, <2>12, <2>13, <2>14
    <3> QED BY <3>2, <2>9, <1>8 DEF Announced, p, k
  <2>16. ASSUME List!FirstLogin' PROVE AnnouncedOnce' /\ LastCounts' /\ Matches'
    <3>1. AnnouncedOnce /\ LastCounts /\ Matches BY <2>16, <1>5 DEF ListInv
    <3>2. AnnouncedOnce'
      <4>1. OnceIn(known, p, q, b) BY <3>1 DEF AnnouncedOnce, p, q, b
      <4>2. OnceIn(k, p, q3, b) BY <4>1, <2>12, <2>13, <2>14
      <4> QED BY <4>2, <2>9, <1>8 DEF AnnouncedOnce, p, k, b
    <3>3. ASSUME NEW d \in k PROVE LastOf(d, order[d], p, q3)
      <4> DEFINE m == order[d]
      <4>1. ~ Orders(z, d) BY <2>4 DEF Orders, Speaks
      <4>2. LastOf(d, m, p, q2)
        <5>1. CASE d = c
          <6>1. Orders(y, d) BY <5>1, <2>3 DEF Orders, Speaks
          <6>2. Carries(y, m) BY <5>1, <2>3 DEF Carries, o
          <6> HIDE DEF m
          <6> QED BY <6>1, <6>2, <2>3, <2>8, OneMoreLast DEF q2
        <5>2. CASE d # c
          <6>1. ~ Orders(x, d) /\ ~ Orders(y, d) BY <5>2, <2>2, <2>3 DEF Orders, Speaks
          <6>2. LastOf(d, m, p, q) BY <5>2, <3>1 DEF LastCounts, p, q, k
          <6> HIDE DEF m
          <6>3. LastOf(d, m, p, q1) BY <6>1, <6>2, <2>2, <2>7, OneMoreLast DEF q1
          <6> QED BY <6>1, <6>3, <2>3, <2>8, OneMoreLast DEF q2
        <5> QED BY <5>1, <5>2
      <4> HIDE DEF m
      <4>3. LastOf(d, m, p, q3) BY <4>1, <4>2, <2>4, <2>8, OneMoreLast
      <4> QED BY <4>3 DEF m
    <3>4. LastCounts' BY <3>3, <2>9, <1>1, <1>8 DEF LastCounts, p, k
    <3>5. Matches' BY <3>1 DEF Matches
    <3> QED BY <3>2, <3>4, <3>5
  <2> QED BY <2>10, <2>15, <2>16, <1>6 DEF ListTypes, ListInv
<1> QED BY <1>7, <1>8 DEF List!Load

\* The user logs in again.
LEMMA ReloginStep ==
  ASSUME ListTypes, ListInv, List!Relogin,
         UNCHANGED <<positions, mainChatList, haveFull, pc, listLock, chatLock, changed, model, failed>>
  PROVE  ListTypes' /\ ListInv'
<1>1. user = "relogin" /\ List!Spend("uses") /\ known' = {} /\ UNCHANGED <<order, requests, queue, user>>
  BY DEF List!Relogin
<1>2. left \in [updates : Nat, uses : 0 .. Uses] BY DEF ListTypes, TdlibTyped
<1>3. left' \in [updates : Nat, uses : 0 .. Uses] /\ left'.uses = left.uses - 1
  BY <1>1, Spends DEF ListTypes
<1>4. ~ List!FirstLogin'
  <2>1. left.uses \in 0 .. Uses BY <1>2
  <2>2. left'.uses # Uses BY <2>1, <1>3, SizesOK
  <2> QED BY <2>2, <1>1 DEF List!FirstLogin
<1>5. Pending' = Pending BY <1>1 DEF Pending
<1>6. Announced' BY <1>1, <1>5 DEF ListInv, Announced, AnnouncedIn
<1>7. PointsTyped' /\ StoreTyped' /\ LocksTyped' /\ FlagsTyped' BY ApplicationRests
<1>8. TdlibTyped' BY <1>1, <1>3 DEF ListTypes, TdlibTyped
<1> QED BY <1>4, <1>6, <1>7, <1>8 DEF ListTypes, ListInv

-----------------------------------------------------------------------------
\* The invariant holds at the beginning.
LEMMA ListStarts ==
  ASSUME List!Init
  PROVE  ListTypes /\ ListInv
<1>1. List!Idle \in Points /\ List!Idle.at = "idle" BY AtPoint DEF Ats
<1>2. "td" \in List!Threads BY DEF List!Threads
<1>3. pc \in [List!Threads -> Points] /\ \A t \in List!Threads : pc[t] = List!Idle
  BY <1>1 DEF List!Init
<1>4. PointsTyped BY <1>1, <1>3 DEF PointsTyped, PointTyped
<1>5. DOMAIN positions = {} BY DEF List!Init
<1>6. TdlibTyped BY SizesOK DEF List!Init, TdlibTyped
<1>7. StoreTyped /\ FlagsTyped BY <1>5 DEF List!Init, StoreTyped, FlagsTyped
<1>8. LocksTyped BY <1>1, <1>2, <1>3 DEF List!Init, LocksTyped
<1>9. Pending = << >> BY <1>1, <1>2, <1>3 DEF List!Init, Pending
<1>10. Announced BY <1>9 DEF List!Init, Announced, AnnouncedIn
<1>11. AnnouncedOnce BY <1>5, <1>9 DEF AnnouncedOnce, OnceIn
<1>12. LastCounts BY DEF List!Init, LastCounts
<1>13. Matches BY <1>5 DEF List!Init, Matches
<1> QED BY <1>4, <1>6, <1>7, <1>8, <1>10, <1>11, <1>12, <1>13 DEF ListTypes, ListInv

\* Every step keeps it.
LEMMA ListGoesOn ==
  ASSUME ListTypes, ListInv, [List!Next]_(List!vars)
  PROVE  ListTypes' /\ ListInv'
<1>1. CASE UNCHANGED List!vars
  <2>1. UNCHANGED <<known, order, requests, queue, left, user, positions, mainChatList, haveFull, pc, listLock, chatLock, changed, model, failed>>
    BY <1>1 DEF List!vars
  <2>2. PointsTyped' /\ StoreTyped' /\ LocksTyped' /\ FlagsTyped' BY <2>1, ApplicationRests
  <2>3. TdlibTyped' BY <2>1 DEF ListTypes, TdlibTyped
  <2>4. Pending' = Pending BY <2>1 DEF Pending
  <2>5. List!FirstLogin' => List!FirstLogin BY <2>1 DEF List!FirstLogin
  <2>6. ListInv' BY <2>1, <2>4, <2>5, ListInvStays
  <2> QED BY <2>2, <2>3, <2>6 DEF ListTypes
<1>2. CASE List!TdlibStep
  <2>1. UNCHANGED <<positions, mainChatList, haveFull, pc, listLock, chatLock, changed, model, failed>>
    BY <1>2 DEF List!TdlibStep
  <2> QED
    BY <1>2, <2>1, AnnounceStep, ChangeStep, NotifyStep, LoadStep, ReloginStep DEF List!TdlibStep
<1>3. CASE List!UpdateHandler
  BY <1>3, ReceiveStep, SetFullStep, LockChatStep, SetChatPositionsStep DEF List!UpdateHandler
<1>4. CASE \E limit \in Limits : List!AskGcs(limit) \/ List!AskRefresh(limit) BY <1>4, AskSteps
<1>5. CASE \E t \in List!Threads : List!GetChatList(t) BY <1>5, ReaderSteps
<1> QED BY <1>1, <1>2, <1>3, <1>4, <1>5 DEF List!Next

\* The invariant says what the list must be.
LEMMA ListHolds ==
  ASSUME ListTypes, ListInv
  PROVE  List!ListIsRight
<1>1. List!TypeOK
  <2>1. \A c \in DOMAIN positions : positions[c] \in Seq(List!Position)
    BY DEF ListTypes, StoreTyped, Placed
  <2>2. \A t \in List!Threads : pc[t].at \in Ats /\ pc[t].limit \in {0} \cup Limits
    BY DEF ListTypes, PointsTyped, Points
  <2> QED
    BY <2>1, <2>2 DEF List!TypeOK, ListTypes, TdlibTyped, StoreTyped, LocksTyped, FlagsTyped,
       Entries, Ats
<1>2. List!ListMatchesChats BY DEF ListInv, Matches, List!ListMatchesChats
<1>3. List!AgreesWhenQuiet
  <2> SUFFICES ASSUME List!FirstLogin, queue = << >>, pc["td"] = List!Idle
               PROVE  mainChatList = {<<order[c], c>> : c \in {d \in known : order[d] # 0}}
    BY DEF List!AgreesWhenQuiet
  <2>1. List!Idle.at = "idle" BY AtPoint DEF Ats
  <2>2. Pending = << >> BY <2>1 DEF Pending
  <2>3. AnnouncedOnce /\ LastCounts /\ Matches BY DEF ListInv
  <2>4. \A c \in known : c \in DOMAIN positions /\ List!InMain(c, positions[c]) = Single(c, order[c])
    BY <2>2, <2>3 DEF LastCounts, LastOf
  <2>5. DOMAIN positions \subseteq known
    BY <2>3 DEF AnnouncedOnce, OnceIn, ListTypes, StoreTyped
  <2>6. DOMAIN positions = known BY <2>4, <2>5
  <2>7. mainChatList = UNION {List!InMain(c, positions[c]) : c \in DOMAIN positions}
    BY <2>3 DEF Matches
  <2>8. \A e : e \in mainChatList <=> \E c \in known : e \in Single(c, order[c]) BY <2>4, <2>6, <2>7
  <2>9. \A e : e \in mainChatList <=> \E c \in known : order[c] # 0 /\ e = <<order[c], c>>
    BY <2>8 DEF Single
  <2>10. \A e : e \in {<<order[c], c>> : c \in {d \in known : order[d] # 0}}
                <=> \E c \in known : order[c] # 0 /\ e = <<order[c], c>>
    OBVIOUS
  <2> QED BY <2>9, <2>10
<1> QED BY <1>1, <1>2, <1>3 DEF List!ListIsRight

-----------------------------------------------------------------------------
(* The threads together *)

\* A part moves only by its own steps: the others leave its variables alone.
LEMMA PartsMoveAlone ==
  ASSUME [ThreadsNext]_threadVars
  PROVE  /\ part' = part
         /\ [Login!Next]_(Login!vars) /\ [Filter!Next]_(Filter!vars)
         /\ [List!Next]_(List!vars)
<1>1. UNCHANGED loginVars => UNCHANGED Login!vars BY DEF loginVars, Login!vars
<1>2. UNCHANGED listVars => UNCHANGED List!vars BY DEF listVars, List!vars
<1>3. UNCHANGED filterVars => UNCHANGED Filter!vars BY DEF filterVars, Filter!vars
<1>4. CASE OnlyLogin /\ Login!Next BY <1>2, <1>3, <1>4 DEF OnlyLogin
<1>5. CASE OnlyList /\ List!Next BY <1>1, <1>3, <1>5 DEF OnlyList
<1>6. CASE OnlyFilter /\ Filter!Next BY <1>1, <1>2, <1>6 DEF OnlyFilter
<1>7. CASE UNCHANGED threadVars BY <1>1, <1>2, <1>3, <1>7 DEF threadVars
<1> QED BY <1>4, <1>5, <1>6, <1>7 DEF ThreadsNext

\* Every part starts in a state of its own specification.
LEMMA PartsStart ==
  ASSUME ThreadsInit
  PROVE  Login!Init /\ List!Init /\ Filter!Init
BY DEF ThreadsInit, LoginRests, ListRests, FilterRests

\* The merged flags are what the retrievers of the message found, all of it and
\* nothing else, for every message and however the threads of the pool are mixed
\* on the shared EnumSet: an update of it may be lost, but only one that writes
\* the flag which the other writer writes too.
THEOREM FindingsAreMerged == ThreadsSpec => []AllFindingsMerged
<1>1. ThreadsInit => IInv BY PartsStart, FilterStarts
<1>2. IInv /\ [ThreadsNext]_threadVars => IInv' BY PartsMoveAlone, FilterGoesOn
<1>3. IInv => AllFindingsMerged
  BY DEF IInv, MergedOK, AllFindingsMerged, Filter!AllFindingsMerged
<1> QED BY <1>1, <1>2, <1>3, PTL DEF ThreadsSpec

\* Unless another device logs the user out, a client is made only when the one
\* before has given up the database, and main returns only when all have; main
\* sleeps with haveAuthorization set only while the signal is still to come: for any
\* number of clients made after a logout, of wrong answers to a prompt, and of
\* commands.
THEOREM Authorized == ThreadsSpec => []ClientsInTurn
<1>1. ThreadsInit => AuthTypes /\ InTurn BY PartsStart, AuthTypesInit, InTurnInit
<1>2. AuthTypes /\ InTurn /\ [ThreadsNext]_threadVars => AuthTypes' /\ InTurn'
  BY PartsMoveAlone, AuthTypesStep, InTurnStep
<1>3. AuthTypes /\ InTurn => ClientsInTurn BY InTurnHolds DEF ClientsInTurn
<1> QED BY <1>1, <1>2, <1>3, PTL DEF ThreadsSpec

\* mainChatList holds the main positions of the chats at every moment, and those of
\* TDLib when all its updates are handled, as long as the user is logged in for the
\* first time: for any chats, orders, updates and threads that read the list.
THEOREM ListStaysRight == ThreadsSpec => []ListIsRight
<1>1. ThreadsInit => ListTypes /\ ListInv BY PartsStart, ListStarts
<1>2. ListTypes /\ ListInv /\ [ThreadsNext]_threadVars => ListTypes' /\ ListInv'
  BY PartsMoveAlone, ListGoesOn
<1>3. ListTypes /\ ListInv => ListIsRight BY ListHolds DEF ListIsRight
<1> QED BY <1>1, <1>2, <1>3, PTL DEF ThreadsSpec
=============================================================================
