----------------------------- MODULE PtsUpdates -----------------------------
(***************************************************************************)
(* The order of the updates with pts (td/telegram/UpdatesManager.cpp).     *)
(* The server numbers the events of an account; an update says which       *)
(* number it leads to (pts) and how many events it stands for (pts_count). *)
(* Updates are lost and come in any order.  UpdatesManager applies them    *)
(* when they are due, keeps the ones that leave a gap (pending_pts_updates *)
(* and, while it runs getDifference, postponed_pts_updates), and asks for  *)
(* the difference when a gap stays.                                        *)
(*                                                                         *)
(* m is the state of UpdatesManager, as a record; the handlers are         *)
(* operators from a state to a state.                                      *)
(***************************************************************************)
EXTENDS Integers, Sequences, SequencesExt, FiniteSets

CONSTANTS
  Counts,    \* the pts_count of the updates the server will send, in its order
  Failures   \* bound: getDifference requests that fail

ASSUME PtsAssumption == Counts \in Seq(Nat) /\ Failures \in Nat

InitialPts == 1
PtsAt[k \in 0 .. Len(Counts)] == IF k = 0 THEN InitialPts ELSE PtsAt[k - 1] + Counts[k]
Update(k) == [pts |-> PtsAt[k], pts_count |-> Counts[k]]

VARIABLES
  m,         \* UpdatesManager
  issued,    \* updates the server has sent
  net,       \* the ones under way
  diff,      \* the getDifference request under way
  failed     \* requests that failed

vars == <<m, issued, net, diff, failed>>

NoDiff == [stage |-> "none", kind |-> "none", from |-> 0, pts |-> 0]
Asked(pts) == [stage |-> "asked", kind |-> "none", from |-> pts, pts |-> pts]

Init ==
  /\ m = [pts |-> InitialPts, pending |-> << >>, postponed |-> << >>, accumulated_pts |-> -1,
          accumulated_pts_count |-> 0, gap_timeout |-> FALSE, retry_timeout |-> FALSE,
          running |-> FALSE, min_postponed |-> 0, ask |-> FALSE,
          applied |-> InitialPts, skipped |-> FALSE, bad |-> FALSE]
  /\ issued = 0 /\ net = {} /\ diff = NoDiff /\ failed = 0

-----------------------------------------------------------------------------
\* Mutation: updates are kept in the order in which they came.
Emplace_Last(s, u) == Append(s, u)

\* multimap::emplace: behind the elements with the same key
Emplace(s, u) ==
  LET Before == SelectSeq(s, LAMBDA v : v.pts <= u.pts)
      After == SelectSeq(s, LAMBDA v : v.pts > u.pts)
  IN Before \o <<u>> \o After

\* MessagesManager::process_pts_update, which is told nothing by an update without events
Apply(s, u) ==
  IF u.pts_count = 0 THEN s
  ELSE [s EXCEPT !.applied = u.pts, !.skipped = @ \/ s.applied # u.pts - u.pts_count]

SetPts(s, pts) == IF pts > s.pts THEN [s EXCEPT !.pts = pts] ELSE s

Check(s, condition) == [s EXCEPT !.bad = @ \/ ~condition]

DropAllPending(s) ==
  [s EXCEPT !.accumulated_pts_count = 0, !.accumulated_pts = -1, !.gap_timeout = FALSE,
            !.pending = << >>]

BeforeGetDifference(s) ==
  DropAllPending([s EXCEPT !.postponed = FoldLeft(Emplace, s.postponed, s.pending)])

\* run_get_difference; ask tells that the request is sent
RunGetDifference(s, recursive) ==
  [BeforeGetDifference([Check(s, ~s.running) EXCEPT !.running = TRUE]) EXCEPT
     !.ask = TRUE, !.min_postponed = IF recursive THEN @ ELSE 0]

GetDifference(s) == IF s.running THEN s ELSE RunGetDifference(s, FALSE)

-----------------------------------------------------------------------------
\* add_pending_pts_update

ProcessAllPending(s) ==
  DropAllPending(SetPts(FoldLeft(Apply, s, s.pending), s.accumulated_pts))

\* the pending updates that follow one another from the current pts on
Due(s) ==
  CHOOSE k \in 0 .. Len(s.pending) :
    /\ \A j \in 1 .. k : s.pending[j].pts - s.pending[j].pts_count
                           = IF j = 1 THEN s.pts ELSE s.pending[j - 1].pts
    /\ k < Len(s.pending) => s.pending[k + 1].pts - s.pending[k + 1].pts_count
                               # IF k = 0 THEN s.pts ELSE s.pending[k].pts

ProcessOne(s, u) ==
  LET t == Check(SetPts(Apply(s, u), u.pts),
                 u.pts_count > 0 => u.pts <= s.accumulated_pts
                                      /\ s.accumulated_pts_count >= u.pts_count)
  IN [t EXCEPT !.accumulated_pts_count = @ - u.pts_count]

\* process_pending_pts_updates: the timeout is set again when a gap is left
ProcessPending(s) ==
  LET k == Due(s)
      rest == SubSeq(s.pending, k + 1, Len(s.pending))
  IN [FoldLeft(ProcessOne, s, SubSeq(s.pending, 1, k)) EXCEPT
        !.pending = rest,
        !.gap_timeout = (@ /\ k = 0) \/ rest # << >>]

Postpone(s, u) == [s EXCEPT !.postponed = Emplace(@, u)]

\* an update that overlaps with what is known: soon getDifference will tell
PostponeOverlap(s, u) == [Postpone(s, u) EXCEPT !.gap_timeout = TRUE]

\* The update is counted in.
Accumulate(s, u) ==
  [s EXCEPT !.accumulated_pts_count = @ + u.pts_count,
            !.accumulated_pts = IF u.pts > @ THEN u.pts ELSE @]

Old(s, u) == u.pts <= s.pts

\* Mutation: updates that come while getDifference runs are treated as any other.
MustPostpone_IfOthers(s) == s.postponed # << >>

\* While getDifference runs, and as long as earlier ones wait, updates are put aside.
MustPostpone(s) == s.running \/ s.postponed # << >>

AddPending(s, u) ==
  LET t == Accumulate(s, u)
      start == t.accumulated_pts - t.accumulated_pts_count
      kept == [t EXCEPT !.pending = Emplace(@, u)]
  IN CASE Old(s, u) -> s
       [] ~Old(s, u) /\ MustPostpone(s) -> Postpone(s, u)
       [] OTHER ->
            IF s.pts > u.pts - u.pts_count THEN PostponeOverlap(s, u)
            ELSE IF s.pts > start THEN PostponeOverlap(t, u)
            ELSE IF s.pending = << >> /\ s.pts = start /\ ~s.gap_timeout
            THEN IF u.pts_count = 0 THEN t
                 ELSE [SetPts(Apply(t, u), t.accumulated_pts) EXCEPT
                         !.accumulated_pts_count = 0, !.accumulated_pts = -1]
            ELSE IF s.pts = start THEN ProcessAllPending(kept)
            ELSE IF s.pts = u.pts - u.pts_count THEN ProcessPending(kept)
            ELSE [kept EXCEPT !.gap_timeout = TRUE]

\* on_pending_updates, for one update with pts
OnUpdate(s, u) ==
  AddPending([s EXCEPT !.min_postponed =
                IF s.running /\ (@ = 0 \/ u.pts < @) THEN u.pts ELSE @], u)

-----------------------------------------------------------------------------
\* on_get_difference

\* One postponed update: outdated, or one more of the group that may be due.
PostponedOne(f, u) ==
  LET count == f.count + u.pts_count
      group == Append(f.group, u)
  IN CASE f.stop -> [f EXCEPT !.group = group]
       [] ~f.stop /\ f.group = << >> /\ Old(f.s, u) -> f
       [] OTHER ->
            IF f.s.pts = u.pts - count
            THEN [f EXCEPT !.s = SetPts(FoldLeft(Apply, f.s, group), u.pts),
                           !.group = << >>, !.count = 0]
            ELSE [f EXCEPT !.group = group, !.count = count, !.stop = f.s.pts > u.pts - count]

\* process_postponed_pts_updates
ProcessPostponed(s) ==
  LET f == FoldLeft(PostponedOne, [s |-> s, group |-> << >>, count |-> 0, stop |-> FALSE],
                    s.postponed)
  IN [f.s EXCEPT !.postponed = f.group]

\* after_get_difference: refused are the updates that is_acceptable_update refuses,
\* which a client that still does not know their chats puts aside once more
AfterGetDifference(s, refused) ==
  LET Again(t, u) == IF u \in refused /\ ~Old(t, u) /\ ~MustPostpone(t)
                     THEN PostponeOverlap(t, u) ELSE AddPending(t, u)
  IN FoldLeft(Again, [s EXCEPT !.retry_timeout = FALSE, !.postponed = << >>], s.postponed)

\* the events of the difference, which begin behind the pts the request named
ApplyDifference(s, d) ==
  Check(SetPts(Apply(s, [pts |-> d.pts, pts_count |-> d.pts - d.from]), d.pts),
        s.pending = << >> /\ s.accumulated_pts = -1)

\* A slice.  quiet: neither the date nor qts asks for more.
OnSlice(s, d, quiet, refused) ==
  LET t == ProcessPostponed(ApplyDifference(s, d)) IN
  IF quiet /\ (t.pts = s.pts \/ (t.min_postponed # 0 /\ t.pts >= t.min_postponed))
  THEN AfterGetDifference(t, refused)
  ELSE RunGetDifference(t, TRUE)

OnGetDifference(s, d, quiet, refused) ==
  LET t == [s EXCEPT !.running = FALSE] IN
  CASE d.kind = "empty" -> AfterGetDifference(t, refused)
    [] d.kind = "difference" -> AfterGetDifference(ApplyDifference(t, d), refused)
    [] d.kind = "slice" -> OnSlice(t, d, quiet, refused)

\* Mutation: a failed request is not repeated.
OnFailedGetDifference_Forgets(s) == [s EXCEPT !.running = FALSE]

OnFailedGetDifference(s) == [s EXCEPT !.running = FALSE, !.retry_timeout = TRUE]

-----------------------------------------------------------------------------
\* The state after a handler; a request that it sent is under way.
Becomes(s) ==
  /\ m' = [s EXCEPT !.ask = FALSE]
  /\ diff' = IF s.ask THEN Asked(s.pts) ELSE diff

Deliver(k) ==
  /\ k \in net
  /\ net' = net \ {k}
  /\ Becomes(OnUpdate(m, Update(k)))
  /\ UNCHANGED <<issued, failed>>

\* An update about a chat that is not known is dropped for getDifference; while that
\* runs nothing is refused.
Refuse(k) ==
  /\ k \in net /\ ~m.running
  /\ net' = net \ {k}
  /\ Becomes(GetDifference(m))
  /\ UNCHANGED <<issued, failed>>

\* fill_pts_gap
GapTimeout ==
  /\ m.gap_timeout
  /\ Becomes(GetDifference([m EXCEPT !.gap_timeout = FALSE]))
  /\ UNCHANGED <<issued, net, failed>>

\* fill_get_difference_gap
RetryTimeout ==
  /\ m.retry_timeout
  /\ Becomes(GetDifference([m EXCEPT !.retry_timeout = FALSE]))
  /\ UNCHANGED <<issued, net, failed>>

\* on_server_pong
ServerPong ==
  /\ PtsAt[issued] > m.pts /\ ~m.running
  /\ Becomes(GetDifference(m))
  /\ UNCHANGED <<issued, net, failed>>

DifferenceReceived ==
  /\ diff.stage = "answered"
  /\ \E quiet \in BOOLEAN, refused \in SUBSET ToSet(m.postponed) :
       LET s == OnGetDifference(m, diff, quiet, refused) IN
       /\ m' = [s EXCEPT !.ask = FALSE]
       /\ diff' = IF s.ask THEN Asked(s.pts) ELSE NoDiff
  /\ UNCHANGED <<issued, net, failed>>

DifferenceFails ==
  /\ diff.stage # "none" /\ failed < Failures
  /\ failed' = failed + 1
  /\ m' = OnFailedGetDifference(m) /\ diff' = NoDiff
  /\ UNCHANGED <<issued, net>>

-----------------------------------------------------------------------------
\* The server and the network.

ServerSends ==
  /\ issued < Len(Counts)
  /\ issued' = issued + 1 /\ net' = net \cup {issued + 1}
  /\ UNCHANGED <<m, diff, failed>>

Lose(k) ==
  /\ k \in net /\ net' = net \ {k}
  /\ UNCHANGED <<m, issued, diff, failed>>

ServerAnswers ==
  /\ diff.stage = "asked"
  /\ \E kind \in {"empty", "difference", "slice"}, pts \in diff.pts .. PtsAt[issued] :
       /\ kind = "empty" => pts = diff.pts /\ pts = PtsAt[issued]
       /\ kind = "difference" => pts > diff.pts /\ pts = PtsAt[issued]
       /\ kind = "slice" => pts > diff.pts /\ pts < PtsAt[issued]
       /\ diff' = [diff EXCEPT !.stage = "answered", !.kind = kind, !.pts = pts]
  /\ UNCHANGED <<m, issued, net, failed>>

Next ==
  \/ \E k \in net : Deliver(k) \/ Refuse(k) \/ Lose(k)
  \/ GapTimeout \/ RetryTimeout \/ ServerPong
  \/ DifferenceReceived \/ DifferenceFails
  \/ ServerSends \/ ServerAnswers

\* Timeouts expire, and the server answers: weak fairness of four actions, with the
\* condition that enables each of them written out.
Fairness ==
  /\ []<>~m.gap_timeout \/ []<><<GapTimeout>>_vars
  /\ []<>~m.retry_timeout \/ []<><<RetryTimeout>>_vars
  /\ []<>(diff.stage # "asked") \/ []<><<ServerAnswers>>_vars
  /\ []<>(diff.stage # "answered") \/ []<><<DifferenceReceived>>_vars

Spec == Init /\ [][Next]_vars /\ Fairness

-----------------------------------------------------------------------------
Updates == {Update(k) : k \in 1 .. Len(Counts)}

TypeOK ==
  /\ m.pts \in InitialPts .. PtsAt[issued] /\ m.applied \in Nat
  /\ ToSet(m.pending) \cup ToSet(m.postponed) \subseteq Updates
  /\ m.accumulated_pts \in {-1} \cup {u.pts : u \in Updates} /\ m.accumulated_pts_count \in Nat
  /\ {m.gap_timeout, m.retry_timeout, m.running, m.skipped, m.bad} \subseteq BOOLEAN /\ ~m.ask
  /\ diff.stage \in {"none", "asked", "answered"} /\ failed \in 0 .. Failures

\* Every event is applied once and in the order of the server, whatever the network
\* loses or reorders and whenever getDifference runs, fails or comes in slices; and
\* pts is the number of the last event applied.
AppliedInOrder == ~m.skipped /\ m.applied = m.pts

\* None of the CHECKs about the accumulated counters, the pending updates and a
\* second getDifference fails.
ChecksHold == ~m.bad

\* An update that was put aside is not forgotten: a timeout is set, or getDifference
\* is under way.
GapIsWatched ==
  m.pending # << >> \/ m.postponed # << >>
    => m.gap_timeout \/ m.retry_timeout \/ diff.stage # "none"

\* The request UpdatesManager believes to be running is under way, and nothing changes
\* pts before its answer is handled: the events of the answer begin behind pts.
OneDifference ==
  /\ m.running = (diff.stage # "none")
  /\ m.running => diff.from = m.pts

\* While events are missing there is one request or a timeout for them, and what is
\* put aside meanwhile upsets neither pts nor the counters.
GapIsHandled == TypeOK /\ ChecksHold /\ GapIsWatched /\ OneDifference

\* What was put aside is applied or recognized as old in the end.
GapCloses ==
  (m.pending # << >> \/ m.postponed # << >>) ~> (m.pending = << >> /\ m.postponed = << >>)
=============================================================================
