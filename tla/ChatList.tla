------------------------------ MODULE ChatList ------------------------------
(***************************************************************************)
(* The list of chats of the Java application (example/Application.java):   *)
(* the chats and their positions are kept by UpdateHandler in the thread   *)
(* of TDLib, read by getMainChatList (the command gcs, in the main thread) *)
(* and by getSwingChatList (a button, in the thread of the user            *)
(* interface); both run in the thread of TDLib too, when LoadChats is      *)
(* answered.                                                               *)
(*                                                                         *)
(* mainChatList and every chat are monitors.  A synchronized block in      *)
(* which the thread waits for no other monitor is one step; a block in     *)
(* which it does is a step that takes the monitor and a step that ends the *)
(* block.  The thread of TDLib is the only one that waits with the monitor *)
(* of a chat held.                                                         *)
(*                                                                         *)
(* TDLib itself is external: it announces a chat before it speaks of it,   *)
(* and sends updates and answers in one queue.                             *)
(***************************************************************************)
EXTENDS Integers, Sequences, FiniteSets

CONSTANTS
  MaxChat,     \* the chats are 1 .. MaxChat
  Groups,      \* the chats whose identifier is negative
  MaxOrder,    \* bound: positions in a list
  MaxUpdates,  \* bound: updates TDLib sends of its own accord
  Limits,      \* limits asked for
  Uses         \* bound: what the user does

Chats == 1 .. MaxChat
Threads == {"main", "td", "edt"}
Nobody == "nobody"
Lists == {"main", "folder"}
Position == Lists \X (1 .. MaxOrder)

VARIABLES
  \* TDLib
  known,     \* chats that were announced
  order,     \* the order of every chat in the main list, 0 when not in it
  requests,  \* LoadChats on its way
  queue,     \* updates and answers for the application
  left,      \* what TDLib and the user may still do
  user,      \* what the user does in this behaviour: type gcs, press the
             \* refresh button, or log out and in again
  \* the application
  positions,     \* chats: the positions of the chats it has
  mainChatList,  \* a set of <<order, chat>>
  haveFull,      \* haveFullMainChatList
  pc,            \* where every thread is
  listLock,      \* who has the monitor of mainChatList
  chatLock,      \* the chat whose monitor the thread of TDLib has, or 0
  changed,       \* the threads under whose stream() mainChatList was changed
  model,         \* the chats on the screen
  failed         \* did an assertion fail?

tdlib == <<known, order, requests, left, user>>
vars == <<known, order, requests, queue, left, user, positions, mainChatList, haveFull, pc,
          listLock, chatLock, changed, model, failed>>

At(where) == [at |-> where, limit |-> 0, todo |-> {}, ev |-> << >>]
Idle == At("idle")
Goto(t, p) == pc' = [pc EXCEPT ![t] = p]
Asking(where, limit) == [At(where) EXCEPT !.limit = limit]

Init ==
  /\ known = {} /\ order \in [Chats -> 0 .. MaxOrder]
  /\ requests = << >> /\ queue = << >>
  /\ left = [updates |-> MaxUpdates, uses |-> Uses]
  /\ user \in {"gcs", "refresh", "relogin"}
  /\ positions = [c \in {} |-> << >>] /\ mainChatList = {} /\ haveFull = FALSE
  /\ pc = [t \in Threads |-> Idle]
  /\ listLock = Nobody /\ chatLock = 0 /\ changed = {}
  /\ model = {} /\ failed = FALSE

-----------------------------------------------------------------------------
\* TDLib (external).

MainPositions(o) == IF o = 0 THEN << >> ELSE <<<<"main", o>>>>

NewChat(c, ps) == <<"newChat", c, ps>>
ChatPosition(c, o) == <<"chatPosition", c, <<<<"main", o>>>>>>
OtherPosition(c) == <<"chatPosition", c, <<<<"folder", 1>>>>>>
\* UpdateChatLastMessage and UpdateChatDraftMessage
LastMessage(c, ps) == <<"lastMessage", c, ps>>
\* UpdateChatTitle and the others that set a field of the chat
Field(c) == <<"field", c, << >>>>
Answer(where, limit, ok) == <<IF ok THEN "ok" ELSE "notFound", where, limit>>

Spend(what) ==
  /\ left[what] > 0
  /\ left' = [left EXCEPT ![what] = @ - 1]

\* A chat becomes known, or what is known of it changes.
Announce(c) ==
  /\ c \notin known /\ Spend("updates")
  /\ known' = known \cup {c}
  /\ queue' = Append(queue, NewChat(c, MainPositions(order[c])))
  /\ UNCHANGED <<order, requests, user>>

Change(c, o) ==
  /\ c \in known /\ Spend("updates")
  /\ order' = [order EXCEPT ![c] = o]
  /\ \/ queue' = Append(queue, ChatPosition(c, o))
     \/ queue' = Append(queue, LastMessage(c, MainPositions(o)))
     \/ queue' = Append(queue, LastMessage(c, MainPositions(o) \o <<<<"folder", 1>>>>))
  /\ UNCHANGED <<known, requests, user>>

Notify(c) ==
  /\ c \in known /\ Spend("updates")
  /\ \/ queue' = Append(queue, Field(c))
     \/ queue' = Append(queue, OtherPosition(c))
  /\ UNCHANGED <<known, order, requests, user>>

\* LoadChats: one more chat of the list, or 404 when all are known.
Load ==
  /\ requests # << >>
  /\ requests' = Tail(requests)
  /\ LET r == Head(requests)
         unknown == {c \in Chats \ known : order[c] # 0}
     IN \/ /\ unknown = {}
           /\ queue' = Append(queue, Answer(r.at, r.limit, FALSE))
           /\ UNCHANGED known
        \/ \E c \in unknown :
             /\ known' = known \cup {c}
             /\ queue' = queue \o <<NewChat(c, << >>), ChatPosition(c, order[c]),
                                    Answer(r.at, r.limit, TRUE)>>
  /\ UNCHANGED <<order, left, user>>

\* The user logs out and in again: a new client, which knows no chat yet.
Relogin ==
  /\ queue = << >> /\ requests = << >> /\ pc["td"] = Idle
  /\ user = "relogin" /\ Spend("uses")
  /\ known' = {}
  /\ UNCHANGED <<order, requests, queue, user>>

TdlibStep ==
  /\ \/ \E c \in Chats : Announce(c) \/ Notify(c) \/ \E o \in 0 .. MaxOrder : Change(c, o)
     \/ Load
     \/ Relogin
  /\ UNCHANGED <<positions, mainChatList, haveFull, pc, listLock, chatLock, changed,
                 model, failed>>

-----------------------------------------------------------------------------
\* UpdateHandler, in the thread of TDLib.

\* Client.ResponseReceiver takes the next object.
Receive ==
  /\ pc["td"] = Idle /\ queue # << >>
  /\ queue' = Tail(queue)
  /\ LET ev == Head(queue) IN
     Goto("td", CASE ev[1] = "ok" -> Asking(ev[2], ev[3])
                  [] ev[1] = "notFound" -> At("full")
                  [] ev[1] = "chatPosition" /\ ev[3][1][1] # "main" -> Idle
                  [] OTHER -> [At("chat") EXCEPT !.ev = ev])
  /\ UNCHANGED <<tdlib, positions, mainChatList, haveFull, listLock, chatLock, changed,
                 model, failed>>

\* LoadChats was answered with 404.
SetFull ==
  /\ pc["td"].at = "full" /\ listLock = Nobody
  /\ haveFull' = TRUE /\ Goto("td", Idle)
  /\ UNCHANGED <<tdlib, queue, positions, mainChatList, listLock, chatLock, changed,
                 model, failed>>

\* Mutation: an order of 0 is put into the list like any other.
NewPositions_KeepsZero(ev, old) ==
  IF ev[1] = "chatPosition"
  THEN LET IsMain(i) == old[i][1] = "main"
           first == CHOOSE i \in 1 .. Len(old) + 1 :
                      /\ i = Len(old) + 1 \/ IsMain(i)
                      /\ \A j \in 1 .. i - 1 : ~IsMain(j)
       IN ev[3] \o SubSeq(old, 1, first - 1) \o SubSeq(old, first + 1, Len(old))
  ELSE ev[3]

\* UpdateChatPosition: the new position, unless its order is 0, and the old
\* ones but the first of the main list.  The other updates bring them all.
NewPositions(ev, old) ==
  IF ev[1] = "chatPosition"
  THEN LET IsMain(i) == old[i][1] = "main"
           first == CHOOSE i \in 1 .. Len(old) + 1 :
                      /\ i = Len(old) + 1 \/ IsMain(i)
                      /\ \A j \in 1 .. i - 1 : ~IsMain(j)
       IN (IF ev[3][1][2] = 0 THEN << >> ELSE ev[3])
            \o SubSeq(old, 1, first - 1) \o SubSeq(old, first + 1, Len(old))
  ELSE ev[3]

With(c, ps) == [d \in DOMAIN positions \cup {c} |-> IF d = c THEN ps ELSE positions[d]]

\* synchronized (chat): a new chat has no positions before they are set.
LockChat ==
  /\ pc["td"].at = "chat" /\ chatLock = 0
  /\ LET ev == pc["td"].ev  c == ev[2] IN
     IF ev[1] = "field"
     THEN Goto("td", Idle) /\ UNCHANGED <<positions, chatLock>>
     ELSE /\ chatLock' = c
          /\ positions' = IF ev[1] = "newChat" THEN With(c, << >>) ELSE positions
          /\ Goto("td", [pc["td"] EXCEPT !.at = "positions"])
  /\ UNCHANGED <<tdlib, queue, mainChatList, haveFull, listLock, changed, model, failed>>

InMain(c, ps) == {<<ps[i][2], c>> : i \in {j \in DOMAIN ps : ps[j][1] = "main"}}

\* setChatPositions, with both monitors, and the end of the handler.
SetChatPositions ==
  /\ pc["td"].at = "positions" /\ listLock = Nobody
  /\ LET c == chatLock
         removed == InMain(c, positions[c])
         new == NewPositions(pc["td"].ev, positions[c])
         added == InMain(c, new)
         rest == mainChatList \ removed
     IN /\ mainChatList' = rest \cup added
        /\ failed' = (failed \/ ~(removed \subseteq mainChatList) \/ rest \cap added # {})
        /\ positions' = With(c, new)
        /\ changed' = IF removed \cup added = {} THEN changed
                      ELSE changed \cup {t \in Threads : pc[t].at = "fill"}
  /\ chatLock' = 0 /\ Goto("td", Idle)
  /\ UNCHANGED <<tdlib, queue, haveFull, listLock, model>>

-----------------------------------------------------------------------------
\* getMainChatList and getSwingChatList.

\* The user types gcs, or presses the button.
AskGcs(limit) ==
  /\ pc["main"] = Idle /\ user = "gcs" /\ Spend("uses")
  /\ Goto("main", Asking("gcs", limit))
  /\ UNCHANGED <<known, order, requests, user, queue, positions, mainChatList, haveFull,
                 listLock, chatLock, changed, model, failed>>

AskRefresh(limit) ==
  /\ pc["edt"] = Idle /\ user = "refresh" /\ Spend("uses")
  /\ Goto("edt", Asking("refresh", limit))
  /\ UNCHANGED <<known, order, requests, user, queue, positions, mainChatList, haveFull,
                 listLock, chatLock, changed, model, failed>>

MustLoad(limit) == ~haveFull /\ limit > Cardinality(mainChatList)

Before(e, f) == e[1] > f[1] \/ (e[1] = f[1] /\ e[2] > f[2])
First(n) == {e \in mainChatList : Cardinality({f \in mainChatList : Before(f, e)}) < n}

\* Both ask TDLib for more chats when there are too few.
SendLoad(t) ==
  /\ pc[t].at \in {"gcs", "refresh"} /\ listLock = Nobody /\ MustLoad(pc[t].limit)
  /\ requests' = Append(requests, pc[t])
  /\ Goto(t, Idle)
  /\ UNCHANGED <<known, order, left, user, queue, positions, mainChatList, haveFull,
                 listLock, chatLock, changed, model, failed>>

\* gcs keeps the monitor of the list and takes that of every chat in turn.
PrintBegin(t) ==
  /\ pc[t].at = "gcs" /\ listLock = Nobody /\ ~MustLoad(pc[t].limit)
  /\ listLock' = t
  /\ Goto(t, [At("print") EXCEPT !.todo = First(pc[t].limit)])
  /\ UNCHANGED <<tdlib, queue, positions, mainChatList, haveFull, chatLock, changed,
                 model, failed>>

PrintChat(t) ==
  /\ pc[t].at = "print" /\ pc[t].todo # {}
  /\ LET e == CHOOSE e \in pc[t].todo : \A f \in pc[t].todo \ {e} : Before(e, f)
     IN /\ chatLock # e[2]
        /\ Goto(t, [pc[t] EXCEPT !.todo = @ \ {e}])
  /\ UNCHANGED <<tdlib, queue, positions, mainChatList, haveFull, listLock, chatLock,
                 changed, model, failed>>

PrintEnd(t) ==
  /\ pc[t].at = "print" /\ pc[t].todo = {}
  /\ listLock' = Nobody
  /\ Goto(t, Idle)
  /\ UNCHANGED <<tdlib, queue, positions, mainChatList, haveFull, chatLock, changed,
                 model, failed>>

\* Mutation: the button reads the list the way gcs does, with its monitor held.
FillBegin_Locked(t) ==
  /\ pc[t].at = "refresh" /\ listLock = Nobody /\ ~MustLoad(pc[t].limit)
  /\ listLock' = t
  /\ Goto(t, [At("print") EXCEPT !.todo = mainChatList])
  /\ UNCHANGED <<tdlib, queue, positions, mainChatList, haveFull, chatLock, changed,
                 model, failed>>

\* The button gives the monitor of the list back before it clears the screen
\* and reads the list.
FillBegin(t) ==
  /\ pc[t].at = "refresh" /\ listLock = Nobody /\ ~MustLoad(pc[t].limit)
  /\ Goto(t, At("clear"))
  /\ UNCHANGED <<tdlib, queue, positions, mainChatList, haveFull, listLock, chatLock,
                 changed, model, failed>>

FillClear(t) ==
  /\ pc[t].at = "clear"
  /\ model' = {}
  /\ Goto(t, At("stream"))
  /\ UNCHANGED <<tdlib, queue, positions, mainChatList, haveFull, listLock, chatLock,
                 changed, failed>>

\* stream() starts: from here on a change of the list is noticed.
FillStream(t) ==
  /\ pc[t].at = "stream"
  /\ changed' = changed \ {t}
  /\ Goto(t, [At("fill") EXCEPT !.todo = {e \in mainChatList : e[2] \in Groups}])
  /\ UNCHANGED <<tdlib, queue, positions, mainChatList, haveFull, listLock, chatLock,
                 model, failed>>

FillChat(t) ==
  /\ pc[t].at = "fill"
  /\ \E e \in pc[t].todo :
       /\ chatLock # e[2]
       /\ Goto(t, [pc[t] EXCEPT !.todo = @ \ {e}, !.ev = Append(@, e[2])])
  /\ UNCHANGED <<tdlib, queue, positions, mainChatList, haveFull, listLock, chatLock,
                 changed, model, failed>>

\* addAll, or ConcurrentModificationException when the list was changed on the
\* way: then the screen stays as it is.
FillEnd(t) ==
  /\ pc[t].at = "fill" /\ pc[t].todo = {}
  /\ model' = IF t \in changed THEN model
              ELSE model \cup {pc[t].ev[i] : i \in DOMAIN pc[t].ev}
  /\ Goto(t, Idle)
  /\ UNCHANGED <<tdlib, queue, positions, mainChatList, haveFull, listLock, chatLock,
                 changed, failed>>

GetChatList(t) ==
  \/ SendLoad(t)
  \/ PrintBegin(t) \/ PrintChat(t) \/ PrintEnd(t)
  \/ FillBegin(t) \/ FillClear(t) \/ FillStream(t) \/ FillChat(t) \/ FillEnd(t)

UpdateHandler == Receive \/ SetFull \/ LockChat \/ SetChatPositions

Next ==
  \/ TdlibStep
  \/ UpdateHandler
  \/ \E limit \in Limits : AskGcs(limit) \/ AskRefresh(limit)
  \/ \E t \in Threads : GetChatList(t)

Loads ==
  /\ Load
  /\ UNCHANGED <<positions, mainChatList, haveFull, pc, listLock, chatLock, changed,
                 model, failed>>

\* Every thread runs on, and TDLib answers.
Spec ==
  /\ Init /\ [][Next]_vars
  /\ WF_vars(UpdateHandler) /\ (\A t \in Threads : WF_vars(GetChatList(t)))
  /\ WF_vars(Loads)

-----------------------------------------------------------------------------
TypeOK ==
  /\ known \subseteq Chats /\ order \in [Chats -> 0 .. MaxOrder]
  /\ DOMAIN positions \subseteq Chats
  /\ \A c \in DOMAIN positions : positions[c] \in Seq(Position)
  /\ mainChatList \subseteq (1 .. MaxOrder) \X Chats
  /\ haveFull \in BOOLEAN /\ changed \subseteq Threads /\ failed \in BOOLEAN
  /\ \A t \in Threads :
       /\ pc[t].at \in {"idle", "gcs", "refresh", "print", "clear", "stream", "fill",
                         "full", "chat", "positions"}
       /\ pc[t].limit \in {0} \cup Limits
  /\ listLock \in Threads \cup {Nobody} /\ chatLock \in {0} \cup Chats
  /\ model \subseteq Groups

FirstLogin == user = "relogin" => left.uses = Uses

\* The list holds the main positions of the chats, no more and no less, for
\* every thread that may look at it: whatever updates came in whatever order,
\* setChatPositions found every position it removed and none it added.  (After
\* the user logged in again, chats announced anew leave their old positions in
\* the list, and the assertions fail.)
ListMatchesChats ==
  FirstLogin =>
    /\ ~failed
    /\ mainChatList = UNION {InMain(c, positions[c]) : c \in DOMAIN positions}

\* Once the application has handled all that TDLib sent, every chat is in the
\* list where TDLib has it: UpdateNewChat, UpdateChatPosition,
\* UpdateChatLastMessage and UpdateChatDraftMessage together lose nothing.
AgreesWhenQuiet ==
  FirstLogin /\ queue = << >> /\ pc["td"] = Idle =>
    mainChatList = {<<order[c], c>> : c \in {d \in known : order[d] # 0}}

\* The list of chats is the right one, in itself and for TDLib.
ListIsRight == TypeOK /\ ListMatchesChats /\ AgreesWhenQuiet

\* The assertions of setChatPositions hold, whatever the user does: a position
\* that is removed was in the list, and one that is added was not.
AssertionsHold == ~failed

\* gcs takes the monitors in the other order: it has that of the list and waits
\* for the chat of an update, which waits for the list.
Crossed ==
  /\ listLock = "main" /\ pc["main"].at = "print" /\ pc["td"].at = "positions"
  /\ \E e \in pc["main"].todo :
       e[2] = chatLock /\ \A f \in pc["main"].todo \ {e} : Before(e, f)

\* Every update is handled, and every thread that asked for the list comes
\* back, whatever the user does: nobody waits for a monitor for ever, but for
\* the one pair that getMainChatList and setChatPositions cross.
AllComeBack == \A t \in Threads : (pc[t] # Idle) ~> (pc[t] = Idle \/ Crossed)
=============================================================================
