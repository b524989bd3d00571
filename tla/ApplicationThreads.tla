------------------------- MODULE ApplicationThreads -------------------------
(***************************************************************************)
(* The example application of the Java binding without its search: the     *)
(* authorization and the loop of the main thread (AuthorizationLoop), the  *)
(* list of chats (ChatList) and the filter for advertisements (AdFilter).  *)
(* Application adds the search for an expression.                          *)
(*                                                                         *)
(* The parts share no variable, and every property speaks of the state of  *)
(* one of them.  So a behaviour moves one part, chosen in the initial      *)
(* state, and leaves the others where they start: what can happen to the   *)
(* part is the same as in an interleaving of all of them.                  *)
(***************************************************************************)
EXTENDS Integers, Sequences, FiniteSets

CONSTANTS
  Clients, Errors,
  MaxChat, Groups, MaxOrder, MaxUpdates, Limits, Uses,
  TgUrls, WebUrls, MaxLinks

ASSUME ThreadsAssumption ==
  /\ Clients \in Nat \ {0} /\ Errors \in Nat
  /\ MaxChat \in Nat \ {0} /\ MaxOrder \in Nat \ {0} /\ MaxUpdates \in Nat
  /\ Groups \subseteq 1 .. MaxChat /\ Limits \subseteq Nat \ {0}
  /\ Uses \in Nat
  /\ MaxLinks \in Nat /\ TgUrls \cap WebUrls = {}

VARIABLES
  part,   \* the part that moves
  main, recv, client, haveAuthorization, needQuit, canQuit, last, tds, out, errors,
  serverLogout, slowAssign,
  known, order, requests, queue, left, user, positions, mainChatList, haveFull, pc,
  listLock, chatLock, changed, model, failed,
  message, adFilterIsOn, shared, tasks, result, merged, shown

Login == INSTANCE AuthorizationLoop
List == INSTANCE ChatList
Filter == INSTANCE AdFilter

loginVars ==
  <<main, recv, client, haveAuthorization, needQuit, canQuit, last, tds, out, errors,
    serverLogout, slowAssign>>
listVars ==
  <<known, order, requests, queue, left, user, positions, mainChatList, haveFull, pc,
    listLock, chatLock, changed, model, failed>>
filterVars == <<message, adFilterIsOn, shared, tasks, result, merged, shown>>
threadVars == <<part, loginVars, listVars, filterVars>>

-----------------------------------------------------------------------------
LoginRests == serverLogout = FALSE /\ slowAssign = FALSE /\ Login!Init
ListRests == order = [c \in 1 .. MaxChat |-> 0] /\ user = "gcs" /\ List!Init
FilterRests ==
  /\ message = [text |-> TRUE, urls |-> [u \in TgUrls \cup WebUrls |-> 0],
                verbs |-> {}, nouns |-> {}]
  /\ adFilterIsOn = FALSE
  /\ Filter!Init

ThreadsInit ==
  \/ part = "login" /\ Login!Init /\ ListRests /\ FilterRests
  \/ part = "list" /\ List!Init /\ LoginRests /\ FilterRests
  \/ part = "filter" /\ Filter!Init /\ LoginRests /\ ListRests
  \/ part = "search" /\ LoginRests /\ ListRests /\ FilterRests

OnlyLogin == part = "login" /\ UNCHANGED <<part, listVars, filterVars>>
OnlyList == part = "list" /\ UNCHANGED <<part, loginVars, filterVars>>
OnlyFilter == part = "filter" /\ UNCHANGED <<part, loginVars, listVars>>

ThreadsNext ==
  \/ OnlyLogin /\ Login!Next
  \/ OnlyList /\ List!Next
  \/ OnlyFilter /\ Filter!Next

\* The threads, while the search is left to itself.
ThreadsSpec == ThreadsInit /\ [][ThreadsNext]_threadVars

-----------------------------------------------------------------------------
\* One client at a time has the database, main does not sleep through the
\* authorization, and it leaves no client open (AuthorizationLoop).
ClientsInTurn == Login!ClientsInTurn

\* mainChatList holds the main positions of the chats, and when all updates are
\* handled, those of TDLib (ChatList).
ListIsRight == part = "list" => List!ListIsRight

\* The assertions of setChatPositions hold for every user (ChatList).
AssertionsHold == part = "list" => List!AssertionsHold

\* Every thread that waits for a monitor comes back, unless gcs in the main thread and
\* an update have crossed: each has the monitor that the other waits for (ChatList).
AllComeBack == part = "list" => List!AllComeBack

\* The merged flags are what the retrievers found, however the five threads were mixed
\* on the shared set (AdFilter).
AllFindingsMerged == Filter!AllFindingsMerged
=============================================================================
