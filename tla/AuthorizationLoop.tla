-------------------------- MODULE AuthorizationLoop -------------------------
(***************************************************************************)
(* The authorization of the example application (Application.java) and the *)
(* receiver thread of Client.java.  The main thread creates a client,      *)
(* waits for the authorization, takes the commands of the user and quits;  *)
(* the receiver thread takes responses in batches from the native library  *)
(* and runs the handlers, which answer the authorization states of the     *)
(* instance, wake the main thread and create the next client.              *)
(*                                                                         *)
(* The states that ask the user for something (phone number, code,         *)
(* password, ...) are handled alike; WaitPhoneNumber stands for them.      *)
(* The native side keeps what ClientManager shows: the report that an      *)
(* instance is closed stays in the library and ends a batch, and the       *)
(* update Closed follows when the instance is gone.                        *)
(***************************************************************************)
EXTENDS Integers, Sequences, FiniteSets

CONSTANTS
  Clients,      \* bound: clients created
  Errors        \* bound: authorization requests the instances refuse

Ids == 1 .. Clients
Asking == {"WaitTdlibParameters", "WaitEncryptionKey", "WaitPhoneNumber"}
AuthStates == Asking \cup {"Ready", "LoggingOut", "Closing", "Closed"}

VARIABLES
  main,              \* where the main thread is
  recv,              \* the receiver thread: where it is, and its batch
  client,            \* the static field; 0 is null
  haveAuthorization, needQuit, canQuit,
  last,              \* Application.authorizationState
  tds,               \* the instances: state, requests under way, let go
  out,               \* responses that the native library has ready
  errors,
  \* what happens in this behaviour:
  serverLogout,      \* may the user be logged out by somebody else?
  slowAssign         \* may an update be handled before create() returned to main?

flags == <<haveAuthorization, needQuit, canQuit>>
environment == <<serverLogout, slowAssign>>
vars == <<main, recv, client, haveAuthorization, needQuit, canQuit, last, tds, out, errors,
          serverLogout, slowAssign>>

Init ==
  /\ main = "create" /\ recv = [pc |-> "collect", batch |-> << >>]
  /\ client = 0 /\ last = "none"
  /\ haveAuthorization = FALSE /\ needQuit = FALSE /\ canQuit = FALSE
  /\ tds = [c \in Ids |-> [state |-> "none", inbox |-> << >>, hung |-> FALSE]]
  /\ out = << >> /\ errors = 0
  /\ serverLogout \in BOOLEAN /\ slowAssign \in BOOLEAN

-----------------------------------------------------------------------------
\* Client

Response(c, what) == [client |-> c, what |-> what]
Authorizing == {"params", "key", "login"}

Newest == CHOOSE c \in 0 .. Clients :
            /\ c > 0 => tds[c].state # "none"
            /\ \A d \in Ids : d > c => tds[d].state = "none"

\* Client.create: a native client, and its first request
Create ==
  /\ Newest < Clients
  /\ tds' = [tds EXCEPT ![Newest + 1] = [state |-> "fresh", inbox |-> <<"start">>, hung |-> FALSE]]

\* client.send: an instance that was let go is not asked any more, and the error
\* comes from ClientManager.  A null client throws; nothing catches it but the receiver.
Send(c, request) ==
  IF c = 0 THEN UNCHANGED <<tds, out>>
  ELSE IF tds[c].hung
  THEN /\ out' = IF request \in Authorizing THEN Append(out, Response(c, "error")) ELSE out
       /\ UNCHANGED tds
  ELSE tds' = [tds EXCEPT ![c].inbox = Append(@, request)] /\ UNCHANGED out

-----------------------------------------------------------------------------
\* The receiver thread.

\* nativeClientReceive: responses as long as there are any
Collect ==
  /\ recv.pc = "collect" /\ (main = "assign" => slowAssign)
  /\ \/ /\ out # << >> /\ Head(out).what # "report"
        /\ recv' = [recv EXCEPT !.batch = Append(@, Head(out))]
        /\ out' = Tail(out) /\ UNCHANGED tds
     \/ /\ out # << >> /\ Head(out).what = "report"
        /\ tds' = [tds EXCEPT ![Head(out).client].hung = TRUE]
        /\ recv' = [recv EXCEPT !.pc = "handle"]
        /\ out' = Tail(out)
     \/ /\ out = << >> /\ recv.batch # << >>
        /\ recv' = [recv EXCEPT !.pc = "handle"]
        /\ UNCHANGED <<out, tds>>
  /\ UNCHANGED <<main, client, flags, last, errors>>

BatchEnds ==
  /\ recv.pc = "handle" /\ recv.batch = << >>
  /\ recv' = [recv EXCEPT !.pc = "collect"]
  /\ UNCHANGED <<main, client, flags, last, tds, out, errors>>

Goes(pc) == recv' = [pc |-> pc, batch |-> Tail(recv.batch)]

\* the flag is set before the lock is taken
OnReady == haveAuthorization' = TRUE /\ Goes("signal") /\ UNCHANGED canQuit

\* Mutation: the client is replaced when it begins to close.
OnClosing_Creates ==
  /\ haveAuthorization' = FALSE
  /\ Goes(IF needQuit THEN "handle" ELSE "create")
  /\ UNCHANGED canQuit

OnClosing == haveAuthorization' = FALSE /\ Goes("handle") /\ UNCHANGED canQuit

OnClosed ==
  /\ IF needQuit THEN canQuit' = TRUE /\ Goes("handle")
     ELSE Goes("create") /\ UNCHANGED canQuit
  /\ UNCHANGED haveAuthorization

\* onAuthorizationStateUpdated
StateUpdated(state) ==
  /\ \/ /\ state \in {"WaitTdlibParameters", "WaitEncryptionKey"}
        /\ Send(client, IF state = "WaitTdlibParameters" THEN "params" ELSE "key")
        /\ Goes("handle") /\ UNCHANGED <<haveAuthorization, canQuit>>
     \/ /\ state = "WaitPhoneNumber" /\ Goes("prompt")
        /\ UNCHANGED <<haveAuthorization, canQuit, tds, out>>
     \/ state = "Ready" /\ OnReady /\ UNCHANGED <<tds, out>>
     \/ state \in {"LoggingOut", "Closing"} /\ OnClosing /\ UNCHANGED <<tds, out>>
     \/ state = "Closed" /\ OnClosed /\ UNCHANGED <<tds, out>>
  /\ UNCHANGED <<main, client, needQuit, errors>>

\* Mutation: a refused request is not repeated.
Repeated_Never == "Closing"

\* "repeat last action"
Repeated == last

\* processResult: an update, or the error that answers an authorization request
HandleResponse ==
  /\ recv.pc = "handle" /\ recv.batch # << >>
  /\ LET what == Head(recv.batch).what IN
     IF what = "error" THEN StateUpdated(Repeated) /\ UNCHANGED last
     ELSE StateUpdated(what) /\ last' = what

\* promptString returns and the answer is sent
PromptAnswered ==
  /\ recv.pc = "prompt"
  /\ recv' = [recv EXCEPT !.pc = "handle"]
  /\ Send(client, "login")
  /\ UNCHANGED <<main, client, flags, last, errors>>

\* gotAuthorization.signal under the lock
Signal ==
  /\ recv.pc = "signal"
  /\ recv' = [recv EXCEPT !.pc = "handle"]
  /\ main' = IF main = "waiting" THEN "await" ELSE main
  /\ UNCHANGED <<client, flags, last, tds, out, errors>>

\* client = Client.create(...) on the receiver thread
Recreate ==
  /\ recv.pc = "create"
  /\ Create
  /\ recv' = [recv EXCEPT !.pc = "assign"]
  /\ UNCHANGED <<main, client, flags, last, out, errors>>

Reassign ==
  /\ recv.pc = "assign"
  /\ client' = Newest
  /\ recv' = [recv EXCEPT !.pc = "handle"]
  /\ UNCHANGED <<main, flags, last, tds, out, errors>>

Receiver ==
  \/ Collect \/ BatchEnds \/ HandleResponse \/ PromptAnswered \/ Signal \/ Recreate \/ Reassign

-----------------------------------------------------------------------------
\* The main thread.

MainCreate ==
  /\ main = "create" /\ Create /\ main' = "assign"
  /\ UNCHANGED <<recv, client, flags, last, out, errors>>

MainAssign ==
  /\ main = "assign" /\ main' = "loop"
  /\ client' = Newest
  /\ UNCHANGED <<recv, flags, last, tds, out, errors>>

MainStep ==
  /\ main' = CASE main = "loop" -> IF needQuit THEN "drain" ELSE "await"
               [] main = "await" -> IF haveAuthorization THEN "commands" ELSE "waiting"
               [] main = "commands" -> IF haveAuthorization THEN "prompt" ELSE "loop"
               [] main = "drain" -> IF canQuit THEN "done" ELSE "drain"
               [] OTHER -> main
  /\ UNCHANGED <<recv, client, flags, last, tds, out, errors>>

\* getCommand: the line was read.  A client that must not be logged out here
\* would need one more client than the bound allows.
Command(c) ==
  /\ main = "prompt"
  /\ \/ c = "other" /\ main' = "commands" /\ UNCHANGED needQuit
     \/ c = "lo" /\ Newest < Clients /\ main' = "lo" /\ UNCHANGED needQuit
     \/ c = "q" /\ main' = "q" /\ needQuit' = TRUE
  /\ UNCHANGED <<recv, client, haveAuthorization, canQuit, last, tds, out, errors>>

ForgetAuthorization ==
  /\ main \in {"lo", "q"}
  /\ haveAuthorization' = FALSE
  /\ main' = IF main = "lo" THEN "logOut" ELSE "close"
  /\ UNCHANGED <<recv, client, needQuit, canQuit, last, tds, out, errors>>

SendCommand ==
  /\ main \in {"logOut", "close"}
  /\ Send(client, main)
  /\ main' = "commands"
  /\ UNCHANGED <<recv, client, flags, last, errors>>

MainThread == MainCreate \/ MainAssign \/ MainStep \/ ForgetAuthorization \/ SendCommand

-----------------------------------------------------------------------------
\* An instance.

Becomes(td, state) == [td EXCEPT !.state = state]

\* the state an authorization request leads to
Leads(state, request) ==
  CASE state = "WaitTdlibParameters" /\ request = "params" -> {"WaitEncryptionKey"}
    [] state = "WaitEncryptionKey" /\ request = "key" -> {"WaitPhoneNumber", "Ready"}
    [] state = "WaitPhoneNumber" /\ request = "login" -> {"Ready"}
    [] state \notin {"Closing", "Closed"} /\ request = "close" -> {"Closing"}
    [] state \in {"WaitPhoneNumber", "Ready"} /\ request = "logOut" -> {"LoggingOut"}
    [] request = "start" -> {"WaitTdlibParameters"}
    [] OTHER -> {}

TdTakes(c) ==
  /\ tds[c].inbox # << >>
  /\ LET request == Head(tds[c].inbox)
         td == [tds[c] EXCEPT !.inbox = Tail(@)]
         refused == /\ tds' = [tds EXCEPT ![c] = td]
                    /\ out' = IF request \in Authorizing THEN Append(out, Response(c, "error"))
                              ELSE out
     IN \/ \E state \in Leads(td.state, request) :
             /\ tds' = [tds EXCEPT ![c] = Becomes(td, state)]
             /\ out' = Append(out, Response(c, state))
             /\ UNCHANGED errors
        \/ Leads(td.state, request) = {} /\ refused /\ UNCHANGED errors
        \/ /\ Leads(td.state, request) # {} /\ request \in Authorizing /\ errors < Errors
           /\ refused /\ errors' = errors + 1
  /\ UNCHANGED <<main, recv, client, flags, last>>

TdCloses(c) ==
  /\ tds[c].state \in {"LoggingOut", "Closing"}
  /\ tds' = [tds EXCEPT ![c] = Becomes(@, "Closed")]
  /\ out' = Append(out, Response(c, "report"))
  /\ UNCHANGED <<main, recv, client, flags, last, errors>>

TdGone(c) ==
  /\ tds[c].state = "Closed" /\ tds[c].hung /\ tds[c].inbox = << >>
  /\ tds' = [tds EXCEPT ![c] = Becomes(@, "gone")]
  /\ out' = Append(out, Response(c, "Closed"))
  /\ UNCHANGED <<main, recv, client, flags, last, errors>>

ServerLogsOut(c) ==
  /\ serverLogout /\ tds[c].state = "Ready" /\ Newest < Clients
  /\ tds' = [tds EXCEPT ![c] = Becomes(@, "LoggingOut")]
  /\ out' = Append(out, Response(c, "LoggingOut"))
  /\ UNCHANGED <<main, recv, client, flags, last, errors>>

Td(c) == TdTakes(c) \/ TdCloses(c) \/ TdGone(c)

Next ==
  /\ \/ Receiver \/ MainThread
     \/ \E c \in {"other", "lo", "q"} : Command(c)
     \/ \E c \in Ids : Td(c) \/ ServerLogsOut(c)
  /\ UNCHANGED environment

ReceiverRuns == Receiver /\ UNCHANGED environment
MainRuns == MainThread /\ UNCHANGED environment
UserTypes == needQuit /\ Command("other") /\ UNCHANGED environment
TdRuns(c) == Td(c) /\ UNCHANGED environment

\* Threads run, instances work and close, and the user answers the questions of the
\* authorization and, once he wants to quit, types another line when he is asked.
Spec ==
  /\ Init /\ [][Next]_vars
  /\ WF_vars(ReceiverRuns) /\ WF_vars(MainRuns) /\ WF_vars(UserTypes)
  /\ \A c \in Ids : WF_vars(TdRuns(c))

-----------------------------------------------------------------------------
TypeOK ==
  /\ main \in {"create", "assign", "loop", "await", "waiting", "commands", "prompt", "lo", "q",
               "logOut", "close", "drain", "done"}
  /\ recv.pc \in {"collect", "handle", "prompt", "signal", "create", "assign"}
  /\ \A k \in DOMAIN recv.batch : recv.batch[k].what \in AuthStates \cup {"error"}
  /\ client \in 0 .. Newest /\ flags \in BOOLEAN \X BOOLEAN \X BOOLEAN
  /\ last \in AuthStates \cup {"none"} /\ errors \in 0 .. Errors
  /\ \A c \in Ids : tds[c].state \in AuthStates \cup {"none", "fresh", "gone"}

\* The main thread never sleeps through the authorization: when it waits although the
\* flag is set, the signal is still to come.
NoLostWakeup == main = "waiting" /\ haveAuthorization => recv.pc = "signal"

\* A client is created only after the one before it was closed: the two would open
\* the same database directory.  (When the user is logged out by somebody else, an
\* error that is still on its way makes the application handle Closed twice.)
OneLiveClient ==
  ~serverLogout =>
    \A c, d \in Ids : c < d /\ tds[d].state # "none" => tds[c].state = "gone"

\* main returns only when every client has closed its databases.  (With the same
\* exception: of two clients that live at a time only the newer one is closed.)
DoneMeansClosed ==
  ~serverLogout /\ main = "done" => \A c \in Ids : tds[c].state \in {"none", "gone"}

\* The clients have the database directory one after the other, and main leaves none
\* of them open.
ClientsInTurn == TypeOK /\ NoLostWakeup /\ OneLiveClient /\ DoneMeansClosed

\* The command q ends the program.  (It need not when the user was logged out by
\* somebody else: close may go to a client that is closed already.)
QuitEnds == needQuit /\ ~serverLogout ~> main = "done"

\* The application gets through the authorization, whatever is refused on the way.
\* (An update that is handled before the field client is set stops it for ever.)
Authorizes == ~slowAssign => <>haveAuthorization
=============================================================================
