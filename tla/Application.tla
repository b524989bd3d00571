---------------------------- MODULE Application ----------------------------
(***************************************************************************)
(* The example application of the Java binding, put together: its threads  *)
(* (ApplicationThreads) and the search for an expression (RegexAggregator),*)
(* one more part that shares no variable with the others.                  *)
(***************************************************************************)
EXTENDS ApplicationThreads

CONSTANTS MaxTokens, Hits

ASSUME SearchAssumption == MaxTokens \in Nat \ {0}

VARIABLES input, parsed, phase, asked, refused, messages, found, given

Search == INSTANCE RegexAggregator WITH shown <- given

searchVars == <<input, parsed, phase, asked, refused, messages, found, given>>
vars == <<threadVars, searchVars>>

SearchRests == input = <<"word">> /\ Search!Init

Init ==
  \/ ThreadsInit /\ part # "search" /\ SearchRests
  \/ ThreadsInit /\ part = "search" /\ Search!Init

OnlyThreads == UNCHANGED searchVars
OnlySearch == part = "search" /\ UNCHANGED threadVars

Next ==
  \/ OnlyThreads /\ ThreadsNext
  \/ OnlySearch /\ Search!Next

\* The fairness of the parts.
Spec ==
  /\ Init /\ [][Next]_vars
  /\ WF_vars(OnlyThreads /\ OnlyLogin /\ Login!ReceiverRuns)
  /\ WF_vars(OnlyThreads /\ OnlyLogin /\ Login!MainRuns)
  /\ WF_vars(OnlyThreads /\ OnlyLogin /\ Login!UserTypes)
  /\ \A c \in 1 .. Clients : WF_vars(OnlyThreads /\ OnlyLogin /\ Login!TdRuns(c))
  /\ WF_vars(OnlyThreads /\ OnlyList /\ List!UpdateHandler)
  /\ \A t \in List!Threads : WF_vars(OnlyThreads /\ OnlyList /\ List!GetChatList(t))
  /\ WF_vars(OnlyThreads /\ OnlyList /\ List!Loads)
  /\ WF_vars(OnlyThreads /\ OnlyFilter /\ Filter!Next)
  /\ WF_vars(OnlySearch /\ Search!Aggregates)
  /\ WF_vars(OnlySearch /\ Search!Answers)

-----------------------------------------------------------------------------
\* Every expression of the grammar gets the tree of the grammar, what is accepted
\* beyond it is read as a beginning, and the words of the tree are searched, each
\* once and no other (RegexAggregator).
ParserFollowsGrammar == part = "search" => Search!ParserFollowsGrammar

\* The user gets what he waits for: the authorization, the end of the program after q,
\* every message on the screen, and the result of a search that is not refused.
UserIsServed ==
  /\ part = "login" => Login!Authorizes /\ Login!QuitEnds
  /\ part = "filter" => Filter!MessageShown
  /\ part = "search" => Search!AggregateEnds
=============================================================================
