-------------------------- MODULE RegexAggregator --------------------------
(***************************************************************************)
(* The search for an expression of words in the Java application           *)
(* (aggregator/Parser.java, RegexAggregator.java, Handler.java):           *)
(* aggregate() parses the expression, searches for its words one after the *)
(* other and combines the results.                                         *)
(*                                                                         *)
(* The input is a sequence of tokens as Lexer makes them: two words are    *)
(* never next to each other.  The parser keeps the current token; here it  *)
(* is the position i of that token.  At the last token next() is not       *)
(* called, so the position stays.  aggregate() runs in the thread of the   *)
(* user interface, answers come in the thread of TDLib.                    *)
(***************************************************************************)
EXTENDS Integers, Sequences, FiniteSets

CONSTANTS
  MaxTokens,  \* bound: length of an expression
  Hits        \* messages that a search may find

VARIABLES
  input,     \* the tokens
  parsed,    \* what Parser makes of them: it reads nothing else
  phase,     \* where aggregate() is
  asked,     \* is a search on its way?
  refused,   \* was a search answered with TdApi.Error?
  messages,  \* Handler.messages of the current search: a set, or << >> for null
  found,     \* the results of the searches made so far
  shown      \* what was given to the result handler

vars == <<input, parsed, phase, asked, refused, messages, found, shown>>

Tokens == {"word", "and", "or", "open", "close"}

Inputs ==
  {ts \in UNION {[1 .. n -> Tokens] : n \in 1 .. MaxTokens} :
     \A i \in 1 .. Len(ts) - 1 : ts[i] = "word" => ts[i + 1] # "word"}

-----------------------------------------------------------------------------
\* Parser.  A tree is <<position of a word>> or <<operation, left, right>>.

\* if (iterator.hasNext()) next();
Step(ts, i) == IF i < Len(ts) THEN i + 1 ELSE i

Parsed(i, tree) == [ok |-> TRUE, pos |-> i, tree |-> tree]
Failed(why) == [ok |-> FALSE, pos |-> 0, tree |-> <<why>>]

RECURSIVE S(_, _), X(_, _), V(_, _)

S(ts, i) ==
  LET x == X(ts, i) IN
  IF x.ok /\ ts[x.pos] = "or"
  THEN LET s == S(ts, Step(ts, x.pos)) IN
       IF s.ok THEN Parsed(s.pos, <<"or", x.tree, s.tree>>) ELSE s
  ELSE x

X(ts, i) ==
  LET v == V(ts, i) IN
  IF v.ok /\ ts[v.pos] = "and"
  THEN LET x == X(ts, Step(ts, v.pos)) IN
       IF x.ok THEN Parsed(x.pos, <<"and", v.tree, x.tree>>) ELSE x
  ELSE v

\* Mutation: the close bracket is not asked for.
V_NoClose(ts, i) ==
  CASE ts[i] = "word" -> Parsed(Step(ts, i), <<i>>)
    [] ts[i] = "open" /\ i = Len(ts) -> Failed("overflow")
    [] ts[i] = "open" /\ i < Len(ts) ->
         LET s == S(ts, i + 1) IN
         IF ~s.ok THEN s ELSE Parsed(Step(ts, s.pos), s.tree)
    [] OTHER -> Failed("exception")

\* A bracket that is the last token is read again and again: StackOverflowError.
V(ts, i) ==
  CASE ts[i] = "word" -> Parsed(Step(ts, i), <<i>>)
    [] ts[i] = "open" /\ i = Len(ts) -> Failed("overflow")
    [] ts[i] = "open" /\ i < Len(ts) ->
         LET s == S(ts, i + 1) IN
         IF ~s.ok THEN s
         ELSE IF ts[s.pos] # "close" THEN Failed("exception")
         ELSE Parsed(Step(ts, s.pos), s.tree)
    [] OTHER -> Failed("exception")

Parse(ts) == S(ts, 1)

-----------------------------------------------------------------------------
\* RegexAggregator.

IsWord(tree) == Len(tree) = 1

RECURSIVE Searches(_), Eval(_, _)

\* traversePostOrder: the order in which the words below a node are searched.
Searches(tree) ==
  IF IsWord(tree) THEN << >>
  ELSE LET l == tree[2]  r == tree[3]
       IN Searches(l) \o Searches(r) \o (IF IsWord(l) THEN l ELSE << >>)
                                     \o (IF IsWord(r) THEN r ELSE << >>)

\* aggregate() searches an expression of one word itself.
AllSearches(tree) == IF IsWord(tree) THEN tree ELSE Searches(tree)

\* makeOperation on sets of TdApi.Message.  The class has no equals(): every
\* answer brings objects of its own, here <<search, message>>.
Eval(tree, result) ==
  IF IsWord(tree) THEN {<<tree[1], m>> : m \in result[tree[1]]}
  ELSE LET l == Eval(tree[2], result)  r == Eval(tree[3], result)
       IN IF tree[1] = "or" THEN l \cup r ELSE l \cap r

Tree == parsed.tree
Word(n) == AllSearches(Tree)[n]
Results(f) == [w \in {Word(n) : n \in DOMAIN f} |-> f[CHOOSE n \in DOMAIN f : Word(n) = w]]

Init ==
  /\ input \in Inputs /\ parsed = Parse(input)
  /\ phase = "start" /\ asked = FALSE /\ refused = FALSE /\ messages = << >> /\ found = << >> /\ shown = {}

\* aggregate(), up to the first search.
Aggregate ==
  /\ phase = "start"
  /\ phase' = IF parsed.ok THEN "search" ELSE "failed"
  /\ UNCHANGED <<input, parsed, asked, refused, messages, found, shown>>

\* search(): a new Handler, and client.send.
Search ==
  /\ phase = "search"
  /\ phase' = "wait" /\ asked' = TRUE /\ messages' = << >>
  /\ UNCHANGED <<input, parsed, refused, found, shown>>

\* The answer in the thread of TDLib.
OnMessages(ms) ==
  /\ asked /\ asked' = FALSE
  /\ messages' = <<ms>>
  /\ UNCHANGED <<input, parsed, refused, phase, found, shown>>

\* Handler.onResult ignores everything that is not TdApi.Messages.
OnError ==
  /\ asked /\ asked' = FALSE /\ refused' = TRUE
  /\ UNCHANGED <<input, parsed, phase, messages, found, shown>>

\* The loop of search() looks at the handler once a second.
Received == messages # << >>

Return ==
  /\ phase = "wait" /\ Received
  /\ found' = found \o messages
  /\ IF Len(found') = Len(AllSearches(Tree))
     THEN phase' = "done" /\ shown' = Eval(Tree, Results(found'))
     ELSE phase' = "search" /\ shown' = shown
  /\ UNCHANGED <<input, parsed, asked, refused, messages>>

Aggregates == Aggregate \/ Search \/ Return
Answers == (\E ms \in SUBSET Hits : OnMessages(ms)) \/ OnError

Next == Aggregates \/ Answers

\* Both threads run, and TDLib answers.
Spec == Init /\ [][Next]_vars /\ WF_vars(Aggregates) /\ WF_vars(Answers)

-----------------------------------------------------------------------------
\* The grammar the parser is written for, as the set of trees of ts[lo .. hi]:
\* S ::= X | X "|" S,  X ::= V | V "&" X,  V ::= word | "(" S ")".
RECURSIVE TreesS(_, _, _), TreesX(_, _, _), TreesV(_, _, _)

TreesS(ts, lo, hi) ==
  TreesX(ts, lo, hi) \cup
  UNION {{<<"or", t[1], t[2]>> : t \in TreesX(ts, lo, k - 1) \X TreesS(ts, k + 1, hi)} :
           k \in {j \in lo + 1 .. hi - 1 : ts[j] = "or"}}

TreesX(ts, lo, hi) ==
  TreesV(ts, lo, hi) \cup
  UNION {{<<"and", t[1], t[2]>> : t \in TreesV(ts, lo, k - 1) \X TreesX(ts, k + 1, hi)} :
           k \in {j \in lo + 1 .. hi - 1 : ts[j] = "and"}}

TreesV(ts, lo, hi) ==
  IF lo > hi THEN {}
  ELSE IF lo = hi THEN (IF ts[lo] = "word" THEN {<<lo>>} ELSE {})
  ELSE IF ts[lo] = "open" /\ ts[hi] = "close" THEN TreesS(ts, lo + 1, hi - 1)
  ELSE {}

Trees(ts) == TreesS(ts, 1, Len(ts))

TypeOK ==
  /\ Len(input) <= MaxTokens
  /\ phase \in {"start", "search", "wait", "done", "failed"}
  /\ phase \in {"start", "failed"} \/ parsed.ok
  /\ asked \in BOOLEAN /\ refused \in BOOLEAN /\ messages \in {<< >>} \cup {<<ms>> : ms \in SUBSET Hits}
  /\ found \in Seq(SUBSET Hits) /\ shown \subseteq (1 .. MaxTokens) \X Hits

\* Every expression of the grammar is accepted, with the one tree the grammar
\* gives it: "&" binds more than "|", both to the right.
GrammarParsed ==
  phase = "start" /\ Trees(input) # {} =>
    parsed.ok /\ Trees(input) = {parsed.tree}

\* What the parser accepts beyond the grammar is no other reading of it: the
\* tree is that of a beginning of the input, which may lack brackets at its
\* end only where the input ends with one (the last token is read again).
AcceptedIsBeginning ==
  phase = "start" /\ parsed.ok =>
    \E n \in 1 .. Len(input), k \in 0 .. Len(input) :
      /\ k > 0 => n = Len(input) /\ input[n] = "close"
      /\ Trees(SubSeq(input, 1, n) \o [j \in 1 .. k |-> "close"]) = {parsed.tree}

\* aggregate() comes to an end, unless a search is answered with an error: then
\* search() waits for messages that never come.
AggregateEnds == <>(phase \in {"done", "failed"} \/ refused)

RECURSIVE Words(_)

\* The words at the leaves of a tree.
Words(tree) == IF IsWord(tree) THEN {tree[1]} ELSE Words(tree[2]) \cup Words(tree[3])

\* When the result is shown, the words of the tree were searched, each once and no
\* other: traversePostOrder comes by every leaf, at whatever depth and on whatever
\* side of the operation above it.
EveryWordSearched ==
  phase = "done" =>
    LET words == AllSearches(Tree)
    IN /\ Len(found) = Len(words)
       /\ {words[i] : i \in DOMAIN words} = Words(Tree)
       /\ Cardinality(Words(Tree)) = Len(words)

\* The parser reads the grammar, and the search follows the tree.
ParserFollowsGrammar == TypeOK /\ GrammarParsed /\ AcceptedIsBeginning /\ EveryWordSearched
=============================================================================
