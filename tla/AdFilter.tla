------------------------------ MODULE AdFilter ------------------------------
(***************************************************************************)
(* The advertisement filter of the example application: SwingUIHandler     *)
(* (Application.java) lets five retrievers look at a message at the same   *)
(* time, in a thread pool, merges the flags they return and compares them  *)
(* with its filters.  The retrievers of a message share one EnumSet, which *)
(* is not synchronized: two of them copy it, two add to it in place, by a  *)
(* read and a write of its bits.                                           *)
(*                                                                         *)
(* A message is what the retrievers see of it: how often each url occurs,  *)
(* its imperative verbs and its nouns.                                     *)
(***************************************************************************)
EXTENDS Integers, FiniteSets

CONSTANTS
  TgUrls, WebUrls, \* urls with and without the domain t.me
  MaxLinks         \* bound: occurrences of a url

Retrievers == {"links", "verbs", "objects", "hashTags", "words"}

Messages ==
  [text : BOOLEAN,  \* is there a text or a caption?
   urls : [TgUrls \cup WebUrls -> 0 .. MaxLinks],
   verbs : SUBSET {"verb", "triggerVerb"},
   nouns : SUBSET {"promotedProduct", "triggerWord"}]

filters ==
  {{"TRIGGER_ACTION", "MULTIPLE_CHANNEL_LINKS"}, {"TRIGGER_ACTION", "SINGLE_CHANNEL_LINK"},
   {"ACTION", "SINGLE_CHANNEL_LINK"}, {"ACTION", "MULTIPLE_CHANNEL_LINKS"},
   {"FREQUENTLY_ADVERTISED", "TRIGGER_WORD"}, {"FREQUENTLY_ADVERTISED"}}

VARIABLES
  message,   \* the message under work
  adFilterIsOn,
  shared,    \* emptyFlags, the set all retrievers of the message got
  tasks,     \* the retrievers: where they are, and the flags they hold
  result,    \* the merged flags
  merged,    \* was it done?
  shown      \* what the viewer shows of the message

vars == <<message, adFilterIsOn, shared, tasks, result, merged, shown>>

Init ==
  /\ message \in Messages /\ adFilterIsOn \in BOOLEAN
  /\ shared = {} /\ result = {} /\ merged = FALSE
  /\ tasks = [r \in Retrievers |-> [pc |-> "start", flags |-> {}]]
  /\ shown = "nothing"

-----------------------------------------------------------------------------
\* What a retriever finds in a message.

\* WebsiteLinksRetriever: a url that occurs once, and one that occurs again
LinkFlags(m) ==
  LET Flag(urls, once, more) ==
        (IF \E u \in urls : m.urls[u] = 1 THEN {once} ELSE {})
          \cup (IF \E u \in urls : m.urls[u] > 1 THEN {more} ELSE {})
  IN Flag(TgUrls, "SINGLE_CHANNEL_LINK", "MULTIPLE_CHANNEL_LINKS")
       \cup Flag(WebUrls, "SINGLE_WEBSITE_LINK", "MULTIPLE_WEBSITE_LINKS")

\* ImperativeVerbsRetriever
VerbFlags(m) ==
  (IF m.verbs # {} THEN {"ACTION"} ELSE {})
    \cup (IF "triggerVerb" \in m.verbs THEN {"TRIGGER_ACTION"} ELSE {})

\* Mutation: the products have a flag of their own.
ObjectFlags_Own(m) == IF "promotedProduct" \in m.nouns THEN {"FREQUENTLY_ADVERTISED"} ELSE {}

\* AdvertisementObjectsRetriever
ObjectFlags(m) == IF "promotedProduct" \in m.nouns THEN {"TRIGGER_WORD"} ELSE {}

\* TriggerWordsRetriever
WordFlags(m) == IF "triggerWord" \in m.nouns THEN {"TRIGGER_WORD"} ELSE {}

Finds(r, m) ==
  CASE r = "links" -> LinkFlags(m)
    [] r = "verbs" -> VerbFlags(m)
    [] r = "objects" -> ObjectFlags(m)
    [] r = "words" -> WordFlags(m)
    [] r = "hashTags" -> {}

-----------------------------------------------------------------------------
Goes(r, pc, flags) == tasks' = [tasks EXCEPT ![r] = [pc |-> pc, flags |-> flags]]

\* A message without text has no text to look at: the task throws.
Throws(r) ==
  /\ adFilterIsOn /\ tasks[r].pc = "start" /\ ~message.text
  /\ Goes(r, "failed", {})
  /\ UNCHANGED <<message, adFilterIsOn, shared, result, merged, shown>>

\* EnumSet.copyOf(existingFlags), and flags.add on the copy
CopyFlags(r) ==
  /\ adFilterIsOn /\ message.text
  /\ r \in {"links", "verbs"}
  /\ \/ tasks[r].pc = "start" /\ Goes(r, "copied", shared)
     \/ tasks[r].pc = "copied" /\ Goes(r, "done", tasks[r].flags \cup Finds(r, message))
  /\ UNCHANGED <<message, adFilterIsOn, shared, result, merged, shown>>

\* flags.add on the shared set: the bits are read, then written
AddFlags(r) ==
  /\ adFilterIsOn /\ message.text
  /\ r \in {"objects", "words"}
  /\ \/ /\ tasks[r].pc = "start" /\ Finds(r, message) = {}
        /\ Goes(r, "done", {}) /\ UNCHANGED shared
     \/ /\ tasks[r].pc = "start" /\ Finds(r, message) # {}
        /\ Goes(r, "read", shared) /\ UNCHANGED shared
     \/ /\ tasks[r].pc = "read"
        /\ shared' = tasks[r].flags \cup Finds(r, message)
        /\ Goes(r, "done", {})
  /\ UNCHANGED <<message, adFilterIsOn, result, merged, shown>>

\* TriggerHashTagRetriever returns null.
LogHashTags ==
  /\ adFilterIsOn /\ message.text
  /\ tasks["hashTags"].pc = "start" /\ Goes("hashTags", "null", {})
  /\ UNCHANGED <<message, adFilterIsOn, shared, result, merged, shown>>

\* invokeAll returned: the answers are merged; a task that threw, and the null, are
\* logged.
Ended == {"done", "null", "failed"}
Answer(r) ==
  CASE tasks[r].pc # "done" -> {}
    [] r \in {"objects", "words"} -> shared
    [] OTHER -> tasks[r].flags

Merge ==
  /\ ~merged /\ \A r \in Retrievers : tasks[r].pc \in Ended
  /\ merged' = TRUE /\ result' = UNION {Answer(r) : r \in Retrievers}
  /\ UNCHANGED <<message, adFilterIsOn, shared, tasks, shown>>

\* The message is shown, as an advertisement when a filter matches.
Show ==
  /\ shown = "nothing"
  /\ adFilterIsOn => merged
  /\ shown' = IF \E f \in filters : f \subseteq result THEN "advertisement" ELSE "message"
  /\ UNCHANGED <<message, adFilterIsOn, shared, tasks, result, merged>>

Next ==
  \/ \E r \in Retrievers : Throws(r) \/ CopyFlags(r) \/ AddFlags(r)
  \/ LogHashTags \/ Merge \/ Show

\* The threads of the pool run, and so does the receiver.
Spec == Init /\ [][Next]_vars /\ WF_vars(Next)

-----------------------------------------------------------------------------
Flags == {"MULTIPLE_WEBSITE_LINKS", "SINGLE_WEBSITE_LINK", "MULTIPLE_CHANNEL_LINKS",
          "SINGLE_CHANNEL_LINK", "TRIGGER_WORD", "FREQUENTLY_ADVERTISED", "TRIGGER_ACTION", "ACTION"}

TypeOK ==
  /\ message \in Messages /\ adFilterIsOn \in BOOLEAN
  /\ shared \subseteq Flags /\ result \subseteq Flags /\ merged \in BOOLEAN
  /\ tasks \in [Retrievers -> [pc : {"start", "copied", "read"} \cup Ended, flags : SUBSET Flags]]
  /\ shown \in {"nothing", "message", "advertisement"}

\* The merged flags are what the retrievers found, all of it and nothing else,
\* however the five threads were mixed on the shared set.
AllFindingsMerged ==
  /\ TypeOK
  /\ merged =>
       result = IF message.text THEN UNION {Finds(r, message) : r \in Retrievers} ELSE {}

\* Every message is shown, also when retrievers throw or return null.
MessageShown == <>(shown # "nothing")
=============================================================================
