------------------------------ MODULE Reading ------------------------------
(***************************************************************************)
(* One inbox, its writers, the hub, and everybody who reads it.            *)
(***************************************************************************)
EXTENDS LongPoll, InboxTab

vars == <<inboxVars, hubVars, faults, pollVars, tabVars>>

Init == HubInit /\ PollInit /\ TabInit

Next ==
  \/ InboxStep /\ UNCHANGED <<pollVars, tabVars>>
  \/ HubStep /\ UNCHANGED <<pollVars, tabVars>>
  \/ \E w \in Waiters : PollStep(w) /\ UNCHANGED tabVars
  \/ \E t \in Tabs : TabStep(t) /\ UNCHANGED pollVars

Spec == Init /\ [][Next]_vars

(***************************************************************************)
(* Requests that have been made are carried on, and their timers fire: a   *)
(* timer that has fired stays readable, so the select of settle takes it   *)
(* in the end however often its other branches are ready.  Request itself  *)
(* is the client's: what follows is for a client that keeps polling.       *)
(***************************************************************************)
Fairness ==
  \A w \in Waiters :
    /\ WF_vars(Request(w) /\ UNCHANGED tabVars)
    /\ WF_vars((NothingYet(w) \/ Hold(w) \/ AnswerParsed(w)) /\ UNCHANGED tabVars)
    /\ WF_vars(TimeOut(w) /\ UNCHANGED tabVars)
    /\ SF_vars(GiveUp(w) /\ UNCHANGED tabVars)

FairSpec == Spec /\ Fairness

-----------------------------------------------------------------------------
(* Type correctness of the inbox, the hub, the requests and the tabs; no   *)
(* subscriber's channel holds more than its buffer.                        *)
TypeOK == HubTypeOK /\ PollTypeOK /\ TabTypeOK

(***************************************************************************)
(* A cursor never passes a message its client was not given: sequence      *)
(* numbers become visible in order, so that nothing can commit behind a    *)
(* cursor that a long poll has already answered with.                      *)
(***************************************************************************)
CursorNeverSkips ==
  \A w \in Waiters : \A n \in 1..cursor[w] : Listed(n) => n \in seen[w]

\* Why it holds: numbers are written in order, and neither a cursor nor a
\* page that is held has left one out.
NumbersInOrder ==
  /\ \A n \in Written : \A m \in 1..n : m \in Written
  /\ \A n \in reserved : n \notin Written /\ \A m \in 1..(n - 1) : m \in Written

CursorsBehind == \A w \in Waiters : \A n \in 1..cursor[w] : n \in Written

HeldPages ==
  \A w \in Waiters : \A n \in wait[w].page :
    /\ n \in Written /\ n > cursor[w]
    /\ \A m \in After(cursor[w]) : m < n => m \in wait[w].page

CursorInv ==
  /\ InboxTypeOK /\ PollTypeOK
  /\ NumbersInOrder /\ CursorsBehind /\ HeldPages /\ CursorNeverSkips

(***************************************************************************)
(* No lost wake-up: a request that waits although its inbox has a message  *)
(* for it has a notification on its way, unless the hub lost one; the      *)
(* subscription is taken out before the first query.                       *)
(***************************************************************************)
OnItsWay(r) ==
  \/ \E k \in DOMAIN buffer[r] : buffer[r][k] = "message.received"
  \/ \E k \in DOMAIN wire : wire[k] = "message.received"

WakeupPending ==
  \A w \in Waiters :
    wait[w].pc = "waiting" /\ DeliveriesSince(cursor[w]) # {} /\ w \notin missed
      => OnItsWay(w)

(***************************************************************************)
(* A dropped notification costs time and never a message (hub.go:20): a    *)
(* client that keeps polling is given every message that is not let go of  *)
(* before, whatever notifications and connections were lost.               *)
(***************************************************************************)
PollersSeeAll ==
  \A w \in Waiters, n \in Numbers :
    Listed(n) ~> n \in seen[w] \/ message[n] = "gone"

(***************************************************************************)
(* The cursor of a stream never passes a message it has not sent; and a    *)
(* live stream that nothing is on its way to has sent every message after  *)
(* the cursor it was opened with, unless the news of one was lost or its   *)
(* newest page was too full: a backlog of more than a page waits for the   *)
(* next notification, the catch-up being one page (stream.go:54).          *)
(***************************************************************************)
StreamIsComplete ==
  \A t \in Tabs, n \in Numbers :
    Listed(n) =>
      /\ n <= tab[t].position => n \in tab[t].sent
      /\ tab[t].stream = "live" /\ ~tab[t].behind /\ t \notin missed
           => n \in tab[t].sent \/ OnItsWay(t)

\* Why both hold: whoever waits or streams is registered with the hub before
\* it first reads, and what it has read reaches up to its cursor.
Registered ==
  /\ \A w \in Waiters : wait[w].pc # "idle" => w \in subscribed
  /\ \A t \in Tabs : tab[t].stream # "closed" => t \in subscribed

NewsPending ==
  \A w \in Waiters :
    wait[w].pc = "waiting" /\ After(cursor[w]) # {} /\ w \notin missed => OnItsWay(w)

TabsBehind ==
  \A t \in Tabs :
    /\ 1..tab[t].position \subseteq Written /\ 1..tab[t].last \subseteq Written
    /\ \A k \in DOMAIN tab[t].fetches :
         /\ 1..tab[t].fetches[k].since \subseteq Written
         /\ tab[t].fetches[k].page \subseteq Written

NewsInv ==
  /\ TypeOK /\ CursorInv
  /\ Registered /\ NewsPending
  /\ TabsBehind /\ StreamIsComplete

(***************************************************************************)
(* use-inbox.ts:16: a message that arrived while the connection was down   *)
(* must not be lost.  A tab that has heard everything and waits for no     *)
(* answer lists every message of the inbox, however its answers overtook   *)
(* each other, with three exceptions: the news of a message was lost; the  *)
(* newest page it was served had no room for all; or the newest whole list *)
(* it took was an older one than what it knew, for refreshParsed replaces  *)
(* the list without looking.  The last breaks the promise until the next   *)
(* message is parsed.                                                      *)
(***************************************************************************)
Quiet(t) ==
  /\ tab[t].stream = "live" /\ tab[t].sse = << >> /\ tab[t].fetches = << >>
  /\ buffer[t] = << >> /\ wire = << >>

QuietTabShowsAll ==
  \A t \in Tabs :
    Quiet(t) /\ t \notin missed /\ ~tab[t].cut /\ ~tab[t].forgot
      => \A n \in Numbers : Listed(n) => n \in tab[t].list

\* Why it holds: a tab knows what is up to its cursor, an answer has what it
\* accounts for, and what the stream has sent, and in the end whatever there
\* is, the tab knows or is about to.
Knows(x) ==
  /\ x.sent \subseteq Written /\ x.known \subseteq Written
  /\ 1..x.last \subseteq x.known
  /\ ~x.forgot => \A n \in x.known : Listed(n) => n \in x.list
  /\ \A k \in DOMAIN x.fetches :
       LET fetch == x.fetches[k]
       IN  /\ 1..fetch.since \subseteq x.known /\ fetch.known \subseteq Written
           /\ fetch.replace => fetch.since = 0
           /\ fetch.page \subseteq fetch.known
           /\ fetch.page # {} => 1..PageCursor(fetch.since, fetch.page) \subseteq fetch.known
           /\ \A n \in fetch.known : Listed(n) => n <= fetch.since \/ n \in fetch.page

Learns(x, news) ==
  x.sse = << >> /\ ~x.cut =>
    \A n \in news : Listed(n) =>
      \/ n \in x.known
      \/ \E k \in DOMAIN x.fetches : ~x.fetches[k].served \/ n \in x.fetches[k].known

KnowledgeInv ==
  \A t \in Tabs :
    /\ Knows(tab[t])
    /\ t \notin missed /\ tab[t].stream # "closed" => Learns(tab[t], tab[t].sent)
    /\ t \notin missed /\ tab[t].stream = "live" => Learns(tab[t], Numbers) \/ OnItsWay(t)

-----------------------------------------------------------------------------
(* The inbox that is read implements the same abstract mailbox as the      *)
(* pipeline that fills it, for an address that lets messages go.  What its *)
(* readers tell apart of a message it keeps is nothing to the mailbox, and *)
(* until the first message arrives it makes no difference whether the      *)
(* address was opened before.                                              *)

boxBar  == [i \in {"inbox"} |-> IF Written = {} THEN "absent" ELSE "open"]
nextBar == [i \in {"inbox"} |-> Cardinality(Written)]
mailBar == [i \in {"inbox"} |-> {n \in Numbers : Listed(n)}]

Abstract ==
  INSTANCE Mailbox WITH Perpetual <- {"inbox"}, Ephemeral <- {},
                        box <- boxBar, next <- nextBar, mail <- mailBar

(***************************************************************************)
(* Whatever commits, rolls back, is parsed, swept, announced or lost, what *)
(* readers can list of an inbox is what a mailbox would hold: messages     *)
(* come one by one under the next number, and one that is let go of stays  *)
(* away.                                                                   *)
(***************************************************************************)
ImplementsMailbox == Abstract!Spec
=============================================================================
