------------------------------ MODULE InboxTab ------------------------------
(***************************************************************************)
(* A browser tab on an inbox: the event stream the server keeps for it,    *)
(* and the list of messages the tab builds from what it fetches whenever   *)
(* an event arrives.                                                       *)
(*                                                                         *)
(* Source: internal/api/stream.go (stream) and web/src/lib/use-inbox.ts.   *)
(*                                                                         *)
(* The tab's handlers are asynchronous: several fetches can be under way   *)
(* at once, each is answered from what the inbox holds at some moment      *)
(* before its answer arrives, and answers arrive in any order.             *)
(***************************************************************************)
EXTENDS EventHub, SequencesExt

CONSTANT MaxRequests   \* bound: fetches a tab has under way

ASSUME MaxRequestsAssumption == MaxRequests \in Nat \ {0}

VARIABLE
  tab   \* stream: the server's end; position: its cursor; sse: events on their
        \* way to the tab; last: cursor.current; list: the query cache;
        \* fetches: listMessages calls under way, in the order they were made.
        \* History, which no step looks at: sent: what the stream has sent, or
        \* need not; known: the numbers that the answers the tab has had
        \* account for; behind: the newest page of the stream left messages
        \* out for want of room, and cut: so did the newest answer; forgot:
        \* the newest whole list accounted for less than the tab knew

tabVars == <<tab>>

Fetches ==
  [replace : BOOLEAN, since : 0..MaxMessages, served : BOOLEAN, page : SUBSET Numbers,
   known : SUBSET Numbers]

\* Replace: the whole list is fetched, by the query or by refreshParsed.
Fetch(replace, since) ==
  [replace |-> replace, since |-> since, served |-> FALSE, page |-> {}, known |-> {}]

Tab ==
  [stream : {"closed", "catchup", "live"}, position : 0..MaxMessages,
   sse : Seq({"open", "message.received", "message.parsed"}), last : 0..MaxMessages,
   list : SUBSET Numbers, fetches : Seq(Fetches), sent : SUBSET Numbers,
   known : SUBSET Numbers, behind : BOOLEAN, cut : BOOLEAN, forgot : BOOLEAN]

TabTypeOK == tab \in [Tabs -> Tab]

TabInit ==
  tab = [t \in Tabs |->
           [stream |-> "closed", position |-> 0, sse |-> << >>, last |-> 0,
            list |-> {}, fetches |-> <<Fetch(TRUE, 0)>>, sent |-> {}, known |-> {},
            behind |-> FALSE, cut |-> FALSE, forgot |-> FALSE]]

-----------------------------------------------------------------------------
(* The stream.                                                             *)

\* Deviation: the stream starts at the newest message.
ConnectAtEnd(t) ==
  /\ tab[t].stream = "closed"
  /\ Subscribe(t)
  /\ tab' = [tab EXCEPT ![t].stream = "catchup", ![t].position = Cardinality(Written),
                        ![t].sent = 1..tab[t].last, ![t].sse = <<"open">>]
  /\ UNCHANGED <<inboxVars, faults>>

\* The response's header reaches the tab as "open", before any event.
Connect(t) ==
  /\ tab[t].stream = "closed"
  /\ Subscribe(t)
  /\ tab' = [tab EXCEPT ![t].stream = "catchup", ![t].position = tab[t].last,
                        ![t].sent = 1..tab[t].last, ![t].sse = <<"open">>]
  /\ UNCHANGED <<inboxVars, faults>>

\* One event of this type per message of the page.
Send(t, type) ==
  LET page == DeliveriesSince(tab[t].position)
      copies == IF page = {} /\ type = "message.parsed" THEN 1 ELSE Cardinality(page)
  IN  tab' = [tab EXCEPT ![t].stream = "live",
                         ![t].position = PageCursor(@, page),
                         ![t].sent = @ \cup page,
                         ![t].behind = page # After(tab[t].position),
                         ![t].sse = @ \o [k \in 1..copies |-> type]]

CatchUp(t) ==
  /\ tab[t].stream = "catchup"
  /\ Send(t, "message.received")
  /\ UNCHANGED <<inboxVars, hubVars, faults>>

\* A catch-up that fails is not reported; the stream goes on without it, as
\* if a notification had been lost.
CatchUpFails(t) ==
  /\ tab[t].stream = "catchup"
  /\ Fault
  /\ tab' = [tab EXCEPT ![t].stream = "live"]
  /\ missed' = missed \cup {t}
  /\ UNCHANGED <<inboxVars, wire, listening, subscribed, buffer>>

\* The lifecycle events the tab listens to concern another query of its.
Relay(t) ==
  /\ tab[t].stream = "live"
  /\ Receive(t)
  /\ IF Head(buffer[t]) = "lifecycle"
     THEN UNCHANGED tab
     ELSE Send(t, Head(buffer[t]))
  /\ UNCHANGED <<inboxVars, faults>>

\* The connection breaks, or a query of the stream fails.
Break(t) ==
  /\ tab[t].stream # "closed"
  /\ Fault
  /\ tab' = [tab EXCEPT ![t].stream = "closed", ![t].sse = << >>]
  /\ Unsubscribe(t)
  /\ UNCHANGED inboxVars

-----------------------------------------------------------------------------
(* The tab.                                                                *)

\* catchUp fetches what follows the cursor as it stands; refreshParsed
\* everything.  Neither waits for the fetches under way: MaxRequests is only
\* the bound of the instance.
Hear(t) ==
  /\ tab[t].sse # << >>
  /\ Len(tab[t].fetches) < MaxRequests
  /\ LET fetch == IF Head(tab[t].sse) = "message.parsed"
                  THEN Fetch(TRUE, 0) ELSE Fetch(FALSE, tab[t].last)
     IN  tab' = [tab EXCEPT ![t].sse = Tail(@), ![t].fetches = Append(@, fetch)]
  /\ UNCHANGED <<inboxVars, hubVars, faults>>

\* A page accounts for everything that is written, a full one up to its end.
AccountedFor(since, page) ==
  IF page = After(since) THEN Written ELSE 1..PageCursor(since, page)

Serve(t, k) ==
  LET fetch == tab[t].fetches[k]
      page  == DeliveriesSince(fetch.since)
  IN  /\ ~fetch.served
      /\ tab' = [tab EXCEPT
           ![t].fetches[k] = [fetch EXCEPT !.served = TRUE, !.page = page,
                                           !.known = AccountedFor(fetch.since, page)],
           ![t].cut = page # After(fetch.since)]
      /\ UNCHANGED <<inboxVars, hubVars, faults>>

Forgets(t, fetch) ==
  IF fetch.replace THEN ~(tab[t].known \subseteq fetch.known) ELSE tab[t].forgot

\* Deviation: what catchUp fetched takes the place of the list.
ArriveReplacing(t, k) ==
  LET fetch == tab[t].fetches[k]
      page  == fetch.page
  IN  /\ fetch.served
      /\ tab' = [tab EXCEPT
           ![t].fetches = RemoveAt(@, k),
           ![t].last = IF fetch.replace \/ page # {}
                       THEN PageCursor(fetch.since, page) ELSE @,
           ![t].list = page,
           ![t].known = @ \cup fetch.known,
           ![t].forgot = Forgets(t, fetch)]
      /\ UNCHANGED <<inboxVars, hubVars, faults>>

\* An empty answer to catchUp changes nothing; a replacement always does.
Arrive(t, k) ==
  LET fetch == tab[t].fetches[k]
      page  == fetch.page
  IN  /\ fetch.served
      /\ tab' = [tab EXCEPT
           ![t].fetches = RemoveAt(@, k),
           ![t].last = IF fetch.replace \/ page # {}
                       THEN PageCursor(fetch.since, page) ELSE @,
           ![t].list = IF fetch.replace THEN page ELSE @ \cup page,
           ![t].known = @ \cup fetch.known,
           ![t].forgot = Forgets(t, fetch)]
      /\ UNCHANGED <<inboxVars, hubVars, faults>>

\* A fetch that fails is not repeated.
Lose(t, k) ==
  /\ Fault
  /\ tab' = [tab EXCEPT ![t].fetches = RemoveAt(@, k)]
  /\ missed' = missed \cup {t}
  /\ UNCHANGED <<inboxVars, wire, listening, subscribed, buffer>>

TabStep(t) ==
  \/ Connect(t) \/ CatchUp(t) \/ CatchUpFails(t) \/ Relay(t) \/ Break(t) \/ Hear(t)
  \/ \E k \in DOMAIN tab[t].fetches : Serve(t, k) \/ Arrive(t, k) \/ Lose(t, k)
=============================================================================
