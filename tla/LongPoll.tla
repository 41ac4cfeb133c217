------------------------------ MODULE LongPoll ------------------------------
(***************************************************************************)
(* Long polls: a request subscribes, reads one page after its cursor,      *)
(* waits for a message when there is none, holds the page for a moment     *)
(* while it is parsed, and answers.                                        *)
(*                                                                         *)
(* Source: internal/api/wait.go (wait, settle).  The client is an agent    *)
(* that passes back the cursor it was last given.                          *)
(***************************************************************************)
EXTENDS EventHub

VARIABLES
  wait,     \* each waiter's request
  cursor,   \* the cursor each client was last given
  seen      \* the messages each client was given (history)

pollVars == <<wait, cursor, seen>>

\* page is what settle holds.
NoRequest == [pc |-> "idle", page |-> {}]

PollTypeOK ==
  /\ wait \in [Waiters -> [pc : {"idle", "first", "waiting", "reread",
                                 "holding", "refresh"},
                           page : SUBSET Numbers]]
  /\ cursor \in [Waiters -> 0..MaxMessages]
  /\ seen \in [Waiters -> SUBSET Numbers]

PollInit ==
  /\ wait = [w \in Waiters |-> NoRequest]
  /\ cursor = [w \in Waiters |-> 0]
  /\ seen = [w \in Waiters |-> {}]

GoTo(w, pc, page) == wait' = [wait EXCEPT ![w] = [pc |-> pc, page |-> page]]

-----------------------------------------------------------------------------
Request(w) ==
  /\ wait[w].pc = "idle"
  /\ Subscribe(w)
  /\ GoTo(w, "first", {})
  /\ UNCHANGED <<inboxVars, faults, cursor, seen>>

Answer(w, page) ==
  /\ cursor' = [cursor EXCEPT ![w] = PageCursor(@, page)]
  /\ seen' = [seen EXCEPT ![w] = @ \cup page]
  /\ wait' = [wait EXCEPT ![w] = NoRequest]
  /\ Unsubscribe(w)
  /\ UNCHANGED <<inboxVars, faults>>

\* The first query, and the one that follows each wake-up.
Reading(w) == wait[w].pc \in {"first", "reread", "refresh"}

NothingYet(w) ==
  /\ wait[w].pc \in {"first", "reread"}
  /\ DeliveriesSince(cursor[w]) = {}
  /\ GoTo(w, "waiting", {})
  /\ UNCHANGED <<inboxVars, hubVars, faults, cursor, seen>>

Hold(w) ==
  /\ Reading(w)
  /\ LET page == DeliveriesSince(cursor[w])
     IN  ~AllParsed(page) /\ GoTo(w, "holding", page)
  /\ UNCHANGED <<inboxVars, hubVars, faults, cursor, seen>>

\* A page that has become empty while it was held counts as parsed.
AnswerParsed(w) ==
  LET page == DeliveriesSince(cursor[w])
  IN  /\ Reading(w) /\ AllParsed(page)
      /\ page # {} \/ wait[w].pc = "refresh"
      /\ Answer(w, page)

Wakes(w, type) ==
  \/ type = "message.received"
  \/ type = "message.parsed" /\ wait[w].pc = "holding"

Wake(w) ==
  /\ wait[w].pc \in {"waiting", "holding"}
  /\ Receive(w)
  /\ IF Wakes(w, Head(buffer[w]))
     THEN GoTo(w, IF wait[w].pc = "waiting" THEN "reread" ELSE "refresh", wait[w].page)
     ELSE UNCHANGED wait
  /\ UNCHANGED <<inboxVars, faults, cursor, seen>>

Poll(w) ==
  /\ wait[w].pc = "holding"
  /\ GoTo(w, "refresh", wait[w].page)
  /\ UNCHANGED <<inboxVars, hubVars, faults, cursor, seen>>

\* Deviation: a page is held until it is parsed.
GiveUpWhenParsed(w) ==
  /\ wait[w].pc = "holding"
  /\ AllParsed(wait[w].page)
  /\ Answer(w, wait[w].page)

\* The parse grace or the request's deadline ends.
GiveUp(w) ==
  /\ wait[w].pc = "holding"
  /\ Answer(w, wait[w].page)

TimeOut(w) ==
  /\ wait[w].pc = "waiting"
  /\ Answer(w, {})

\* The caller hangs up, or a query fails: the client is left with the cursor
\* it had.
HangUp(w) ==
  /\ wait[w].pc # "idle"
  /\ Fault
  /\ wait' = [wait EXCEPT ![w] = NoRequest]
  /\ Unsubscribe(w)
  /\ UNCHANGED <<inboxVars, cursor, seen>>

PollStep(w) ==
  \/ Request(w) \/ NothingYet(w) \/ Hold(w) \/ AnswerParsed(w)
  \/ Wake(w) \/ Poll(w) \/ GiveUp(w) \/ TimeOut(w) \/ HangUp(w)
=============================================================================
