------------------------------ MODULE EventHub ------------------------------
(***************************************************************************)
(* One inbox as its readers see it, and the hub that wakes them.           *)
(*                                                                         *)
(* Source: internal/events/hub.go, internal/store/pg/events.go             *)
(* (AppendEvent), internal/store/pg/deliveries.go (DeliveriesSince),       *)
(* internal/api/messages.go (messagePage).                                 *)
(*                                                                         *)
(* A message is written in one transaction that holds the inbox's row from *)
(* the moment it takes a sequence number; its notification leaves with the *)
(* commit, over the one LISTEN connection of the process, and is lost when *)
(* that connection is down or the subscriber's buffer is full.             *)
(***************************************************************************)
EXTENDS Integers, FiniteSets, Sequences

CONSTANTS
  Waiters,            \* clients that long-poll the inbox
  Tabs,               \* browser tabs that stream it
  SubscriberBuffer,   \* hub.go: subscriberBuffer
  PageSize,           \* messages.go: defaultPageSize
  MaxMessages,        \* bound: messages the inbox is ever sent
  MaxReminders,       \* bound: notifications that are not about a message
  MaxFaults           \* bound: broken connections and failed queries

Readers == Waiters \cup Tabs
Numbers == 1..MaxMessages

ASSUME ReadersAssumption == Waiters \cap Tabs = {}
ASSUME HubAssumption ==
  /\ SubscriberBuffer \in Nat \ {0}
  /\ PageSize \in Nat \ {0}
  /\ MaxMessages \in Nat
  /\ MaxReminders \in Nat
  /\ MaxFaults \in Nat

VARIABLES
  message,      \* what each sequence number stands for
  reserved,     \* numbers taken by transactions that have not ended
  wire,         \* notifications sent to the LISTEN connection, not yet read
  listening,    \* whether that connection is up
  subscribed,   \* readers registered with the hub
  buffer,       \* each subscriber's channel
  missed,       \* readers that lost the news of a message (history)
  reminders,
  faults

inboxVars == <<message, reserved, reminders>>
hubVars   == <<wire, listening, subscribed, buffer, missed>>

\* No reader of the inbox tells identity.* and message.expired apart.
Types == {"message.received", "message.parsed", "lifecycle"}

Listed(n) == message[n] \in {"received", "parsed", "failed"}
Written   == {n \in Numbers : message[n] # "none"}

InboxTypeOK ==
  /\ message \in [Numbers -> {"none", "received", "parsed", "failed", "gone"}]
  /\ reserved \subseteq Numbers

HubTypeOK ==
  /\ InboxTypeOK
  /\ wire \in Seq(Types)
  /\ listening \in BOOLEAN
  /\ subscribed \subseteq Readers
  /\ buffer \in [Readers -> Seq(Types)]
  /\ \A r \in Readers : Len(buffer[r]) <= SubscriberBuffer
  /\ missed \subseteq Readers
  /\ reminders \in 0..MaxReminders
  /\ faults \in 0..MaxFaults

HubInit ==
  /\ message = [n \in Numbers |-> "none"]
  /\ reserved = {}
  /\ wire = << >>
  /\ listening = FALSE
  /\ subscribed = {}
  /\ buffer = [r \in Readers |-> << >>]
  /\ missed = {}
  /\ reminders = 0
  /\ faults = 0

-----------------------------------------------------------------------------
(* What a query returns: the first PageSize messages after a cursor, and   *)
(* the cursor that page moves its reader to.                               *)

After(since) == {n \in Numbers : n > since /\ Listed(n)}

DeliveriesSince(since) ==
  {n \in After(since) : Cardinality({m \in After(since) : m < n}) < PageSize}

\* An empty page leaves the caller's cursor where it was.
PageCursor(since, page) ==
  IF page = {} THEN since ELSE CHOOSE n \in page : \A m \in page : m <= n

AllParsed(page) == \A n \in page : message[n] # "received"

-----------------------------------------------------------------------------
(* The inbox.                                                              *)

Fault == faults < MaxFaults /\ faults' = faults + 1

Notify(type) ==
  /\ wire' = IF listening THEN Append(wire, type) ELSE wire
  /\ missed' = IF listening \/ type # "message.received"
               THEN missed ELSE missed \cup subscribed
  /\ UNCHANGED <<listening, subscribed, buffer>>

\* Deviation: the number is read and written back without holding the row.
ReserveUnlocked(n) ==
  /\ n \notin Written \cup reserved /\ n - 1 \in Written \cup reserved \cup {0}
  /\ reserved' = reserved \cup {n}
  /\ UNCHANGED <<message, reminders, hubVars, faults>>

\* UPDATE ... SET delivery_seq = delivery_seq + 1 waits for the row's holder.
Reserve(n) ==
  /\ reserved = {}
  /\ n \notin Written /\ n - 1 \in Written \cup {0}
  /\ reserved' = {n}
  /\ UNCHANGED <<message, reminders, hubVars, faults>>

Commit(n) ==
  /\ n \in reserved
  /\ reserved' = reserved \ {n}
  /\ message' = [message EXCEPT ![n] = "received"]
  /\ Notify("message.received")
  /\ UNCHANGED <<reminders, faults>>

Rollback(n) ==
  /\ n \in reserved
  /\ reserved' = reserved \ {n}
  /\ Fault
  /\ UNCHANGED <<message, reminders, hubVars>>

Parsed(n) ==
  /\ message[n] = "received"
  /\ message' = [message EXCEPT ![n] = "parsed"]
  /\ Notify("message.parsed")
  /\ UNCHANGED <<reserved, reminders, faults>>

\* A parse that fails announces nothing.
Unparsable(n) ==
  /\ message[n] = "received"
  /\ message' = [message EXCEPT ![n] = "failed"]
  /\ UNCHANGED <<reserved, reminders, hubVars, faults>>

\* A sweep updates the inbox's row too, so it waits for the row's holder.
LetGo(n) ==
  /\ Listed(n)
  /\ reserved = {}
  /\ message' = [message EXCEPT ![n] = "gone"]
  /\ Notify("lifecycle")
  /\ UNCHANGED <<reserved, reminders, faults>>

Remind ==
  /\ reminders < MaxReminders
  /\ reminders' = reminders + 1
  /\ Notify("lifecycle")
  /\ UNCHANGED <<message, reserved, faults>>

InboxStep ==
  \/ \E n \in Numbers :
       Reserve(n) \/ Commit(n) \/ Rollback(n) \/ Parsed(n) \/ Unparsable(n) \/ LetGo(n)
  \/ Remind

-----------------------------------------------------------------------------
(* The hub.                                                                *)

Listen ==
  /\ ~listening
  /\ listening' = TRUE
  /\ UNCHANGED <<inboxVars, wire, subscribed, buffer, missed, faults>>

\* The connection fails with the notifications it still held.
Drop ==
  /\ listening
  /\ Fault
  /\ listening' = FALSE
  /\ wire' = << >>
  /\ missed' = IF \E k \in DOMAIN wire : wire[k] = "message.received"
               THEN missed \cup subscribed ELSE missed
  /\ UNCHANGED <<inboxVars, subscribed, buffer>>

\* Deviation: the channel is taken to have room for one more than it has.
HasRoomForOneMore(r) == Len(buffer[r]) <= SubscriberBuffer

HasRoom(r) == Len(buffer[r]) < SubscriberBuffer

\* The whole round of sends happens under the read lock; a full subscriber is
\* skipped.
Dispatch ==
  /\ listening /\ wire # << >>
  /\ wire' = Tail(wire)
  /\ buffer' = [r \in Readers |->
                  IF r \in subscribed /\ HasRoom(r)
                  THEN Append(buffer[r], Head(wire)) ELSE buffer[r]]
  /\ missed' = IF Head(wire) = "message.received"
               THEN missed \cup {r \in subscribed : ~HasRoom(r)} ELSE missed
  /\ UNCHANGED <<inboxVars, listening, subscribed, faults>>

HubStep == Listen \/ Drop \/ Dispatch

\* What the readers do to the hub.  A channel is not reused.
Subscribe(r) ==
  /\ r \notin subscribed
  /\ subscribed' = subscribed \cup {r}
  /\ missed' = missed \ {r}
  /\ UNCHANGED <<wire, listening, buffer>>

Unsubscribe(r) ==
  /\ subscribed' = subscribed \ {r}
  /\ buffer' = [buffer EXCEPT ![r] = << >>]
  /\ UNCHANGED <<wire, listening, missed>>

\* Deviation: a reader that wakes drains its channel and looks at the first
\* notification only.
ReceiveDraining(r) ==
  /\ buffer[r] # << >>
  /\ buffer' = [buffer EXCEPT ![r] = << >>]
  /\ UNCHANGED <<wire, listening, subscribed, missed>>

Receive(r) ==
  /\ buffer[r] # << >>
  /\ buffer' = [buffer EXCEPT ![r] = Tail(@)]
  /\ UNCHANGED <<wire, listening, subscribed, missed>>
=============================================================================
