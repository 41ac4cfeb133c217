------------------------------ MODULE Mailbox ------------------------------
(***************************************************************************)
(* What the mail pipeline promises, with no rows, bytes, keys, locks or    *)
(* jobs: an address is opened once, receives numbered messages while it is *)
(* open, and is closed once.  A message that was delivered stays readable  *)
(* until its shared inbox lets it go or its closed box is emptied for      *)
(* good; an address that is gone never comes back.                         *)
(***************************************************************************)
EXTENDS Integers

CONSTANTS
  Perpetual,   \* addresses that never close, but let messages go
  Ephemeral    \* addresses that close, and then lose everything at once

Addresses == Perpetual \cup Ephemeral

VARIABLES
  box,    \* "absent", "open", "closed" or "gone"
  next,   \* how many messages each address was ever sent
  mail    \* the sequence numbers of the messages that can be read

boxVars == <<box, next, mail>>

Init ==
  /\ box  = [a \in Addresses |-> "absent"]
  /\ next = [a \in Addresses |-> 0]
  /\ mail = [a \in Addresses |-> {}]

Open(a) ==
  /\ box[a] = "absent"
  /\ box' = [box EXCEPT ![a] = "open"]
  /\ UNCHANGED <<next, mail>>

\* One message to a set of addresses: all of them get it, or none.  Sending
\* to a perpetual address that does not exist yet opens it.
Deliver(R) ==
  /\ \A a \in R : box[a] = "open" \/ (box[a] = "absent" /\ a \in Perpetual)
  /\ box'  = [a \in Addresses |-> IF a \in R THEN "open" ELSE box[a]]
  /\ next' = [a \in Addresses |-> IF a \in R THEN next[a] + 1 ELSE next[a]]
  /\ mail' = [a \in Addresses |->
                IF a \in R THEN mail[a] \cup {next[a] + 1} ELSE mail[a]]

Close(R) ==
  /\ \A a \in R : a \in Ephemeral /\ box[a] = "open"
  /\ box' = [a \in Addresses |-> IF a \in R THEN "closed" ELSE box[a]]
  /\ UNCHANGED <<next, mail>>

LetGo(a, M) ==
  /\ a \in Perpetual
  /\ mail' = [mail EXCEPT ![a] = @ \ M]
  /\ UNCHANGED <<box, next>>

Empty(a) ==
  /\ box[a] = "closed"
  /\ box'  = [box EXCEPT ![a] = "gone"]
  /\ mail' = [mail EXCEPT ![a] = {}]
  /\ UNCHANGED next

Next ==
  \/ \E a \in Addresses : Open(a) \/ Empty(a)
  \/ \E R \in SUBSET Addresses : Deliver(R) \/ Close(R)
  \/ \E a \in Addresses : \E M \in SUBSET mail[a] : LetGo(a, M)

Spec == Init /\ [][Next]_boxVars
=============================================================================
