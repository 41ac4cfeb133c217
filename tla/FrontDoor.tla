------------------------------ MODULE FrontDoor ------------------------------
(***************************************************************************)
(* Both ways a public inbox comes into being, over one set of rows: a      *)
(* client asks for a name over HTTP, or mail arrives for it over SMTP.     *)
(***************************************************************************)
EXTENDS Admission

vars == <<rowVars, bucketVars, openVars, doorVars>>

Init == NamesInit /\ AdmissionInit

Next ==
  \/ NamesStep /\ UNCHANGED doorVars
  \/ AdmissionStep

Spec == Init /\ [][Next]_vars

-----------------------------------------------------------------------------
(* Type correctness of the rows, the buckets and everybody's requests.     *)
TypeOK == NamesTypeOK /\ AdmissionTypeOK

(***************************************************************************)
(* An inbox is announced by the one transaction that made it, however many *)
(* readers and senders reached its name at the same time.                  *)
(***************************************************************************)
AnnouncedOnce ==
  \A a \in Addresses : announced[a] = (IF inbox[a].state = "live" THEN 1 ELSE 0)

(***************************************************************************)
(* No client is given an address, and no message is taken for one, whose   *)
(* inbox could still vanish with the transaction that makes it.            *)
(***************************************************************************)
AnswersAreLive ==
  /\ \A n \in Names : answered[n] \subseteq Live(n)
  /\ \A a \in accepted : inbox[a].state = "live"

(***************************************************************************)
(* What a client or a source can mint is bounded by its budget, and what   *)
(* all sources mint together by the global one: every inbox made was paid  *)
(* for by whoever made it.                                                 *)
(***************************************************************************)
MadeBy(actors) == {a \in Addresses : inbox[a].by \in actors}

CreatedIsPaid ==
  /\ \A c \in Openers : Cardinality(MadeBy({c})) <= spent[c]
  /\ \A i \in Sources :
       Cardinality(MadeBy({s \in Senders : SourceOf(s) = i})) <= spent[i]
  /\ Cardinality(MadeBy(Senders)) <= spent[Global]
  /\ \A k \in Buckets : spent[k] <= Capacity(k) + refilled[k]

(***************************************************************************)
(* A slot is given back once, however often and by whomever a connection   *)
(* is closed: the count is that of the connections that are open.          *)
(***************************************************************************)
SlotsExact ==
  \A i \in Sources :
    slots[i] = Cardinality({s \in Senders : SourceOf(s) = i /\ conn[s] = "open"})

\* Why both hold.  Whoever has paid and not yet inserted counts as having made
\* one; what a bucket has spent covers those too.
Dues(c) == IF open[c].pc \in {"paid", "begun", "unplaced"} THEN 1 ELSE 0

Owing(senders) ==
  {s \in senders : smtp[s].pc \in {"named", "begun"} /\ smtp[s].provision}

Covered(senders, k) ==
  /\ IsFiniteSet(MadeBy(senders)) /\ IsFiniteSet(Owing(senders))
  /\ Cardinality(MadeBy(senders)) + Cardinality(Owing(senders)) <= spent[k]

PaidInv ==
  /\ \A c \in Openers : /\ IsFiniteSet(MadeBy({c}))
                         /\ Cardinality(MadeBy({c})) + Dues(c) <= spent[c]
  /\ \A i \in Sources : Covered({s \in Senders : SourceOf(s) = i}, i)
  /\ Covered(Senders, Global)
  /\ \A k \in Buckets : spent[k] <= Capacity(k) + refilled[k]

OpenFrom(i) == {s \in Senders : SourceOf(s) = i /\ conn[s] = "open"}

SlotsInv == \A i \in Sources : IsFiniteSet(OpenFrom(i)) /\ slots[i] = Cardinality(OpenFrom(i))

(***************************************************************************)
(* An inbox opened over HTTP lies on a domain that handed out addresses at *)
(* some moment of the request, although the domain is read before the      *)
(* transaction that uses it.                                               *)
(***************************************************************************)
OpenedWhereAllocatable ==
  \A a \in Addresses : \A c \in Openers :
    Created(a, c) => a[2] \in open[c].allocatable

(***************************************************************************)
(* identities.go:257: someone who types a name twice must reach the same   *)
(* messages both times.  Once every transaction that began before a name's *)
(* inbox has ended, no domain change, no mail to the name on another       *)
(* domain and no race moves the name to another inbox.  Before that an     *)
(* older transaction may still commit, and take the name over: NamePinned  *)
(* does not hold.                                                          *)
(***************************************************************************)
Births ==
  {open[c].born : c \in {c \in Openers : open[c].pc \in {"begun", "unplaced", "placed"}}}
    \cup {smtp[s].born : s \in {s \in Senders : smtp[s].pc \in {"begun", "placed"}}}

Settled(n) ==
  \E d \in Preferred(n) : \A born \in Births : inbox[<<n, d>>].born < born

PinnedOnceSettled ==
  [][\A n \in Names : Settled(n) => Preferred(n)' = Preferred(n)]_vars

NamePinned ==
  [][\A n \in Names : Preferred(n) # {} => Preferred(n)' = Preferred(n)]_vars
=============================================================================
