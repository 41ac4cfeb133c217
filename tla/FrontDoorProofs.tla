--------------------------- MODULE FrontDoorProofs ---------------------------
(***************************************************************************)
(* Why an inbox has one maker who paid for it, nobody is given one that    *)
(* may vanish, a settled name stays where it is and no connection slot is  *)
(* lost, for every value of the constants.                                 *)
(*                                                                         *)
(* Rows: an uncommitted row is held by the one request or transaction that *)
(* inserted it (PendingIsHeld), and what is committed stays (LiveGrows).   *)
(*                                                                         *)
(* Budgets: a token is spent before a row is inserted, so a bucket has     *)
(* paid for the rows that its payers made and for those they are about to  *)
(* make (PaidInv).                                                         *)
(*                                                                         *)
(* Slots: those of a source are its open connections (SlotsInv).           *)
(***************************************************************************)
EXTENDS FrontDoor, FiniteSetTheorems, TLAPS

\* A row that is not committed belongs to the request or transaction that
\* inserted it, and was born with it.
HeldByRequest(a, c) ==
  /\ open[c].pc = "placed" /\ a = <<open[c].name, open[c].target>>
  /\ inbox[a].by = c /\ inbox[a].born = open[c].born

HeldByTransaction(a, s) ==
  /\ smtp[s].pc = "placed" /\ a = smtp[s].to
  /\ inbox[a].by = s /\ inbox[a].born = smtp[s].born

PendingIsHeld ==
  \A a \in Addresses :
    inbox[a].state = "pending" =>
      (\E c \in Openers : HeldByRequest(a, c)) \/ (\E s \in Senders : HeldByTransaction(a, s))

\* CreateIdentityIfAbsent returns with a row that is committed or its own.
PlacedIsThere ==
  /\ \A c \in Openers : open[c].pc = "placed" =>
       /\ open[c].target # Anywhere
       /\ \/ inbox[<<open[c].name, open[c].target>>].state = "live"
          \/ Created(<<open[c].name, open[c].target>>, c)
  /\ \A s \in Senders : smtp[s].pc = "placed" =>
       inbox[smtp[s].to].state = "live" \/ Created(smtp[s].to, s)
  /\ \A s \in Senders :
       smtp[s].pc # "idle" /\ ~smtp[s].provision => inbox[smtp[s].to].state = "live"

\* A request knows every domain that handed out addresses since it began,
\* and goes to one of those.
TargetAllocatable ==
  \A c \in Openers :
    /\ open[c].pc # "idle" => AllocatableDomains \subseteq open[c].allocatable
    /\ open[c].pc \in {"paid", "begun", "unplaced", "placed"} /\ open[c].target # Anywhere =>
         open[c].target \in open[c].allocatable

IInv ==
  /\ TypeOK
  /\ AnnouncedOnce
  /\ AnswersAreLive
  /\ PendingIsHeld
  /\ PlacedIsThere
  /\ TargetAllocatable

USE NamesAssumption, LimitAssumption
USE DEF Senders, Actors, Domains, Addresses, Anywhere, Global, Buckets

(***************************************************************************)
(* A set of domains, a client's request and a session's transaction are    *)
(* well formed when their parts are.                                       *)
(***************************************************************************)
LEMMA NothingYet ==
  /\ NoOpen \in OpenRequest
  /\ NoTransaction \in Transaction
  /\ NoInbox \in Row
<1>1. PICK n \in Names : TRUE
  OBVIOUS
<1>2. (CHOOSE m \in Names : TRUE) \in Names
  BY <1>1
<1>3. <<n, 1>> \in Addresses
  BY <1>1
<1>4. (CHOOSE a \in Addresses : TRUE) \in Addresses
  BY <1>3
<1> QED
  BY <1>2, <1>4 DEF NoOpen, OpenRequest, NoTransaction, Transaction, NoInbox, Row

(* At first there is no row, no request and no transaction.                *)
LEMMA InitSafe == Init => IInv
<1> SUFFICES ASSUME Init PROVE IInv
  OBVIOUS
<1>1. TypeOK
  BY NothingYet DEF Init, NamesInit, AdmissionInit, TypeOK, NamesTypeOK, AdmissionTypeOK,
     RowsTypeOK, BucketsTypeOK, OpenTypeOK, NoInbox
<1> QED
  BY <1>1 DEF Init, NamesInit, AdmissionInit, IInv, AnnouncedOnce, AnswersAreLive,
    PendingIsHeld, PlacedIsThere, TargetAllocatable, NoInbox, NoOpen, NoTransaction,
    Live, Created

(***************************************************************************)
(* A request goes from one well formed state to another.                   *)
(***************************************************************************)
LEMMA RequestReplaced ==
  ASSUME OpenTypeOK, NEW c \in Openers, NEW r \in OpenRequest,
         open' = [open EXCEPT ![c] = r], UNCHANGED answered
  PROVE  OpenTypeOK'
BY DEF OpenTypeOK

(* An answer ends the request it is given to.                              *)
LEMMA RequestAnswered ==
  ASSUME OpenTypeOK, NEW c \in Openers, NEW n \in Names, NEW d \in Domains,
         GiveAnswer(c, n, d)
  PROVE  OpenTypeOK'
BY NothingYet DEF OpenTypeOK, GiveAnswer

(* A step of a request leaves all requests well formed.                    *)
LEMMA RequestsTyped ==
  ASSUME OpenTypeOK, RowsTypeOK, PlacedIsThere, NEW c \in Openers, OpenStep(c)
  PROVE  OpenTypeOK'
<1> DEFINE request == open[c]
<1>0. request \in OpenRequest
  BY DEF OpenTypeOK
<1>1. ASSUME NEW n \in Names, NEW w \in Domains \cup {Anywhere}, OpenExisting(c, n, w)
      PROVE  OpenTypeOK'
  BY <1>1, RequestAnswered DEF OpenExisting, Target, Preferred, Live
<1>2. ASSUME NEW n \in Names, NEW w \in Domains \cup {Anywhere}, OpenMissing(c, n, w)
      PROVE  OpenTypeOK'
  <2> DEFINE r == [NoOpen EXCEPT !.pc = "missing", !.name = n, !.where = w,
                                 !.allocatable = AllocatableDomains]
  <2>1. r \in OpenRequest
    BY NothingYet DEF OpenRequest, AllocatableDomains
  <2>2. open' = [open EXCEPT ![c] = r] /\ UNCHANGED answered
    BY <1>2 DEF OpenMissing
  <2> QED
    BY <2>1, <2>2, RequestReplaced
<1>3. CASE OpenRefused(c) \/ OpenNowhere(c) \/ OpenFails(c)
  BY <1>3, NothingYet, RequestReplaced DEF OpenRefused, OpenNowhere, OpenFails
<1>4. CASE OpenPay(c)
  <2> DEFINE r == [request EXCEPT !.pc = "paid", !.target = request.where]
  <2>1. r \in OpenRequest
    BY <1>0 DEF OpenRequest
  <2>2. open' = [open EXCEPT ![c] = r] /\ UNCHANGED answered
    BY <1>4 DEF OpenPay, OpenTypeOK
  <2> QED
    BY <2>1, <2>2, RequestReplaced
<1>5. CASE OpenBegin(c)
  <2> DEFINE r == [request EXCEPT !.pc = "begun", !.born = clock']
  <2>1. clock' \in 0..MaxTransactions
    BY <1>5 DEF OpenBegin, Begin, RowsTypeOK
  <2>2. r \in OpenRequest
    BY <1>0, <2>1 DEF OpenRequest
  <2>3. open' = [open EXCEPT ![c] = r] /\ UNCHANGED answered
    BY <1>5 DEF OpenBegin, OpenTypeOK
  <2> QED
    BY <2>2, <2>3, RequestReplaced
<1>6. CASE OpenFound(c)
  BY <1>0, <1>6, RequestAnswered DEF OpenFound, Preferred, Live, OpenRequest
<1>7. ASSUME NEW pc \in {"unplaced", "placed"}, Step(c, pc), UNCHANGED answered
      PROVE  OpenTypeOK'
  <2> DEFINE r == [request EXCEPT !.pc = pc]
  <2>1. r \in OpenRequest
    BY <1>0 DEF OpenRequest
  <2>2. open' = [open EXCEPT ![c] = r]
    BY <1>7 DEF Step, OpenTypeOK
  <2> QED
    BY <1>7, <2>1, <2>2, RequestReplaced
<1>8. CASE OpenSelect(c)
  <2>1. PICK d \in Domains : open' = [open EXCEPT ![c].pc = "begun", ![c].target = d]
    BY <1>8 DEF OpenSelect, SelectNamedDomain, AllocatableDomains
  <2> DEFINE r == [request EXCEPT !.pc = "begun", !.target = d]
  <2>2. r \in OpenRequest
    BY <1>0 DEF OpenRequest
  <2>3. open' = [open EXCEPT ![c] = r] /\ UNCHANGED answered
    BY <1>8, <2>1 DEF OpenSelect, OpenTypeOK
  <2> QED
    BY <2>2, <2>3, RequestReplaced
<1>9. CASE OpenCommit(c)
  BY <1>0, <1>9, RequestAnswered DEF OpenCommit, OpenRequest, PlacedIsThere
<1> QED
  BY <1>1, <1>2, <1>3, <1>4, <1>5, <1>6, <1>7, <1>8, <1>9
  DEF OpenStep, OpenUnknown, OpenInsert

(***************************************************************************)
(* The three ways a transaction touches a row, seen by everybody else: a   *)
(* committed row stays, and its one announcement with it; a row that is    *)
(* not committed is only touched by whoever inserted it.                   *)
(***************************************************************************)
RowsSafe == RowsTypeOK /\ AnnouncedOnce

LiveStays == \A a \in Addresses : inbox[a].state = "live" => inbox'[a] = inbox[a]

OthersStay(who) ==
  \A a \in Addresses :
    inbox[a].state = "pending" /\ inbox[a].by # who => inbox'[a] = inbox[a]

(* An insert makes at most the row it is for, as the row of whoever        *)
(* inserts it, and takes no committed row away.                            *)
LEMMA InsertRow ==
  ASSUME RowsSafe, NEW a \in Addresses, NEW who \in Actors, NEW born \in 0..MaxTransactions,
         CreateIdentityIfAbsent(a, who, born),
         UNCHANGED <<domain, announced, clock, changes, faults>>
  PROVE  /\ RowsSafe' /\ LiveStays /\ OthersStay(who)
         /\ inbox'[a].state = "live" \/ Created(a, who)'
         /\ \A b \in Addresses : inbox'[b].state = "pending" =>
              inbox'[b] = inbox[b] \/ (b = a /\ inbox'[a].by = who /\ inbox'[a].born = born)
<1> USE DEF RowsSafe, RowsTypeOK
<1> DEFINE row == [state |-> "pending", born |-> born, by |-> who]
<1>1. inbox[a].state = "live" \/ inbox[a].state = "absent"
  BY DEF CreateIdentityIfAbsent, Row
<1>2. row \in Row
  BY DEF Row
<1>3. CASE inbox[a].state = "live"
  <2>1. inbox' = inbox
    BY <1>3 DEF CreateIdentityIfAbsent
  <2> QED
    BY <1>3, <2>1 DEF AnnouncedOnce, LiveStays, OthersStay
<1>4. CASE inbox[a].state = "absent"
  <2>1. inbox' = [inbox EXCEPT ![a] = row]
    BY <1>4 DEF CreateIdentityIfAbsent
  <2>2. \A b \in Addresses : inbox'[b] = IF b = a THEN row ELSE inbox[b]
    BY <2>1
  <2>3. RowsTypeOK'
    BY <1>2, <2>1
  <2>4. row.state = "pending" /\ row.by = who /\ row.born = born
    OBVIOUS
  <2> HIDE DEF row
  <2> QED
    BY <1>4, <2>2, <2>3, <2>4 DEF AnnouncedOnce, LiveStays, OthersStay, Created
<1> QED
  BY <1>1, <1>3, <1>4

(* A commit turns at most the row of its own transaction into a committed  *)
(* one, and announces it.                                                  *)
LEMMA CommittedRow ==
  ASSUME RowsSafe, NEW a \in Addresses, NEW who, CommitRow(a, who),
         UNCHANGED <<domain, clock, changes, faults>>
  PROVE  /\ RowsSafe' /\ LiveStays /\ OthersStay(who)
         /\ inbox[a].state = "live" \/ Created(a, who) => inbox'[a].state = "live"
         /\ \A b \in Addresses : inbox'[b].state = "pending" =>
              inbox'[b] = inbox[b] /\ ~(b = a /\ inbox[b].by = who)
<1> USE DEF RowsSafe, RowsTypeOK
<1>1. CASE ~Created(a, who)
  BY <1>1 DEF CommitRow, AnnouncedOnce, LiveStays, OthersStay, Created
<1>2. CASE Created(a, who)
  <2> DEFINE row == [inbox[a] EXCEPT !.state = "live"]
  <2>0. inbox[a] \in Row /\ inbox[a].state = "pending" /\ announced[a] = 0
    BY <1>2 DEF Created, AnnouncedOnce
  <2>1. row \in Row /\ row.state = "live"
    <3> HIDE DEF RowsSafe, RowsTypeOK
    <3> QED
      BY <2>0 DEF Row
  <2>2. inbox' = [inbox EXCEPT ![a] = row] /\ announced' = [announced EXCEPT ![a] = @ + 1]
    BY <1>2 DEF CommitRow
  <2> HIDE DEF row
  <2>3. RowsTypeOK'
    <3>1. inbox' \in [Addresses -> Row]
      BY <2>1, <2>2
    <3>2. announced' \in [Addresses -> Nat]
      BY <2>0, <2>2
    <3> QED
      BY <3>1, <3>2
  <2>4. \A b \in Addresses : inbox'[b] = IF b = a THEN row ELSE inbox[b]
    BY <2>2
  <2>5. AnnouncedOnce'
    <3>1. \A b \in Addresses : announced'[b] = IF b = a THEN 1 ELSE announced[b]
      BY <2>0, <2>2
    <3> QED
      BY <2>1, <2>4, <3>1 DEF AnnouncedOnce
  <2> QED
    BY <1>2, <2>1, <2>3, <2>4, <2>5 DEF LiveStays, OthersStay, Created
<1> QED
  BY <1>1, <1>2

(* A rollback takes away at most the row of its own transaction.           *)
LEMMA RolledBackRow ==
  ASSUME RowsSafe, NEW a, NEW who, RollbackRow(a, who), faults' \in 0..MaxFaults,
         UNCHANGED <<domain, announced, clock, changes>>
  PROVE  /\ RowsSafe' /\ LiveStays /\ OthersStay(who)
         /\ \A b \in Addresses : inbox'[b].state = "pending" =>
              inbox'[b] = inbox[b] /\ ~(b = a /\ inbox[b].by = who)
<1> USE DEF RowsSafe, RowsTypeOK
<1>1. CASE ~Created(a, who)
  BY <1>1 DEF RollbackRow, AnnouncedOnce, LiveStays, OthersStay, Created
<1>2. CASE Created(a, who)
  <2>1. NoInbox \in Row /\ NoInbox.state = "absent"
    BY NothingYet DEF NoInbox
  <2>2. a \in Addresses /\ inbox' = [inbox EXCEPT ![a] = NoInbox]
    BY <1>2 DEF RollbackRow, Created
  <2>3. RowsTypeOK'
    BY <2>1, <2>2
  <2>4. \A b \in Addresses : inbox'[b] = IF b = a THEN NoInbox ELSE inbox[b]
    BY <2>2
  <2> QED
    BY <1>2, <2>1, <2>3, <2>4 DEF AnnouncedOnce, LiveStays, OthersStay, Created
<1> QED
  BY <1>1, <1>2

(***************************************************************************)
(* Answers given stay good as long as committed rows stay.                 *)
(***************************************************************************)
LEMMA AnswersKept ==
  ASSUME TypeOK, AnswersAreLive, LiveStays, UNCHANGED <<answered, accepted>>
  PROVE  AnswersAreLive'
BY DEF TypeOK, NamesTypeOK, OpenTypeOK, AdmissionTypeOK, AnswersAreLive, LiveStays, Live

(* A client may be given an address whose row is committed.                *)
LEMMA AnswerGiven ==
  ASSUME TypeOK, AnswersAreLive, LiveStays, NEW c \in Openers, NEW n \in Names,
         NEW d \in Domains, inbox'[<<n, d>>].state = "live", GiveAnswer(c, n, d),
         UNCHANGED accepted
  PROVE  AnswersAreLive'
<1>1. \A m \in Names : answered'[m] = IF m = n THEN answered[m] \cup {d} ELSE answered[m]
  BY DEF TypeOK, NamesTypeOK, OpenTypeOK, GiveAnswer
<1>2. \A m \in Names : \A e \in answered'[m] : e \in Domains /\ inbox'[<<m, e>>].state = "live"
  <2> TAKE m \in Names
  <2> TAKE e \in answered'[m]
  <2>1. CASE m = n /\ e = d
    BY <2>1
  <2>2. CASE ~(m = n /\ e = d)
    <3>1. e \in answered[m]
      BY <1>1, <2>2
    <3>2. e \in Domains /\ inbox[<<m, e>>].state = "live"
      BY <3>1 DEF AnswersAreLive, Live
    <3> QED
      BY <3>2 DEF LiveStays
  <2> QED
    BY <2>1, <2>2
<1>3. \A a \in accepted' : inbox'[a].state = "live"
  BY DEF TypeOK, AdmissionTypeOK, AnswersAreLive, LiveStays
<1> QED
  BY <1>2, <1>3 DEF AnswersAreLive, Live

(* A message may be taken for an address whose row is committed.           *)
LEMMA MessageTaken ==
  ASSUME TypeOK, AnswersAreLive, LiveStays, NEW a \in Addresses, inbox'[a].state = "live",
         accepted' = accepted \cup {a}, UNCHANGED answered
  PROVE  AnswersAreLive'
BY DEF TypeOK, NamesTypeOK, OpenTypeOK, AdmissionTypeOK, AnswersAreLive, LiveStays, Live

(***************************************************************************)
(* A step of one client or session that leaves the rows alone, and neither *)
(* holds a row before it nor after it.                                     *)
(***************************************************************************)
Held == PendingIsHeld /\ PlacedIsThere

(* A request that neither holds nor comes to hold a row may move.          *)
LEMMA QuietRequest ==
  ASSUME Held, OpenTypeOK, NEW c \in Openers, NEW r, open[c].pc # "placed", r.pc # "placed",
         open' = [open EXCEPT ![c] = r], UNCHANGED <<inbox, smtp>>
  PROVE  Held'
<1>1. \A b \in Openers : open'[b] = IF b = c THEN r ELSE open[b]
  BY DEF OpenTypeOK
<1>2. PendingIsHeld'
  BY <1>1 DEF Held, PendingIsHeld, HeldByRequest, HeldByTransaction
<1>3. PlacedIsThere'
  BY <1>1 DEF Held, PlacedIsThere, Created
<1> QED
  BY <1>2, <1>3 DEF Held

(* A session that neither holds nor comes to hold a row may move.          *)
LEMMA QuietTransaction ==
  ASSUME Held, AdmissionTypeOK, NEW s \in Senders, NEW t,
         smtp[s].pc # "placed", t.pc # "placed",
         t.pc # "idle" /\ ~t.provision => inbox[t.to].state = "live",
         smtp' = [smtp EXCEPT ![s] = t], UNCHANGED <<inbox, open>>
  PROVE  Held'
<1>1. \A b \in Senders : smtp'[b] = IF b = s THEN t ELSE smtp[b]
  BY DEF AdmissionTypeOK
<1>2. PendingIsHeld'
  BY <1>1 DEF Held, PendingIsHeld, HeldByRequest, HeldByTransaction
<1>3. PlacedIsThere'
  BY <1>1 DEF Held, PlacedIsThere, Created
<1> QED
  BY <1>2, <1>3 DEF Held

(***************************************************************************)
(* A client that inserts its row, and one that lets it go by committing or *)
(* rolling back.                                                           *)
(***************************************************************************)
LEMMA RequestInserts ==
  ASSUME Held, OpenTypeOK, AdmissionTypeOK, NEW c \in Openers,
         NEW r \in OpenRequest, NEW a \in Addresses,
         open[c].pc # "placed", r.pc = "placed", a = <<r.name, r.target>>,
         open' = [open EXCEPT ![c] = r], UNCHANGED smtp, LiveStays, OthersStay(c),
         inbox'[a].state = "live" \/ Created(a, c)',
         \A b \in Addresses : inbox'[b].state = "pending" =>
           inbox'[b] = inbox[b] \/ (b = a /\ inbox'[a].by = c /\ inbox'[a].born = r.born)
  PROVE  Held'
<1>1. \A b \in Openers : open'[b] = IF b = c THEN r ELSE open[b]
  BY DEF OpenTypeOK
<1>2. PendingIsHeld'
  BY <1>1 DEF Held, PendingIsHeld, HeldByRequest, HeldByTransaction
<1>3. ASSUME NEW b \in Openers, open'[b].pc = "placed"
      PROVE  /\ open'[b].target # Anywhere
             /\ \/ inbox'[<<open'[b].name, open'[b].target>>].state = "live"
                \/ Created(<<open[b].name, open[b].target>>, b)'
  <2>1. CASE b = c
    BY <1>1, <2>1 DEF Created
  <2>2. CASE b # c
    <3>1. open'[b] = open[b] /\ open[b].pc = "placed"
      BY <1>1, <1>3, <2>2
    <3>2. open[b].target # Anywhere /\ <<open[b].name, open[b].target>> \in Addresses
      BY <3>1 DEF Held, PlacedIsThere, OpenTypeOK, OpenRequest
    <3> QED
      BY <2>2, <3>1, <3>2 DEF Held, PlacedIsThere, Created, LiveStays, OthersStay
  <2> QED
    BY <2>1, <2>2
<1>4. \A s \in Senders : smtp[s].to \in Addresses /\ s # c
  BY DEF AdmissionTypeOK, Transaction
<1>5. \A s \in Senders : smtp[s].pc = "placed" =>
        inbox'[smtp[s].to].state = "live" \/ Created(smtp[s].to, s)'
  BY <1>4 DEF Held, PlacedIsThere, Created, LiveStays, OthersStay
<1>6. \A s \in Senders : smtp[s].pc # "idle" /\ ~smtp[s].provision =>
        inbox'[smtp[s].to].state = "live"
  BY <1>4 DEF Held, PlacedIsThere, LiveStays
<1> QED
  BY <1>2, <1>3, <1>5, <1>6 DEF Held, PlacedIsThere

(* A request that ends leaves no row of its own uncommitted.               *)
LEMMA RequestEnds ==
  ASSUME Held, OpenTypeOK, AdmissionTypeOK, NEW c \in Openers, NEW a,
         a = <<open[c].name, open[c].target>>,
         open' = [open EXCEPT ![c] = NoOpen], UNCHANGED smtp, LiveStays, OthersStay(c),
         \A b \in Addresses : inbox'[b].state = "pending" =>
           inbox'[b] = inbox[b] /\ ~(b = a /\ inbox[b].by = c)
  PROVE  Held'
<1>1. /\ \A b \in Openers : open'[b] = IF b = c THEN NoOpen ELSE open[b]
      /\ NoOpen.pc = "idle"
  BY DEF OpenTypeOK, NoOpen
<1>2. PendingIsHeld'
  BY <1>1 DEF Held, PendingIsHeld, HeldByRequest, HeldByTransaction
<1>3. ASSUME NEW b \in Openers, open'[b].pc = "placed"
      PROVE  /\ open'[b].target # Anywhere
             /\ \/ inbox'[<<open'[b].name, open'[b].target>>].state = "live"
                \/ Created(<<open[b].name, open[b].target>>, b)'
  <2>1. open'[b] = open[b] /\ open[b].pc = "placed" /\ b # c
    BY <1>1, <1>3
  <2>2. open[b].target # Anywhere /\ <<open[b].name, open[b].target>> \in Addresses
    BY <2>1 DEF Held, PlacedIsThere, OpenTypeOK, OpenRequest
  <2> QED
    BY <2>1, <2>2 DEF Held, PlacedIsThere, Created, LiveStays, OthersStay
<1>4. \A s \in Senders : smtp[s].to \in Addresses /\ s # c
  BY DEF AdmissionTypeOK, Transaction
<1>5. \A s \in Senders : smtp[s].pc = "placed" =>
        inbox'[smtp[s].to].state = "live" \/ Created(smtp[s].to, s)'
  BY <1>4 DEF Held, PlacedIsThere, Created, LiveStays, OthersStay
<1>6. \A s \in Senders : smtp[s].pc # "idle" /\ ~smtp[s].provision =>
        inbox'[smtp[s].to].state = "live"
  BY <1>4 DEF Held, PlacedIsThere, LiveStays
<1> QED
  BY <1>2, <1>3, <1>5, <1>6 DEF Held, PlacedIsThere

(***************************************************************************)
(* The same for a session's transaction.                                   *)
(***************************************************************************)
LEMMA TransactionInserts ==
  ASSUME Held, OpenTypeOK, AdmissionTypeOK, NEW s \in Senders, NEW t \in Transaction,
         smtp[s].pc # "placed", t.pc = "placed",
         ~t.provision => inbox[t.to].state = "live",
         smtp' = [smtp EXCEPT ![s] = t], UNCHANGED open, LiveStays, OthersStay(s),
         inbox'[t.to].state = "live" \/ Created(t.to, s)',
         \A b \in Addresses : inbox'[b].state = "pending" =>
           inbox'[b] = inbox[b] \/ (b = t.to /\ inbox'[b].by = s /\ inbox'[b].born = t.born)
  PROVE  Held'
<1>1. \A b \in Senders : smtp'[b] = IF b = s THEN t ELSE smtp[b]
  BY DEF AdmissionTypeOK
<1>2. PendingIsHeld'
  BY <1>1 DEF Held, PendingIsHeld, HeldByRequest, HeldByTransaction
<1>3. ASSUME NEW c \in Openers, open[c].pc = "placed"
      PROVE  /\ open[c].target # Anywhere
             /\ \/ inbox'[<<open[c].name, open[c].target>>].state = "live"
                \/ Created(<<open[c].name, open[c].target>>, c)'
  <2>1. open[c].target # Anywhere /\ <<open[c].name, open[c].target>> \in Addresses /\ c # s
    BY <1>3 DEF Held, PlacedIsThere, OpenTypeOK, OpenRequest
  <2> DEFINE there == <<open[c].name, open[c].target>>
  <2>2. inbox[there].state = "live" \/ (inbox[there].state = "pending" /\ inbox[there].by = c)
    BY <1>3 DEF Held, PlacedIsThere, Created
  <2>3. inbox'[there] = inbox[there]
    BY <2>1, <2>2 DEF LiveStays, OthersStay
  <2> QED
    BY <2>1, <2>2, <2>3 DEF Created
<1>4. t.to \in Addresses /\ \A b \in Senders : smtp[b].to \in Addresses
  BY DEF AdmissionTypeOK, Transaction
<1>5. \A b \in Senders : smtp'[b].pc = "placed" =>
        inbox'[smtp'[b].to].state = "live" \/ Created(smtp[b].to, b)'
  BY <1>1, <1>4 DEF Held, PlacedIsThere, Created, LiveStays, OthersStay
<1>6. \A b \in Senders : smtp'[b].pc # "idle" /\ ~smtp'[b].provision =>
        inbox'[smtp'[b].to].state = "live"
  BY <1>1, <1>4 DEF Held, PlacedIsThere, LiveStays
<1> QED
  BY <1>2, <1>3, <1>5, <1>6 DEF Held, PlacedIsThere

(* A transaction that ends leaves no row of its own uncommitted.           *)
LEMMA TransactionEnds ==
  ASSUME Held, OpenTypeOK, AdmissionTypeOK, NEW s \in Senders,
         smtp' = [smtp EXCEPT ![s] = NoTransaction], UNCHANGED open,
         LiveStays, OthersStay(s),
         \A b \in Addresses : inbox'[b].state = "pending" =>
           inbox'[b] = inbox[b] /\ ~(b = smtp[s].to /\ inbox[b].by = s)
  PROVE  Held'
<1>1. /\ \A b \in Senders : smtp'[b] = IF b = s THEN NoTransaction ELSE smtp[b]
      /\ NoTransaction.pc = "idle"
  BY DEF AdmissionTypeOK, NoTransaction
<1>2. PendingIsHeld'
  BY <1>1 DEF Held, PendingIsHeld, HeldByRequest, HeldByTransaction
<1>3. ASSUME NEW c \in Openers, open[c].pc = "placed"
      PROVE  /\ open[c].target # Anywhere
             /\ \/ inbox'[<<open[c].name, open[c].target>>].state = "live"
                \/ Created(<<open[c].name, open[c].target>>, c)'
  <2>1. open[c].target # Anywhere /\ <<open[c].name, open[c].target>> \in Addresses /\ c # s
    BY <1>3 DEF Held, PlacedIsThere, OpenTypeOK, OpenRequest
  <2> DEFINE there == <<open[c].name, open[c].target>>
  <2>2. inbox[there].state = "live" \/ (inbox[there].state = "pending" /\ inbox[there].by = c)
    BY <1>3 DEF Held, PlacedIsThere, Created
  <2>3. inbox'[there] = inbox[there]
    BY <2>1, <2>2 DEF LiveStays, OthersStay
  <2> QED
    BY <2>1, <2>2, <2>3 DEF Created
<1>4. \A b \in Senders : smtp[b].to \in Addresses
  BY DEF AdmissionTypeOK, Transaction
<1>5. \A b \in Senders : smtp'[b].pc = "placed" =>
        inbox'[smtp'[b].to].state = "live" \/ Created(smtp[b].to, b)'
  BY <1>1, <1>4 DEF Held, PlacedIsThere, Created, LiveStays, OthersStay
<1>6. \A b \in Senders : smtp'[b].pc # "idle" /\ ~smtp'[b].provision =>
        inbox'[smtp'[b].to].state = "live"
  BY <1>1, <1>4 DEF Held, PlacedIsThere, LiveStays
<1> QED
  BY <1>2, <1>3, <1>5, <1>6 DEF Held, PlacedIsThere

(***************************************************************************)
(* Every step of a client keeps the rows in order.                         *)
(***************************************************************************)
RowsInv == RowsSafe /\ AnswersAreLive /\ Held

(* The rows are safe while nobody touches them.                            *)
LEMMA StillRows ==
  ASSUME RowsSafe, UNCHANGED <<inbox, announced>>,
         domain' \in [Domains -> DomainState], clock' \in 0..MaxTransactions,
         changes' \in 0..MaxChanges, faults' \in 0..MaxFaults
  PROVE  RowsSafe' /\ LiveStays
BY DEF RowsSafe, RowsTypeOK, AnnouncedOnce, LiveStays

(* No step of a request makes a row unsafe.                                *)
LEMMA ClientKeepsRows ==
  ASSUME TypeOK, RowsInv, NEW c \in Openers, OpenStep(c), UNCHANGED doorVars
  PROVE  RowsInv'
<1> DEFINE request == open[c]
           there == <<request.name, request.target>>
<1>0. /\ request \in OpenRequest
      /\ OpenTypeOK /\ RowsTypeOK /\ AdmissionTypeOK
      /\ RowsSafe /\ AnswersAreLive /\ Held
      /\ UNCHANGED <<smtp, accepted>>
  BY DEF RowsInv, TypeOK, NamesTypeOK, OpenTypeOK, doorVars
<1>1. NoOpen.pc = "idle"
  BY DEF NoOpen
<1>2. ASSUME NEW r, r.pc # "placed", request.pc # "placed",
             open' = [open EXCEPT ![c] = r],
             UNCHANGED <<domain, inbox, announced, changes, faults>>,
             clock' \in 0..MaxTransactions,
             AnswersAreLive'
      PROVE  RowsInv'
  BY <1>0, <1>2, QuietRequest, StillRows DEF RowsInv, RowsTypeOK
<1>3. ASSUME UNCHANGED <<domain, inbox, announced, changes, faults, answered>>,
             clock' \in 0..MaxTransactions
      PROVE  AnswersAreLive'
  BY <1>0, <1>3, StillRows, AnswersKept DEF RowsTypeOK
<1>4. ASSUME NEW n \in Names, NEW d \in Domains, inbox[<<n, d>>].state = "live",
             GiveAnswer(c, n, d), request.pc # "placed",
             UNCHANGED rowVars
      PROVE  RowsInv'
  <2>1. LiveStays
    BY <1>4 DEF LiveStays, rowVars
  <2>2. AnswersAreLive'
    BY <1>0, <1>4, <2>1, AnswerGiven DEF rowVars
  <2> QED
    BY <1>0, <1>1, <1>2, <1>4, <2>2 DEF GiveAnswer, rowVars, RowsTypeOK
<1>5. CASE \E n \in Names, w \in Domains \cup {Anywhere} : OpenExisting(c, n, w)
  BY <1>4, <1>5 DEF OpenExisting, Target, Preferred, Live
<1>6. CASE \E n \in Names, w \in Domains \cup {Anywhere} : OpenMissing(c, n, w)
  <2>1. PICK n \in Names, w \in Domains \cup {Anywhere} : OpenMissing(c, n, w)
    BY <1>6
  <2> DEFINE r == [NoOpen EXCEPT !.pc = "missing", !.name = n, !.where = w,
                                 !.allocatable = AllocatableDomains]
  <2>2. r.pc = "missing"
    BY DEF NoOpen
  <2>3. open' = [open EXCEPT ![c] = r]
    BY <2>1 DEF OpenMissing
  <2> HIDE DEF r
  <2> QED
    BY <1>0, <1>2, <1>3, <2>1, <2>2, <2>3 DEF OpenMissing, rowVars, RowsTypeOK
<1>7. CASE OpenRefused(c) \/ OpenNowhere(c)
  BY <1>0, <1>1, <1>2, <1>3, <1>7 DEF OpenRefused, OpenNowhere, rowVars, RowsTypeOK
<1>8. CASE OpenPay(c)
  <2> DEFINE r == [request EXCEPT !.pc = "paid", !.target = request.where]
  <2>1. r.pc = "paid" /\ open' = [open EXCEPT ![c] = r]
    BY <1>0, <1>8 DEF OpenPay, OpenRequest, OpenTypeOK
  <2> HIDE DEF r
  <2> QED
    BY <1>0, <1>2, <1>3, <1>8, <2>1 DEF OpenPay, rowVars, RowsTypeOK
<1>9. CASE OpenBegin(c)
  <2> DEFINE r == [request EXCEPT !.pc = "begun", !.born = clock']
  <2>1. r.pc = "begun" /\ open' = [open EXCEPT ![c] = r]
    BY <1>0, <1>9 DEF OpenBegin, OpenRequest, OpenTypeOK
  <2>2. clock' \in 0..MaxTransactions
    BY <1>0, <1>9 DEF OpenBegin, Begin, RowsTypeOK
  <2> HIDE DEF r
  <2> QED
    BY <1>0, <1>2, <1>3, <1>9, <2>1, <2>2 DEF OpenBegin
<1>10. CASE OpenFound(c)
  BY <1>0, <1>4, <1>10 DEF OpenFound, Preferred, Live, OpenRequest
<1>11. CASE OpenUnknown(c)
  <2> DEFINE r == [request EXCEPT !.pc = "unplaced"]
  <2>1. r.pc = "unplaced" /\ open' = [open EXCEPT ![c] = r]
    BY <1>0, <1>11 DEF OpenUnknown, Step, OpenRequest, OpenTypeOK
  <2> HIDE DEF r
  <2> QED
    BY <1>0, <1>2, <1>3, <1>11, <2>1 DEF OpenUnknown, rowVars, RowsTypeOK
<1>12. CASE OpenSelect(c)
  <2>1. PICK d : open' = [open EXCEPT ![c].pc = "begun", ![c].target = d]
    BY <1>12 DEF OpenSelect
  <2> DEFINE r == [request EXCEPT !.pc = "begun", !.target = d]
  <2>2. r.pc = "begun" /\ open' = [open EXCEPT ![c] = r]
    BY <1>0, <2>1 DEF OpenRequest, OpenTypeOK
  <2> HIDE DEF r
  <2> QED
    BY <1>0, <1>2, <1>3, <1>12, <2>2 DEF OpenSelect, rowVars, RowsTypeOK
<1>13. CASE OpenInsert(c)
  <2>1. PICK a \in Addresses, r \in OpenRequest :
          /\ a = <<request.name, request.target>> /\ a = <<r.name, r.target>>
          /\ r.pc = "placed" /\ open' = [open EXCEPT ![c] = r] /\ r.born = request.born
    <3> DEFINE q == [request EXCEPT !.pc = "placed"]
    <3>1. q \in OpenRequest /\ open' = [open EXCEPT ![c] = q]
      BY <1>0, <1>13 DEF OpenInsert, Step, OpenRequest, OpenTypeOK
    <3>2. <<request.name, request.target>> \in Addresses
      BY <1>0, <1>13 DEF OpenInsert, OpenRequest
    <3> QED
      BY <3>1, <3>2 DEF OpenRequest
  <2>2. r.born \in 0..MaxTransactions /\ request.pc = "begun"
    BY <1>0, <1>13, <2>1 DEF OpenInsert, OpenRequest
  <2>3. /\ CreateIdentityIfAbsent(a, c, r.born)
        /\ UNCHANGED <<domain, announced, clock, changes, faults, answered, accepted>>
    BY <1>0, <1>13, <2>1 DEF OpenInsert
  <2>4. /\ RowsSafe' /\ LiveStays /\ OthersStay(c)
        /\ inbox'[a].state = "live" \/ Created(a, c)'
        /\ \A b \in Addresses : inbox'[b].state = "pending" =>
             inbox'[b] = inbox[b] \/ (b = a /\ inbox'[a].by = c /\ inbox'[a].born = r.born)
    BY <1>0, <2>2, <2>3, InsertRow
  <2>5. Held'
    BY <1>0, <2>1, <2>2, <2>4, RequestInserts
  <2>6. AnswersAreLive'
    BY <1>0, <2>3, <2>4, AnswersKept
  <2> QED
    BY <2>4, <2>5, <2>6 DEF RowsInv
<1>14. CASE OpenCommit(c)
  <2>1. PICK a \in Addresses : a = <<request.name, request.target>>
    BY <1>0, <1>14 DEF OpenCommit, Held, PlacedIsThere, OpenRequest
  <2>2. /\ CommitRow(a, c) /\ UNCHANGED <<domain, clock, changes, faults>>
        /\ GiveAnswer(c, request.name, request.target)
        /\ inbox[a].state = "live" \/ Created(a, c)
    BY <1>0, <1>14, <2>1 DEF OpenCommit, Held, PlacedIsThere
  <2>3. /\ RowsSafe' /\ LiveStays /\ OthersStay(c)
        /\ inbox'[a].state = "live"
        /\ \A b \in Addresses : inbox'[b].state = "pending" =>
             inbox'[b] = inbox[b] /\ ~(b = a /\ inbox[b].by = c)
    BY <1>0, <2>2, CommittedRow
  <2>4. Held'
    BY <1>0, <2>1, <2>2, <2>3, RequestEnds DEF GiveAnswer
  <2>5. request.name \in Names /\ request.target \in Domains
    BY <2>1
  <2>6. AnswersAreLive'
    BY <1>0, <2>1, <2>2, <2>3, <2>5, AnswerGiven
  <2> QED
    BY <2>3, <2>4, <2>6 DEF RowsInv
<1>15. CASE OpenFails(c)
  <2>1. PICK a : a = <<request.name, request.target>>
    OBVIOUS
  <2>2. /\ RollbackRow(a, c) /\ faults' \in 0..MaxFaults
        /\ open' = [open EXCEPT ![c] = NoOpen]
        /\ UNCHANGED <<domain, announced, clock, changes, answered>>
    BY <1>0, <1>15, <2>1 DEF OpenFails, Fault, RowsTypeOK
  <2>3. /\ RowsSafe' /\ LiveStays /\ OthersStay(c)
        /\ \A b \in Addresses : inbox'[b].state = "pending" =>
             inbox'[b] = inbox[b] /\ ~(b = a /\ inbox[b].by = c)
    BY <1>0, <2>2, RolledBackRow
  <2>4. Held'
    BY <1>0, <2>1, <2>2, <2>3, RequestEnds
  <2>5. AnswersAreLive'
    BY <1>0, <2>2, <2>3, AnswersKept
  <2> QED
    BY <2>3, <2>4, <2>5 DEF RowsInv
<1> QED
  BY <1>5, <1>6, <1>7, <1>8, <1>9, <1>10, <1>11, <1>12, <1>13, <1>14, <1>15 DEF OpenStep

(***************************************************************************)
(* Every step of a session keeps the rows in order.                        *)
(***************************************************************************)
LEMMA SessionKeepsRows ==
  ASSUME TypeOK, RowsInv, NEW s \in Senders, SenderStep(s)
  PROVE  RowsInv'
<1> DEFINE transaction == smtp[s]
<1>0. /\ transaction \in Transaction
      /\ OpenTypeOK /\ RowsTypeOK /\ AdmissionTypeOK
      /\ RowsSafe /\ AnswersAreLive /\ Held
  BY DEF RowsInv, TypeOK, NamesTypeOK, AdmissionTypeOK
<1>1. NoTransaction.pc = "idle"
  BY DEF NoTransaction
<1>2. ASSUME UNCHANGED <<domain, inbox, announced, changes, faults, answered, accepted>>,
             clock' \in 0..MaxTransactions
      PROVE  RowsSafe' /\ LiveStays /\ AnswersAreLive'
  BY <1>0, <1>2, StillRows, AnswersKept DEF RowsTypeOK
<1>3. ASSUME UNCHANGED <<rowVars, openVars, smtp, accepted>>
      PROVE  RowsInv'
  <2>1. Held'
    BY <1>0, <1>3 DEF Held, PendingIsHeld, HeldByRequest, HeldByTransaction, PlacedIsThere,
      Created, rowVars, openVars
  <2> QED
    BY <1>0, <1>2, <1>3, <2>1 DEF RowsInv, rowVars, openVars, RowsTypeOK
<1>4. ASSUME NEW t, t.pc # "placed", transaction.pc # "placed",
             t.pc # "idle" /\ ~t.provision => inbox[t.to].state = "live",
             smtp' = [smtp EXCEPT ![s] = t], clock' \in 0..MaxTransactions,
             UNCHANGED <<domain, inbox, announced, changes, faults, openVars, accepted>>
      PROVE  RowsInv'
  <2>1. Held'
    BY <1>0, <1>4, QuietTransaction DEF openVars
  <2> QED
    BY <1>0, <1>2, <1>4, <2>1 DEF RowsInv, openVars
<1>5. CASE Accept(s) \/ Close(s) \/ \E a \in Addresses : RcptThrottled(s, a)
  BY <1>3, <1>5 DEF Accept, Close, RcptThrottled
<1>6. CASE Reset(s)
  BY <1>0, <1>1, <1>4, <1>6 DEF Reset, rowVars, RowsTypeOK
<1>7. ASSUME NEW a \in Addresses, NEW provision \in BOOLEAN,
             transaction.pc \in {"idle", "named"}, Name(s, a, provision),
             ~provision => inbox[a].state = "live",
             UNCHANGED <<rowVars, openVars, accepted>>
      PROVE  RowsInv'
  <2>1. CASE transaction.pc = "named"
    BY <1>3, <1>7, <2>1 DEF Name
  <2>2. CASE transaction.pc = "idle"
    <3> DEFINE t == [NoTransaction EXCEPT !.pc = "named", !.to = a, !.provision = provision]
    <3>1. t.pc = "named" /\ t.to = a /\ t.provision = provision
      BY DEF NoTransaction
    <3>2. smtp' = [smtp EXCEPT ![s] = t]
      BY <1>7, <2>2 DEF Name
    <3> HIDE DEF t
    <3> QED
      BY <1>0, <1>4, <1>7, <2>2, <3>1, <3>2 DEF rowVars, RowsTypeOK
  <2> QED
    BY <1>7, <2>1, <2>2
<1>8. CASE \E a \in Addresses : RcptKnown(s, a) \/ RcptNew(s, a)
  BY <1>7, <1>8 DEF RcptKnown, RcptNew, MayName
<1>9. CASE CommitBegin(s)
  <2> DEFINE t == [transaction EXCEPT !.pc = "begun", !.born = clock']
  <2>1. /\ t.pc = "begun" /\ t.to = transaction.to /\ t.provision = transaction.provision
        /\ smtp' = [smtp EXCEPT ![s] = t]
    BY <1>0, <1>9 DEF CommitBegin, Transaction, AdmissionTypeOK
  <2>2. clock' \in 0..MaxTransactions
    BY <1>0, <1>9 DEF CommitBegin, Begin, RowsTypeOK
  <2>3. ~transaction.provision => inbox[transaction.to].state = "live"
    BY <1>0, <1>9 DEF CommitBegin, Held, PlacedIsThere
  <2> HIDE DEF t
  <2> QED
    BY <1>0, <1>4, <1>9, <2>1, <2>2, <2>3 DEF CommitBegin
<1>10. CASE Place(s)
  <2>1. PICK t \in Transaction :
          /\ t.pc = "placed" /\ smtp' = [smtp EXCEPT ![s] = t]
          /\ t.to = transaction.to /\ t.provision = transaction.provision
          /\ t.born = transaction.born
    <3> DEFINE q == [transaction EXCEPT !.pc = "placed"]
    <3>1. q \in Transaction /\ smtp' = [smtp EXCEPT ![s] = q]
      BY <1>0, <1>10 DEF Place, Transaction, AdmissionTypeOK
    <3> QED
      BY <3>1 DEF Transaction
  <2>2. /\ t.to \in Addresses /\ t.born \in 0..MaxTransactions /\ s \in Actors
        /\ transaction.pc = "begun"
    BY <1>10 DEF Place, Transaction
  <2>3. UNCHANGED <<domain, announced, clock, changes, faults, open, answered, accepted>>
    BY <1>10 DEF Place, openVars
  <2>4. ~t.provision => inbox[t.to].state = "live"
    BY <1>0, <2>1, <2>2 DEF Held, PlacedIsThere
  <2>5. /\ RowsSafe' /\ LiveStays /\ OthersStay(s)
        /\ inbox'[t.to].state = "live" \/ Created(t.to, s)'
        /\ \A b \in Addresses : inbox'[b].state = "pending" =>
             inbox'[b] = inbox[b]
               \/ (b = t.to /\ inbox'[t.to].by = s /\ inbox'[t.to].born = t.born)
    <3>1. CASE t.provision
      <4>1. CreateIdentityIfAbsent(t.to, s, t.born)
        BY <1>10, <2>1, <3>1 DEF Place
      <4> QED
        BY <1>0, <2>2, <2>3, <4>1, InsertRow
    <3>2. CASE ~t.provision
      <4>1. inbox' = inbox
        BY <1>10, <2>1, <3>2 DEF Place
      <4> QED
        BY <1>0, <2>2, <2>3, <2>4, <3>2, <4>1, StillRows DEF OthersStay, RowsTypeOK
    <3> QED
      BY <3>1, <3>2
  <2>6. Held'
    BY <1>0, <2>1, <2>2, <2>3, <2>4, <2>5, TransactionInserts
  <2>7. AnswersAreLive'
    BY <1>0, <2>3, <2>5, AnswersKept
  <2> QED
    BY <2>5, <2>6, <2>7 DEF RowsInv
<1>11. CASE Commit(s)
  <2>1. PICK a \in Addresses : a = transaction.to
    BY <1>0 DEF Transaction
  <2>2. /\ CommitRow(a, s) /\ smtp' = [smtp EXCEPT ![s] = NoTransaction]
        /\ accepted' = accepted \cup {a}
        /\ UNCHANGED <<domain, clock, changes, faults, open, answered>>
        /\ inbox[a].state = "live" \/ Created(a, s)
    BY <1>0, <1>11, <2>1 DEF Commit, openVars, Held, PlacedIsThere
  <2>3. /\ RowsSafe' /\ LiveStays /\ OthersStay(s)
        /\ inbox'[a].state = "live"
        /\ \A b \in Addresses : inbox'[b].state = "pending" =>
             inbox'[b] = inbox[b] /\ ~(b = a /\ inbox[b].by = s)
    BY <1>0, <2>2, CommittedRow
  <2>4. Held'
    BY <1>0, <2>1, <2>2, <2>3, TransactionEnds
  <2>5. AnswersAreLive'
    BY <1>0, <2>2, <2>3, MessageTaken
  <2> QED
    BY <2>3, <2>4, <2>5 DEF RowsInv
<1>12. CASE CommitFails(s)
  <2>1. PICK a : a = transaction.to
    OBVIOUS
  <2>2. /\ RollbackRow(a, s) /\ faults' \in 0..MaxFaults
        /\ smtp' = [smtp EXCEPT ![s] = NoTransaction]
        /\ UNCHANGED <<domain, announced, clock, changes, open, answered, accepted>>
    BY <1>0, <1>12, <2>1 DEF CommitFails, Fault, RowsTypeOK, openVars
  <2>3. /\ RowsSafe' /\ LiveStays /\ OthersStay(s)
        /\ \A b \in Addresses : inbox'[b].state = "pending" =>
             inbox'[b] = inbox[b] /\ ~(b = a /\ inbox[b].by = s)
    BY <1>0, <2>2, RolledBackRow
  <2>4. Held'
    BY <1>0, <2>1, <2>2, <2>3, TransactionEnds
  <2>5. AnswersAreLive'
    BY <1>0, <2>2, <2>3, AnswersKept
  <2> QED
    BY <2>3, <2>4, <2>5 DEF RowsInv
<1> QED
  BY <1>5, <1>6, <1>8, <1>9, <1>10, <1>11, <1>12 DEF SenderStep

(***************************************************************************)
(* The budgets and the sessions keep their types.                          *)
(***************************************************************************)
LEMMA BucketsTyped ==
  ASSUME TypeOK, Next
  PROVE  BucketsTypeOK'
<1> USE DEF TypeOK, NamesTypeOK, BucketsTypeOK
<1>1. CASE UNCHANGED bucketVars
  BY <1>1 DEF bucketVars
<1>2. ASSUME NEW k \in Buckets, Refill(k) PROVE BucketsTypeOK'
  BY <1>2 DEF Refill
<1>3. ASSUME NEW c \in Openers, OpenPay(c) PROVE BucketsTypeOK'
  BY <1>3 DEF OpenPay
<1>4. ASSUME NEW s \in Senders, NEW a \in Addresses,
             RcptNew(s, a) \/ RcptThrottled(s, a)
      PROVE  BucketsTypeOK'
  <2>1. SourceOf(s) \in Buckets /\ Global \in Buckets
    BY DEF SourceOf
  <2>2. UNCHANGED refilled
    BY <1>4 DEF RcptNew, RcptThrottled
  <2>3. \/ spent' = spent
        \/ spent' = [spent EXCEPT ![SourceOf(s)] = @ + 1]
        \/ spent' = [spent EXCEPT ![SourceOf(s)] = @ + 1, ![Global] = @ + 1]
    BY <1>4 DEF RcptNew, RcptThrottled
  <2> HIDE DEF Global
  <2> QED
    BY <2>1, <2>2, <2>3
<1> QED
  <2>1. CASE NamesStep
    <3>1. ASSUME NEW c \in Openers, OpenStep(c) PROVE UNCHANGED bucketVars \/ OpenPay(c)
      BY <3>1 DEF OpenStep, OpenExisting, OpenMissing, OpenRefused, OpenBegin, OpenFound,
        OpenUnknown, OpenSelect, OpenNowhere, OpenInsert, OpenCommit, OpenFails, bucketVars
    <3>2. ASSUME NEW d \in Domains, NEW st \in DomainState, SetDomainState(d, st)
          PROVE  UNCHANGED bucketVars
      BY <3>2 DEF SetDomainState
    <3> QED
      BY <1>1, <1>2, <1>3, <2>1, <3>1, <3>2 DEF NamesStep
  <2>2. CASE AdmissionStep
    <3>1. ASSUME NEW s \in Senders, SenderStep(s)
          PROVE  \/ UNCHANGED bucketVars
                 \/ \E a \in Addresses : RcptNew(s, a) \/ RcptThrottled(s, a)
      BY <3>1 DEF SenderStep, Accept, Close, Reset, RcptKnown, CommitBegin, Place, Commit,
        CommitFails, bucketVars
    <3>2. ASSUME NEW d \in Domains, CacheExpires(d) PROVE UNCHANGED bucketVars
      BY <3>2 DEF CacheExpires
    <3> QED
      BY <1>1, <1>4, <2>2, <3>1, <3>2 DEF AdmissionStep
  <2> QED
    BY <2>1, <2>2 DEF Next

(* A step of a session leaves slots, connections, cache and transactions   *)
(* well formed.                                                            *)
LEMMA SessionTyped ==
  ASSUME TypeOK, NEW s \in Senders, SenderStep(s)
  PROVE  AdmissionTypeOK'
<1> DEFINE transaction == smtp[s]
<1>0. /\ AdmissionTypeOK /\ RowsTypeOK /\ transaction \in Transaction
      /\ SourceOf(s) \in Sources
  BY DEF TypeOK, NamesTypeOK, AdmissionTypeOK, SourceOf
<1>1. CASE Accept(s)
  <2>1. slots' \in [Sources -> 0..ConnectionLimit]
    BY <1>0, <1>1 DEF Accept, AdmissionTypeOK
  <2> QED
    BY <1>0, <1>1, <2>1 DEF Accept, AdmissionTypeOK
<1>2. CASE Close(s)
  <2>1. slots' \in [Sources -> 0..ConnectionLimit]
    <3>1. CASE UNCHANGED slots
      BY <1>0, <3>1 DEF AdmissionTypeOK
    <3>2. CASE Release(SourceOf(s))
      BY <1>0, <3>2 DEF Release, AdmissionTypeOK
    <3> QED
      BY <1>2, <3>1, <3>2 DEF Close
  <2> QED
    BY <1>0, <1>2, <2>1 DEF Close, AdmissionTypeOK
<1>3. ASSUME NEW t \in Transaction, smtp' = [smtp EXCEPT ![s] = t],
             UNCHANGED <<slots, conn>>, cachedDomain' \in [Domains -> BOOLEAN],
             accepted' \subseteq Addresses
      PROVE  AdmissionTypeOK'
  BY <1>0, <1>3 DEF AdmissionTypeOK
<1>4. ASSUME NEW a \in Addresses, RcptKnown(s, a) \/ RcptNew(s, a) \/ RcptThrottled(s, a)
      PROVE  AdmissionTypeOK'
  <2>1. /\ cachedDomain' \in [Domains -> BOOLEAN]
        /\ UNCHANGED <<slots, conn, accepted>>
    BY <1>0, <1>4 DEF RcptKnown, RcptNew, RcptThrottled, MayName, AdmissionTypeOK
  <2>2. smtp' = smtp \/ \E provision \in BOOLEAN : Name(s, a, provision)
    BY <1>4 DEF RcptKnown, RcptNew, RcptThrottled
  <2>3. ASSUME NEW provision \in BOOLEAN
        PROVE  [NoTransaction EXCEPT !.pc = "named", !.to = a, !.provision = provision]
                 \in Transaction
    BY NothingYet DEF Transaction
  <2>4. smtp' \in [Senders -> Transaction]
    <3>1. smtp \in [Senders -> Transaction]
      BY <1>0 DEF AdmissionTypeOK
    <3>2. smtp' = smtp \/ \E t \in Transaction : smtp' = [smtp EXCEPT ![s] = t]
      BY <2>2, <2>3 DEF Name
    <3> QED
      BY <3>1, <3>2
  <2> QED
    BY <1>0, <2>1, <2>4 DEF AdmissionTypeOK
<1>5. CASE Reset(s) \/ CommitFails(s) \/ Commit(s)
  <2>1. transaction.to \in Addresses
    BY <1>0 DEF Transaction
  <2> QED
    BY <1>0, <1>3, <1>5, <2>1, NothingYet DEF Reset, CommitFails, Commit, AdmissionTypeOK
<1>6. CASE CommitBegin(s)
  <2> DEFINE t == [transaction EXCEPT !.pc = "begun", !.born = clock']
  <2>1. clock' \in 0..MaxTransactions
    BY <1>0, <1>6 DEF CommitBegin, Begin, RowsTypeOK
  <2>2. t \in Transaction
    BY <1>0, <2>1 DEF Transaction
  <2>3. smtp' = [smtp EXCEPT ![s] = t]
    BY <1>0, <1>6 DEF CommitBegin, AdmissionTypeOK
  <2> HIDE DEF t
  <2> QED
    BY <1>0, <1>3, <1>6, <2>2, <2>3 DEF CommitBegin, AdmissionTypeOK
<1>7. CASE Place(s)
  <2> DEFINE t == [transaction EXCEPT !.pc = "placed"]
  <2>1. t \in Transaction
    BY <1>0 DEF Transaction
  <2>2. smtp' = [smtp EXCEPT ![s] = t]
    BY <1>0, <1>7 DEF Place, AdmissionTypeOK
  <2> HIDE DEF t
  <2> QED
    BY <1>0, <1>3, <1>7, <2>1, <2>2 DEF Place, AdmissionTypeOK
<1> QED
  BY <1>1, <1>2, <1>4, <1>5, <1>6, <1>7 DEF SenderStep

(***************************************************************************)
(* What a request knows of the pool stays up to date.                      *)
(***************************************************************************)
LEMMA SamePool ==
  ASSUME OpenTypeOK, TargetAllocatable, NEW c \in Openers, NEW r, UNCHANGED domain,
         open' = [open EXCEPT ![c] = r],
         r.pc # "idle" => AllocatableDomains \subseteq r.allocatable,
         r.pc \in {"paid", "begun", "unplaced", "placed"} /\ r.target # Anywhere =>
           r.target \in r.allocatable
  PROVE  TargetAllocatable'
<1>1. \A b \in Openers : open'[b] = IF b = c THEN r ELSE open[b]
  BY DEF OpenTypeOK
<1>2. AllocatableDomains' = AllocatableDomains
  BY DEF AllocatableDomains
<1> QED
  BY <1>1, <1>2 DEF TargetAllocatable

(* A request only ever selects a domain it has seen hand out addresses.    *)
LEMMA ClientKnowsPool ==
  ASSUME TypeOK, TargetAllocatable, NEW c \in Openers, OpenStep(c)
  PROVE  TargetAllocatable'
<1> DEFINE request == open[c]
<1>0. OpenTypeOK /\ request \in OpenRequest
  BY DEF TypeOK, NamesTypeOK, OpenTypeOK
<1>1. /\ request.pc # "idle" => AllocatableDomains \subseteq request.allocatable
      /\ request.pc \in {"paid", "begun", "unplaced", "placed"} /\ request.target # Anywhere =>
           request.target \in request.allocatable
  BY DEF TargetAllocatable
<1>2. NoOpen.pc = "idle"
  BY DEF NoOpen
<1>3. ASSUME open' = [open EXCEPT ![c] = NoOpen], UNCHANGED domain
      PROVE  TargetAllocatable'
  BY <1>0, <1>2, <1>3, SamePool
<1>4. CASE \/ \E n \in Names, w \in Domains \cup {Anywhere} : OpenExisting(c, n, w)
           \/ OpenRefused(c) \/ OpenFound(c) \/ OpenNowhere(c) \/ OpenCommit(c) \/ OpenFails(c)
  BY <1>3, <1>4 DEF OpenExisting, OpenRefused, OpenFound, OpenNowhere, OpenCommit, OpenFails,
    GiveAnswer, rowVars
<1>5. CASE \E n \in Names, w \in Domains \cup {Anywhere} : OpenMissing(c, n, w)
  <2>1. PICK n \in Names, w \in Domains \cup {Anywhere} : OpenMissing(c, n, w)
    BY <1>5
  <2> DEFINE r == [NoOpen EXCEPT !.pc = "missing", !.name = n, !.where = w,
                                 !.allocatable = AllocatableDomains]
  <2>2. r.pc = "missing" /\ r.allocatable = AllocatableDomains
    BY DEF NoOpen
  <2>3. open' = [open EXCEPT ![c] = r] /\ UNCHANGED domain
    BY <2>1 DEF OpenMissing, rowVars
  <2> HIDE DEF r
  <2> QED
    BY <1>0, <2>2, <2>3, SamePool
<1>6. CASE OpenPay(c)
  <2> DEFINE r == [request EXCEPT !.pc = "paid", !.target = request.where]
  <2>1. /\ r.pc = "paid" /\ r.target = request.where /\ r.allocatable = request.allocatable
        /\ open' = [open EXCEPT ![c] = r] /\ UNCHANGED domain
    BY <1>0, <1>6 DEF OpenPay, OpenRequest, OpenTypeOK, rowVars
  <2>2. AllocatableDomains \subseteq request.allocatable
    BY <1>1, <1>6 DEF OpenPay
  <2>3. request.where # Anywhere => request.where \in AllocatableDomains
    BY <1>6 DEF OpenPay, Refused
  <2> HIDE DEF r
  <2> QED
    BY <1>0, <2>1, <2>2, <2>3, SamePool
<1>7. CASE OpenBegin(c)
  <2> DEFINE r == [request EXCEPT !.pc = "begun", !.born = clock']
  <2>1. /\ r.pc = "begun" /\ r.target = request.target
        /\ r.allocatable = request.allocatable
    BY <1>0, <1>7 DEF OpenRequest
  <2>2. open' = [open EXCEPT ![c] = r] /\ request.pc = "paid" /\ UNCHANGED domain
    BY <1>0, <1>7 DEF OpenBegin, OpenTypeOK
  <2> HIDE DEF r
  <2> QED
    BY <1>0, <1>1, <2>1, <2>2, SamePool
<1>8. CASE OpenUnknown(c) \/ OpenInsert(c)
  <2>1. PICK pc \in {"unplaced", "placed"} : Step(c, pc)
    BY <1>8 DEF OpenUnknown, OpenInsert
  <2> DEFINE r == [request EXCEPT !.pc = pc]
  <2>2. /\ r.pc = pc /\ r.target = request.target
        /\ r.allocatable = request.allocatable /\ open' = [open EXCEPT ![c] = r]
    BY <1>0, <2>1 DEF Step, OpenRequest, OpenTypeOK
  <2> HIDE DEF r
  <2> QED
    BY <1>0, <1>1, <1>8, <2>2, SamePool DEF OpenUnknown, OpenInsert, rowVars
<1>9. CASE OpenSelect(c)
  <2>1. PICK d \in AllocatableDomains :
          open' = [open EXCEPT ![c].pc = "begun", ![c].target = d]
    BY <1>9 DEF OpenSelect, SelectNamedDomain
  <2> DEFINE r == [request EXCEPT !.pc = "begun", !.target = d]
  <2>2. /\ r.pc = "begun" /\ r.target = d /\ r.allocatable = request.allocatable
        /\ open' = [open EXCEPT ![c] = r] /\ UNCHANGED domain
    BY <1>0, <1>9, <2>1 DEF OpenSelect, OpenRequest, OpenTypeOK, rowVars
  <2>3. AllocatableDomains \subseteq request.allocatable
    BY <1>1, <1>9 DEF OpenSelect
  <2> HIDE DEF r
  <2> QED
    BY <1>0, <2>1, <2>2, <2>3, SamePool
<1> QED
  BY <1>4, <1>5, <1>6, <1>7, <1>8, <1>9 DEF OpenStep

(***************************************************************************)
(* A change of a domain is seen by every request, and by no row.           *)
(***************************************************************************)
LEMMA PoolChangeSafe ==
  ASSUME IInv, NEW d \in Domains, NEW st \in DomainState, SetDomainState(d, st),
         UNCHANGED doorVars
  PROVE  RowsInv' /\ OpenTypeOK' /\ TargetAllocatable'
<1> DEFINE seen(c) == IF st = "active" /\ open[c].pc # "idle"
                      THEN [open[c] EXCEPT !.allocatable = @ \cup {d}] ELSE open[c]
<1>0. /\ OpenTypeOK /\ RowsTypeOK /\ AdmissionTypeOK
      /\ RowsSafe /\ AnswersAreLive /\ Held /\ TargetAllocatable
      /\ UNCHANGED <<smtp, accepted>>
  BY DEF IInv, TypeOK, NamesTypeOK, RowsSafe, Held, doorVars
<1>1. /\ open' = [c \in Openers |-> seen(c)] /\ domain' = [domain EXCEPT ![d] = st]
      /\ changes < MaxChanges /\ changes' = changes + 1
      /\ UNCHANGED <<inbox, announced, clock, faults, answered>>
  BY DEF SetDomainState
<1>2. \A c \in Openers :
        /\ open'[c] \in OpenRequest
        /\ open'[c].pc = open[c].pc /\ open'[c].name = open[c].name
        /\ open'[c].target = open[c].target /\ open'[c].born = open[c].born
        /\ open[c].allocatable \subseteq open'[c].allocatable
        /\ st = "active" /\ open[c].pc # "idle" => d \in open'[c].allocatable
  <2> TAKE c \in Openers
  <2>1. open'[c] = seen(c) /\ open[c] \in OpenRequest
    BY <1>0, <1>1 DEF OpenTypeOK
  <2> QED
    BY <2>1 DEF OpenRequest
<1> HIDE DEF seen
<1>3. OpenTypeOK'
  <2>1. open' \in [Openers -> OpenRequest]
    BY <1>1, <1>2
  <2> QED
    BY <1>0, <1>1, <2>1 DEF OpenTypeOK
<1>4. RowsSafe' /\ LiveStays
  <2>1. domain' \in [Domains -> DomainState] /\ changes' \in 0..MaxChanges
    BY <1>0, <1>1 DEF RowsTypeOK
  <2> QED
    BY <1>0, <1>1, <2>1, StillRows DEF RowsTypeOK
<1>5. AnswersAreLive'
  BY <1>0, <1>1, <1>4, AnswersKept DEF IInv
<1>6. PendingIsHeld'
  BY <1>0, <1>1, <1>2 DEF Held, PendingIsHeld, HeldByRequest, HeldByTransaction
<1>7. PlacedIsThere'
  BY <1>0, <1>1, <1>2 DEF Held, PlacedIsThere, Created
<1>8. TargetAllocatable'
  <2>1. AllocatableDomains' \subseteq AllocatableDomains \cup (IF st = "active" THEN {d} ELSE {})
    BY <1>0, <1>1 DEF AllocatableDomains, RowsTypeOK
  <2> QED
    BY <1>0, <1>2, <2>1 DEF TargetAllocatable
<1> QED
  BY <1>3, <1>4, <1>5, <1>6, <1>7, <1>8 DEF RowsInv, Held

(* The invariant of the door is inductive.                                 *)
LEMMA StepSafe == IInv /\ [Next]_vars => IInv'
<1> SUFFICES ASSUME IInv, [Next]_vars PROVE IInv'
  OBVIOUS
<1>0. /\ TypeOK /\ OpenTypeOK /\ RowsTypeOK /\ BucketsTypeOK /\ AdmissionTypeOK
      /\ RowsInv /\ PlacedIsThere /\ TargetAllocatable
  BY DEF IInv, TypeOK, NamesTypeOK, RowsInv, RowsSafe, Held
<1>1. ASSUME UNCHANGED <<rowVars, openVars, smtp, accepted>>
      PROVE  RowsInv' /\ OpenTypeOK' /\ TargetAllocatable'
  <2>0. /\ UNCHANGED <<inbox, announced, domain, clock, changes, faults>>
        /\ UNCHANGED <<open, answered, smtp, accepted>>
    BY <1>1 DEF rowVars, openVars
  <2>1. RowsSafe'
    BY <1>0, <2>0 DEF RowsInv, RowsSafe, RowsTypeOK, AnnouncedOnce
  <2>2. AnswersAreLive'
    BY <1>0, <2>0 DEF RowsInv, AnswersAreLive, Live
  <2>3. Held'
    <3>1. PendingIsHeld'
      BY <1>0, <2>0 DEF RowsInv, Held, PendingIsHeld, HeldByRequest, HeldByTransaction
    <3>2. PlacedIsThere'
      BY <1>0, <2>0 DEF RowsInv, Held, PlacedIsThere, Created
    <3> QED
      BY <3>1, <3>2 DEF Held
  <2>4. OpenTypeOK' /\ TargetAllocatable'
    BY <1>0, <2>0 DEF OpenTypeOK, TargetAllocatable, AllocatableDomains
  <2> QED
    BY <2>1, <2>2, <2>3, <2>4 DEF RowsInv
<1>2. CASE NamesStep /\ UNCHANGED doorVars
  <2>1. AdmissionTypeOK'
    BY <1>0, <1>2 DEF AdmissionTypeOK, doorVars
  <2>2. ASSUME NEW k \in Buckets, Refill(k)
        PROVE  RowsInv' /\ OpenTypeOK' /\ TargetAllocatable'
    BY <1>1, <1>2, <2>2 DEF Refill, doorVars
  <2>3. ASSUME NEW d \in Domains, NEW st \in DomainState, SetDomainState(d, st)
        PROVE  RowsInv' /\ OpenTypeOK' /\ TargetAllocatable'
    BY <1>2, <2>3, PoolChangeSafe
  <2>4. ASSUME NEW c \in Openers, OpenStep(c)
        PROVE  RowsInv' /\ OpenTypeOK' /\ TargetAllocatable'
    BY <1>0, <1>2, <2>4, ClientKeepsRows, RequestsTyped, ClientKnowsPool
  <2>5. RowsInv' /\ OpenTypeOK' /\ TargetAllocatable'
    BY <1>2, <2>2, <2>3, <2>4 DEF NamesStep
  <2>6. BucketsTypeOK'
    BY <1>0, <1>2, BucketsTyped DEF Next
  <2> QED
    BY <2>1, <2>5, <2>6 DEF IInv, TypeOK, NamesTypeOK, RowsInv, RowsSafe, Held
<1>3. CASE AdmissionStep
  <2>1. BucketsTypeOK'
    BY <1>0, <1>3, BucketsTyped DEF Next
  <2>2. ASSUME NEW s \in Senders, SenderStep(s)
        PROVE  /\ RowsInv' /\ AdmissionTypeOK'
               /\ UNCHANGED <<domain, openVars>>
    <3>1. RowsInv' /\ AdmissionTypeOK'
      BY <1>0, <2>2, SessionKeepsRows, SessionTyped
    <3> QED
      BY <2>2, <3>1 DEF SenderStep, Accept, Close, Reset, RcptKnown, RcptNew, RcptThrottled,
        CommitBegin, Place, Commit, CommitFails, rowVars
  <2>3. ASSUME NEW d \in Domains, CacheExpires(d)
        PROVE  /\ RowsInv' /\ AdmissionTypeOK'
               /\ UNCHANGED <<domain, openVars>>
    BY <1>0, <1>1, <2>3 DEF CacheExpires, AdmissionTypeOK, rowVars
  <2>4. /\ RowsInv' /\ AdmissionTypeOK'
        /\ UNCHANGED <<domain, openVars>>
    BY <1>3, <2>2, <2>3 DEF AdmissionStep
  <2>5. OpenTypeOK' /\ TargetAllocatable'
    BY <1>0, <2>4 DEF OpenTypeOK, TargetAllocatable, AllocatableDomains, openVars
  <2> QED
    BY <2>1, <2>4, <2>5 DEF IInv, TypeOK, NamesTypeOK, RowsInv, RowsSafe, Held
<1>4. CASE UNCHANGED vars
  <2>1. RowsInv' /\ OpenTypeOK' /\ TargetAllocatable'
    BY <1>1, <1>4 DEF vars, doorVars
  <2>2. BucketsTypeOK' /\ AdmissionTypeOK'
    BY <1>0, <1>4 DEF vars, bucketVars, doorVars, BucketsTypeOK, AdmissionTypeOK
  <2> QED
    BY <2>1, <2>2 DEF IInv, TypeOK, NamesTypeOK, RowsInv, RowsSafe, Held
<1> QED
  BY <1>2, <1>3, <1>4 DEF Next

(***************************************************************************)
(* A row that becomes live was pending, and keeps its birth.               *)
(***************************************************************************)
LiveGrows ==
  \A a \in Addresses :
    /\ inbox[a].state = "live" => inbox'[a] = inbox[a]
    /\ inbox'[a].state = "live" /\ inbox[a].state # "live" =>
         inbox[a].state = "pending" /\ inbox'[a].born = inbox[a].born

(* A committed row stays as it is.                                         *)
LEMMA RowsOnlyGrow ==
  ASSUME TypeOK, [Next]_vars
  PROVE  LiveGrows
<1> USE DEF LiveGrows
<1>0. inbox \in [Addresses -> Row]
  BY DEF TypeOK, NamesTypeOK, RowsTypeOK
<1>1. CASE UNCHANGED inbox
  BY <1>1
<1>2. ASSUME NEW a \in Addresses, NEW who, NEW born, CreateIdentityIfAbsent(a, who, born)
      PROVE  LiveGrows
  <2>1. /\ inbox[a].state # "pending"
        /\ \/ inbox' = inbox
           \/ /\ inbox[a].state # "live"
              /\ inbox' = [inbox EXCEPT ![a] = [state |-> "pending", born |-> born, by |-> who]]
    BY <1>2 DEF CreateIdentityIfAbsent
  <2> QED
    BY <1>0, <2>1
<1>3. ASSUME NEW a, NEW who, CommitRow(a, who)
      PROVE  LiveGrows
  <2>1. \/ inbox' = inbox
        \/ /\ inbox[a].state = "pending" /\ a \in Addresses
           /\ inbox' = [inbox EXCEPT ![a].state = "live"]
    BY <1>3 DEF CommitRow, Created
  <2> QED
    BY <1>0, <2>1 DEF Row
<1>4. ASSUME NEW a, NEW who, RollbackRow(a, who)
      PROVE  LiveGrows
  <2>1. \/ inbox' = inbox
        \/ /\ inbox[a].state = "pending" /\ a \in Addresses
           /\ inbox' = [inbox EXCEPT ![a] = NoInbox]
    BY <1>4 DEF RollbackRow, Created
  <2>2. NoInbox.state = "absent"
    BY DEF NoInbox
  <2> QED
    BY <1>0, <2>1, <2>2
<1>5. ASSUME NEW c \in Openers, OpenStep(c) PROVE LiveGrows
  <2>1. CASE OpenInsert(c)
    <3>1. open[c].target \in Domains /\ open[c].name \in Names
      BY <2>1 DEF OpenInsert, TypeOK, NamesTypeOK, OpenTypeOK, OpenRequest
    <3> QED
      BY <1>2, <2>1, <3>1 DEF OpenInsert
  <2>2. CASE OpenCommit(c)
    BY <1>3, <2>2 DEF OpenCommit
  <2>3. CASE OpenFails(c)
    BY <1>4, <2>3 DEF OpenFails
  <2> QED
    BY <1>1, <1>5, <2>1, <2>2, <2>3 DEF OpenStep, OpenExisting, OpenMissing, OpenRefused,
      OpenPay, OpenBegin, OpenFound, OpenUnknown, OpenSelect, OpenNowhere, rowVars
<1>6. ASSUME NEW s \in Senders, SenderStep(s) PROVE LiveGrows
  <2>1. CASE Place(s)
    <3>1. smtp[s].to \in Addresses
      BY DEF TypeOK, AdmissionTypeOK, Transaction
    <3> QED
      BY <1>1, <1>2, <2>1, <3>1 DEF Place
  <2>2. CASE Commit(s)
    BY <1>3, <2>2 DEF Commit
  <2>3. CASE CommitFails(s)
    BY <1>4, <2>3 DEF CommitFails
  <2> QED
    BY <1>1, <1>6, <2>1, <2>2, <2>3 DEF SenderStep, Accept, Close, Reset, RcptKnown, RcptNew,
      RcptThrottled, CommitBegin, rowVars
<1>7. CASE NamesStep
  BY <1>1, <1>5, <1>7 DEF NamesStep, Refill, SetDomainState, rowVars
<1>8. CASE AdmissionStep
  BY <1>1, <1>6, <1>8 DEF AdmissionStep, CacheExpires, rowVars
<1>9. CASE UNCHANGED vars
  BY <1>1, <1>9 DEF vars, rowVars
<1> QED
  BY <1>7, <1>8, <1>9 DEF Next

(***************************************************************************)
(* Whatever becomes live after a name has settled is younger than its      *)
(* inbox.                                                                  *)
(***************************************************************************)
LEMMA SettledStays ==
  ASSUME IInv, [Next]_vars, NEW n \in Names, Settled(n)
  PROVE  Preferred(n)' = Preferred(n)
<1>1. LiveGrows /\ inbox \in [Addresses -> Row] /\ PendingIsHeld
  BY RowsOnlyGrow DEF IInv, TypeOK, NamesTypeOK, RowsTypeOK
<1>2. PICK d \in Preferred(n) : \A born \in Births : inbox[<<n, d>>].born < born
  BY DEF Settled
<1>3. d \in Live(n) /\ d \in Domains
  BY <1>2 DEF Preferred, Live
<1>4. \A e \in Domains : inbox[<<n, e>>].born \in Int
  BY <1>1 DEF Row
<1>5. ASSUME NEW e \in Domains, inbox'[<<n, e>>].state = "live", e \notin Live(n)
      PROVE  inbox[<<n, d>>].born < inbox'[<<n, e>>].born
  <2>1. /\ inbox[<<n, e>>].state = "pending" /\ <<n, e>> \in Addresses
        /\ inbox'[<<n, e>>].born = inbox[<<n, e>>].born
    BY <1>1, <1>5 DEF LiveGrows, Live
  <2>2. inbox[<<n, e>>].born \in Births
    BY <1>1, <2>1 DEF PendingIsHeld, HeldByRequest, HeldByTransaction, Births
  <2> QED
    BY <1>2, <2>1, <2>2
<1>6. \A e \in Live(n) : inbox'[<<n, e>>] = inbox[<<n, e>>] /\ e \in Domains
  BY <1>1 DEF LiveGrows, Live
<1>7. Live(n)' = {e \in Domains : inbox'[<<n, e>>].state = "live"} /\ Live(n) \subseteq Live(n)'
  BY <1>6 DEF Live
<1>8. ASSUME NEW e \in Preferred(n) PROVE e \in Preferred(n)'
  <2>1. e \in Live(n) /\ inbox[<<n, e>>].born <= inbox[<<n, d>>].born /\ e \in Domains
    BY <1>2, <1>3 DEF Preferred, Live
  <2>2. ASSUME NEW f \in Live(n)' PROVE inbox'[<<n, e>>].born <= inbox'[<<n, f>>].born
    <3>1. CASE f \in Live(n)
      BY <1>6, <2>1, <3>1 DEF Preferred
    <3>2. CASE f \notin Live(n)
      <4>1. f \in Domains /\ inbox[<<n, d>>].born < inbox'[<<n, f>>].born
        BY <1>5, <1>7, <2>2, <3>2
      <4>2. inbox'[<<n, f>>].born \in Int
        BY <1>1, <1>4, <1>7, <2>2, <3>2, <4>1 DEF LiveGrows, Live
      <4> QED
        BY <1>3, <1>4, <1>6, <2>1, <4>1, <4>2
    <3> QED
      BY <3>1, <3>2
  <2> QED
    BY <1>7, <2>1, <2>2 DEF Preferred, Live
<1>9. ASSUME NEW e \in Preferred(n)' PROVE e \in Preferred(n)
  <2>1. e \in Live(n)' /\ \A f \in Live(n)' : inbox'[<<n, e>>].born <= inbox'[<<n, f>>].born
    BY DEF Preferred
  <2>2. e \in Domains /\ inbox'[<<n, e>>].born <= inbox[<<n, d>>].born
    BY <1>3, <1>6, <1>7, <2>1
  <2>3. e \in Live(n)
    <3> SUFFICES ASSUME e \notin Live(n) PROVE FALSE
      OBVIOUS
    <3>1. inbox[<<n, d>>].born < inbox'[<<n, e>>].born
      BY <1>5, <1>7, <2>1, <2>2
    <3>2. inbox'[<<n, e>>].born \in Int
      BY <1>1, <1>4, <1>7, <2>1, <2>2 DEF LiveGrows, Live
    <3> QED
      BY <1>3, <1>4, <2>2, <3>1, <3>2
  <2>4. \A f \in Live(n) : inbox[<<n, e>>].born <= inbox[<<n, f>>].born
    BY <1>6, <1>7, <2>1, <2>3
  <2> QED
    BY <2>3, <2>4 DEF Preferred
<1> QED
  BY <1>8, <1>9

-----------------------------------------------------------------------------
(***************************************************************************)
(* The inductive invariant holds in every reachable state.                 *)
(***************************************************************************)
THEOREM DoorInvariantHolds == Spec => []IInv
<1>1. IInv /\ [Next]_vars => IInv'
  BY StepSafe
<1> QED
  BY <1>1, InitSafe, PTL DEF Spec

(***************************************************************************)
(* However many readers and senders reach a name at once, its inbox is     *)
(* announced exactly once (Allocator.ProvisionNamed).                      *)
(***************************************************************************)
THEOREM OneMaker == Spec => []AnnouncedOnce
<1>1. IInv => AnnouncedOnce
  BY DEF IInv
<1> QED
  BY <1>1, DoorInvariantHolds, PTL

(***************************************************************************)
(* Nobody is given, and no message is taken for, an inbox that can still   *)
(* vanish with a transaction (CreateIdentityIfAbsent).                     *)
(***************************************************************************)
THEOREM AnswersHold == Spec => []AnswersAreLive
<1>1. IInv => AnswersAreLive
  BY DEF IInv
<1> QED
  BY <1>1, DoorInvariantHolds, PTL

(***************************************************************************)
(* An inbox made over HTTP is on a domain that handed out addresses at     *)
(* some moment of the request (allocatablePublicDomain).                   *)
(***************************************************************************)
THEOREM OpenedOnPool == Spec => []OpenedWhereAllocatable
<1>1. IInv => OpenedWhereAllocatable
  <2> SUFFICES ASSUME IInv, NEW a \in Addresses, NEW c \in Openers, Created(a, c)
               PROVE  a[2] \in open[c].allocatable
    BY DEF OpenedWhereAllocatable
  <2>1. HeldByRequest(a, c)
    BY DEF IInv, PendingIsHeld, Created, HeldByRequest, HeldByTransaction
  <2>2. open[c].target # Anywhere /\ open[c].pc = "placed" /\ a[2] = open[c].target
    BY <2>1 DEF IInv, PlacedIsThere, HeldByRequest
  <2> QED
    BY <2>2 DEF IInv, TargetAllocatable
<1> QED
  BY <1>1, DoorInvariantHolds, PTL

(***************************************************************************)
(* A name stays with its inbox once every transaction older than the inbox *)
(* has ended (NamedIdentityByLocalPart).                                   *)
(***************************************************************************)
THEOREM NamesStayPinned == Spec => PinnedOnceSettled
<1>1. IInv /\ [Next]_vars =>
        [\A n \in Names : Settled(n) => Preferred(n)' = Preferred(n)]_vars
  BY SettledStays
<1> QED
  BY <1>1, DoorInvariantHolds, PTL DEF Spec, PinnedOnceSettled

-----------------------------------------------------------------------------
(* The doors keep their types.                                              *)
THEOREM DoorTyped == Spec => []TypeOK
<1>1. IInv => TypeOK
  BY DEF IInv
<1> QED
  BY <1>1, DoorInvariantHolds, PTL

-----------------------------------------------------------------------------
(* Connections.                                                             *)

(* Adding one to a finite set, and taking one out.                          *)
LEMMA CountOne ==
  ASSUME NEW S, IsFiniteSet(S), NEW x
  PROVE  /\ Cardinality(S) \in Nat
         /\ IsFiniteSet(S \cup {x}) /\ IsFiniteSet(S \ {x})
         /\ x \notin S => Cardinality(S \cup {x}) = Cardinality(S) + 1
         /\ x \in S => Cardinality(S \ {x}) = Cardinality(S) - 1 /\ Cardinality(S) >= 1
         /\ Cardinality(S \cup {x}) <= Cardinality(S) + 1
<1>1. Cardinality(S) \in Nat
  BY FS_CardinalityType
<1>2. /\ IsFiniteSet(S \cup {x})
      /\ Cardinality(S \cup {x}) = IF x \in S THEN Cardinality(S) ELSE Cardinality(S) + 1
  BY FS_AddElement
<1>3. /\ IsFiniteSet(S \ {x})
      /\ Cardinality(S \ {x}) = IF x \in S THEN Cardinality(S) - 1 ELSE Cardinality(S)
  BY FS_RemoveElement
<1>4. Cardinality(S \ {x}) \in Nat
  BY <1>3, FS_CardinalityType
<1> QED
  BY <1>1, <1>2, <1>3, <1>4

(* A source's slots are the connections it has open.                        *)
LEMMA InitSlots == Init => SlotsInv
<1> SUFFICES ASSUME Init, NEW i \in Sources
             PROVE  IsFiniteSet(OpenFrom(i)) /\ slots[i] = Cardinality(OpenFrom(i))
  BY DEF SlotsInv
<1>1. OpenFrom(i) = {} /\ slots[i] = 0
  BY DEF Init, AdmissionInit, OpenFrom
<1> QED
  BY <1>1, FS_EmptySet

(* Only the first close of a connection gives its slot back.               *)
LEMMA StepSlots == TypeOK /\ SlotsInv /\ [Next]_vars => SlotsInv'
<1> SUFFICES ASSUME TypeOK, SlotsInv, [Next]_vars, NEW i \in Sources
             PROVE  IsFiniteSet(OpenFrom(i))' /\ slots'[i] = Cardinality(OpenFrom(i)')
  BY DEF SlotsInv
<1>0. /\ IsFiniteSet(OpenFrom(i)) /\ slots[i] = Cardinality(OpenFrom(i))
      /\ slots \in [Sources -> 0..ConnectionLimit]
      /\ conn \in [Senders -> {"closed", "open", "closing"}]
  BY DEF SlotsInv, TypeOK, AdmissionTypeOK
<1>1. CASE UNCHANGED <<slots, conn>>
  <2>1. OpenFrom(i)' = OpenFrom(i)
    BY <1>1 DEF OpenFrom
  <2> QED  BY <1>0, <1>1, <2>1
<1>2. ASSUME NEW s \in Senders, Accept(s)
      PROVE  IsFiniteSet(OpenFrom(i))' /\ slots'[i] = Cardinality(OpenFrom(i)')
  <2>1. conn[s] = "closed" /\ conn' = [conn EXCEPT ![s] = "open"]
        /\ slots' = [slots EXCEPT ![SourceOf(s)] = @ + 1]
    BY <1>2 DEF Accept
  <2>2. CASE SourceOf(s) = i
    <3>1. OpenFrom(i)' = OpenFrom(i) \cup {s} /\ s \notin OpenFrom(i)
      BY <1>0, <2>1, <2>2 DEF OpenFrom
    <3> QED  BY <1>0, <2>1, <2>2, <3>1, CountOne
  <2>3. CASE SourceOf(s) # i
    <3>1. OpenFrom(i)' = OpenFrom(i)
      BY <1>0, <2>1, <2>3 DEF OpenFrom
    <3> QED  BY <1>0, <2>1, <2>3, <3>1
  <2> QED  BY <2>2, <2>3
<1>3. ASSUME NEW s \in Senders, Close(s)
      PROVE  IsFiniteSet(OpenFrom(i))' /\ slots'[i] = Cardinality(OpenFrom(i)')
  <2>1. CASE conn[s] = "open" /\ SourceOf(s) = i
    <3>1. OpenFrom(i)' = OpenFrom(i) \ {s} /\ s \in OpenFrom(i)
      BY <1>0, <1>3, <2>1 DEF Close, OpenFrom
    <3>2. slots'[i] = IF slots[i] <= 1 THEN 0 ELSE slots[i] - 1
      BY <1>0, <1>3, <2>1 DEF Close, Release
    <3> QED  BY <1>0, <3>1, <3>2, CountOne
  <2>2. CASE conn[s] = "open" /\ SourceOf(s) # i
    <3>1. OpenFrom(i)' = OpenFrom(i)
      BY <1>0, <1>3, <2>2 DEF Close, OpenFrom
    <3> QED  BY <1>0, <1>3, <2>2, <3>1 DEF Close, Release
  <2>3. CASE conn[s] # "open"
    <3>1. OpenFrom(i)' = OpenFrom(i)
      BY <1>0, <1>3, <2>3 DEF Close, OpenFrom
    <3> QED  BY <1>0, <1>3, <2>3, <3>1 DEF Close
  <2> QED  BY <2>1, <2>2, <2>3
<1>4. CASE NamesStep /\ UNCHANGED doorVars
  BY <1>1, <1>4 DEF doorVars
<1>5. CASE AdmissionStep
  <2>1. CASE \E d \in Domains : CacheExpires(d)
    BY <1>1, <2>1 DEF CacheExpires
  <2>2. ASSUME NEW s \in Senders, SenderStep(s), ~Accept(s), ~Close(s)
        PROVE  UNCHANGED <<slots, conn>>
    BY <2>2 DEF SenderStep, Reset, RcptKnown, RcptNew, RcptThrottled, CommitBegin, Place,
                Commit, CommitFails
  <2> QED  BY <1>1, <1>2, <1>3, <1>5, <2>1, <2>2 DEF AdmissionStep
<1>6. CASE UNCHANGED vars
  BY <1>1, <1>6 DEF vars, doorVars
<1> QED
  BY <1>4, <1>5, <1>6 DEF Next

(***************************************************************************)
(* A source's count of connections is that of the connections it has open, *)
(* however often and by whomever each is closed: no slot leaks, and none   *)
(* is given back twice.                                                    *)
(***************************************************************************)
THEOREM SlotsAreExact == Spec => []SlotsExact
<1>1. SlotsInv => SlotsExact
  BY DEF SlotsInv, SlotsExact, OpenFrom
<1> QED
  BY <1>1, InitSlots, StepSlots, DoorTyped, PTL DEF Spec

-----------------------------------------------------------------------------
(* Budgets.                                                                 *)

(* Nobody of S comes to have made a row, save the one at x.                 *)
KeepsRows(S) == \A a \in Addresses : inbox'[a].by \in S => inbox[a].by \in S
GainsRow(S, x) == \A a \in Addresses \ {x} : inbox'[a].by \in S => inbox[a].by \in S

(* Who makes no row has made no more than before.                          *)
LEMMA MadeStays ==
  ASSUME NEW S, IsFiniteSet(MadeBy(S)), KeepsRows(S)
  PROVE  /\ IsFiniteSet(MadeBy(S))'
         /\ Cardinality(MadeBy(S)) \in Nat /\ Cardinality(MadeBy(S)') \in Nat
         /\ Cardinality(MadeBy(S)') <= Cardinality(MadeBy(S))
<1>1. MadeBy(S)' \subseteq MadeBy(S)
  BY DEF MadeBy, KeepsRows
<1> QED
  BY <1>1, FS_Subset, FS_CardinalityType

(* Who makes one row has made at most one more than before.                *)
LEMMA MadeOne ==
  ASSUME NEW S, NEW x, IsFiniteSet(MadeBy(S)), GainsRow(S, x)
  PROVE  /\ IsFiniteSet(MadeBy(S))'
         /\ Cardinality(MadeBy(S)) \in Nat /\ Cardinality(MadeBy(S)') \in Nat
         /\ Cardinality(MadeBy(S)') <= Cardinality(MadeBy(S)) + 1
<1> DEFINE more == MadeBy(S) \cup {x}
<1>1. MadeBy(S)' \subseteq more
  BY DEF MadeBy, GainsRow
<1>2. IsFiniteSet(more) /\ Cardinality(more) <= Cardinality(MadeBy(S)) + 1
      /\ Cardinality(MadeBy(S)) \in Nat
  BY CountOne
<1> HIDE DEF more
<1>3. /\ IsFiniteSet(MadeBy(S)') /\ Cardinality(MadeBy(S)') <= Cardinality(more)
      /\ Cardinality(more) \in Nat /\ Cardinality(MadeBy(S)') \in Nat
  BY <1>1, <1>2, FS_Subset, FS_CardinalityType
<1> QED
  BY <1>2, <1>3

(* What each way of touching a row does to the makers.                      *)
LEMMA TouchingRows ==
  ASSUME inbox \in [Addresses -> Row], NEW S, S \subseteq Actors, NEW a, NEW who
  PROVE  /\ \A born : a \in Addresses /\ CreateIdentityIfAbsent(a, who, born) =>
                       GainsRow(S, a) /\ (who \notin S => KeepsRows(S))
         /\ CommitRow(a, who) => KeepsRows(S)
         /\ RollbackRow(a, who) => KeepsRows(S)
         /\ UNCHANGED inbox => KeepsRows(S)
<1>1. ASSUME NEW born, a \in Addresses, CreateIdentityIfAbsent(a, who, born)
      PROVE  GainsRow(S, a) /\ (who \notin S => KeepsRows(S))
  BY <1>1 DEF CreateIdentityIfAbsent, GainsRow, KeepsRows
<1>2. CommitRow(a, who) => KeepsRows(S)
  BY DEF CommitRow, KeepsRows, Created, Row
<1>3. RollbackRow(a, who) => KeepsRows(S)
  BY DEF RollbackRow, KeepsRows, NoInbox, Created
<1>4. UNCHANGED inbox => KeepsRows(S)
  BY DEF KeepsRows
<1> QED
  BY <1>1, <1>2, <1>3, <1>4

(* A row is gained where a request or a transaction inserts, by its owner.  *)
LEMMA ClientTouchesRows ==
  ASSUME TypeOK, NEW S, S \subseteq Actors, NEW c \in Openers, OpenStep(c)
  PROVE  KeepsRows(S) \/ (c \in S /\ OpenInsert(c) /\ \E x : GainsRow(S, x))
<1>0. /\ inbox \in [Addresses -> Row] /\ open[c] \in OpenRequest
  BY DEF TypeOK, NamesTypeOK, RowsTypeOK, OpenTypeOK
<1>1. CASE OpenInsert(c)
  <2> DEFINE a == <<open[c].name, open[c].target>>
  <2>1. a \in Addresses /\ CreateIdentityIfAbsent(a, c, open[c].born)
    BY <1>0, <1>1 DEF OpenInsert, OpenRequest
  <2> HIDE DEF a
  <2>2. GainsRow(S, a) /\ (c \notin S => KeepsRows(S))
    BY <1>0, <2>1, TouchingRows
  <2> QED  BY <1>1, <2>2
<1>2. CASE OpenCommit(c)
  BY <1>0, <1>2, TouchingRows DEF OpenCommit
<1>3. CASE OpenFails(c)
  BY <1>0, <1>3, TouchingRows DEF OpenFails
<1>4. CASE UNCHANGED inbox
  BY <1>0, <1>4, TouchingRows
<1> QED
  BY <1>1, <1>2, <1>3, <1>4 DEF OpenStep, OpenExisting, OpenMissing, OpenRefused, OpenPay,
     OpenBegin, OpenFound, OpenUnknown, OpenSelect, OpenNowhere, rowVars

(* A session makes a row for none but itself, and only where it places a   *)
(* name it was to make.                                                    *)
LEMMA SessionTouchesRows ==
  ASSUME TypeOK, NEW S, S \subseteq Actors, NEW s \in Senders, SenderStep(s)
  PROVE  \/ KeepsRows(S)
         \/ s \in S /\ Place(s) /\ smtp[s].provision /\ \E x : GainsRow(S, x)
<1>0. /\ inbox \in [Addresses -> Row] /\ smtp[s] \in Transaction
  BY DEF TypeOK, NamesTypeOK, RowsTypeOK, AdmissionTypeOK
<1>1. CASE Place(s) /\ smtp[s].provision
  <2>1. smtp[s].to \in Addresses /\ CreateIdentityIfAbsent(smtp[s].to, s, smtp[s].born)
    BY <1>0, <1>1 DEF Place, Transaction
  <2>2. GainsRow(S, smtp[s].to) /\ (s \notin S => KeepsRows(S))
    BY <1>0, <2>1, TouchingRows
  <2> QED  BY <1>1, <2>2
<1>2. CASE Commit(s)
  BY <1>0, <1>2, TouchingRows DEF Commit
<1>3. CASE CommitFails(s)
  BY <1>0, <1>3, TouchingRows DEF CommitFails
<1>4. CASE UNCHANGED inbox
  BY <1>0, <1>4, TouchingRows
<1>5. CASE Place(s) /\ ~smtp[s].provision
  BY <1>4, <1>5 DEF Place
<1> QED
  BY <1>1, <1>2, <1>3, <1>4, <1>5 DEF SenderStep, Accept, Close, Reset, RcptKnown, RcptNew,
     RcptThrottled, CommitBegin, rowVars

(* A bucket is spent from while it has a token, and nothing takes spending  *)
(* back; only the passing of time refills it.                               *)
LEMMA SpentGrows ==
  ASSUME TypeOK, [Next]_vars, NEW k \in Buckets, spent[k] <= Capacity(k) + refilled[k]
  PROVE  /\ spent[k] \in Nat /\ spent'[k] \in Nat
         /\ spent'[k] >= spent[k]
         /\ spent'[k] <= Capacity(k) + refilled'[k]
<1>0. /\ spent \in [Buckets -> Nat] /\ refilled \in [Buckets -> Nat] /\ Capacity(k) \in Nat
  BY DEF TypeOK, NamesTypeOK, BucketsTypeOK, Capacity
<1> DEFINE Paid == /\ spent[k] \in Nat /\ spent'[k] \in Nat
                   /\ spent'[k] >= spent[k] /\ spent'[k] <= Capacity(k) + refilled'[k]
<1>1. CASE UNCHANGED bucketVars
  BY <1>0, <1>1 DEF bucketVars
<1>2. ASSUME NEW j \in Buckets, Refill(j) PROVE Paid
  BY <1>0, <1>2 DEF Refill
<1>3. ASSUME NEW c \in Openers, OpenPay(c) PROVE Paid
  BY <1>0, <1>3 DEF OpenPay, Tokens
<1>4. ASSUME NEW s \in Senders, NEW a \in Addresses, RcptNew(s, a) \/ RcptThrottled(s, a)
      PROVE  Paid
  <2>1. SourceOf(s) \in Sources /\ SourceOf(s) # Global
    BY DEF SourceOf
  <2>2. CASE RcptNew(s, a)
    BY <1>0, <2>1, <2>2 DEF RcptNew, Tokens
  <2>3. CASE RcptThrottled(s, a)
    BY <1>0, <2>1, <2>3 DEF RcptThrottled, Tokens
  <2> QED  BY <1>4, <2>2, <2>3
<1>5. CASE NamesStep
  <2>1. ASSUME NEW c \in Openers, OpenStep(c), ~OpenPay(c) PROVE UNCHANGED bucketVars
    BY <2>1 DEF OpenStep, OpenExisting, OpenMissing, OpenRefused, OpenBegin, OpenFound,
                OpenUnknown, OpenSelect, OpenNowhere, OpenInsert, OpenCommit, OpenFails
  <2>2. ASSUME NEW d \in Domains, NEW s \in DomainState, SetDomainState(d, s)
        PROVE  UNCHANGED bucketVars
    BY <2>2 DEF SetDomainState
  <2> QED  BY <1>1, <1>2, <1>3, <1>5, <2>1, <2>2 DEF NamesStep
<1>6. CASE AdmissionStep
  <2>1. CASE \E d \in Domains : CacheExpires(d)
    BY <1>1, <2>1 DEF CacheExpires
  <2>2. ASSUME NEW s \in Senders, SenderStep(s),
               \A a \in Addresses : ~RcptNew(s, a) /\ ~RcptThrottled(s, a)
        PROVE  UNCHANGED bucketVars
    BY <2>2 DEF SenderStep, Accept, Close, Reset, RcptKnown, CommitBegin, Place, Commit,
                CommitFails
  <2> QED  BY <1>1, <1>4, <1>6, <2>1, <2>2 DEF AdmissionStep
<1>7. CASE UNCHANGED vars
  BY <1>1, <1>7 DEF vars, bucketVars
<1> QED
  BY <1>5, <1>6, <1>7 DEF Next

(* Every step but a session's leaves the sessions' makers and debts alone.  *)
LEMMA OthersKeepRows ==
  ASSUME TypeOK, NEW S, S \subseteq Actors, [Next]_vars,
         \A s \in Senders : ~SenderStep(s), \A c \in Openers : ~OpenStep(c)
  PROVE  /\ KeepsRows(S) /\ UNCHANGED smtp
         /\ \A c \in Openers : open'[c].pc = open[c].pc
<1>0. open \in [Openers -> OpenRequest]
  BY DEF TypeOK, NamesTypeOK, OpenTypeOK
<1>1. ASSUME NEW k \in Buckets, Refill(k) PROVE UNCHANGED <<inbox, open>>
  BY <1>1 DEF Refill, rowVars, openVars
<1>2. ASSUME NEW d \in Domains, NEW s \in DomainState, SetDomainState(d, s)
      PROVE  UNCHANGED inbox /\ \A c \in Openers : open'[c].pc = open[c].pc
  BY <1>0, <1>2 DEF SetDomainState, OpenRequest
<1>3. ASSUME NEW d \in Domains, CacheExpires(d) PROVE UNCHANGED <<inbox, open, smtp>>
  BY <1>3 DEF CacheExpires, rowVars, openVars
<1>4. CASE UNCHANGED vars
  BY <1>4 DEF vars, rowVars, openVars, doorVars, KeepsRows
<1> QED
  BY <1>1, <1>2, <1>3, <1>4 DEF Next, NamesStep, AdmissionStep, KeepsRows, doorVars

(* A client has made no more than it has paid for, the inbox it has paid    *)
(* for and not inserted yet included.                                       *)
OpenerPaid(c) ==
  IsFiniteSet(MadeBy({c})) /\ Cardinality(MadeBy({c})) + Dues(c) <= spent[c]

(* A client pays before it inserts, and inserts once for each payment.     *)
LEMMA StepOpener ==
  ASSUME TypeOK, [Next]_vars, NEW c \in Openers, OpenerPaid(c),
         spent[c] <= Capacity(c) + refilled[c]
  PROVE  OpenerPaid(c)'
<1>0. /\ open \in [Openers -> OpenRequest] /\ spent \in [Buckets -> Nat]
      /\ spent[c] \in Nat /\ spent'[c] \in Nat /\ spent'[c] >= spent[c]
      /\ {c} \subseteq Actors /\ IsFiniteSet(MadeBy({c}))
  BY SpentGrows DEF TypeOK, NamesTypeOK, OpenTypeOK, BucketsTypeOK, OpenerPaid
<1>1. Dues(c) \in 0..1 /\ Dues(c)' \in 0..1
  BY DEF Dues
<1>2. ASSUME KeepsRows({c}), Dues(c)' <= Dues(c) PROVE OpenerPaid(c)'
  BY <1>0, <1>1, <1>2, MadeStays DEF OpenerPaid
<1>3. ASSUME NEW s \in Senders, SenderStep(s) PROVE OpenerPaid(c)'
  <2>1. KeepsRows({c})
    BY <1>0, <1>3, SessionTouchesRows
  <2>2. UNCHANGED open
    BY <1>3 DEF SenderStep, Accept, Close, Reset, RcptKnown, RcptNew, RcptThrottled,
                CommitBegin, Place, Commit, CommitFails, openVars
  <2> QED  BY <1>1, <1>2, <2>1, <2>2 DEF Dues
<1>4. ASSUME NEW d \in Openers, OpenStep(d), d # c PROVE OpenerPaid(c)'
  <2>1. KeepsRows({c})
    BY <1>0, <1>4, ClientTouchesRows
  <2>2. open'[c] = open[c]
    BY <1>0, <1>4 DEF OpenStep, OpenExisting, OpenMissing, OpenRefused, OpenPay, OpenBegin,
       OpenFound, OpenUnknown, OpenSelect, OpenNowhere, OpenInsert, OpenCommit, OpenFails,
       GiveAnswer, Step
  <2> QED  BY <1>1, <1>2, <2>1, <2>2 DEF Dues
<1>5. CASE OpenPay(c)
  <2>1. KeepsRows({c})
    BY <1>0, <1>5, ClientTouchesRows DEF OpenPay, OpenInsert, OpenStep
  <2>2. Dues(c) = 0 /\ spent'[c] = spent[c] + 1
    BY <1>0, <1>5 DEF OpenPay, Dues
  <2> QED  BY <1>0, <1>1, <2>1, <2>2, MadeStays DEF OpenerPaid
<1>6. CASE OpenInsert(c)
  <2>1. Dues(c) = 1 /\ Dues(c)' = 0
    BY <1>0, <1>6 DEF OpenInsert, Step, Dues, OpenRequest
  <2>2. CASE KeepsRows({c})
    BY <1>2, <2>1, <2>2
  <2>3. CASE \E x : GainsRow({c}, x)
    <3> PICK x : GainsRow({c}, x)
      BY <2>3
    <3> QED  BY <1>0, <2>1, MadeOne DEF OpenerPaid
  <2> QED  BY <1>0, <1>6, <2>2, <2>3, ClientTouchesRows DEF OpenStep
<1>7. CASE OpenStep(c) /\ ~OpenPay(c) /\ ~OpenInsert(c)
  <2>1. KeepsRows({c})
    BY <1>0, <1>7, ClientTouchesRows
  <2>2. Dues(c)' <= Dues(c)
    <3>1. CASE open'[c].pc \in {"idle", "missing"}
      BY <1>1, <3>1 DEF Dues
    <3>2. CASE OpenBegin(c) \/ OpenUnknown(c) \/ OpenSelect(c)
      BY <1>0, <1>1, <3>2 DEF OpenBegin, OpenUnknown, OpenSelect, Step, Dues
    <3>3. ASSUME NEW n \in Names, NEW where \in Domains \cup {Anywhere},
                 OpenExisting(c, n, where) \/ OpenMissing(c, n, where)
          PROVE  open'[c].pc \in {"idle", "missing"}
      <4>1. CASE OpenExisting(c, n, where)
        BY <1>0, <4>1 DEF OpenExisting, GiveAnswer, NoOpen
      <4>2. CASE OpenMissing(c, n, where)
        BY <1>0, <4>2 DEF OpenMissing, NoOpen
      <4> QED  BY <3>3, <4>1, <4>2
    <3>4. CASE OpenRefused(c) \/ OpenFound(c) \/ OpenNowhere(c) \/ OpenCommit(c) \/ OpenFails(c)
      BY <1>0, <3>1, <3>4 DEF OpenRefused, OpenFound, OpenNowhere, OpenCommit, OpenFails,
         GiveAnswer, NoOpen
    <3> QED  BY <1>7, <3>1, <3>2, <3>3, <3>4 DEF OpenStep
  <2> QED  BY <1>2, <2>1, <2>2
<1>8. CASE (\A s \in Senders : ~SenderStep(s)) /\ \A d \in Openers : ~OpenStep(d)
  <2>1. KeepsRows({c}) /\ open'[c].pc = open[c].pc
    BY <1>0, <1>8, OthersKeepRows
  <2> QED  BY <1>1, <1>2, <2>1 DEF Dues
<1> QED
  BY <1>3, <1>4, <1>5, <1>6, <1>7, <1>8

(* What a session owes appears when it pays for a name and goes when the    *)
(* name is made or given up.                                                *)
LEMMA SessionOwes ==
  ASSUME TypeOK, NEW S, S \subseteq Senders, NEW s \in Senders, SenderStep(s)
  PROVE  \/ Owing(S)' \subseteq Owing(S) /\ ~(Place(s) /\ smtp[s].provision)
         \/ /\ s \in S /\ Owing(S)' \subseteq Owing(S) \cup {s}
            /\ \E a \in Addresses : RcptNew(s, a)
         \/ /\ Place(s) /\ Owing(S)' = Owing(S) \ {s}
            /\ s \in S => s \in Owing(S)
<1>0. smtp \in [Senders -> Transaction]
  BY DEF TypeOK, AdmissionTypeOK
<1>1. CASE Place(s)
  <2>1. Place(s) /\ Owing(S)' = Owing(S) \ {s}
    BY <1>0, <1>1 DEF Place, Owing, Transaction
  <2>2. CASE smtp[s].provision
    BY <1>0, <1>1, <2>1, <2>2 DEF Place, Owing
  <2> QED  BY <2>1, <2>2
<1>2. ASSUME NEW a \in Addresses, RcptNew(s, a)
      PROVE  Owing(S)' \subseteq Owing(S) \cup {s} /\ ~Place(s)
  BY <1>0, <1>2 DEF RcptNew, Name, MayName, Owing, Transaction, Place
<1>3. CASE SenderStep(s) /\ ~Place(s) /\ \A a \in Addresses : ~RcptNew(s, a)
  <2>1. CASE UNCHANGED smtp
    BY <2>1, <1>3 DEF Owing
  <2>2. ASSUME NEW a \in Addresses, RcptKnown(s, a) PROVE Owing(S)' \subseteq Owing(S)
    BY <1>0, <2>2 DEF RcptKnown, Name, MayName, Owing, Transaction, NoTransaction
  <2>3. CASE Reset(s) \/ Commit(s) \/ CommitFails(s)
    BY <1>0, <1>3, <2>3 DEF Reset, Commit, CommitFails, Owing, NoTransaction
  <2>4. CASE CommitBegin(s)
    BY <1>0, <1>3, <2>4 DEF CommitBegin, Owing, Transaction
  <2> QED
    BY <1>3, <2>1, <2>2, <2>3, <2>4 DEF SenderStep, Accept, Close, RcptThrottled
<1>4. CASE s \notin S
  <2>1. Owing(S)' \subseteq Owing(S)
    BY <1>0, <1>4 DEF Owing, SenderStep, Accept, Close, RcptThrottled, RcptKnown, RcptNew,
       Name, Reset, CommitBegin, Place, Commit, CommitFails
  <2> QED  BY <1>1, <1>3, <1>4, <2>1
<1> QED
  BY <1>1, <1>2, <1>3, <1>4

(* A bucket that every sender of S pays into has paid for what they made    *)
(* and for what they are about to make.                                     *)
LEMMA StepCovered ==
  ASSUME TypeOK, [Next]_vars, NEW S, S \subseteq Senders, NEW k \in Buckets,
         \A s \in S : k \in {SourceOf(s), Global}, Covered(S, k),
         spent[k] <= Capacity(k) + refilled[k]
  PROVE  Covered(S, k)'
<1>0. /\ spent \in [Buckets -> Nat] /\ spent[k] \in Nat /\ spent'[k] \in Nat
      /\ spent'[k] >= spent[k] /\ S \subseteq Actors
      /\ IsFiniteSet(MadeBy(S)) /\ IsFiniteSet(Owing(S))
      /\ Cardinality(MadeBy(S)) \in Nat /\ Cardinality(Owing(S)) \in Nat
      /\ Cardinality(MadeBy(S)) + Cardinality(Owing(S)) <= spent[k]
  BY SpentGrows, FS_CardinalityType DEF TypeOK, NamesTypeOK, BucketsTypeOK, Covered
<1>1. ASSUME KeepsRows(S), Owing(S)' \subseteq Owing(S) PROVE Covered(S, k)'
  <2>1. /\ IsFiniteSet(Owing(S)') /\ Cardinality(Owing(S)') \in Nat
        /\ Cardinality(Owing(S)') <= Cardinality(Owing(S))
    BY <1>0, <1>1, FS_Subset, FS_CardinalityType
  <2> QED  BY <1>0, <1>1, <2>1, MadeStays DEF Covered
<1>2. ASSUME NEW s \in Senders, SenderStep(s) PROVE Covered(S, k)'
  <2>1. CASE Owing(S)' \subseteq Owing(S) /\ ~(Place(s) /\ smtp[s].provision)
    BY <1>0, <1>1, <1>2, <2>1, SessionTouchesRows
  <2>2. ASSUME NEW a \in Addresses, RcptNew(s, a), s \in S,
               Owing(S)' \subseteq Owing(S) \cup {s}
        PROVE  Covered(S, k)'
    <3>1. KeepsRows(S)
      BY <2>2 DEF RcptNew, rowVars, KeepsRows
    <3>2. spent'[k] = spent[k] + 1
      <4>1. SourceOf(s) \in Sources /\ SourceOf(s) # Global
        BY DEF SourceOf
      <4> QED  BY <1>0, <2>2, <4>1 DEF RcptNew
    <3> DEFINE more == Owing(S) \cup {s}
    <3>3. IsFiniteSet(more) /\ Cardinality(more) <= Cardinality(Owing(S)) + 1
      BY <1>0, CountOne
    <3>4. Owing(S)' \subseteq more
      BY <2>2
    <3> HIDE DEF more
    <3>5. /\ IsFiniteSet(Owing(S)') /\ Cardinality(Owing(S)') \in Nat
          /\ Cardinality(more) \in Nat /\ Cardinality(Owing(S)') <= Cardinality(more)
      BY <3>3, <3>4, FS_Subset, FS_CardinalityType
    <3> QED  BY <1>0, <3>1, <3>2, <3>3, <3>5, MadeStays DEF Covered
  <2>3. CASE Place(s) /\ Owing(S)' = Owing(S) \ {s} /\ (s \in S => s \in Owing(S))
    <3>1. CASE KeepsRows(S)
      BY <1>1, <2>3, <3>1
    <3>2. CASE s \in S /\ \E x : GainsRow(S, x)
      <4> PICK x : GainsRow(S, x)
        BY <3>2
      <4>1. /\ IsFiniteSet(Owing(S)')
            /\ Cardinality(Owing(S)') = Cardinality(Owing(S)) - 1
        BY <1>0, <2>3, <3>2, CountOne
      <4> QED  BY <1>0, <4>1, MadeOne DEF Covered
    <3> QED  BY <1>0, <1>2, <3>1, <3>2, SessionTouchesRows
  <2> QED  BY <1>2, <2>1, <2>2, <2>3, SessionOwes
<1>3. ASSUME NEW c \in Openers, OpenStep(c), \A s \in Senders : ~SenderStep(s)
      PROVE  Covered(S, k)'
  <2>1. c \notin S
    OBVIOUS
  <2>2. KeepsRows(S)
    BY <1>0, <1>3, <2>1, ClientTouchesRows
  <2>3. UNCHANGED smtp
    BY <1>3 DEF Next, NamesStep, AdmissionStep, CacheExpires, vars, doorVars
  <2> QED  BY <1>1, <2>2, <2>3 DEF Owing
<1>4. CASE (\A s \in Senders : ~SenderStep(s)) /\ \A c \in Openers : ~OpenStep(c)
  BY <1>0, <1>1, <1>4, OthersKeepRows DEF Owing
<1> QED
  BY <1>2, <1>3, <1>4

(* At first nothing is made, owed or spent.                                *)
LEMMA InitPaid == Init => PaidInv
<1> SUFFICES ASSUME Init PROVE PaidInv
  OBVIOUS
<1>1. ASSUME NEW S, S \subseteq Actors PROVE MadeBy(S) = {}
  BY <1>1 DEF Init, NamesInit, MadeBy, NoInbox
<1>2. ASSUME NEW S, S \subseteq Senders PROVE Owing(S) = {}
  BY <1>2 DEF Init, AdmissionInit, Owing, NoTransaction
<1>3. IsFiniteSet({}) /\ Cardinality({}) = 0
  BY FS_EmptySet
<1>4. \A k \in Buckets : spent[k] = 0 /\ refilled[k] = 0 /\ Capacity(k) \in Nat
  BY DEF Init, NamesInit, Capacity
<1>5. ASSUME NEW S, S \subseteq Senders, NEW k \in Buckets PROVE Covered(S, k)
  <2>1. MadeBy(S) = {} /\ Owing(S) = {}
    BY <1>1, <1>2, <1>5
  <2> QED  BY <1>3, <1>4, <2>1 DEF Covered
<1>6. ASSUME NEW c \in Openers
      PROVE  IsFiniteSet(MadeBy({c})) /\ Cardinality(MadeBy({c})) + Dues(c) <= spent[c]
  <2>1. MadeBy({c}) = {} /\ Dues(c) = 0
    BY <1>1 DEF Init, NamesInit, NoOpen, Dues
  <2> QED  BY <1>3, <1>4, <2>1
<1>7. \A k \in Buckets : spent[k] <= Capacity(k) + refilled[k]
  BY <1>4
<1>8. \A i \in Sources : Covered({s \in Senders : SourceOf(s) = i}, i)
  BY <1>5
<1> QED
  BY <1>5, <1>6, <1>7, <1>8 DEF PaidInv

(* The invariant of the budgets is inductive.                              *)
LEMMA StepPaid == TypeOK /\ PaidInv /\ [Next]_vars => PaidInv'
<1> SUFFICES ASSUME TypeOK, PaidInv, [Next]_vars PROVE PaidInv'
  OBVIOUS
<1>0. \A k \in Buckets : spent[k] <= Capacity(k) + refilled[k]
  BY DEF PaidInv
<1>1. ASSUME NEW c \in Openers
      PROVE  (IsFiniteSet(MadeBy({c})) /\ Cardinality(MadeBy({c})) + Dues(c) <= spent[c])'
  BY <1>0, StepOpener DEF PaidInv, OpenerPaid
<1>2. ASSUME NEW i \in Sources PROVE Covered({s \in Senders : SourceOf(s) = i}, i)'
  <2> DEFINE S == {s \in Senders : SourceOf(s) = i}
  <2>1. S \subseteq Senders /\ \A s \in S : i \in {SourceOf(s), Global}
    OBVIOUS
  <2>2. Covered(S, i)
    BY DEF PaidInv
  <2> HIDE DEF S
  <2>3. Covered(S, i)'
    BY <1>0, <2>1, <2>2, StepCovered
  <2> QED  BY <2>3 DEF S
<1>3. Covered(Senders, Global)'
  BY <1>0, StepCovered DEF PaidInv
<1>4. \A k \in Buckets : (spent[k] <= Capacity(k) + refilled[k])'
  BY <1>0, SpentGrows DEF Capacity
<1> QED
  BY <1>1, <1>2, <1>3, <1>4 DEF PaidInv

(***************************************************************************)
(* Every inbox was paid for by whoever made it: a client or a source mints *)
(* within its own budget, all sources within the global one, and no budget *)
(* is overspent, however their requests interleave, fail or repeat.        *)
(***************************************************************************)
THEOREM EveryInboxIsPaid == Spec => []CreatedIsPaid
<1>1. TypeOK /\ PaidInv => CreatedIsPaid
  <2> SUFFICES ASSUME TypeOK, PaidInv PROVE CreatedIsPaid
    OBVIOUS
  <2>0. \A k \in Buckets : spent[k] \in Nat
    BY DEF TypeOK, NamesTypeOK, BucketsTypeOK
  <2>1. ASSUME NEW c \in Openers PROVE Cardinality(MadeBy({c})) <= spent[c]
    <3>1. Cardinality(MadeBy({c})) \in Nat /\ Dues(c) \in Nat
      BY FS_CardinalityType DEF PaidInv, Dues
    <3> QED  BY <2>0, <3>1 DEF PaidInv
  <2>2. ASSUME NEW S, NEW k \in Buckets, Covered(S, k)
        PROVE  Cardinality(MadeBy(S)) <= spent[k]
    <3>1. Cardinality(MadeBy(S)) \in Nat /\ Cardinality(Owing(S)) \in Nat
      BY <2>2, FS_CardinalityType DEF Covered
    <3> QED  BY <2>0, <2>2, <3>1 DEF Covered
  <2>3. \A i \in Sources :
          Cardinality(MadeBy({s \in Senders : SourceOf(s) = i})) <= spent[i]
    BY <2>2 DEF PaidInv
  <2>4. Cardinality(MadeBy(Senders)) <= spent[Global]
    BY <2>2 DEF PaidInv
  <2> QED  BY <2>1, <2>3, <2>4 DEF CreatedIsPaid, PaidInv
<1> QED
  BY <1>1, InitPaid, StepPaid, DoorTyped, PTL DEF Spec
=============================================================================
