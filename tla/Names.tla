-------------------------------- MODULE Names --------------------------------
(***************************************************************************)
(* Public names: which inbox a name means, and how the first reader or the *)
(* first message makes one.                                                *)
(*                                                                         *)
(* Source: internal/alloc/alloc.go, internal/api/named.go, named_wait.go,  *)
(* internal/store/pg/identities.go, domains.go, internal/api/limits.go.    *)
(*                                                                         *)
(* Domains are the public pool in the order of their names; a name stands  *)
(* for its hash.  An inbox's created_at is the start of the transaction    *)
(* that inserts it, and the unique index makes a second insert of the same *)
(* address wait for the first to end.                                      *)
(***************************************************************************)
EXTENDS Integers, FiniteSets, FiniteSetsExt

CONSTANTS
  Names,             \* valid local parts, by hash
  PoolSize,          \* domains in the public pool
  Openers,           \* clients of the HTTP door
  Sources,           \* addresses that SMTP connections come from
  Sessions,          \* bound: connections a source has at once
  NoOne,             \* nobody
  Burst,             \* named inboxes one client or source may make at once
  GlobalBurst,       \* and all SMTP sources together
  MaxRefills,        \* bound: tokens that come back to the buckets
  MaxTransactions,   \* bound: transactions begun
  MaxChanges,        \* bound: changes of domain states
  MaxFaults          \* bound: transactions that fail

Senders   == Sources \X Sessions
Actors    == Openers \cup Senders
Domains   == 1..PoolSize
Addresses == Names \X Domains
Anywhere  == 0     \* a bare name, without a domain

\* Buckets: one for each client of the API and each SMTP source, one for all.
Global  == "global"
Buckets == Openers \cup Sources \cup {Global}

ASSUME NamesAssumption ==
  /\ Names \subseteq Nat /\ Names # {}
  /\ PoolSize \in Nat \ {0}
  /\ Burst \in Nat \ {0} /\ GlobalBurst \in Nat \ {0}
  /\ MaxRefills \in Nat /\ MaxTransactions \in Nat
  /\ MaxChanges \in Nat /\ MaxFaults \in Nat
  /\ NoOne \notin Actors /\ Openers \cap Senders = {}
  /\ Openers \cap Sources = {} /\ Global \notin Openers \cup Sources

VARIABLES
  domain,     \* the state of each domain
  inbox,      \* the row at each address, its birth and who inserts it
  announced,  \* identity.created events of each address
  clock,      \* transactions begun so far
  changes,
  faults,
  spent,      \* tokens taken from each bucket
  refilled,   \* tokens that came back to it
  open,       \* each client's request
  answered    \* addresses clients were given for a name (history)

rowVars    == <<domain, inbox, announced, clock, changes, faults>>
bucketVars == <<spent, refilled>>
openVars   == <<open, answered>>

\* fresh and burned domains are treated alike: they receive mail, and hand
\* out no address over HTTP.
DomainState == {"active", "withheld", "retired"}

Row     == [state : {"absent", "pending", "live"},
            born : 0..MaxTransactions, by : Actors \cup {NoOne}]
NoInbox == [state |-> "absent", born |-> 0, by |-> NoOne]

\* allocatable: domains that handed out addresses at some moment of the
\* request (history).
OpenRequest ==
  [pc : {"idle", "missing", "paid", "begun", "unplaced", "placed"}, name : Names,
   where : Domains \cup {Anywhere}, target : Domains \cup {Anywhere},
   born : 0..MaxTransactions, allocatable : SUBSET Domains]

AllocatableDomains == {d \in Domains : domain[d] = "active"}

RowsTypeOK ==
  /\ domain \in [Domains -> DomainState]
  /\ inbox \in [Addresses -> Row]
  /\ announced \in [Addresses -> Nat]
  /\ clock \in 0..MaxTransactions
  /\ changes \in 0..MaxChanges
  /\ faults \in 0..MaxFaults

BucketsTypeOK ==
  /\ spent \in [Buckets -> Nat]
  /\ refilled \in [Buckets -> Nat]

OpenTypeOK ==
  /\ open \in [Openers -> OpenRequest]
  /\ answered \in [Names -> SUBSET Domains]

NamesTypeOK == RowsTypeOK /\ BucketsTypeOK /\ OpenTypeOK

NoOpen ==
  [pc |-> "idle", name |-> CHOOSE n \in Names : TRUE, where |-> Anywhere,
   target |-> Anywhere, born |-> 0, allocatable |-> {}]

NamesInit ==
  /\ domain \in [Domains -> DomainState]
  /\ inbox = [a \in Addresses |-> NoInbox]
  /\ announced = [a \in Addresses |-> 0]
  /\ clock = 0 /\ changes = 0 /\ faults = 0
  /\ spent = [k \in Buckets |-> 0]
  /\ refilled = [k \in Buckets |-> 0]
  /\ open = [c \in Openers |-> NoOpen]
  /\ answered = [n \in Names |-> {}]

-----------------------------------------------------------------------------
(* Token buckets.                                                          *)

Capacity(k) == IF k = Global THEN GlobalBurst ELSE Burst
Tokens(k)   == Capacity(k) + refilled[k] - spent[k]

Refill(k) ==
  /\ Tokens(k) < Capacity(k)
  /\ MapThenSumSet(LAMBDA j : refilled[j], Buckets) < MaxRefills
  /\ refilled' = [refilled EXCEPT ![k] = @ + 1]
  /\ UNCHANGED <<rowVars, spent, openVars>>

-----------------------------------------------------------------------------
(* Rows.                                                                   *)

Live(n) == {d \in Domains : inbox[<<n, d>>].state = "live"}

\* Deviation: the newest inbox of that name.
PreferredNewest(n) ==
  {d \in Live(n) : \A e \in Live(n) : inbox[<<n, d>>].born >= inbox[<<n, e>>].born}

\* NamedIdentityByLocalPart: the oldest inbox of that name.
Preferred(n) ==
  {d \in Live(n) : \A e \in Live(n) : inbox[<<n, d>>].born <= inbox[<<n, e>>].born}

\* The active domain that the name hashes to.
SelectNamedDomain(n) ==
  {d \in AllocatableDomains :
     Cardinality({e \in AllocatableDomains : e < d}) = n % Cardinality(AllocatableDomains)}

Fault == faults < MaxFaults /\ faults' = faults + 1

Begin == clock < MaxTransactions /\ clock' = clock + 1

\* Deviation: the insert does not wait for a row that is not committed.
CreateWithoutWaiting(a, who, born) ==
  inbox' = IF inbox[a].state # "absent" THEN inbox
           ELSE [inbox EXCEPT ![a] = [state |-> "pending", born |-> born, by |-> who]]

\* INSERT ... ON CONFLICT DO NOTHING, which waits while another transaction
\* holds the address, and the read that follows it.
CreateIdentityIfAbsent(a, who, born) ==
  /\ inbox[a].state # "pending"
  /\ inbox' = IF inbox[a].state = "live" THEN inbox
              ELSE [inbox EXCEPT ![a] = [state |-> "pending", born |-> born, by |-> who]]

Created(a, who) == a \in Addresses /\ inbox[a].state = "pending" /\ inbox[a].by = who

\* Deviation: whoever provisions a name announces it.
CommitAnnouncing(a, who) ==
  /\ inbox' = [inbox EXCEPT ![a].state = "live"]
  /\ announced' = [announced EXCEPT ![a] = @ + 1]

\* The creator's transaction carries the identity.created event.
CommitRow(a, who) ==
  IF Created(a, who)
  THEN /\ inbox' = [inbox EXCEPT ![a].state = "live"]
       /\ announced' = [announced EXCEPT ![a] = @ + 1]
  ELSE UNCHANGED <<inbox, announced>>

RollbackRow(a, who) ==
  inbox' = IF Created(a, who) THEN [inbox EXCEPT ![a] = NoInbox] ELSE inbox

\* phenk domain state.
SetDomainState(d, s) ==
  /\ domain[d] # s /\ changes < MaxChanges
  /\ changes' = changes + 1
  /\ domain' = [domain EXCEPT ![d] = s]
  /\ open' = [c \in Openers |->
                IF s = "active" /\ open[c].pc # "idle"
                THEN [open[c] EXCEPT !.allocatable = @ \cup {d}] ELSE open[c]]
  /\ UNCHANGED <<inbox, announced, clock, faults, bucketVars, answered>>

-----------------------------------------------------------------------------
(* The HTTP door: openNamed, and namedIdentityOrOpen with or without a     *)
(* domain.                                                                 *)

Step(c, pc) == open' = [open EXCEPT ![c].pc = pc]

GiveAnswer(c, n, d) ==
  /\ answered' = [answered EXCEPT ![n] = @ \cup {d}]
  /\ open' = [open EXCEPT ![c] = NoOpen]

Target(n, where) == IF where = Anywhere THEN Preferred(n) ELSE {where} \cap Live(n)

\* An inbox that is there answers the request and costs nothing.
OpenExisting(c, n, where) ==
  /\ open[c].pc = "idle"
  /\ \E d \in Target(n, where) : GiveAnswer(c, n, d)
  /\ UNCHANGED <<rowVars, bucketVars>>

OpenMissing(c, n, where) ==
  /\ open[c].pc = "idle"
  /\ Target(n, where) = {}
  /\ open' = [open EXCEPT ![c] = [NoOpen EXCEPT !.pc = "missing", !.name = n,
                !.where = where, !.allocatable = AllocatableDomains]]
  /\ UNCHANGED <<rowVars, bucketVars, answered>>

\* Deviation: the rule of the SMTP path.
RefusedRetired(c) == open[c].where # Anywhere /\ domain[open[c].where] = "retired"

\* A full address must be on a domain that hands out addresses.
Refused(c) == open[c].where # Anywhere /\ open[c].where \notin AllocatableDomains

OpenRefused(c) ==
  /\ open[c].pc = "missing"
  /\ Refused(c) \/ Tokens(c) < 1
  /\ open' = [open EXCEPT ![c] = NoOpen]
  /\ UNCHANGED <<rowVars, bucketVars, answered>>

OpenPay(c) ==
  /\ open[c].pc = "missing"
  /\ ~Refused(c) /\ Tokens(c) >= 1
  /\ spent' = [spent EXCEPT ![c] = @ + 1]
  /\ open' = [open EXCEPT ![c].pc = "paid", ![c].target = open[c].where]
  /\ UNCHANGED <<rowVars, refilled, answered>>

OpenBegin(c) ==
  /\ open[c].pc = "paid"
  /\ Begin
  /\ open' = [open EXCEPT ![c].pc = "begun", ![c].born = clock']
  /\ UNCHANGED <<domain, inbox, announced, changes, faults, bucketVars, answered>>

\* ResolveOrCreateNamed looks again before it selects a domain; a request for
\* a full address has its domain.
OpenFound(c) ==
  /\ open[c].pc = "begun" /\ open[c].target = Anywhere
  /\ \E d \in Preferred(open[c].name) : GiveAnswer(c, open[c].name, d)
  /\ UNCHANGED <<rowVars, bucketVars>>

OpenUnknown(c) ==
  /\ open[c].pc = "begun" /\ open[c].target = Anywhere
  /\ Preferred(open[c].name) = {}
  /\ Step(c, "unplaced")
  /\ UNCHANGED <<rowVars, bucketVars, answered>>

OpenSelect(c) ==
  /\ open[c].pc = "unplaced"
  /\ \E d \in SelectNamedDomain(open[c].name) :
       open' = [open EXCEPT ![c].pc = "begun", ![c].target = d]
  /\ UNCHANGED <<rowVars, bucketVars, answered>>

OpenInsert(c) ==
  /\ open[c].pc = "begun" /\ open[c].target # Anywhere
  /\ CreateIdentityIfAbsent(<<open[c].name, open[c].target>>, c, open[c].born)
  /\ Step(c, "placed")
  /\ UNCHANGED <<domain, announced, clock, changes, faults, bucketVars, answered>>

OpenCommit(c) ==
  /\ open[c].pc = "placed"
  /\ CommitRow(<<open[c].name, open[c].target>>, c)
  /\ GiveAnswer(c, open[c].name, open[c].target)
  /\ UNCHANGED <<domain, clock, changes, faults, bucketVars>>

OpenNowhere(c) ==
  /\ open[c].pc = "unplaced" /\ AllocatableDomains = {}
  /\ open' = [open EXCEPT ![c] = NoOpen]
  /\ UNCHANGED <<rowVars, bucketVars, answered>>

OpenFails(c) ==
  /\ open[c].pc \in {"begun", "unplaced", "placed"}
  /\ Fault
  /\ RollbackRow(<<open[c].name, open[c].target>>, c)
  /\ open' = [open EXCEPT ![c] = NoOpen]
  /\ UNCHANGED <<domain, announced, clock, changes, bucketVars, answered>>

OpenStep(c) ==
  \/ \E n \in Names, where \in Domains \cup {Anywhere} :
       OpenExisting(c, n, where) \/ OpenMissing(c, n, where)
  \/ OpenRefused(c) \/ OpenPay(c) \/ OpenBegin(c)
  \/ OpenFound(c) \/ OpenUnknown(c) \/ OpenSelect(c) \/ OpenNowhere(c)
  \/ OpenInsert(c) \/ OpenCommit(c) \/ OpenFails(c)

NamesStep ==
  \/ \E k \in Buckets : Refill(k)
  \/ \E d \in Domains, s \in DomainState : SetDomainState(d, s)
  \/ \E c \in Openers : OpenStep(c)
=============================================================================
