----------------------------- MODULE MailSystem -----------------------------
(***************************************************************************)
(* The mail pipeline as deployed: SMTP sessions, the HTTP API, lifecycle   *)
(* workers and parse workers over one database and one blob directory.     *)
(*                                                                         *)
(* The processes share nothing but MailRows, so every step is a step of    *)
(* one of them that leaves the others' private state alone.  The one       *)
(* exception is the SMTP commit, which inserts the parse jobs of the       *)
(* deliveries it makes in its own transaction.                             *)
(***************************************************************************)
EXTENDS Ingest, Accounts, Lifecycle, ParseWorker

vars == <<rowVars, session, destroying, lifecycleVars, parseVars>>

Init ==
  /\ RowsInit
  /\ IngestInit
  /\ AccountsInit
  /\ LifecycleInit
  /\ ParseInit

\* The enqueue of receiver.Commit; a receiver built without a queue has none.
Enqueue(s) ==
  queue' = queue \cup
    {NewJob(session[s].rcpts[n], session[s].seqs[n]) :
       n \in IF Parsers = {} THEN {} ELSE DOMAIN session[s].rcpts}

CommitMessage(s) ==
  /\ Commit(s)
  /\ Enqueue(s)
  /\ UNCHANGED <<destroying, lifecycleVars, parser>>

OthersOfIngest    == <<destroying, lifecycleVars, parseVars>>
OthersOfAccounts  == <<session, lifecycleVars, parseVars>>
OthersOfLifecycle == <<session, destroying, parseVars>>
OthersOfParse     == <<session, destroying, lifecycleVars>>

Next ==
  \/ \E s \in Sessions : IngestStep(s) /\ UNCHANGED OthersOfIngest
  \/ \E s \in Sessions : CommitMessage(s)
  \/ AccountsStep  /\ UNCHANGED OthersOfAccounts
  \/ LifecycleStep /\ UNCHANGED OthersOfLifecycle
  \/ \E p \in Parsers : ParseStep(p) /\ UNCHANGED OthersOfParse

Spec == Init /\ [][Next]_vars

-----------------------------------------------------------------------------
(* Fairness: what the processes do by themselves once they are running.    *)
(* Clients, faults, and the arrival of mail carry none.  Each periodic job *)
(* has its own timer, so none waits forever behind the others; a job that  *)
(* has started keeps going.                                                *)

\* A session that has the whole message needs nothing more from its client.
SessionProgress(s) ==
  \/ /\ LockRecipient(s) \/ Refuse(s) \/ DeadlockAbort(s)
     /\ UNCHANGED OthersOfIngest
  \/ CommitMessage(s)

WorkerProgress(w) ==
  /\ PurgeJob(w) \/ SweepJob(w) \/ CollectJob(w)
  /\ UNCHANGED OthersOfLifecycle

Fairness ==
  /\ \A s \in Sessions : WF_vars(SessionProgress(s))
  /\ \A i \in Random : WF_vars(Tick(i) /\ UNCHANGED OthersOfLifecycle)
  /\ WF_vars(Expire /\ UNCHANGED OthersOfLifecycle)
  /\ \A w \in Workers :
       /\ WF_vars(WorkerProgress(w))
       /\ SF_vars(PurgeList(w) /\ UNCHANGED OthersOfLifecycle)
       /\ SF_vars(SweepList(w) /\ UNCHANGED OthersOfLifecycle)
       /\ SF_vars(CollectList(w) /\ UNCHANGED OthersOfLifecycle)
  /\ \A p \in Parsers : WF_vars(ParseProgress(p) /\ UNCHANGED OthersOfParse)

FairSpec == Spec /\ Fairness

-----------------------------------------------------------------------------
(* Type correctness of every row and of every process's private state.     *)
TypeOK ==
  /\ RowsTypeOK
  /\ IngestTypeOK
  /\ AccountsTypeOK
  /\ LifecycleTypeOK
  /\ ParseTypeOK

(***************************************************************************)
(* Whatever is delivered can be read: a delivery's identity still has its  *)
(* data key, and the raw message and every attachment listed for it have   *)
(* both their row and their bytes.  The receiver writes bytes before rows, *)
(* the collector deletes rows before bytes, and purge destroys the key in  *)
(* the transaction that deletes the deliveries.                            *)
(***************************************************************************)
ReadableMail ==
  /\ \A d \in deliveries : dataKey[d.identity]
  /\ \A r \in deliveries \cup attachments : r.blob \in blobRows \cap bytes

(***************************************************************************)
(* A blob's reference count is never below the number of rows that name    *)
(* it, so that dropping one recipient's copy leaves the others' alone.     *)
(***************************************************************************)
RefcountCovers ==
  \A b \in blobRows : refcount[b] >= Cardinality(References(b))

(***************************************************************************)
(* Cursor: an identity's delivery sequence numbers are unique, and every   *)
(* number up to delivery_seq was announced exactly once, whatever commits  *)
(* were rolled back or raced.                                              *)
(***************************************************************************)
GaplessCursor ==
  \A i \in Identities :
    /\ {e \in BagToSet(events) : e.type = "message.received" /\ e.identity = i}
         = {Event("message.received", i, n) : n \in 1..deliverySeq[i]}
    /\ \A n \in 1..deliverySeq[i] : Copies("message.received", i, n) = 1
    /\ \A n \in {d.seq : d \in {x \in deliveries : x.identity = i}} :
         n <= deliverySeq[i] /\ Cardinality(DeliveryAt(<<i, n>>)) = 1

(***************************************************************************)
(* A reserved address is an empty tombstone: no key, no message, and one   *)
(* identity.purged event, which no other identity has.                     *)
(***************************************************************************)
TombstoneIsEmpty ==
  \A i \in Identities :
    /\ (state[i] = "reserved") <=> (Copies("identity.purged", i, 0) = 1)
    /\ state[i] = "reserved" =>
         ~dataKey[i] /\ IdentityReferences(i) = {}

(***************************************************************************)
(* Each lifecycle event of an identity is emitted at most once, whichever  *)
(* jobs and requests race for the transition.                              *)
(***************************************************************************)
EventsOnce ==
  \A i \in Identities :
    \A type \in {"identity.created", "identity.expiring",
                 "identity.expired", "identity.purged"} :
      Copies(type, i, 0) <= 1

(***************************************************************************)
(* No inbox ever holds more than its quota, however many sessions checked  *)
(* it at RCPT TO before any of them committed.                             *)
(***************************************************************************)
QuotaHolds ==
  \A i \in Identities :
    LET mail == {d \in deliveries : d.identity = i}
    IN  Cardinality(mail) <= QuotaMessages /\ TotalSize(mail) <= QuotaBytes

(***************************************************************************)
(* A named inbox is charged for as many messages as it holds, however many *)
(* sweeps of it overlap: each of them gives back the messages that it      *)
(* deleted itself, and none that another one deleted first.                *)
(***************************************************************************)
MessagesCounted ==
  \A i \in Named :
    usedMessages[i] = Cardinality({d \in deliveries : d.identity = i})

(***************************************************************************)
(* lifecycle.go:312: The identity's usage has to come down with its        *)
(* messages, or a swept inbox stays permanently full.  In bytes it does so *)
(* only while no two sweeps of an inbox overlap.                           *)
(***************************************************************************)
UsageIsMail ==
  \A i \in Named :
    LET mail == {d \in deliveries : d.identity = i}
    IN  usedMessages[i] = Cardinality(mail) /\ usedBytes[i] = TotalSize(mail)

(***************************************************************************)
(* Once an identity is out of service nothing more is delivered to it,     *)
(* even by a session that resolved it while it was active: the commit      *)
(* holds the row it checked, and the jobs leave a locked row alone.        *)
(***************************************************************************)
NoMailAfterExpiry ==
  [][\A i \in Identities :
       deliverySeq'[i] # deliverySeq[i] =>
         state[i] = "absent" \/ AcceptsMail(i)]_vars

(***************************************************************************)
(* A session that took a message always answers: waiting for a row lock    *)
(* ends in a commit, a refusal or an abort.                                *)
(***************************************************************************)
SessionsAnswer ==
  \A s \in Sessions : session[s].pc = "commit" ~> session[s].pc = "idle"

(***************************************************************************)
(* Every random identity ends as a tombstone, whatever crashed on the way. *)
(***************************************************************************)
EventuallyReserved ==
  \A i \in Random : state[i] # "absent" ~> state[i] = "reserved"

(***************************************************************************)
(* A blob whose count drops to zero loses its row, even when the job that  *)
(* released it dies before collecting it.                                  *)
(***************************************************************************)
OrphansCollected ==
  \A b \in Blobs : b \in OrphanedBlobs ~> b \notin blobRows

CopiesOf(b) == {d \in deliveries : d.blob = b}

(***************************************************************************)
(* The message that several recipients share is counted once for each copy *)
(* that is left: no sweep, purge, retry or parse releases a copy twice or  *)
(* forgets one, as long as no two jobs work on one identity at once.       *)
(***************************************************************************)
BodiesCounted ==
  \A b \in blobRows : CopiesOf(b) # {} => refcount[b] = Cardinality(CopiesOf(b))

(***************************************************************************)
(* A message that is still unparsed has a job that will parse it: the job  *)
(* is inserted with the delivery, and only a run that settles the message  *)
(* may consume it.                                                         *)
(***************************************************************************)
Running == UNION {parser[p].job : p \in Parsers}

UnparsedHasJob ==
  \A d \in deliveries :
    d.status = "received" => \E j \in queue \cup Running : Key(j) = Key(d)

(***************************************************************************)
(* Every delivered message ends up parsed, failed, or gone with its inbox. *)
(***************************************************************************)
MessagesSettle ==
  \A i \in Identities, n \in 1..Cardinality(Blobs) :
    (\E d \in DeliveryAt(<<i, n>>) : d.status = "received")
      ~> (\A d \in DeliveryAt(<<i, n>>) : d.status # "received")

-----------------------------------------------------------------------------
(* A comment that the code departs from.                                   *)

(***************************************************************************)
(* lifecycle.go:398: CollectOrphans sweeps blobs left unreferenced by      *)
(* anything, including ones orphaned by a failure part way through.        *)
(***************************************************************************)
InFlight(b) ==
  \E p \in Parsers : b \in parser[p].stored /\ parser[p].pc = "extracting"

Unreferenced(b) ==
  b \in blobRows /\ References(b) = {} /\ ~InFlight(b)

UnreferencedCollected ==
  \A b \in Blobs : Unreferenced(b) ~> b \notin blobRows

-----------------------------------------------------------------------------
(* The pipeline implements the abstract mailbox.  A message counts as      *)
(* readable only while everything needed to read it is there.              *)

Readable(d) == dataKey[d.identity] /\ d.blob \in blobRows /\ d.blob \in bytes

BoxOf(s) ==
  CASE s = "absent"               -> "absent"
    [] s \in {"active", "expiring"} -> "open"
    [] s = "expired"              -> "closed"
    [] s = "reserved"             -> "gone"

boxBar  == [i \in Identities |-> BoxOf(state[i])]
mailBar == [i \in Identities |->
              {d.seq : d \in {x \in deliveries : x.identity = i /\ Readable(x)}}]

Abstract ==
  INSTANCE Mailbox WITH Perpetual <- Named, Ephemeral <- Random,
                        box <- boxBar, next <- deliverySeq, mail <- mailBar

(***************************************************************************)
(* Every step of the pipeline is a step of the mailbox or none: in         *)
(* particular no job, crash or race makes a delivered message unreadable   *)
(* before its inbox lets it go.                                            *)
(***************************************************************************)
ImplementsMailbox == Abstract!Spec
=============================================================================
