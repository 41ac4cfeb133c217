--------------------------- MODULE MailInvariants ---------------------------
(***************************************************************************)
(* The inductive invariant behind the theorems about the mail pipeline.    *)
(* Each part says what one mechanism of the code guarantees between two    *)
(* steps of a process, which is what a property of the committed rows      *)
(* alone leaves out.                                                       *)
(***************************************************************************)
EXTENDS MailSystem

\* Only finitely many rows exist, so counting them makes sense.
FiniteRows ==
  /\ IsFiniteSet(deliveries)
  /\ IsFiniteSet(attachments)

FiniteJobs ==
  \A w \in Workers : IsFiniteSet(job[w].refs) /\ IsFiniteSet(job[w].list)

\* IdentityForUpdate: a session that reserved a sequence number holds the
\* row, and the row still is in a state that accepts mail.
LocksHeld ==
  \A s \in Sessions :
    /\ session[s].pc = "idle" => session[s].seqs = << >>
    /\ Len(session[s].seqs) <= Len(session[s].rcpts)
    /\ \A n \in DOMAIN session[s].seqs :
         /\ lock[session[s].rcpts[n]] = s
         /\ \/ AcceptsMail(session[s].rcpts[n])
            \/ Provisionable(session[s].rcpts[n])

\* DestroyDataKey empties the key with the transition that ends the identity.
KeysKept ==
  \A i \in Identities :
    /\ state[i] \in {"active", "expiring", "expired"} => dataKey[i]
    /\ state[i] = "reserved" => ~dataKey[i]

\* Bytes a session or a parser has put on disk and not yet given a row.
Pending(b) ==
  \/ \E s \in Sessions : session[s].pc = "commit" /\ session[s].blob = b
  \/ \E p \in Parsers : b \in parser[p].put

\* Put before AcquireBlob, ClaimOrphanBlob before Delete: a row always has
\* its bytes.
RowsHaveBytes == blobRows \subseteq bytes /\ bytes \subseteq minted

\* Pending bytes belong to one process alone.
PendingIsPrivate ==
  /\ \A b \in Blobs : Pending(b) => b \in bytes /\ b \notin blobRows
  /\ \A s, t \in Sessions :
       s # t /\ session[s].pc = "commit" /\ session[t].pc = "commit" =>
         session[s].blob # session[t].blob
  /\ \A p, q \in Parsers : p # q => parser[p].put \cap parser[q].put = {}
  /\ \A s \in Sessions, p \in Parsers :
       session[s].pc = "commit" => session[s].blob \notin parser[p].put

\* Bytes about to be deleted can get no row any more.
ClaimedIsGone ==
  \A w \in Workers :
    job[w].claimed # NoBlob =>
      /\ job[w].claimed \in minted
      /\ job[w].claimed \notin blobRows
      /\ ~Pending(job[w].claimed)

\* Neither a row nor what a lifecycle job has read names the blob.
Unnamed(b) ==
  /\ \A r \in deliveries \cup attachments : r.blob # b
  /\ \A w \in Workers : \A r \in job[w].refs : r.blob # b

\* storeAttachment's reference keeps the blob of an attachment that no row
\* names yet, and no job has a reference of it to release.
StoredAttachmentsKept ==
  \A p \in Parsers :
    /\ parser[p].pc # "extracting" => parser[p].put = {}
    /\ parser[p].pc \in {"idle", "loaded", "located"} => parser[p].stored = {}
    /\ parser[p].pc = "extracting" =>
         /\ \A b \in parser[p].stored : b \in blobRows /\ refcount[b] > 0
         /\ \A b \in parser[p].stored \cup parser[p].put : Unnamed(b)
         /\ \A q \in Parsers :
              q # p /\ parser[q].pc = "extracting" =>
                parser[p].stored \cap parser[q].stored = {}

\* References are only ever read from rows, and rows only name blobs whose
\* bytes were produced.
ReferencesMinted ==
  \A w \in Workers : BlobsIn(job[w].refs) \subseteq minted

(***************************************************************************)
(* The inductive invariant of the pipeline.                                *)
(***************************************************************************)
IInv ==
  /\ TypeOK
  /\ FiniteRows
  /\ FiniteJobs
  /\ LocksHeld
  /\ KeysKept
  /\ ReadableMail
  /\ RowsHaveBytes
  /\ PendingIsPrivate
  /\ ClaimedIsGone
  /\ StoredAttachmentsKept
  /\ ReferencesMinted

-----------------------------------------------------------------------------
(* What the rows remember: numbers, transitions, events.                   *)

\* IdentityForUpdate reserves the next number of a row that stays locked
\* until the number is taken or given back; a message lists a recipient once.
NumbersReserved ==
  \A s \in Sessions :
    /\ \A m, n \in DOMAIN session[s].rcpts :
         session[s].rcpts[m] = session[s].rcpts[n] => m = n
    /\ \A n \in DOMAIN session[s].seqs :
         session[s].seqs[n] = deliverySeq[session[s].rcpts[n]] + 1

\* A number names one message of its inbox, and attachments belong to one.
NumbersUnique ==
  /\ \A d \in deliveries : d.seq <= deliverySeq[d.identity]
  /\ \A d, e \in deliveries : Key(d) = Key(e) => d = e
  /\ \A a \in attachments : \E d \in deliveries : Key(d) = Key(a)

Ended(i) == state[i] \in {"expired", "reserved"}

\* A purge works on identities that have ended, a sweep on the messages of
\* one named inbox; a destroyed identity has ended before its event is out.
JobsAimed ==
  /\ destroying \subseteq {i \in Random : Ended(i)}
  /\ \A w \in Workers :
       /\ \A i \in job[w].todo : Ended(i)
       /\ job[w].pc = "purging" =>
            \E i \in Random : job[w].target = {i} /\ Ended(i)
       /\ job[w].pc \in {"sweep", "sweeping"} =>
            \E i \in Named : /\ job[w].target = {i}
                             /\ \A d \in job[w].list : d.identity = i

\* The events about an identity follow its state, each one at most once.
EventsFollowState ==
  \A i \in Identities :
    /\ Copies("identity.created", i, 0) = IF state[i] = "absent" THEN 0 ELSE 1
    /\ Copies("identity.expiring", i, 0) \in
         IF state[i] \in {"absent", "active"} THEN {0} ELSE {0, 1}
    /\ Copies("identity.expired", i, 0) \in
         IF Ended(i) /\ i \notin destroying THEN {0, 1} ELSE {0}
    /\ Copies("identity.purged", i, 0) = IF state[i] = "reserved" THEN 1 ELSE 0

\* Every number given out so far was announced once, and no other was.
ArrivalsLogged ==
  \A i \in Identities, n \in Nat :
    Copies("message.received", i, n) = IF n \in 1..deliverySeq[i] THEN 1 ELSE 0

\* The event bag holds events of identities only.
EventsTyped ==
  \A e \in BagToSet(events) :
    \E type \in EventType, i \in Identities, n \in Nat : e = Event(type, i, n)

(***************************************************************************)
(* The inductive invariant of what the rows remember.                      *)
(***************************************************************************)
HistoryInv ==
  /\ IInv
  /\ NumbersReserved
  /\ NumbersUnique
  /\ JobsAimed
  /\ EventsTyped
  /\ EventsFollowState
  /\ ArrivalsLogged

-----------------------------------------------------------------------------
(* What the rows count: usage and references.                              *)

MailOf(i) == {d \in deliveries : d.identity = i}

\* The quota is checked under the lock, for the message that will be charged.
QuotaReserved ==
  \A s \in Sessions : \A n \in DOMAIN session[s].seqs :
    ~QuotaExceeded(session[s].rcpts[n], session[s].size)

UsageWithinQuota ==
  \A i \in Identities : usedMessages[i] <= QuotaMessages /\ usedBytes[i] <= QuotaBytes

\* A random identity is never refunded; a shared inbox is, message by message.
MessagesCharged ==
  /\ \A i \in Random : Cardinality(MailOf(i)) <= usedMessages[i]
  /\ \A i \in Named  : Cardinality(MailOf(i)) = usedMessages[i]

BytesCharged == \A i \in Random : TotalSize(MailOf(i)) <= usedBytes[i]

(***************************************************************************)
(* The inductive invariant of the quotas, for any number of workers.       *)
(***************************************************************************)
ChargesInv ==
  /\ QuotaReserved
  /\ UsageWithinQuota
  /\ MessagesCharged
  /\ BytesCharged

QuotaInv == HistoryInv /\ ChargesInv

\* A row that names a blob, known by what no later statement rewrites.
RowId(r) == <<Key(r), r.blob, r \in Attachment>>

RowIds(refs) == {RowId(r) : r \in refs}

JobRefs == UNION {job[w].refs : w \in Workers}

\* The references that the count of a blob still has to cover: the rows that
\* name it, and what a job has read and not yet released.
Owed(b) == RowIds({r \in deliveries \cup attachments \cup JobRefs : r.blob = b})

\* A message being received is not named by anything yet.
BodyUnnamed ==
  \A s \in Sessions : session[s].pc = "commit" => Unnamed(session[s].blob)

\* References are held from the read to the end of the transaction, each row
\* once, and only to what that transaction deletes.
ReferencesAimed ==
  \A w \in Workers :
    /\ job[w].pc \notin {"purging", "sweeping"} => job[w].refs = {}
    /\ job[w].pc = "purging"  => \A r \in job[w].refs : r.identity \in job[w].target
    /\ job[w].pc = "sweeping" => \A r \in job[w].refs : Key(r) \in Keys(job[w].list)
    /\ \A q, r \in job[w].refs : RowId(q) = RowId(r) => q = r

\* The messages a sweep listed are there, and as large, when it deletes them.
ListStillThere ==
  \A w \in Workers :
    job[w].pc \in {"sweep", "sweeping"} =>
      /\ \A d, e \in job[w].list : Key(d) = Key(e) => d = e
      /\ \A d \in job[w].list :
           \E e \in deliveries : Key(e) = Key(d) /\ e.size = d.size

OwedCovered == \A b \in blobRows : Cardinality(Owed(b)) <= refcount[b]

NamedBytesCharged == \A i \in Named : TotalSize(MailOf(i)) = usedBytes[i]

\* Two jobs at once do not work on the same identity.  Nothing in the code
\* sees to that: it is what the theorems about the counts assume of a run.
TargetsApart ==
  \A v, w \in Workers : v # w => job[v].target \cap job[w].target = {}

(***************************************************************************)
(* The inductive invariant of the counts, for any number of workers that   *)
(* keep to different identities: two purges of one identity may release    *)
(* the same reference twice, and two sweeps of one inbox refund the same   *)
(* message at another's size.                                              *)
(***************************************************************************)
SolePart ==
  /\ BodyUnnamed
  /\ ReferencesAimed
  /\ ListStillThere
  /\ OwedCovered
  /\ NamedBytesCharged

SoleInv == QuotaInv /\ SolePart

BodyRefs(refs) == {r \in refs : r \notin Attachment}

\* The blob of a message is never the blob of an attachment.
BodiesApart ==
  \A d \in deliveries, r \in attachments \cup JobRefs :
    r \in Attachment => r.blob # d.blob

\* The messages a job has read are the messages it will delete.
BodiesRead ==
  \A w \in Workers :
    /\ job[w].pc = "purging" =>
         RowIds(BodyRefs(job[w].refs)) =
           RowIds({d \in deliveries : d.identity \in job[w].target})
    /\ job[w].pc = "sweeping" =>
         RowIds(BodyRefs(job[w].refs)) =
           RowIds({d \in deliveries : Key(d) \in Keys(job[w].list)})

(***************************************************************************)
(* ... and of exact counts of the blobs that messages are stored in.       *)
(***************************************************************************)
ExactPart == BodiesApart /\ BodiesRead /\ BodiesCounted

-----------------------------------------------------------------------------
(* Parse jobs.                                                             *)

\* The commit inserts one job for a delivery; from then on it is in the queue
\* or with the worker that runs it, and a retry is the same job again.
JobsOnce ==
  /\ \A j, k \in queue : Key(j) = Key(k) => j = k
  /\ \A p \in Parsers :
       /\ \A j, k \in parser[p].job : j = k
       /\ \A j \in parser[p].job :
            /\ \A k \in queue : Key(j) # Key(k)
            /\ \A q \in Parsers : q # p => \A k \in parser[q].job : Key(j) # Key(k)
  /\ \A j \in queue \cup Running : j.seq <= deliverySeq[j.identity]

\* So a worker that has loaded a delivery is the only one who may settle it.
NotYetParsed ==
  \A p \in Parsers :
    parser[p].pc \in {"loaded", "located", "extracting"} =>
      \A d \in Current(p) : d.status # "parsed"

AttachmentsOfParsed ==
  \A a \in attachments : \A d \in DeliveryAt(Key(a)) : d.status = "parsed"

(***************************************************************************)
(* The inductive invariant of parsing: a message is parsed once, and its   *)
(* attachments never change afterwards.                                    *)
(***************************************************************************)
ParsedInv == JobsOnce /\ NotYetParsed /\ AttachmentsOfParsed
=============================================================================
