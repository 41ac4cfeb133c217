---------------------------- MODULE ParseWorker ----------------------------
(***************************************************************************)
(* The parse job: load a delivery, decrypt its message, store each         *)
(* attachment as a blob of its own, and write the derived rows.            *)
(*                                                                         *)
(* Source: internal/worker/parse/parse.go, job.go and                      *)
(* internal/store/pg/parsed.go.                                            *)
(*                                                                         *)
(* The queue (River) is external: it is modelled by what the code asks of  *)
(* it.  A job is inserted in the transaction that commits its delivery,    *)
(* runs at least once, is retried up to MaxAttempts times, and is dropped  *)
(* when the worker cancels it.                                             *)
(***************************************************************************)
EXTENDS MailRows

CONSTANTS
  Parsers,          \* workers that run parse jobs
  MaxAttempts,      \* parse.MaxAttempts
  MaxAttachments,   \* bound on the attachments of a message
  StatementsFail    \* whether a statement may fail while its worker lives

ASSUME MaxAttemptsAssumption == MaxAttempts \in Nat \ {0}
ASSUME StatementsFailAssumption == StatementsFail \in BOOLEAN

VARIABLES
  queue,    \* jobs waiting to run
  parser    \* what each worker is doing

parseVars == <<queue, parser>>

Job == [identity : Identities, seq : Nat \ {0}, attempt : 1..MaxAttempts]

NewJob(i, seq) == [identity |-> i, seq |-> seq, attempt |-> 1]

\* job and message hold at most one element: the job being run, and the
\* delivery as it was when loaded.  stored: attachment blobs whose reference
\* is committed; put: a blob whose bytes are on disk and whose row is not yet.
IdleParser ==
  [pc |-> "idle", job |-> {}, message |-> {}, stored |-> {}, put |-> {}]

ParserState ==
  [pc : {"idle", "loaded", "located", "extracting", "parsed"},
   job : SUBSET Job, message : SUBSET Delivery,
   stored : SUBSET Blobs, put : SUBSET Blobs]

ParseInit ==
  /\ queue  = {}
  /\ parser = [p \in Parsers |-> IdleParser]

ParseTypeOK ==
  /\ queue  \subseteq Job
  /\ parser \in [Parsers -> ParserState]

-----------------------------------------------------------------------------
\* ErrPermanent cancels the job; so does having nothing left to do.
Drop(p) ==
  /\ parser' = [parser EXCEPT ![p] = IdleParser]
  /\ UNCHANGED queue

\* Deviation: the attempts of a job are not counted against its limit.
RetryForever(p) ==
  /\ parser' = [parser EXCEPT ![p] = IdleParser]
  /\ queue'  = queue \cup {[j EXCEPT !.attempt = @ + 1] : j \in parser[p].job}

\* Deviation: every error cancels the job.
RetryNever(p) == Drop(p)

\* Any other error puts the job back until its attempts are spent.
Retry(p) ==
  /\ parser' = [parser EXCEPT ![p] = IdleParser]
  /\ queue'  = queue \cup {[j EXCEPT !.attempt = @ + 1] :
                             j \in {x \in parser[p].job :
                                      x.attempt < MaxAttempts}}

Unparsed(j) == {d \in DeliveryAt(Key(j)) : d.status # "parsed"}

Load(p) ==
  /\ parser[p].pc = "idle"
  /\ \E j \in queue :
       /\ Unparsed(j) # {}
       /\ queue'  = queue \ {j}
       /\ parser' = [parser EXCEPT ![p].pc = "loaded", ![p].job = {j},
                                   ![p].message = Unparsed(j)]
  /\ UNCHANGED rowVars

\* The delivery is gone, or a run before this one parsed it.
NothingToParse(p) ==
  /\ parser[p].pc = "idle"
  /\ \E j \in queue : Unparsed(j) = {} /\ queue' = queue \ {j}
  /\ UNCHANGED <<rowVars, parser>>

\* "loading delivery" is permanent whatever the database's error was.
LoadFails(p) ==
  /\ parser[p].pc = "idle"
  /\ StatementsFail /\ Fault
  /\ \E j \in queue : queue' = queue \ {j}
  /\ UNCHANGED <<identityVars, lock, deliveries, attachments, blobVars,
                 events, parser>>

\* The identity's key and the blob's row, read after the delivery was.
HasKeyAndRow(d) == dataKey[d.identity] /\ d.blob \in blobRows

Locate(p) ==
  /\ parser[p].pc = "loaded"
  /\ \A d \in parser[p].message : HasKeyAndRow(d)
  /\ parser' = [parser EXCEPT ![p].pc = "located"]
  /\ UNCHANGED <<rowVars, queue>>

\* Purged while the job waited, or the row is gone: either ends the job.
GiveUp(p) ==
  /\ parser[p].pc = "loaded"
  /\ \E d \in parser[p].message : ~HasKeyAndRow(d)
  /\ Drop(p)
  /\ UNCHANGED rowVars

\* "loading identity" and "loading blob row" are as permanent.
LookupFails(p) ==
  /\ parser[p].pc = "loaded"
  /\ StatementsFail /\ Fault
  /\ Drop(p)
  /\ UNCHANGED <<identityVars, lock, deliveries, attachments, blobVars, events>>

ReadBytes(p) ==
  /\ parser[p].pc = "located"
  /\ \A d \in parser[p].message : d.blob \in bytes
  /\ parser' = [parser EXCEPT ![p].pc = "extracting"]
  /\ UNCHANGED <<rowVars, queue>>

\* Missing bytes may be a storage hiccup.
BytesMissing(p) ==
  /\ parser[p].pc = "located"
  /\ \E d \in parser[p].message : d.blob \notin bytes
  /\ Retry(p)
  /\ UNCHANGED rowVars

PutAttachment(p) ==
  /\ parser[p].pc = "extracting"
  /\ parser[p].put = {}
  /\ Cardinality(parser[p].stored) < MaxAttachments
  /\ \E b \in Blobs :
       /\ PutBytes(b)
       /\ parser' = [parser EXCEPT ![p].put = {b}]
  /\ UNCHANGED <<identityVars, lock, deliveries, attachments, blobRows,
                 refcount, events, faults, queue>>

\* storeAttachment's own transaction, committed whatever becomes of the parse.
AcquireAttachment(p) ==
  /\ \E b \in parser[p].put :
       /\ Acquire(b, 1)
       /\ parser' = [parser EXCEPT ![p].put = {}, ![p].stored = @ \cup {b}]
  /\ UNCHANGED <<identityVars, lock, deliveries, attachments, bytes, minted,
                 events, faults, queue>>

\* The delivery's row as it is now; empty once it has been swept or purged.
Current(p) == UNION {DeliveryAt(Key(j)) : j \in parser[p].job}

\* MarkDeliveryFailed has no guard on the state it overwrites.
MarkFailed(p) ==
  deliveries' = (deliveries \ Current(p)) \cup
                  {[d EXCEPT !.status = "failed"] : d \in Current(p)}

\* The message does not parse.
Unparseable(p) ==
  /\ parser[p].pc = "extracting"
  /\ parser[p].put = {}
  /\ MarkFailed(p)
  /\ Drop(p)
  /\ UNCHANGED <<identityVars, lock, attachments, blobVars, events, faults>>

\* An error of storeAttachment comes back through the MIME reader, where it
\* is wrapped in ErrPermanent like any other parse error.
StoreAttachmentFails(p) ==
  /\ parser[p].pc = "extracting"
  /\ StatementsFail /\ Fault
  /\ MarkFailed(p)
  /\ Drop(p)
  /\ UNCHANGED <<identityVars, lock, attachments, blobVars, events>>

\* Deviation: the delivery is marked first, its attachments follow.
StoreResultsInTwo(p) ==
  /\ parser[p].pc = "extracting"
  /\ parser[p].put = {}
  /\ \E d \in Current(p) :
       /\ deliveries' = (deliveries \ {d}) \cup {[d EXCEPT !.status = "parsed"]}
       /\ IF d.status # "parsed"
          THEN UNCHANGED <<attachments, parser>>
          ELSE /\ attachments' = attachments \cup
                    {[identity |-> d.identity, seq |-> d.seq, blob |-> b] :
                       b \in parser[p].stored}
               /\ parser' = [parser EXCEPT ![p].pc = "parsed"]
  /\ UNCHANGED <<identityVars, lock, blobVars, events, faults, queue>>

\* One transaction: parsed row, attachments replaced, delivery marked, event.
StoreResults(p) ==
  /\ parser[p].pc = "extracting"
  /\ parser[p].put = {}
  /\ \E d \in Current(p) :
       /\ deliveries'  = (deliveries \ {d}) \cup {[d EXCEPT !.status = "parsed"]}
       /\ attachments' = {a \in attachments : Key(a) # Key(d)} \cup
            {[identity |-> d.identity, seq |-> d.seq, blob |-> b] :
               b \in parser[p].stored}
       /\ Emit({Event("message.parsed", d.identity, d.seq)})
  /\ parser' = [parser EXCEPT ![p].pc = "parsed"]
  /\ UNCHANGED <<identityVars, lock, blobVars, faults, queue>>

\* The delivery has gone: the foreign key refuses the parsed row.
DeliveryGone(p) ==
  /\ parser[p].pc = "extracting"
  /\ parser[p].put = {}
  /\ Current(p) = {}
  /\ Retry(p)
  /\ UNCHANGED rowVars

\* The queue learns that the job succeeded.
JobDone(p) ==
  /\ parser[p].pc = "parsed"
  /\ Drop(p)
  /\ UNCHANGED rowVars

\* The worker dies, or a retryable statement fails; after the results are
\* stored this is the retry that raced a success.
ParserDies(p) ==
  /\ parser[p].pc # "idle"
  /\ Fault
  /\ Retry(p)
  /\ UNCHANGED <<identityVars, lock, deliveries, attachments, blobVars,
                 events>>

ParseProgress(p) ==
  \/ Load(p)
  \/ NothingToParse(p)
  \/ Locate(p)
  \/ GiveUp(p)
  \/ ReadBytes(p)
  \/ BytesMissing(p)
  \/ PutAttachment(p)
  \/ AcquireAttachment(p)
  \/ Unparseable(p)
  \/ StoreResults(p)
  \/ DeliveryGone(p)
  \/ JobDone(p)

ParseStep(p) ==
  \/ ParseProgress(p)
  \/ LoadFails(p)
  \/ LookupFails(p)
  \/ StoreAttachmentFails(p)
  \/ ParserDies(p)
=============================================================================
