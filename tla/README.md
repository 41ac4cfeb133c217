# Verification of phenk

phenk is a self-hosted service for throwaway inboxes: mail arrives over SMTP for
addresses that a client created over HTTP (*random* identities, which expire) or
that come into being with their first message (*named* identities, public and
perpetual), is sealed under a per-identity data key, parsed in the background,
read over a long-polling HTTP API, and finally destroyed. This directory holds
TLA+ models of its logic, the TLC configurations that check them on small
instances, and proofs that TLAPS checks for all instances.

Everything runs from this directory:

    tlc -workers 2 -config ingest.cfg MCMailSystem    # any run of section 4
    tlc -workers 2 -config purge.cfg MCPurge
    tlc -workers 2 -config parse.cfg MCMailReads
    tlc -workers 2 -config overlapping_sweep.cfg MCMailSystem
    tlc -workers 2 -config poll.cfg Reading
    tlc -workers 2 -config names.cfg MCFrontDoor
    tlc -workers 2 -config contents.cfg MCContents
    tlc -workers 2 -config startup.cfg MCDeployment
    tlapm MailSafety.tla                              # the proof modules, half a minute to
    tlapm MailPromises.tla                            # three minutes each from nothing
    tlapm MailAccounting.tla
    tlapm MailReadsProofs.tla
    tlapm ReadingProofs.tla
    tlapm FrontDoorProofs.tla
    tlapm ContentsProofs.tla
    tlapm DeploymentProofs.tla

`PROJECT.json` lists the runs, the mutants that show each property can fail, the
source lines behind each definition, the hazards, the findings and the theorems.

## 1. Inventory

The server is one binary (`cmd/phenk`) with modes `api`, `smtpd` and `worker`,
which `all` runs in one process. The modes share a PostgreSQL database and a
directory of content-addressed blobs, and nothing else: a deployment may run
several of each.

| Component | State it keeps | Operations |
|---|---|---|
| SMTP session and receiver (`internal/smtpd`, `receiver.go`, `session.go`) | recipients resolved so far, the spooled message, a resolution cache, connection slots and rate windows | `MAIL`, `RCPT` (`Resolve`), `DATA` (`Commit`: store sealed bytes, then one transaction over all recipients), `RSET`, close |
| Allocation and the identity API (`internal/alloc`, `api/identities.go`) | none beyond the rows | `Create`, `CreateNamed` (also from SMTP), `DestroyIdentity` |
| Rows (`internal/store/pg`, `migrations`) | `identities`, `deliveries`, `attachments`, `blobs`, `domains`, `events` | the statements every other component is written in; row locks; reference counts |
| Blob directory (`internal/store/blob`) | files named by the digest of their sealed bytes | `Put`, `Open`, `Delete` |
| Lifecycle worker (`internal/worker/lifecycle`) | what the current job has listed and read | `Notice`, `Expire`, `Purge`, `Sweep`, `Collect`, `Release`; each has a timer of its own |
| Parse worker (`internal/worker/parse`) | the message being parsed, the attachments stored so far | `Parse`: load, open, extract, store attachments, store results; retry or cancel |
| Event fan-out (`internal/events`, `api/wait.go`, `api/stream.go`, `api/messages.go`) | subscribers and their bounded buffers, a `LISTEN` connection, the position of each reader | `Subscribe`, `dispatch`, `Wait`, `Stream` |
| Name resolution (`internal/core`, `api/named.go`, `store/pg/domains.go`, `smtpd/cache.go`) | domain rows and their states, cached resolutions | which inbox a name on a domain means, and whether it may be made |
| SMTP admission (`smtpd/server.go`, `limits.go`) | connection slots, per-address windows | accept, refuse, release |
| Message reads (`api/messages.go`) | the delivery and identity a request has loaded | `GetMessage`, `GetRawMessage`, `GetAttachment`: several statements each, outside any transaction |
| Encryption (`internal/crypto`) | the chunk in hand, the counter, the key | `SealStream` in a goroutine of the session that stores the message, `OpenStream` by whoever reads it |
| MIME parsing (`internal/mimeparse`) | where the walk is, what it has gathered | one message's parts into bodies, attachments and warnings |
| Code and link extraction (`internal/extract`) | none | functions of a message's text |
| Image proxy (`api/imageproxy.go`, `internal/sanitize`) | the fetch under way | check the scheme, resolve, check the address, dial, follow redirects |
| Supervision and migrations (`cmd/phenk`, `store/pg/migrate.go`, `worker/queue`, `store/pg/db.go`) | where each mode is, the pool's connections, two advisory locks, `schema_migrations` and River's tables | `run`, `runAll`, `db.Migrate`, `queue.Migrate`, the hub's reconnecting listener, shutdown |
| Mail authentication (`worker/parse/auth.go`) | none | verdicts of a library, stored with the message |
| Rendering, generated API code, web client, configuration, tools | none that outlives a request | formatting and start-up |

How they interact: every arrow is a database transaction, except `Put` and
`Delete` of the blob directory, which are not transactional, and the
notifications of the event fan-out, which may be lost.

- A session resolves recipients outside any transaction, then commits them in
  one: it locks each identity row in recipient order, checks state and quota
  again under the lock, reserves a sequence number, inserts the delivery, its
  event and its parse job. Bytes are written before that transaction.
- The worker lists identities or deliveries outside a transaction, then works on
  each in a transaction of its own: what it listed may be stale.
- The collector deletes the row of a blob in one transaction and its bytes after.
- The parser reads a delivery, its identity and its bytes without a lock, stores
  attachments in transactions of their own, and stores its results in one more.

What makes each part correct:

- *Receiving*: a message is delivered to all its recipients or to none; the
  sequence numbers of an inbox have no gap and no duplicate; a quota holds
  whatever raced; nothing arrives in an inbox that is out of service; every
  session answers.
- *Lifecycle*: every transition happens once and is announced once; a purged
  identity leaves nothing behind; every expired identity is purged in the end.
- *Blobs*: a message that is delivered stays readable; a reference count is never
  below the number of rows that name the blob; what nothing names is collected.
- *Parsing*: every message settles, as parsed or failed, and an attachment is
  never written for a message that is gone.
- *Fan-out*: a reader sees each message once and in order, and is told of every
  message it waits for.
- *Reads*: a download fails only because its message has gone, and half a parse is
  never answered as a whole one.
- *Contents*: what is acknowledged is on disk to its last chunk; what opens is the
  message and not a beginning of it; no part is lost without a word; the code or
  link a message was sent for is not cut away by a limit; the proxy connects only
  to addresses it has looked at.
- *Start and stop*: no process serves a database that lacks what its binary
  expects; processes that start together do not make each other fail; a process
  is up with all its modes or comes down.
- *Names and admission*: racing requests and messages make one inbox per
  address and announce it once; nobody is given an inbox that may still vanish;
  once older transactions are over, a name keeps meaning the same inbox; every
  new name was paid for out of a budget; a connection slot is released exactly
  once.

The hard behaviours are listed one by one, each at its line, as `hazards` in
`PROJECT.json`.


## 2. Modules, and how they correspond to the code

Five systems are composed; each has a state space of its own, because the code
couples them only through rows, or through contents, that the other ones leave
alone.

```
Mail pipeline                    Reading                    The front door
  MailRows                         EventHub                   Names
   |- Ingest   |- Accounts          |- LongPoll                |- Admission
   |- Lifecycle |- ParseWorker      |- InboxTab                |- FrontDoor
   '- MailSystem                    '- Reading                     |- MCFrontDoor
       |- MailInvariants                '- ReadingProofs           '- FrontDoorProofs
           |- MCMailSystem - MCPurge
           |- MailSafety - MailPromises - MailAccounting
           '- MailReads (with MessageReads)
               |- MCMailReads
               '- MailReadsProofs (on MailPromises)

Contents of a message            Start and stop
  SealedStream  MimeWalk           Migration
  ImageProxy    Extract              '- Supervision
       '- Contents                       '- Deployment
           |- MCContents                     |- MCDeployment
           '- ContentsProofs                 '- DeploymentProofs

MailSystem --implements--> Mailbox <--implements-- Reading
```

**State.** Variables that stand for rows hold *committed* rows. A transaction
that reads, waits for a lock and writes is a sequence of actions of its process;
what it has read is in the process's private record (`session`, `job`, `parser`,
`wait`, `tab`, `open`, `smtp`), and its writes appear in the row variables in the
one action that commits it. Single SQL statements outside a transaction, and
transactions that read and write nothing another process could change in
between, are one action. Bytes on disk are not transactional and have actions of
their own.

| Module | Models | State in the code | Actions |
|---|---|---|---|
| `MailRows` | tables and blob directory | `state`, `dataKey` (not the key: whether there is one), `deliverySeq`, `usedMessages`, `usedBytes`, `deliveries`, `attachments`, `blobRows`/`refcount`, `bytes`, `events` (a bag), `lock`, `clock` and ages | the statements: `Acquire`, `Released`, `DeleteDeliveries`, `PutBytes`, ... |
| `Ingest` | `receiver.go`, `session.go` | `session`: recipients, stored body, numbers reserved so far | `Rcpt`, `Reset`, `StoreBody`, `LockRecipient`, `Refuse`, `DeadlockAbort`, `CommitFails`, `Commit` |
| `Accounts` | `alloc.go`, `api/identities.go` | identities being destroyed | `AllocateRandom`, `OpenNamed`, `DestroyIdentity` and the event that follows it |
| `Lifecycle` | `lifecycle.go`, `pg/lifecycle.go`, `pg/blobs.go` | `job`: list, row being worked on, references read, blob claimed | `Notice`, `Expire`, and `PurgeList/Read/Apply/Conflict`, `SweepList/Read/Apply`, `CollectList`, `ClaimOrphanBlob`, `DeleteBytes`, `JobDies`, `Tick` |
| `ParseWorker` | `parse.go`, `job.go`, `pg/parsed.go` | `queue`, `parser` | one action per read and per transaction, per error path (`LoadFails` and `LookupFails` take any error for a permanent one), and the death of a worker |
| `Mailbox` | what the pipeline promises | `box`, `next`, `mail` | `Open`, `Deliver`, `Close`, `LetGo`, `Empty` |
| `EventHub` | `hub.go`, `AppendEvent`, `DeliveriesSince`, `messagePage` | messages of one inbox, numbers reserved, notifications on the wire, each subscriber's channel | the writers (`Reserve`, `Commit`, `Rollback`, `Parsed`, `LetGo`, ...), `Listen`, `Drop`, `Dispatch` |
| `LongPoll` | `wait.go` (`wait`, `settle`) | `wait`, `cursor` and what the client was given | `Request`, the three reads, `Wake`, `Poll`, `GiveUp`, `TimeOut`, `HangUp` |
| `InboxTab` | `stream.go`, `use-inbox.ts` | the stream's cursor and what it sent; the tab's list, cursor and fetches, any number at once; history of what it was told | `Connect`, `CatchUp`, `Relay`, `Break`, `Hear`, `Serve`, `Arrive`, `Lose` |
| `Names` | `named.go`, `named_wait.go`, `alloc.go`, `pg/identities.go`, `pg/domains.go`, `api/limits.go` | domains, inboxes with who made them and when their transaction began, budgets | `SetDomainState`, `Refill`, and the request from `OpenExisting` to `OpenCommit` with its refusals |
| `Admission` | `limits.go`, `server.go`, `cache.go`, `Rcpt` and `Resolve` | slots, connections, cached domains, the current transaction | `Accept`, `Close`, `RcptKnown/New/Throttled`, `CommitBegin`, `Place`, `Commit`, `CommitFails`, `CacheExpires` |
| `MessageReads`, `MailReads` | `api/messages.go` | `reader`: the delivery as it was loaded, the blob it looks for, what it has of the answer | `DeliveryByID`, `IdentityByID`, then `Summarize`, `CountAttachments`, `WriteMessage`, `ListAttachments`, or `GetRawMessage`/`GetAttachment`, `BlobByID`, `OpenBytes` |
| `SealedStream` | `storeBody`, `crypto/stream.go`, `Put` | `sealer` (the goroutine, with the size and error it shares), `pipe`, frames `written`, `commit`, the `file`, the `opener` | `ReadChunk`, `SealFrame`, `WriteFrame`, `ReadFails`, `Report`, `ClosePipe`; `PutSucceeds/Fails`; `Damage`; `OpenHeader`, `OpenFrame` |
| `MimeWalk` | `mimeparse.go`, `storeAttachment` | `walk`: position, parts counted, bodies, attachments, warnings | one action per kind of part and per way in which the walk ends |
| `Extract` | `extract.go` | none | operators: `InOrder`, `Mentions`, `Score`, `BestFirst`, `Codes`, `DistinctLinks`, `classify`, `links`, `Message` |
| `ImageProxy` | `imageproxy.go` | `proxy`: the fetch, the address about to be dialled, those dialled | `ProxyImage`, `Resolve`, `ControlContext`, `Unreachable` (both go on to the name's next address), `Connect`, `Redirect`, `Served`, `Refused`, `Timeout` |
| `Migration` | `pg/migrate.go`, `queue.go`, `db.go` | `applied`, `riverTables`, `lock` (the two advisory locks), `main` (rows read, file reached), the pool as a count of who holds a connection | `MainAcquires` to `Migrated` and `FileRefused`; `RiverAcquires` to `CreateTables` and `TablesRefused` |
| `Supervision` | `main.go`, `all.go`, `api.go`, `worker.go`, `runtime.go`, `hub.go` | `mode` (each goroutine), `hub`, `disturbed` (what happened to a process from outside) | `Start`, `Launch`, `Serve`, `Stop`, `Return`, `Exit`; `Signal`, `Crash`, `MainFails`, `ModeFaulty`; `HubListens/Drops/Returns` |

`map` in `PROJECT.json` gives the source lines behind every definition. Some
modules also hold a second version of a definition with a plausible bug in it
(`CanReceiveInAnyState`, `ReserveUnlocked`, ...), next to the right one: no
specification uses it, and `PROJECT.json` lists under `mutants` which property
each one breaks.

**Abstractions that matter.**

- A blob is a fresh value each time bytes are stored: every `Commit` and every
  attachment is sealed under a new random key, so equal contents never collide.
  Reference counts above one come from one message with several recipients.
- A message has a size and nothing else; a subject, a body and a code are not
  told apart. Parsing succeeds, fails for good, fails for now, or stores
  attachments. What a message contains is the subject of `Contents`, which has no
  rows.
- In `Contents` a plaintext is a sequence of parts, a part's body a sequence of
  lines, a line a sequence of the words that the regular expressions of
  `extract.go` tell apart, with a word of its own (`Fused`) for what ends like a
  lead without being a keyword ("promocode:", `extract.go:79`). A part is also what the stream cuts into chunks, so
  one small message exercises framing and parsing. The cipher is ideal: a frame
  opens under the header, counter and trailer it was sealed with, and only whole.
- In `ImageProxy` a host name means whatever address its sender's name server
  says, each time it is asked.
- In `Migration` a file is a name with a checksum, and applying it fails exactly if
  a file of that name was applied before: its statements create what they find.
- Time is a set of deadlines that may pass: `Tick` ages an identity through its
  deadline and the grace period, `Age` makes a delivery of a named inbox
  sweepable, a timer is an action that may fire.
- Postgres is READ COMMITTED with row locks: a reader sees committed rows, a
  writer waits for the lock, a cycle of waiters is broken by aborting one of
  them, a unique index makes a second insert wait for the first. `created_at` is
  the start of the inserting transaction.
- The job queue (River) is external: at-least-once, a bounded number of attempts,
  dropped when cancelled.
- In `Names` the domain states that behave alike towards a name are one:
  `withheld` stands for fresh and burned.

## 3. Plan

Done, in this order: the mail pipeline (the product's core: `MailRows` to
`MailSystem`, `Mailbox`) and its proofs; the readers (`EventHub` to `Reading`); the
front door (`Names` to `FrontDoor`), and the proofs of both; reading one message
against the pipeline (`MessageReads`, `MailReads`); the contents of a message
(`SealedStream`, `MimeWalk`, `Extract`, `ImageProxy`, `Contents`) and its proofs;
start and stop (`Migration`, `Supervision`, `Deployment`) and its proofs.

Then every safety property of a run was taken to a theorem, and the inbox that is
read was shown to implement the same abstract mailbox as the pipeline that fills
it (section 6).

What is left, most valuable first.

1. The spool file and size limit of `DATA`, and the temporary file of `Put`.
2. Theorems about what the abstract mailbox itself promises, which the refinement
   carries over to the pipeline, and about the lower-level steps that the models
   take as one: that `Ingest`'s transaction over several recipients is the sequence
   of single ones.
3. The pure parts of `sanitize`, of address syntax in `core` and of the generator
   of random addresses, each against a reference definition.

## 4. Runs

Every run is exhaustive for its bounds. `CHECK_DEADLOCK FALSE` is in every
configuration because the bounds stop the system: when every blob has been used,
every identity is a tombstone, or every fault and request has been spent,
nothing is left to do. Waiting for ever, where it would be a fault, is a
property instead (`SessionsAnswer`, `MessagesSettle`, `PollersSeeAll`).

| Run | Question | Distinct states |
|---|---|---|
| `ingest` | two sessions, a random and a named inbox, both orders of locking, two sizes, one fault: gapless cursor, quota, nothing late, every session answers | 258,862 |
| `purge` | two workers whose jobs overlap, on two random inboxes that share messages or on one named inbox: empty tombstones, each event once, messages counted, all counts exact while no two jobs have worked on one inbox at once, the abstract mailbox | 1,266,146 |
| `parse` | a parser with an attachment and a client that reads the message, against purge, sweep and collection, a crash or a failed statement, in a random or a named inbox: readable mail, references that cover, honest answers | 2,799,061 |
| `live` | up to two crashes: tombstones, orphans and messages all come to an end | 130,307 |
| `poll` | a client with a page of one and two messages, up to two lost notifications or connections | 166,616 |
| `tab` | a tab with two fetches at once, a page of one and two messages, a full channel, a broken connection or a failed query | 6,685,649 |
| `names` | one HTTP client and two SMTP connections of one source reach one name on two domains; a domain changes state, a transaction fails, budgets run out | 3,040,269 |
| `contents` | every message of three parts, of five HTML parts, of two lines searched for codes, of two or three links; one failure while storing, two damages at rest | 4,586,878 |
| `startup` | one process in `all` mode and a worker of an older release, on a new database or one that another version has migrated; one fault, signals at any moment, restarts after a crash | 562,110 |
| `overlapping_purge`, `overlapping_sweep`, `lost_parse` | what a comment in the code says, which the code does not do (section 7) | until the counterexample |

**Bounds**, and why they are enough for the cases the properties are about.

- `Blobs` bounds the messages and attachments ever made. Two are a message
  before and one after any point; three let a swept message have a newer and an
  older neighbour. `refcount` and the event bag are bounded by it.
- `Sessions`, `Workers`, `Parsers`: two of the kind whose races the run is about,
  one of the others. The races among the hazards are between two transactions
  over one row or one blob; a third of the same kind is left to the proofs.
- `MaxFaults` bounds crashes, failed statements and lost connections together.
  `live` and `poll` have two, so that a retry or a reconnection can fail as well;
  the other runs have at most one, at any point, since nothing but rows and bytes
  outlives a crash. The proofs have no such bound.
- `QuotaMessages`, `QuotaBytes`, `Sizes`: small enough that each limit alone
  refuses a message in `ingest`.
- `MaxAttempts` is 2 or 3 instead of the configured number, `MaxAttachments` 1.
- `SubscriberBuffer` is 2 in `poll`, so that reminders and parse events fill it,
  and 1 in `tab`; `PageSize` 1 makes a backlog longer than a page in both.
  `MaxMessages`, `MaxReminders` (other notifications of the inbox) and
  `MaxRequests` (fetches of a tab at once) bound the rest: two fetches are
  enough for answers that overtake each other, and the proof has any number.
- In `purge`, `MCPurge` lets either random inboxes with messages of one size or a
  named inbox with two sizes exist (`OneKind`), and has a history variable:
  `apart` says that no two jobs have worked on one identity at once so far.
- In `names`, `MaxTransactions` bounds transactions, `MaxRefills` the tokens that
  budgets regain in all, `MaxChanges` the changes of a domain, whose initial
  states are arbitrary. `Burst` and `GlobalBurst` are 1: the second name is
  refused unless a budget regained a token.
- In `parse`, `OneInbox` lets either a random or a named inbox exist: what is
  read, parsed and swept belongs to one inbox. Its one worker leaves overlapping
  jobs, and two inboxes that share a message, to `purge`.
- In `contents` every limit (`ChunkSize` 2, `MaxParts`, `MaxCodes`, `MaxLinks`,
  `MaxScan`, `MaxRedirects` 2, body and attachment sizes of 3 lines) is small
  enough to be reached, passed, and met exactly: texts of 0 to 5 parts end at, and
  on either side of, a chunk. `MaxDamage` 2 is enough for a frame to be lost and
  another to take its place.
- In `startup`, `MaxConns` is 4, the least with which `WholeOrGone` holds for `all`
  mode (section 7); the default of the code is 16. `Restarted` is `{"killed"}`:
  only a process that was killed starts again, as often as `MaxFaults` allows.
  The older worker carries one file less; the edited file of the second initial
  state is one that the newer binary refuses.
- `StatementsFail = FALSE` in `live` keeps out the failed statement that loses a
  parse job (section 7), so that `MessagesSettle` says something about
  everything else.
- Symmetry is used only in runs without liveness properties, over processes and
  content addresses, which no definition tells apart. `ImplementsMailbox` is a
  safety property whose refinement mapping names no symmetric value.

**Not vacuous.** Each property of a passing run has a mutant in `PROJECT.json`, a
plausible bug of one mapped definition, with which the same run finds it
violated. Between them the passing runs take every action.

## 5. Fairness

Clients, mail, faults and deaths have no fairness in the pipeline: nothing has to
happen to it. What is assumed:

- *Sessions that hold a complete message* make progress (`WF`): the handler is a
  goroutine inside a bounded transaction. They may be refused, aborted or fail.
- *Ticks* (`WF`): time passes.
- *`Expire`* (`WF`): one statement on a timer.
- *A worker in the middle of a job* goes on (`WF`), and each kind of job is
  started again and again (`SF` of `PurgeList`, `SweepList`, `CollectList`): each
  has a timer of its own in the queue, so no job can crowd another one out.
- *Parsers* make progress (`WF`). A parser may die; `MaxFaults` bounds how often.
- *Reading*: the liveness property is about a client that keeps polling
  (`WF` of `Request`); reads return and the deadline of a request fires (`WF`);
  the parse grace has `SF`, because the select of `settle` may prefer another
  branch that is ready, and a timer that has fired stays readable until it is
  taken.
- *Start and stop*: a goroutine that can go on does (`WF` of `MainStep`, of each
  mode's `ModeStep`, of the hub): Go schedules every goroutine, the database
  answers, an advisory lock whose holder's session ended is free, and a context
  that has ended is noticed by the select that waits for it. Signals, faults,
  crashes and restarts have none.
- *The front door* and *Contents* have only safety properties.

## 6. What is proved

The theorems hold for every value of the constants: any number of identities,
sessions, workers, parsers, messages, readers, domains, names and faults. Their
assumptions are those of the modules (finite or natural-number constants,
disjoint kinds of identities, `NoOne` and `NoBlob` different from the rest), which
TLC evaluates on every run.

**The pipeline's bytes** (`MailSafety`). `TypeCorrect` is proved together with the
finiteness of the rows, because counts are cardinalities. That delivered mail
stays readable is not inductive: it depends on bytes that are on disk but have no
row yet, and on blobs that a job has already decided to delete. `IInv` of
`MailInvariants` adds what each mechanism guarantees between two steps:

- a reserved sequence number is held under the row lock, in a state that accepts
  mail (`LocksHeld`), and the key goes with that state (`KeysKept`);
- rows have bytes, and bytes are written under fresh names
  (`RowsHaveBytes`, `PendingIsPrivate`), so a stored body belongs to one session;
- a claimed blob can get no row any more (`ClaimedIsGone`);
- an attachment that is stored but not yet named is kept by its reference count,
  because no job has a reference to it that it could release
  (`StoredAttachmentsKept`, `ReferencesMinted`).

Most steps move no blob, and one lemma deals with them; seven move one
(storing a body, committing, storing an attachment, storing results, applying a
purge or a sweep, claiming) and have a proof each. `MailStaysReadable` and
`NothingArrivesAfterExpiry` follow. Note that readability does not rest on exact
reference counts: two overlapping purges make them wrong (section 7), and what
saves the message is that a claim looks at the rows again.

**The pipeline's promises** (`MailPromises`, from `HistoryInv`). A number that a
session has reserved is the next one of its inbox and of no other session, since
the row stays locked until the commit (`NumbersReserved`); so no two messages have
one number, and each number up to the last has one announcement
(`NumbersUnique`, `ArrivalsLogged`): `CursorHasNoGap`. Jobs aim at identities of
the right kind (`JobsAimed`), states only go forward, and each event is written
with the transition it names, `identity.expired` of a destroyed inbox excepted,
which may still be owed (`EventsFollowState`): `TransitionsAnnouncedOnce` and
`PurgedIsEmpty`, both for any number of workers whose purges overlap.
`PipelineIsAMailbox` is the refinement, step by step: the mapping shows of a
message only what a reader can open, so each step of the pipeline must leave
unreadable mail out and readable mail in; `MailStaysReadable` makes the two the
same, and then commits are `Deliver`, sweeps `LetGo`, purges `Empty`, and everything
else is one of the remaining actions or a stutter.

**The pipeline's counts** (`MailAccounting`). `QuotaInv` holds for any number of
workers: usage is charged under the lock under which the quota was looked at, and
what a sweep refunds in messages is what it deletes (`ChargesInv`). It gives
`MessageQuotaHolds`: no inbox holds more messages than its quota, no random one
more bytes; and `MessagesAreCounted`: a named inbox is charged for as many messages
as it holds, however many sweeps overlap.

The bytes charged and the references counted are right only as long as no two
jobs work on one identity at once (`TargetsApart`): overlapping sweeps or purges,
which the code allows, refund or release twice what each read before it locked
the row, and `UsageIsMail` and `RefcountCovers` are then false (section 7). So the
theorems about them are of the form `Spec /\ []TargetsApart => []P`: a statement
about the behaviours in which jobs of one identity do not overlap, with any number
of workers that overlap on different identities, parsers, attachments, retries,
failures and crashes. `SoleInv` adds that what a job has listed is still there
and what it has read is still owed to the counts (`ListStillThere`,
`OwedCovered`): `NoInboxOverQuota`, `UsageFollowsMail`, `EveryReferenceCounted`. That
the message itself is counted exactly, each copy once (`BodiesCounted`,
`CountsAreExact`), follows from `ExactPart`: no attachment shares a blob with a message
(`BodiesApart`), and what a job has read of its target is what is there
(`BodiesRead`). Attachments are left out of that one claim, because the reference of
one whose parse fails later is never released (section 7). In the `purge` run, where
jobs do overlap, the same is checked up to the first overlap (`CountsWhileApart`).
Workers are a finite set (`WorkersAssumption`).
Sizes are added up as the number of bytes, each a member of a set (`TotalSize` is
a cardinality), so that the theorems about finite sets apply to them.

**Reads** (`MailReadsProofs`, from `ReadsInv`). A message has one parse job, in the
queue or with one parser, from its commit until it is settled (`ParsedInv`): so what
a parsed message has is final, and the several statements of a handler, each of
which may see another state of the database, see one message or find it gone
(`ReaderInv`). A message that has gone does not come back under its number.
`DownloadsSucceed` and `AnswersAreWhole`, for any number of requests beside any
number of workers and parsers.

**The readers** (`ReadingProofs`). A cursor never skips a message (`CursorSafety`)
because numbers are written in order (the row lock is held from the reservation
to the commit), a page is a prefix of what follows a cursor, and a held page
stays one, since what commits meanwhile has a higher number (`CursorInv`).
`NewsInv` adds that whoever waits or streams has subscribed (`Registered`), and
that of a message beyond its cursor there is news on the wire or in its channel,
full or not, unless a lost notification is on record for it (`NewsPending`):
`NoLostWakeup` for any buffer size, `StreamComplete` because the stream relays only
what follows its cursor (`TabsBehind`). A stream whose newest page was full is
excused from having sent everything until the next event, and one that lost a
notification likewise; that its cursor passes nothing it has not sent has no
exception.

`QuietTab` has no premise about pages or fetches. `KnowledgeInv` follows what a
tab has been told: an answer accounts for everything written when it was served,
or, if its page was full, for what is up to the page's end (`AccountedFor`); the
tab knows what its answers accounted for, its cursor and those of its fetches lie
within that (`Knows`), and of what the stream has sent and of all there is, the tab
knows each number or has a fetch under way that will account for it (`Learns`).
An answer to `catchUp` adds to the list, so overtaking does no harm there; a whole
list replaces it, and an older one than what the tab knew takes messages away.
That case is the exception `forgot`, and `cut` and `missed` are the other two: the
last page was full, or a notification or an answer was lost.
`InboxIsAMailbox` ties the readers to the pipeline: what can be listed of an inbox
is a `Mailbox` too. A commit is `Deliver`, because the number a transaction holds is
one more than the numbers written (`WrittenBelow`, from `NumbersInOrder`), a sweep
is `LetGo`, and everything else, readers and losses included, is a stutter.

**The front door** (`FrontDoorProofs`). `OneMaker`, `AnswersHold`, `OpenedOnPool`
and `NamesStayPinned` follow from an invariant that says who holds an uncommitted
row: the one request or transaction that inserted it, whose start is the row's
birth (`PendingIsHeld`), and conversely that a request that believes its name is
placed has a row that is live or its own (`PlacedIsThere`). That a settled name
stays is then a statement about births: only a row of a running transaction can
become live, and every running transaction began after the settled inbox's.
`EveryInboxIsPaid` counts what is made together with what is owed: a client that
has paid and not inserted yet (`Dues`), a session that was told at `RCPT` that its
name will be made (`Owing`). A bucket has paid for both (`PaidInv`); a retry, a
rollback, a repeated recipient and a race that another one wins only ever lose
tokens, never inboxes. `SlotsAreExact` holds because only the first close of a
connection finds it open (`SlotsInv`).

**The contents** (`ContentsProofs`). `StoredMessagesAreWhole` and
`ReadersGetTheMessage` rest on `StreamInv`: the frames that went through the pipe
follow each other from the first element and none but the last is final
(`FramesInOrder`); what the sealer has read ahead and what it has written are one
beginning of the message, and the pipe ends without an error only after the size
is there (`Sealing`), so a `Put` that returns has all of it (`Storing`); and a
reader that has come to counter *n* has taken exactly the first *n* frames of what
was written, whatever became of the file, because a frame opens only at its own
counter (`Opening`). For any message, chunk size, number of failures and number of
damages. `NoPartIsLost` is an induction over the walk for any message and limits (to be
shown is not to be shown whole: a text is cut at `MaxBodyBytes`, and an inline file
loses its bytes, section 7);
`ProxyDialsPublic` shows that what is about to be dialled has been checked since
it was last resolved, for any addresses and number of redirects.
`ContentsTyped` adds the limits: parts, warnings, redirects and faults are counted
within theirs.

`BestCodesListed` and `FollowedLinksListed` speak of the definitions of `Extract`,
for any text, limits, kinds of words and reading of URLs. What a sort or a selection
lists is told there by the pairs of its order (`InOrder`), not by the steps of a
sorting algorithm, so nothing has to be counted up along the list: the number of
members before each one is its place, no two members share a place, and an
injection between two sets of one size reaches every place (`InOrderLists`). The
rest is about the order: reading order and the order of scores are strict
(`ReadingIsOrder`, `BestFirstLists`), a mention that is stated outright on a line
with a keyword scores at least five and one without a lead at most four
(`StatedScoresMore`), and the three kinds of links stand one after the other
(`ArrangedByRank`). `Answering` carries it to the answer: the bodies are made of
lines while the walk goes on, and after it nothing changes them. A code is judged by
its first mention and a URL by its first anchor, and the properties say so: a code
that is stated outright only where it is repeated, or a URL whose later anchor says
"unsubscribe", gets no credit for it. A "promocode:" leads up to a code without
being a keyword; such a mention only ties with a plain one, and nothing is claimed
of it.

**Start and stop** (`DeploymentProofs`). `ServesOnlyMigrated` and
`NobodyFailsForNothing` rest on one idea: what is read under an advisory lock stays
true until the lock is given up, because whoever changes it needs the same lock
(`LocksHeld`). So the rows that were read, and the files applied since, are all
there are (`FilesKnown`), and River's tables are there exactly if they were found
(`TablesKnown`): the two refusals of the model, of a file applied behind the rows
and of a table created behind the versions, cannot happen. For any processes with
any binaries, whatever the database held, and any number of connections and
failures. The lock's connection that dies under its holder is a fault of that
process here; a session that outlives it is not modelled.

**Only model-checked**: every liveness property (liveness and `ENABLED` are
beyond the prover), and `CountsWhileApart` as it stands, with its history variable;
the theorems with `[]TargetsApart` are its counterpart.

## 7. Where the code and its words part

Three runs end in a counterexample; `findings` quotes the lines.

- `overlapping_purge`: two purges of one identity at once both release the blobs
  they read, so a message shared with another recipient is counted too low
  (`lifecycle.go:205`). The overlap needs a second tick while a purge is still
  running, or a retry of one that was presumed dead.
- `overlapping_sweep`: two sweeps of one named inbox at once each refund the sizes
  of the first messages they listed instead of those they removed
  (`lifecycle.go:316`), so that the inbox is charged for bytes it does not hold, or
  for too few. The number of messages stays right.
- `lost_parse`: a database error while a delivery is loaded counts as permanent
  and cancels its only parse job (`parse.go:82`); so do errors while its identity
  (`parse.go:92`) and its blob's row (`parse.go:169`) are loaded.

The models contain the following, which no run reports. Where it says how, a
changed configuration shows it.

- An attachment's blob is acquired in a transaction of its own; when the parse fails
  afterwards nothing releases it (`parse.go:307`), though `lifecycle.go:398` has
  the sweep collect blobs "orphaned by a failure part way through an earlier job": `live.cfg` with
  `Blobs = {b1, b2}`, `MaxAttachments = 1` and `PROPERTY UnreferencedCollected`.
- The body of a part with an inline disposition is read before its type is looked
  at (`mimeparse.go:229`), so an inline image is stored as an attachment of no bytes,
  although `mimeparse.go:104` has each attachment's body read as it is reached.
- Answers of two fetches of a browser tab that arrive in the other order make a
  message disappear from the list (`use-inbox.ts:52`), against `use-inbox.ts:16`: the
  tab lists 1 and 2, an older whole list with 1 alone arrives and sets the cursor
  back to 1, and 2 is missing until the next event; a `catchUp` from 2 that was
  under way and brings 3 moves the cursor past it, and then it is missing until a
  message is parsed or the page is loaded again.
  `QuietTabShowsAll` excepts this case by name (`forgot`); without `~tab[t].forgot`
  the `tab` run violates it.
- A pool of three connections is too small for `all` mode: two holders of a
  connection wait in `queue.Migrate`, the hub listens on the third, and River's
  migrator needs one more. `startup.cfg` with `MaxConns = 3` violates `WholeOrGone`.
- The `api` command alone does not come down when its listener fails: `runAPI`
  returns, the hub goes on listening because no signal came, and closing the pool
  (`main.go:79`) waits for the hub's connection; `all.go:36` cancels the others for
  that reason. `startup.cfg` with `"api"` for `"all"` in `MCCommand` violates
  `WholeOrGone`.
- When `Put` fails before it has read everything, the sealing goroutine stays blocked
  on a pipe that nobody reads (`receiver.go:355`), and the key it uses is destroyed
  by the `Commit` that started it (`crypto.go:141`), a data race. In `SealedStream`
  the sealer then stays at its frame, or is `gone`.
- A file part whose body cannot be read fails the whole parse, while any other part
  is warned about; a body longer than `MaxBodyBytes` is cut without a warning; a
  part that cannot be decoded does not count towards the limit of parts.
- A code keeps the place and score of its first mention (`extract.go:145`), so a later
  mention with a stronger lead does not move it up. A repeated link keeps the text
  of its first anchor, so one whose second anchor unsubscribes is listed as any
  other, although `extract.go:42` must never mistake one of these; and one whose
  second anchor verifies may be cut. `CodesBestFirst` and `LinksToFollowFirst` judge
  by the first, and say so.
- `strongLead` (`extract.go:79`) has no word boundary and `keywords` (`extract.go:75`)
  has: "promocode: AB12" leads up to a code on a line without a keyword.
- `proxyMaxRedirect` counts requests, the first included: three allow two redirects.
- An event stream that is open when the server stops makes the shutdown take its
  whole 15 seconds and end in an error (`ModeFaulty` of a mode that is cancelled).
- `api/identities.go:75` and `openapi.yaml:108` promise that a destroyed inbox
  goes with the next purge; `pg/lifecycle.go:52` waits for its original deadline
  and the grace period.
- `lifecycle.go:8` names the progression active, expiring, expired; `Expire` and
  a destroyed inbox skip the notice.
- `receiver.go:322` says a later delivery reuses the bytes of a refused one; they
  are sealed under a fresh key, and nothing looks for bytes without a row. The
  same holds for bytes whose collector died after deleting the row.
- `named_wait.go:58` and `core/domain.go:28` keep new names off fresh and burned
  domains; `Resolve` refuses only retired ones, so mail makes them there.
- A cached domain is not looked at again at the commit, so a retired one keeps
  receiving for as long as its entry lives; and a cached inbox that was full when
  it was cached is refused until then, although `cache.go:12` says negative
  answers are not cached.
- `api/limits.go:10` calls the HTTP limit exactly as strict as the SMTP one; only
  SMTP has a global cap, and an address has a budget of its own on each side.
- A bare name means the inbox with the earliest `created_at`, which is the start
  of a transaction: one that began earlier and commits later takes the name over.
  `names.cfg` with `NamePinned` for `PinnedOnceSettled` shows it.
- After a lost notification a long poll waits for the next one or its deadline:
  `wait` passes over other notifications without reading, and `EventsSince`, where
  `events.go:53` says subscribers catch up, has no caller outside tests.
- The event that announces a message on a stream may be labelled as the parse of
  an earlier one; `settle` may answer a page that was emptied meanwhile without
  saying that it timed out (`wait.go:118`).
- The catch-up of a stream is one page (`stream.go:54`), so a longer backlog waits
  for the next event; and a parse event reduces a tab's list to the first page.
- The event of a destroyed identity is lost when the server dies between its two
  statements (`api/identities.go:90`).

## 8. What is not modelled

- Mail authentication (`worker/parse/auth.go`): SPF, DKIM and DMARC are verdicts of a
  library about DNS records, stored with the message and used nowhere else.
- The wiring of routes, generated API code, the web client apart from
  `use-inbox.ts`, configuration and tools keep no state that outlives a request.
- The ciphers, the wrapping of data keys by the master key, headers and character
  sets, the regular expressions of `extract.go`, the HTML policy and the signatures
  of image links: the models take what they decide as given.
- `DATABASE_MIGRATE=false` and the `domain` command. The `migrate` command is
  modelled (`Runs = {}`) and in no run.
- The spool file and size limit of `DATA`, the temporary file and rename of
  `Put`, full text search, blocked names, address syntax.
- The five systems are not composed with each other. `MailReads` reads what
  `MailSystem` writes; `Contents` is one message between the sealing of `StoreBody`
  and the answer of `WriteMessage`, and has no rows. `Names` and `MailSystem`
  meet in the row of a named inbox: `Ingest` makes it in one step under a lock,
  which `Names` shows in detail for messages with one recipient. `EventHub` and
  `MailSystem` meet in `deliverySeq` and the events of an inbox: `Reserve`,
  `Commit` and `Rollback` of `EventHub` are `LockRecipient`, `Commit` and
  `Rollback` of `Ingest`, seen by the readers of one inbox. Both implement `Mailbox`
  (`PipelineIsAMailbox`, `InboxIsAMailbox`), so what they share of an inbox that lets
  messages go is specified once.
