------------------------------ MODULE MailRows ------------------------------
(***************************************************************************)
(* The shared state of the mail pipeline: the Postgres rows that the SMTP  *)
(* receiver, the API, the lifecycle jobs and the parser read and write,    *)
(* and the blob bytes on disk, which no transaction covers.                *)
(*                                                                         *)
(* Source: migrations/0001_init.sql, migrations/0002_blob_envelope_keys.sql,     *)
(* internal/store/pg and internal/store/blob/fs.go.                        *)
(*                                                                         *)
(* Every variable holds COMMITTED rows.  A transaction that reads, waits   *)
(* for a lock and then writes is a sequence of actions of its process; its *)
(* writes appear in these variables in the one action that commits it.     *)
(***************************************************************************)
EXTENDS Integers, FiniteSets, Sequences, Bags

CONSTANTS
  Random,          \* identities of kind random: owned, with a deadline
  Named,           \* identities of kind named: shared, perpetual
  Blobs,           \* content addresses (sha256 of sealed bytes)
  Sessions,        \* SMTP sessions
  NoOne,           \* no session: an unlocked row
  NoBlob,          \* no content address
  QuotaMessages,   \* identities.quota_messages
  QuotaBytes,      \* identities.quota_bytes
  MaxFaults        \* bound on crashes and transient errors

ASSUME KindsAssumption   == Random \cap Named = {}
ASSUME NoOneAssumption   == NoOne \notin Sessions
ASSUME QuotaAssumption   == QuotaMessages \in Nat /\ QuotaBytes \in Nat
ASSUME MaxFaultsAssumption == MaxFaults \in Nat
ASSUME BlobsAssumption   == IsFiniteSet(Blobs) /\ NoBlob \notin Blobs

Identities == Random \cup Named

VARIABLES
  state,         \* identities.state, or "absent" while there is no row
  dataKey,       \* TRUE while wrapped_data_key is not empty
  deliverySeq,   \* identities.delivery_seq
  usedMessages,  \* identities.used_messages
  usedBytes,     \* identities.used_bytes
  lock,          \* the session whose transaction holds the identity's row
  deliveries,    \* rows of deliveries
  attachments,   \* rows of attachments that name a blob
  blobRows,      \* blobs that have a row
  refcount,      \* blobs.refcount
  bytes,         \* content addresses whose bytes are on disk
  minted,        \* content addresses ever produced (history)
  events,        \* bag of the events appended so far
  faults         \* crashes and transient errors so far

identityVars == <<state, dataKey, deliverySeq, usedMessages, usedBytes>>
blobVars     == <<blobRows, refcount, bytes, minted>>
rowVars      == <<identityVars, lock, deliveries, attachments, blobVars,
                  events, faults>>

-----------------------------------------------------------------------------
(* Row types.                                                              *)

IdentityState == {"absent", "active", "expiring", "expired", "reserved"}

DeliveryState == {"received", "parsed", "failed"}

Delivery ==
  [identity : Identities, seq : Nat \ {0}, blob : Blobs, size : Nat,
   status : DeliveryState, old : BOOLEAN]

Attachment == [identity : Identities, seq : Nat \ {0}, blob : Blobs]

EventType ==
  {"identity.created", "identity.expiring", "identity.expired",
   "identity.purged", "message.received", "message.parsed",
   "message.expired"}

\* An event about an identity itself carries sequence number 0.
Event(type, i, seq) == [type |-> type, identity |-> i, seq |-> seq]

Copies(type, i, seq) ==
  LET e == Event(type, i, seq) IN IF BagIn(e, events) THEN events[e] ELSE 0

AcceptsMail(i) == state[i] \in {"active", "expiring"}

QuotaExceeded(i, size) ==
  \/ usedMessages[i] + 1 > QuotaMessages
  \/ usedBytes[i] + size > QuotaBytes

\* Deviation: the row is read without FOR UPDATE.
UnlockedUnchecked(i) == i \in Identities

Unlocked(i) == lock[i] = NoOne

-----------------------------------------------------------------------------
(* Queries.                                                                *)

Key(r) == <<r.identity, r.seq>>

DeliveryAt(k) == {d \in deliveries : Key(d) = k}

\* DeliveryBlobs and IdentityBlobs list a blob id once for every row that
\* names it, so they return the referencing rows themselves.
ReferencesOf(keys) ==
  {r \in deliveries \cup attachments : Key(r) \in keys}

IdentityReferences(i) ==
  {r \in deliveries \cup attachments : r.identity = i}

References(b) == {r \in deliveries \cup attachments : r.blob = b}

BlobsIn(refs) == {r.blob : r \in refs}

-----------------------------------------------------------------------------
(* Statements.                                                             *)

Emit(evs) == events' = events (+) SetToBag(evs)

\* Deviation: a blob is released for everyone who refers to it.
ReleasedForAll(refs) ==
  [b \in Blobs |-> IF b \in BlobsIn(refs) THEN 0 ELSE refcount[b]]

\* ReleaseBlob, once per reference: GREATEST(refcount - 1, 0).
Released(refs) ==
  [b \in Blobs |->
     LET n == Cardinality({r \in refs : r.blob = b})
     IN  IF refcount[b] > n THEN refcount[b] - n ELSE 0]

\* Deviation: the inserted row counts no reference yet.
AcquireUncounted(b, n) ==
  /\ blobRows' = blobRows \cup {b}
  /\ refcount' = [refcount EXCEPT ![b] = IF b \in blobRows THEN @ + n ELSE n - 1]

\* AcquireBlob: a content address is fresh for every sealed message and
\* attachment, so the first call of a transaction inserts the row and the
\* others of the same transaction find it.
Acquire(b, n) ==
  /\ blobRows' = blobRows \cup {b}
  /\ refcount' = [refcount EXCEPT ![b] = IF b \in blobRows THEN @ + n ELSE n]

\* Deleting delivery rows cascades to their attachments.
DeleteDeliveries(keys) ==
  /\ deliveries'  = {d \in deliveries : Key(d) \notin keys}
  /\ attachments' = {a \in attachments : Key(a) \notin keys}

\* Deviation: no fsync before the rename, so a crash may keep the name only.
PutUnsynced(b) ==
  /\ b \notin minted
  /\ minted' = minted \cup {b}
  /\ bytes'  \in {bytes, bytes \cup {b}}

\* FS.Put of freshly sealed bytes.
PutBytes(b) ==
  /\ b \notin minted
  /\ minted' = minted \cup {b}
  /\ bytes'  = bytes \cup {b}

\* A crash, a cancelled context, a lost connection.
Fault ==
  /\ faults < MaxFaults
  /\ faults' = faults + 1

-----------------------------------------------------------------------------
RowsInit ==
  /\ state        = [i \in Identities |-> "absent"]
  /\ dataKey      = [i \in Identities |-> FALSE]
  /\ deliverySeq  = [i \in Identities |-> 0]
  /\ usedMessages = [i \in Identities |-> 0]
  /\ usedBytes    = [i \in Identities |-> 0]
  /\ lock         = [i \in Identities |-> NoOne]
  /\ deliveries   = {}
  /\ attachments  = {}
  /\ blobRows     = {}
  /\ refcount     = [b \in Blobs |-> 0]
  /\ bytes        = {}
  /\ minted       = {}
  /\ events       = EmptyBag
  /\ faults       = 0

RowsTypeOK ==
  /\ state        \in [Identities -> IdentityState]
  /\ dataKey      \in [Identities -> BOOLEAN]
  /\ deliverySeq  \in [Identities -> Nat]
  /\ usedMessages \in [Identities -> Nat]
  /\ usedBytes    \in [Identities -> Nat]
  /\ lock         \in [Identities -> Sessions \cup {NoOne}]
  /\ deliveries   \subseteq Delivery
  /\ attachments  \subseteq Attachment
  /\ blobRows     \subseteq Blobs
  /\ refcount     \in [Blobs -> Nat]
  /\ bytes        \subseteq Blobs
  /\ minted       \subseteq Blobs
  /\ IsABag(events)
  /\ faults       \in 0..MaxFaults
=============================================================================
