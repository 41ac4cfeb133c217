----------------------------- MODULE Lifecycle -----------------------------
(***************************************************************************)
(* The jobs that make an ephemeral address ephemeral: notice, expire,      *)
(* purge, retention sweep and blob collection.                             *)
(*                                                                         *)
(* Source: internal/worker/lifecycle/lifecycle.go and                      *)
(* internal/store/pg/lifecycle.go, blobs.go.                               *)
(*                                                                         *)
(* A lifecycle worker runs one job at a time.  Periodic jobs are not       *)
(* unique, so two workers may run the same job at once: a second tick      *)
(* while the first is still running, or a retry of a job whose worker was  *)
(* presumed dead.                                                          *)
(***************************************************************************)
EXTENDS MailRows, FiniteSetsExt

CONSTANT Workers   \* lifecycle jobs that may run at the same time

ASSUME WorkersAssumption == IsFiniteSet(Workers)

\* Where the clock stands with respect to one identity's expires_at.
Early     == 0    \* before the notice window
Notified  == 1    \* within ExpiringNotice of the deadline
Due       == 2    \* past the deadline
PastGrace == 3    \* past the deadline by more than PurgeGrace

VARIABLES
  clock,   \* how far time has gone for each random identity
  job      \* what each worker is doing

lifecycleVars == <<clock, job>>

NoJob ==
  [pc |-> "idle", todo |-> {}, target |-> {}, list |-> {}, refs |-> {},
   gone |-> {}, claimed |-> NoBlob]

JobState ==
  [pc      : {"idle", "purge", "purging", "sweep", "sweeping", "collect"},
   todo    : SUBSET Random,                   \* purge candidates left
   target  : SUBSET Identities,               \* the identity being worked on
   list    : SUBSET Delivery,                 \* deliveries the sweep found
   refs    : SUBSET (Delivery \cup Attachment), \* blob references read
   gone    : SUBSET Blobs,                    \* blobs to try to collect
   claimed : Blobs \cup {NoBlob}]             \* row deleted, bytes not yet

LifecycleInit ==
  /\ clock = [i \in Random |-> Early]
  /\ job   = [w \in Workers |-> NoJob]

LifecycleTypeOK ==
  /\ clock \in [Random -> Early..PastGrace]
  /\ job   \in [Workers -> JobState]

-----------------------------------------------------------------------------
(* Time.                                                                   *)

Tick(i) ==
  /\ state[i] # "absent"
  /\ clock[i] < PastGrace
  /\ clock' = [clock EXCEPT ![i] = @ + 1]
  /\ UNCHANGED <<rowVars, job>>

\* A named inbox's message outlives its rolling retention window.
Age(d) ==
  /\ d \in deliveries
  /\ d.identity \in Named
  /\ ~d.old
  /\ deliveries' = (deliveries \ {d}) \cup {[d EXCEPT !.old = TRUE]}
  /\ UNCHANGED <<identityVars, lock, attachments, blobVars, events, faults,
                 lifecycleVars>>

-----------------------------------------------------------------------------
(* Notice and Expire: one UPDATE ... FOR UPDATE SKIP LOCKED and its events *)
(* in one transaction.                                                     *)

MoveState(S, to, event) ==
  /\ S # {}
  /\ state' = [i \in Identities |-> IF i \in S THEN to ELSE state[i]]
  /\ Emit({Event(event, i, 0) : i \in S})
  /\ UNCHANGED <<dataKey, deliverySeq, usedMessages, usedBytes, lock,
                 deliveries, attachments, blobVars, faults, lifecycleVars>>

MarkExpiringIdentities ==
  {i \in Random : state[i] = "active" /\ clock[i] >= Notified /\ Unlocked(i)}

Notice == MoveState(MarkExpiringIdentities, "expiring", "identity.expiring")

\* Deviation: the UPDATE does not look at the state it replaces.
ExpireDueInAnyState ==
  {i \in Random : state[i] # "absent" /\ clock[i] >= Due /\ Unlocked(i)}

ExpireDueIdentities ==
  {i \in Random : AcceptsMail(i) /\ clock[i] >= Due /\ Unlocked(i)}

Expire == MoveState(ExpireDueIdentities, "expired", "identity.expired")

-----------------------------------------------------------------------------
(* Purge.                                                                  *)

\* Deviation: an address that never had mail is not purged.
PurgeableWithMail ==
  {i \in Random : /\ state[i] = "expired" /\ clock[i] = PastGrace
                  /\ dataKey[i] /\ usedMessages[i] > 0}

PurgeableIdentities ==
  {i \in Random : state[i] = "expired" /\ clock[i] = PastGrace /\ dataKey[i]}

\* A worker that is done with one candidate goes on to the next.
NextCandidate(todo) ==
  IF todo = {} THEN NoJob ELSE [NoJob EXCEPT !.pc = "purge", !.todo = todo]

\* The blobs a job released, or found orphaned, are collected before the
\* next candidate.
ThenCollect(todo, blobs) ==
  IF blobs = {} THEN NextCandidate(todo)
  ELSE [NoJob EXCEPT !.pc = "collect", !.todo = todo, !.gone = blobs]

PurgeList(w) ==
  /\ job[w].pc = "idle"
  /\ PurgeableIdentities # {}
  /\ job' = [job EXCEPT ![w] = NextCandidate(PurgeableIdentities)]
  /\ UNCHANGED <<rowVars, clock>>

\* purgeOne's transaction reads the references without locking them ...
PurgeRead(w, i) ==
  /\ job[w].pc = "purge"
  /\ i \in job[w].todo
  /\ job' = [job EXCEPT ![w].pc = "purging", ![w].todo = @ \ {i},
                        ![w].target = {i}, ![w].refs = IdentityReferences(i)]
  /\ UNCHANGED <<rowVars, clock>>

\* ... then deletes the deliveries, releases what it read, and destroys the
\* key of an identity that is still expired.
PurgeApply(w) ==
  LET T     == job[w].target
      moved == {i \in T : state[i] = "expired"}
  IN
  /\ job[w].pc = "purging"
  /\ \A i \in T : Unlocked(i)
  /\ BlobsIn(job[w].refs) \subseteq blobRows
  /\ DeleteDeliveries({Key(d) : d \in {e \in deliveries : e.identity \in T}})
  /\ refcount' = Released(job[w].refs)
  /\ state'    = [i \in Identities |->
                    IF i \in moved THEN "reserved" ELSE state[i]]
  /\ dataKey'  = [i \in Identities |-> dataKey[i] /\ i \notin moved]
  /\ Emit({Event("identity.purged", i, 0) : i \in moved})
  /\ job' = [job EXCEPT ![w] = ThenCollect(@.todo,
               IF moved = {} THEN {} ELSE BlobsIn(@.refs))]
  /\ UNCHANGED <<deliverySeq, usedMessages, usedBytes, lock, blobRows, bytes,
                 minted, faults, clock>>

\* ReleaseBlob finds no row: the transaction is abandoned, and the error
\* does not stop the other candidates.
PurgeConflict(w) ==
  /\ job[w].pc = "purging"
  /\ ~(BlobsIn(job[w].refs) \subseteq blobRows)
  /\ job' = [job EXCEPT ![w] = NextCandidate(@.todo)]
  /\ UNCHANGED <<rowVars, clock>>

-----------------------------------------------------------------------------
(* Sweep.                                                                  *)

HighestSeq(D) == Max({0} \cup {d.seq : d \in D})

\* Past the window, or beyond the message quota counted from the newest.
ExpiredDeliveries(i) ==
  LET mine == {d \in deliveries : d.identity = i}
  IN  {d \in mine : d.old \/ d.seq <= HighestSeq(mine) - QuotaMessages}

SweepList(w) ==
  /\ job[w].pc = "idle"
  /\ \E i \in Named :
       /\ state[i] = "active"
       /\ usedMessages[i] > 0
       /\ ExpiredDeliveries(i) # {}
       /\ job' = [job EXCEPT ![w].pc = "sweep", ![w].target = {i},
                             ![w].list = ExpiredDeliveries(i)]
  /\ UNCHANGED <<rowVars, clock>>

Keys(D) == {Key(d) : d \in D}

\* The sweep's transaction reads each delivery's references just before it
\* deletes the delivery.
SweepRead(w) ==
  /\ job[w].pc = "sweep"
  /\ job' = [job EXCEPT ![w].pc = "sweeping",
                        ![w].refs = ReferencesOf(Keys(job[w].list))]
  /\ UNCHANGED <<rowVars, clock>>

\* expired[:removed], in sequence order.
FirstListed(D, n) ==
  {d \in D : Cardinality({e \in D : e.seq < d.seq}) < n}

\* Sizes add up: every byte of every delivery is counted once.
BytesOf(D) == UNION {{<<Key(d), n>> : n \in 1..d.size} : d \in D}

TotalSize(D) == Cardinality(BytesOf(D))

\* GREATEST(used - n, 0).
Reduced(used, n) == IF n \in 0..used THEN used - n ELSE 0

\* Deviation: what another sweep has deleted is counted again.
StillListed(listed) == listed

\* DeleteDelivery finds a listed message unless another sweep got there first.
Undeleted(listed) == {d \in deliveries : Key(d) \in Keys(listed)}

SweepApply(w) ==
  LET listed  == job[w].list
      removed == Undeleted(listed)
      n       == Cardinality(removed)
      freed   == TotalSize(FirstListed(listed, n))
      refs    == {r \in job[w].refs : Key(r) \in Keys(removed)}
      T       == IF n > 0 THEN job[w].target ELSE {}
  IN
  /\ job[w].pc = "sweeping"
  /\ \A i \in T : Unlocked(i)
  /\ DeleteDeliveries(Keys(removed))
  /\ refcount' = Released(refs)
  /\ usedMessages' = [i \in Identities |-> IF i \in T
                        THEN Reduced(usedMessages[i], n) ELSE usedMessages[i]]
  /\ usedBytes'    = [i \in Identities |-> IF i \in T
                        THEN Reduced(usedBytes[i], freed) ELSE usedBytes[i]]
  /\ Emit({Event("message.expired", d.identity, d.seq) : d \in removed})
  /\ job' = [job EXCEPT ![w] = ThenCollect({}, BlobsIn(refs))]
  /\ UNCHANGED <<state, dataKey, deliverySeq, lock, blobRows, bytes, minted,
                 faults, clock>>

-----------------------------------------------------------------------------
(* Blob collection.                                                        *)

OrphanedBlobs == {b \in blobRows : refcount[b] = 0}

\* Deviation: orphans are looked for only when something is purged.
CollectListWithPurge(w) ==
  /\ job[w].pc = "idle"
  /\ OrphanedBlobs # {} /\ PurgeableIdentities # {}
  /\ job' = [job EXCEPT ![w] = ThenCollect({}, OrphanedBlobs)]
  /\ UNCHANGED <<rowVars, clock>>

CollectList(w) ==
  /\ job[w].pc = "idle"
  /\ OrphanedBlobs # {}
  /\ job' = [job EXCEPT ![w] = ThenCollect({}, OrphanedBlobs)]
  /\ UNCHANGED <<rowVars, clock>>

\* Deviation: a released blob is deleted whoever else refers to it.
ClaimableReleased(b) == b \in blobRows

\* The foreign keys of deliveries and attachments refuse to let a row go
\* that something still references.
Claimable(b) == b \in OrphanedBlobs /\ References(b) = {}

Unclaimed(w, b) ==
  /\ job[w].pc = "collect"
  /\ job[w].claimed = NoBlob
  /\ b \in job[w].gone

ClaimOrphanBlob(w, b) ==
  /\ Unclaimed(w, b)
  /\ Claimable(b)
  /\ blobRows' = blobRows \ {b}
  /\ job'      = [job EXCEPT ![w].claimed = b]
  /\ UNCHANGED <<identityVars, lock, deliveries, attachments, refcount, bytes,
                 minted, events, faults, clock>>

Skip(w, b) ==
  /\ Unclaimed(w, b)
  /\ ~Claimable(b)
  /\ job' = [job EXCEPT ![w] = ThenCollect(@.todo, @.gone \ {b})]
  /\ UNCHANGED <<rowVars, clock>>

\* The bytes go after the row, never before.
DeleteBytes(w) ==
  /\ job[w].claimed # NoBlob
  /\ bytes' = bytes \ {job[w].claimed}
  /\ job'   = [job EXCEPT ![w] = ThenCollect(@.todo, @.gone \ {@.claimed})]
  /\ UNCHANGED <<identityVars, lock, deliveries, attachments, blobRows,
                 refcount, minted, events, faults, clock>>

-----------------------------------------------------------------------------
\* The process dies, or a statement fails and the job gives up: whatever it
\* had not committed is undone, and what it meant to collect is forgotten.
JobDies(w) ==
  /\ job[w].pc # "idle"
  /\ Fault
  /\ job' = [job EXCEPT ![w] = NoJob]
  /\ UNCHANGED <<identityVars, lock, deliveries, attachments, blobVars,
                 events, clock>>

PurgeJob(w) ==
  \/ PurgeList(w)
  \/ \E i \in Random : PurgeRead(w, i)
  \/ PurgeApply(w)
  \/ PurgeConflict(w)

SweepJob(w) == SweepList(w) \/ SweepRead(w) \/ SweepApply(w)

CollectJob(w) ==
  \/ CollectList(w)
  \/ \E b \in Blobs : ClaimOrphanBlob(w, b) \/ Skip(w, b)
  \/ DeleteBytes(w)

LifecycleStep ==
  \/ \E i \in Random : Tick(i)
  \/ \E d \in deliveries : Age(d)
  \/ Notice
  \/ Expire
  \/ \E w \in Workers :
       PurgeJob(w) \/ SweepJob(w) \/ CollectJob(w) \/ JobDies(w)
=============================================================================
