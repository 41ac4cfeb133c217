----------------------------- MODULE MailSafety -----------------------------
(***************************************************************************)
(* Every row is well typed and delivered mail can always be read, for      *)
(* every number of identities, sessions, workers, parsers, blobs and       *)
(* faults.                                                                 *)
(*                                                                         *)
(* Type correctness is proved together with the finiteness of the rows,    *)
(* because reference counts are computed with Cardinality.                 *)
(*                                                                         *)
(* The argument about bytes: they are put under a fresh content address    *)
(* before a row names them, so pending bytes belong to one process; a row  *)
(* is deleted only when nothing references it, and its bytes only after    *)
(* it; an attachment being extracted is kept by its own reference count,   *)
(* because no job has read a reference to it; and the key of an identity   *)
(* goes only with its deliveries, in a state that a locked recipient is    *)
(* never in.                                                               *)
(***************************************************************************)
EXTENDS MailInvariants, FiniteSetTheorems, TLAPS

-----------------------------------------------------------------------------
(* Types.                                                                  *)

TypeInv == TypeOK /\ FiniteRows /\ FiniteJobs

RowsInv == RowsTypeOK /\ FiniteRows

USE DEF Identities, Undeleted

(***************************************************************************)
(* Appending events to a bag of events gives a bag.                        *)
(***************************************************************************)
LEMMA EmitKeepsBag ==
  ASSUME NEW evs, IsABag(events), Emit(evs)
  PROVE  IsABag(events')
<1> DEFINE D == DOMAIN events \cup evs
           f == [e \in D |->
                   (IF e \in DOMAIN events THEN events[e] ELSE 0)
                     + (IF e \in evs THEN 1 ELSE 0)]
<1>1. events' = f
  BY DEF Emit, SetToBag, (+)
<1>2. \A e \in D : f[e] \in Nat /\ f[e] > 0
  BY DEF IsABag
<1>3. DOMAIN f = D /\ f = [e \in D |-> f[e]]
  OBVIOUS
<1> HIDE DEF f, D
<1>4. f \in [D -> {n \in Nat : n > 0}]
  BY <1>2, <1>3
<1> QED
  BY <1>1, <1>3, <1>4 DEF IsABag

(***************************************************************************)
(* The values of a function with a finite domain are finitely many.        *)
(***************************************************************************)
LEMMA FiniteImage ==
  ASSUME NEW f, IsFiniteSet(DOMAIN f)
  PROVE  IsFiniteSet({f[x] : x \in DOMAIN f})
<1> DEFINE S == DOMAIN f
           T == {f[x] : x \in S}
           g == [x \in S |-> f[x]]
<1>1. g \in Surjection(S, T)
  BY DEF Surjection
<1> HIDE DEF g
<1> QED
  BY <1>1, FS_Surjection

(***************************************************************************)
(* A recipient list names finitely many identities.                        *)
(***************************************************************************)
LEMMA RecipientsFinite ==
  ASSUME TypeOK, NEW s \in Sessions
  PROVE  /\ IsFiniteSet(Recipients(s))
         /\ Recipients(s) \subseteq Identities
         /\ Cardinality(Recipients(s)) \in Nat
<1> DEFINE rcpts == session[s].rcpts
<1>1. rcpts \in Seq(Identities)
  BY DEF TypeOK, IngestTypeOK, SessionState
<1>2. DOMAIN rcpts = 1..Len(rcpts) /\ Len(rcpts) \in Nat
  BY <1>1
<1>3. IsFiniteSet(DOMAIN rcpts)
  BY <1>2, FS_Interval
<1>4. IsFiniteSet(Recipients(s))
  BY <1>3, FiniteImage DEF Recipients
<1> QED
  BY <1>1, <1>2, <1>4, FS_CardinalityType DEF Recipients

(***************************************************************************)
(* ReleaseBlob keeps every count a natural number.                         *)
(***************************************************************************)
LEMMA ReleasedType ==
  ASSUME refcount \in [Blobs -> Nat], NEW refs, IsFiniteSet(refs)
  PROVE  Released(refs) \in [Blobs -> Nat]
<1>1. ASSUME NEW b \in Blobs
      PROVE  Cardinality({r \in refs : r.blob = b}) \in Nat
  BY FS_Subset, FS_CardinalityType
<1> QED
  BY <1>1 DEF Released

(***************************************************************************)
(* A step that touches no row keeps the rows well typed and finite.        *)
(***************************************************************************)
LEMMA RowsStutter == RowsInv /\ UNCHANGED rowVars => RowsInv'
  BY DEF RowsInv, RowsTypeOK, FiniteRows, rowVars, identityVars, blobVars

-----------------------------------------------------------------------------
(* Ingestion.                                                              *)

(***************************************************************************)
(* One message makes one delivery per recipient, of the right type.        *)
(***************************************************************************)
LEMMA CommitTyped ==
  ASSUME TypeInv, NEW s \in Sessions, Commit(s)
  PROVE  RowsInv' /\ IngestTypeOK'
<1> DEFINE tx == session[s]
           R == Recipients(s)
           seqOf == [i \in R |-> tx.seqs[CHOOSE n \in DOMAIN tx.rcpts :
                                           tx.rcpts[n] = i]]
           delivery == [i \in R |->
             [identity |-> i, seq |-> seqOf[i], blob |-> tx.blob,
              size |-> tx.size, status |-> "received", old |-> FALSE]]
<1>1. tx \in SessionState /\ RowsTypeOK /\ FiniteRows
  BY DEF TypeInv, TypeOK, IngestTypeOK
<1>2. R \subseteq Identities /\ IsFiniteSet(R) /\ Cardinality(R) \in Nat
  BY RecipientsFinite DEF TypeInv
<1>3. Len(tx.seqs) = Len(tx.rcpts) /\ tx.pc = "commit"
  BY DEF Commit
<1>4. \A i \in R : seqOf[i] \in Nat \ {0}
  <2> SUFFICES ASSUME NEW i \in R PROVE seqOf[i] \in Nat \ {0}
    OBVIOUS
  <2>1. PICK n \in DOMAIN tx.rcpts : tx.rcpts[n] = i
    BY DEF Recipients
  <2>2. (CHOOSE m \in DOMAIN tx.rcpts : tx.rcpts[m] = i) \in DOMAIN tx.rcpts
    BY <2>1
  <2>3. DOMAIN tx.rcpts = DOMAIN tx.seqs
    BY <1>1, <1>3 DEF SessionState
  <2>4. \A k \in DOMAIN tx.seqs : tx.seqs[k] \in Nat \ {0}
    BY <1>1 DEF SessionState
  <2> QED
    BY <2>2, <2>3, <2>4
<1>5. tx.blob \in Blobs /\ tx.size \in Nat
  BY <1>1, <1>3 DEF TypeInv, TypeOK, IngestTypeOK, SessionState
<1>6. /\ deliveries' = deliveries \cup {delivery[i] : i \in R}
      /\ refcount' = [refcount EXCEPT ![tx.blob] =
                        IF tx.blob \in blobRows THEN @ + Cardinality(R)
                        ELSE Cardinality(R)]
      /\ blobRows' = blobRows \cup {tx.blob}
  BY Zenon DEF Commit, Acquire
<1> DEFINE created == {i \in R : state[i] = "absent"}
<1>7. /\ state' = [i \in Identities |-> IF i \in created THEN "active" ELSE state[i]]
      /\ dataKey' = [i \in Identities |-> i \in created \/ dataKey[i]]
      /\ deliverySeq'  = [i \in Identities |->
                            IF i \in R THEN seqOf[i] ELSE deliverySeq[i]]
      /\ usedMessages' = [i \in Identities |->
                            usedMessages[i] + (IF i \in R THEN 1 ELSE 0)]
      /\ usedBytes'    = [i \in Identities |->
                            usedBytes[i] + (IF i \in R THEN tx.size ELSE 0)]
  BY Zenon DEF Commit
<1>8. IsABag(events')
  BY <1>1, EmitKeepsBag DEF Commit, RowsTypeOK
<1>9. deliveries' \subseteq Delivery /\ IsFiniteSet(deliveries')
  <2>1. \A i \in R : delivery[i] \in Delivery
    BY <1>2, <1>4, <1>5 DEF Delivery, DeliveryState
  <2>2. IsFiniteSet({delivery[i] : i \in R})
    BY <1>2, FiniteImage, DOMAIN delivery = R
  <2> HIDE DEF delivery
  <2> QED
    BY <1>1, <1>6, <2>1, <2>2, FS_Union DEF RowsTypeOK, FiniteRows
<1> HIDE DEF seqOf, created, delivery
<1>10. /\ state' \in [Identities -> IdentityState]
       /\ dataKey' \in [Identities -> BOOLEAN]
       /\ deliverySeq' \in [Identities -> Nat]
       /\ usedMessages' \in [Identities -> Nat]
       /\ usedBytes' \in [Identities -> Nat]
  BY <1>1, <1>4, <1>5, <1>7 DEF RowsTypeOK, IdentityState
<1>11. refcount' \in [Blobs -> Nat] /\ blobRows' \subseteq Blobs
  BY <1>1, <1>2, <1>5, <1>6 DEF RowsTypeOK
<1>12. lock' \in [Identities -> Sessions \cup {NoOne}]
  BY <1>1 DEF Commit, RowsTypeOK
<1>13. RowsInv'
  BY <1>1, <1>8, <1>9, <1>10, <1>11, <1>12 DEF Commit, RowsInv, RowsTypeOK, FiniteRows
<1>14. IngestTypeOK'
  BY DEF Commit, IdleSession, TypeInv, TypeOK, IngestTypeOK, SessionState
<1> QED
  BY <1>13, <1>14

(***************************************************************************)
(* What a session does short of committing keeps its state and the rows    *)
(* well typed.                                                             *)
(***************************************************************************)
LEMMA IngestStepTyped ==
  ASSUME TypeInv, NEW s \in Sessions, IngestStep(s)
  PROVE  RowsInv' /\ IngestTypeOK'
<1>1. /\ session \in [Sessions -> SessionState]
      /\ \A t \in Sessions : session[t].pc = "commit" => session[t].blob \in Blobs
      /\ RowsInv
  BY DEF TypeInv, TypeOK, IngestTypeOK, RowsInv
<1>2. ASSUME Rollback(s), faults' \in 0..MaxFaults
      PROVE  RowsInv' /\ IngestTypeOK'
  <2>1. lock' \in [Identities -> Sessions \cup {NoOne}]
    BY <1>1, <1>2 DEF Rollback, RowsInv, RowsTypeOK
  <2>2. RowsInv'
    BY <1>1, <1>2, <2>1 DEF Rollback, RowsInv, RowsTypeOK, FiniteRows, identityVars, blobVars
  <2>3. IngestTypeOK'
    BY <1>1, <1>2 DEF Rollback, IdleSession, SessionState, IngestTypeOK
  <2> QED
    BY <2>2, <2>3
<1>3. ASSUME NEW i \in Identities, Rcpt(s, i)
      PROVE  RowsInv' /\ IngestTypeOK'
  <2>1. Append(session[s].rcpts, i) \in Seq(Identities)
    BY <1>1 DEF SessionState
  <2>2. [session[s] EXCEPT !.rcpts = Append(session[s].rcpts, i)] \in SessionState
    BY <1>1, <2>1 DEF SessionState
  <2>3. IngestTypeOK'
    BY <1>1, <1>3, <2>2 DEF IngestTypeOK, Rcpt
  <2> QED
    BY <1>1, <1>3, <2>3, RowsStutter DEF Rcpt
<1>4. CASE Reset(s)
  <2>1. IngestTypeOK'
    BY <1>1, <1>4 DEF Reset, IdleSession, SessionState, IngestTypeOK
  <2> QED
    BY <1>1, <1>4, <2>1, RowsStutter DEF Reset
<1>5. CASE StoreBody(s)
  <2>1. PICK b \in Blobs, size \in Sizes :
          /\ PutBytes(b)
          /\ session' = [session EXCEPT ![s].pc = "commit", ![s].blob = b,
                                        ![s].size = size]
    BY <1>5 DEF StoreBody
  <2>2. IngestTypeOK'
    <3> DEFINE new == [session[s] EXCEPT !.pc = "commit", !.blob = b, !.size = size]
    <3>1. session[s] \in SessionState /\ size \in Nat
      BY <1>1, SizesAssumption
    <3>2. new \in SessionState /\ new.blob = b
      BY <3>1 DEF SessionState
    <3>3. session' = [session EXCEPT ![s] = new]
      BY <2>1
    <3> HIDE DEF new
    <3> QED
      BY <1>1, <3>2, <3>3 DEF IngestTypeOK
  <2>3. RowsInv'
    <3>1. minted' \subseteq Blobs /\ bytes' \subseteq Blobs
      BY <1>1, <2>1 DEF PutBytes, RowsInv, RowsTypeOK
    <3>2. UNCHANGED <<identityVars, lock, deliveries, attachments, blobRows, refcount,
                      events, faults>>
      BY <1>5 DEF StoreBody
    <3> QED
      BY <1>1, <3>1, <3>2 DEF RowsInv, RowsTypeOK, FiniteRows, identityVars
  <2> QED
    BY <2>2, <2>3
<1>6. CASE LockRecipient(s)
  <2> DEFINE i == NextRecipient(s)
  <2>1. i \in Identities
    BY <1>1, <1>6 DEF LockRecipient, InLoop, NextRecipient, SessionState
  <2>2. deliverySeq[i] + 1 \in Nat \ {0}
    BY <1>1, <2>1 DEF RowsInv, RowsTypeOK
  <2>3. Append(session[s].seqs, deliverySeq[i] + 1) \in Seq(Nat \ {0})
    BY <1>1, <2>2 DEF SessionState
  <2>4. [session[s] EXCEPT !.seqs = Append(session[s].seqs, deliverySeq[i] + 1)]
          \in SessionState
    BY <1>1, <2>3 DEF SessionState
  <2>5. session' = [session EXCEPT ![s] =
          [session[s] EXCEPT !.seqs = Append(session[s].seqs, deliverySeq[i] + 1)]]
    BY <1>6 DEF LockRecipient
  <2>6. IngestTypeOK'
    BY <1>1, <2>4, <2>5 DEF IngestTypeOK
  <2>7. RowsInv'
    BY <1>1, <1>6, <2>1 DEF LockRecipient, RowsInv, RowsTypeOK, FiniteRows,
                            identityVars, blobVars
  <2> QED
    BY <2>6, <2>7
<1>7. CASE Refuse(s)
  BY <1>1, <1>2, <1>7 DEF Refuse, RowsInv, RowsTypeOK
<1>8. CASE DeadlockAbort(s)
  BY <1>1, <1>2, <1>8 DEF DeadlockAbort, RowsInv, RowsTypeOK
<1>9. CASE CommitFails(s)
  BY <1>1, <1>2, <1>9, MaxFaultsAssumption DEF CommitFails, Fault, RowsInv, RowsTypeOK
<1> QED
  BY <1>3, <1>4, <1>5, <1>6, <1>7, <1>8, <1>9 DEF IngestStep

-----------------------------------------------------------------------------
(* Identities created and destroyed over HTTP.                             *)

(***************************************************************************)
(* The API's statements keep the rows well typed.                          *)
(***************************************************************************)
LEMMA AccountsStepTyped ==
  ASSUME TypeInv, AccountsStep
  PROVE  RowsInv' /\ AccountsTypeOK'
<1>1. RowsInv /\ AccountsTypeOK
  BY DEF TypeInv, TypeOK, RowsInv
<1>2. ASSUME NEW i \in Identities, CreateIdentity(i)
      PROVE  RowsInv' /\ AccountsTypeOK'
  <2>1. IsABag(events')
    BY <1>1, <1>2, EmitKeepsBag DEF CreateIdentity, RowsInv, RowsTypeOK
  <2> QED
    BY <1>1, <1>2, <2>1 DEF CreateIdentity, RowsInv, RowsTypeOK, FiniteRows,
                            IdentityState, AccountsTypeOK, blobVars
<1>3. ASSUME NEW i \in Identities, DestroyIdentity(i)
      PROVE  RowsInv' /\ AccountsTypeOK'
  BY <1>1, <1>3 DEF DestroyIdentity, RowsInv, RowsTypeOK, FiniteRows,
                    IdentityState, AccountsTypeOK, blobVars
<1>4. ASSUME NEW i \in Identities, RecordDestroyed(i)
      PROVE  RowsInv' /\ AccountsTypeOK'
  <2>1. IsABag(events')
    BY <1>1, <1>4, EmitKeepsBag DEF RecordDestroyed, RowsInv, RowsTypeOK
  <2> QED
    BY <1>1, <1>4, <2>1 DEF RecordDestroyed, RowsInv, RowsTypeOK, FiniteRows,
                            AccountsTypeOK, identityVars, blobVars
<1>5. ASSUME NEW i \in Identities, LoseDestroyed(i)
      PROVE  RowsInv' /\ AccountsTypeOK'
  BY <1>1, <1>5, MaxFaultsAssumption
     DEF LoseDestroyed, Fault, RowsInv, RowsTypeOK, FiniteRows, AccountsTypeOK,
         identityVars, blobVars
<1> QED
  BY <1>2, <1>3, <1>4, <1>5 DEF AccountsStep, AllocateRandom, OpenNamed

-----------------------------------------------------------------------------
(* Lifecycle jobs.                                                         *)

LifecycleInv == LifecycleTypeOK /\ FiniteJobs

(***************************************************************************)
(* Blob ids read from rows are blobs.                                      *)
(***************************************************************************)
LEMMA BlobsInType ==
  ASSUME NEW refs, refs \subseteq Delivery \cup Attachment
  PROVE  BlobsIn(refs) \subseteq Blobs
BY DEF BlobsIn, Delivery, Attachment

(***************************************************************************)
(* A job between candidates holds no rows.                                 *)
(***************************************************************************)
LEMMA BetweenCandidates ==
  ASSUME NEW todo, todo \subseteq Random, NEW blobs, blobs \subseteq Blobs
  PROVE  /\ NoJob \in JobState
         /\ NextCandidate(todo) \in JobState
         /\ ThenCollect(todo, blobs) \in JobState
         /\ NoJob.refs = {} /\ NoJob.list = {}
         /\ NextCandidate(todo).refs = {} /\ NextCandidate(todo).list = {}
         /\ ThenCollect(todo, blobs).refs = {} /\ ThenCollect(todo, blobs).list = {}
BY DEF NoJob, NextCandidate, ThenCollect, JobState

(***************************************************************************)
(* Replacing what one worker is doing keeps the jobs well typed.           *)
(***************************************************************************)
LEMMA JobReplaced ==
  ASSUME LifecycleInv, NEW w \in Workers, NEW j \in JobState,
         IsFiniteSet(j.refs), IsFiniteSet(j.list),
         job' = [job EXCEPT ![w] = j], clock' = clock
  PROVE  LifecycleInv'
BY DEF LifecycleInv, LifecycleTypeOK, FiniteJobs

(***************************************************************************)
(* Purge keeps the rows and its own state well typed.                      *)
(***************************************************************************)
LEMMA PurgeJobTyped ==
  ASSUME TypeInv, NEW w \in Workers, PurgeJob(w)
  PROVE  RowsInv' /\ LifecycleInv'
<1>1. RowsInv /\ LifecycleInv /\ job[w] \in JobState /\ IsFiniteSet(job[w].refs)
  BY DEF TypeInv, TypeOK, RowsInv, LifecycleInv, LifecycleTypeOK, FiniteJobs
<1>2. IsFiniteSet({})
  BY FS_EmptySet
<1>3. CASE PurgeList(w)
  <2>1. PurgeableIdentities \subseteq Random
    BY DEF PurgeableIdentities
  <2> QED
    BY <1>1, <1>2, <1>3, <2>1, BetweenCandidates, JobReplaced, RowsStutter DEF PurgeList
<1>4. ASSUME NEW i \in Random, PurgeRead(w, i)
      PROVE  RowsInv' /\ LifecycleInv'
  <2> DEFINE j == [job[w] EXCEPT !.pc = "purging", !.todo = @ \ {i},
                                 !.target = {i}, !.refs = IdentityReferences(i)]
  <2>1. job' = [job EXCEPT ![w] = j] /\ clock' = clock /\ UNCHANGED rowVars
    BY <1>1, <1>4 DEF PurgeRead
  <2>2. /\ IdentityReferences(i) \subseteq Delivery \cup Attachment
        /\ IsFiniteSet(IdentityReferences(i))
    <3>1. IsFiniteSet(deliveries \cup attachments)
      BY <1>1, FS_Union DEF RowsInv, FiniteRows
    <3> QED
      BY <1>1, <3>1, FS_Subset DEF RowsInv, RowsTypeOK, IdentityReferences
  <2>3. j \in JobState /\ IsFiniteSet(j.refs) /\ IsFiniteSet(j.list)
    BY <1>1, <2>2 DEF JobState, LifecycleInv, FiniteJobs
  <2> HIDE DEF j
  <2> QED
    BY <1>1, <2>1, <2>3, JobReplaced, RowsStutter
<1>5. CASE PurgeApply(w)
  <2> DEFINE T == job[w].target
             moved == {i \in T : state[i] = "expired"}
             blobs == IF moved = {} THEN {} ELSE BlobsIn(job[w].refs)
  <2>1. LifecycleInv'
    <3>1. job[w].todo \subseteq Random /\ blobs \subseteq Blobs
      BY <1>1, BlobsInType DEF JobState
    <3> DEFINE j == ThenCollect(job[w].todo, blobs)
    <3>2. job' = [job EXCEPT ![w] = j] /\ clock' = clock
      BY <1>5 DEF PurgeApply
    <3> HIDE DEF blobs
    <3>3. j \in JobState /\ IsFiniteSet(j.refs) /\ IsFiniteSet(j.list)
      BY <1>2, <3>1, BetweenCandidates
    <3> HIDE DEF j
    <3> QED
      BY <1>1, <3>2, <3>3, JobReplaced
  <2>2. refcount' \in [Blobs -> Nat]
    BY <1>1, <1>5, ReleasedType DEF PurgeApply, RowsInv, RowsTypeOK
  <2>3. /\ deliveries' \subseteq deliveries /\ IsFiniteSet(deliveries')
        /\ attachments' \subseteq attachments /\ IsFiniteSet(attachments')
    BY <1>1, <1>5, FS_Subset DEF PurgeApply, DeleteDeliveries, RowsInv, FiniteRows
  <2>4. IsABag(events')
    BY <1>1, <1>5, EmitKeepsBag DEF PurgeApply, RowsInv, RowsTypeOK
  <2>5. state' \in [Identities -> IdentityState] /\ dataKey' \in [Identities -> BOOLEAN]
    BY <1>1, <1>5 DEF PurgeApply, RowsInv, RowsTypeOK, IdentityState
  <2>6. RowsInv'
    BY <1>1, <1>5, <2>2, <2>3, <2>4, <2>5 DEF PurgeApply, RowsInv, RowsTypeOK, FiniteRows
  <2> QED
    BY <2>1, <2>6
<1>6. CASE PurgeConflict(w)
  <2> DEFINE j == NextCandidate(job[w].todo)
  <2>1. job[w].todo \subseteq Random
    BY <1>1 DEF JobState
  <2>2. j \in JobState /\ IsFiniteSet(j.refs) /\ IsFiniteSet(j.list)
    BY <1>2, <2>1, BetweenCandidates
  <2>3. job' = [job EXCEPT ![w] = j] /\ clock' = clock /\ UNCHANGED rowVars
    BY <1>6 DEF PurgeConflict
  <2> HIDE DEF j
  <2> QED
    BY <1>1, <2>2, <2>3, JobReplaced, RowsStutter
<1> QED
  BY <1>3, <1>4, <1>5, <1>6 DEF PurgeJob

(***************************************************************************)
(* The retention sweep keeps the rows and its own state well typed.        *)
(***************************************************************************)
LEMMA SweepJobTyped ==
  ASSUME TypeInv, NEW w \in Workers, SweepJob(w)
  PROVE  RowsInv' /\ LifecycleInv'
<1>1. /\ RowsInv /\ LifecycleInv /\ job[w] \in JobState
      /\ IsFiniteSet(job[w].refs) /\ IsFiniteSet(job[w].list)
  BY DEF TypeInv, TypeOK, RowsInv, LifecycleInv, LifecycleTypeOK, FiniteJobs
<1>2. IsFiniteSet({})
  BY FS_EmptySet
<1>3. CASE SweepList(w)
  <2>1. PICK i \in Named :
          /\ job' = [job EXCEPT ![w].pc = "sweep", ![w].target = {i},
                                ![w].list = ExpiredDeliveries(i)]
          /\ clock' = clock /\ UNCHANGED rowVars
    BY <1>3 DEF SweepList
  <2> DEFINE j == [job[w] EXCEPT !.pc = "sweep", !.target = {i},
                                 !.list = ExpiredDeliveries(i)]
  <2>2. ExpiredDeliveries(i) \subseteq deliveries
    BY DEF ExpiredDeliveries
  <2>3. ExpiredDeliveries(i) \subseteq Delivery /\ IsFiniteSet(ExpiredDeliveries(i))
    BY <1>1, <2>2, FS_Subset DEF RowsInv, RowsTypeOK, FiniteRows
  <2>4. j \in JobState /\ IsFiniteSet(j.refs) /\ IsFiniteSet(j.list)
    BY <1>1, <2>3 DEF JobState
  <2>5. job' = [job EXCEPT ![w] = j]
    BY <1>1, <2>1
  <2> HIDE DEF j
  <2> QED
    BY <1>1, <2>1, <2>4, <2>5, JobReplaced, RowsStutter
<1>4. CASE SweepRead(w)
  <2> DEFINE refs == ReferencesOf(Keys(job[w].list))
             j == [job[w] EXCEPT !.pc = "sweeping", !.refs = refs]
  <2>1. refs \subseteq Delivery \cup Attachment /\ IsFiniteSet(refs)
    <3>1. IsFiniteSet(deliveries \cup attachments)
      BY <1>1, FS_Union DEF RowsInv, FiniteRows
    <3> QED
      BY <1>1, <3>1, FS_Subset DEF RowsInv, RowsTypeOK, ReferencesOf
  <2> HIDE DEF refs
  <2>2. j \in JobState /\ IsFiniteSet(j.refs) /\ IsFiniteSet(j.list)
    BY <1>1, <2>1 DEF JobState
  <2>3. job' = [job EXCEPT ![w] = j] /\ clock' = clock /\ UNCHANGED rowVars
    BY <1>1, <1>4 DEF SweepRead, refs
  <2> HIDE DEF j
  <2> QED
    BY <1>1, <2>2, <2>3, JobReplaced, RowsStutter
<1>5. CASE SweepApply(w)
  <2> DEFINE removed == {d \in deliveries : Key(d) \in Keys(job[w].list)}
             n == Cardinality(removed)
             freed == TotalSize(FirstListed(job[w].list, n))
             refs == {r \in job[w].refs : Key(r) \in Keys(removed)}
             T == IF n > 0 THEN job[w].target ELSE {}
  <2>1. LifecycleInv'
    <3>1. BlobsIn(refs) \subseteq Blobs
      BY <1>1, BlobsInType DEF JobState
    <3> DEFINE j == ThenCollect({}, BlobsIn(refs))
    <3>2. job' = [job EXCEPT ![w] = j] /\ clock' = clock
      BY <1>5 DEF SweepApply
    <3> HIDE DEF refs
    <3>3. j \in JobState /\ IsFiniteSet(j.refs) /\ IsFiniteSet(j.list)
      BY <1>2, <3>1, BetweenCandidates
    <3> HIDE DEF j
    <3> QED
      BY <1>1, <3>2, <3>3, JobReplaced
  <2>2. refcount' \in [Blobs -> Nat]
    <3>1. IsFiniteSet(refs)
      BY <1>1, FS_Subset
    <3>2. refcount' = Released(refs)
      BY <1>5 DEF SweepApply
    <3> HIDE DEF refs
    <3> QED
      BY <1>1, <3>1, <3>2, ReleasedType DEF RowsInv, RowsTypeOK
  <2>3. /\ deliveries' \subseteq deliveries /\ IsFiniteSet(deliveries')
        /\ attachments' \subseteq attachments /\ IsFiniteSet(attachments')
    BY <1>1, <1>5, FS_Subset DEF SweepApply, DeleteDeliveries, RowsInv, FiniteRows
  <2>4. IsABag(events')
    BY <1>1, <1>5, EmitKeepsBag DEF SweepApply, RowsInv, RowsTypeOK
  <2>5. \A used \in Nat : Reduced(used, n) \in Nat /\ Reduced(used, freed) \in Nat
    BY DEF Reduced
  <2>6. /\ usedMessages' = [i \in Identities |-> IF i \in T
                              THEN Reduced(usedMessages[i], n) ELSE usedMessages[i]]
        /\ usedBytes'    = [i \in Identities |-> IF i \in T
                              THEN Reduced(usedBytes[i], freed) ELSE usedBytes[i]]
    BY <1>5 DEF SweepApply
  <2>7. usedMessages' \in [Identities -> Nat] /\ usedBytes' \in [Identities -> Nat]
    <3> HIDE DEF n, freed, T
    <3> QED
      BY <1>1, <2>5, <2>6 DEF RowsInv, RowsTypeOK
  <2>8. RowsInv'
    BY <1>1, <1>5, <2>2, <2>3, <2>4, <2>7 DEF SweepApply, RowsInv, RowsTypeOK, FiniteRows
  <2> QED
    BY <2>1, <2>8
<1> QED
  BY <1>3, <1>4, <1>5 DEF SweepJob

(***************************************************************************)
(* Blob collection keeps the rows and its own state well typed.            *)
(***************************************************************************)
LEMMA CollectJobTyped ==
  ASSUME TypeInv, NEW w \in Workers, CollectJob(w)
  PROVE  RowsInv' /\ LifecycleInv'
<1>1. /\ RowsInv /\ LifecycleInv /\ job[w] \in JobState
      /\ IsFiniteSet(job[w].refs) /\ IsFiniteSet(job[w].list)
  BY DEF TypeInv, TypeOK, RowsInv, LifecycleInv, LifecycleTypeOK, FiniteJobs
<1>2. IsFiniteSet({})
  BY FS_EmptySet
<1>3. ASSUME NEW blobs, blobs \subseteq Blobs, NEW todo, todo \subseteq Random,
             job' = [job EXCEPT ![w] = ThenCollect(todo, blobs)], clock' = clock
      PROVE  LifecycleInv'
  <2> DEFINE j == ThenCollect(todo, blobs)
  <2>1. j \in JobState /\ IsFiniteSet(j.refs) /\ IsFiniteSet(j.list)
    BY <1>2, <1>3, BetweenCandidates
  <2>2. job' = [job EXCEPT ![w] = j]
    BY <1>3
  <2> HIDE DEF j
  <2> QED
    BY <1>1, <1>3, <2>1, <2>2, JobReplaced
<1>4. CASE CollectList(w)
  <2>1. OrphanedBlobs \subseteq Blobs
    BY <1>1 DEF OrphanedBlobs, RowsInv, RowsTypeOK
  <2>2. job' = [job EXCEPT ![w] = ThenCollect({}, OrphanedBlobs)] /\ clock' = clock
    BY <1>4 DEF CollectList
  <2>3. PICK blobs, none : blobs = OrphanedBlobs /\ none = {}
    OBVIOUS
  <2>4. LifecycleInv'
    <3>1. blobs \subseteq Blobs /\ none \subseteq Random
      BY <2>1, <2>3
    <3>2. job' = [job EXCEPT ![w] = ThenCollect(none, blobs)]
      BY <2>2, <2>3
    <3> QED
      BY <1>3, <2>2, <3>1, <3>2
  <2> QED
    BY <1>1, <1>4, <2>4, RowsStutter DEF CollectList
<1>5. ASSUME NEW b \in Blobs, ClaimOrphanBlob(w, b)
      PROVE  RowsInv' /\ LifecycleInv'
  <2> DEFINE j == [job[w] EXCEPT !.claimed = b]
  <2>1. j \in JobState /\ IsFiniteSet(j.refs) /\ IsFiniteSet(j.list)
    BY <1>1 DEF JobState
  <2>2. job' = [job EXCEPT ![w] = j] /\ clock' = clock
    BY <1>5 DEF ClaimOrphanBlob
  <2>3. RowsInv'
    BY <1>1, <1>5 DEF ClaimOrphanBlob, RowsInv, RowsTypeOK, FiniteRows, identityVars
  <2> HIDE DEF j
  <2> QED
    BY <1>1, <2>1, <2>2, <2>3, JobReplaced
<1>6. ASSUME NEW b \in Blobs, Skip(w, b)
      PROVE  RowsInv' /\ LifecycleInv'
  <2>1. job[w].gone \ {b} \subseteq Blobs /\ job[w].todo \subseteq Random
    BY <1>1 DEF JobState
  <2>2. /\ job' = [job EXCEPT ![w] = ThenCollect(job[w].todo, job[w].gone \ {b})]
        /\ clock' = clock
    BY <1>6 DEF Skip
  <2>3. LifecycleInv'
    BY <1>3, <2>1, <2>2
  <2> QED
    BY <1>1, <1>6, <2>3, RowsStutter DEF Skip
<1>7. CASE DeleteBytes(w)
  <2>1. job[w].gone \ {job[w].claimed} \subseteq Blobs /\ job[w].todo \subseteq Random
    BY <1>1 DEF JobState
  <2>2. /\ job' = [job EXCEPT ![w] =
                     ThenCollect(job[w].todo, job[w].gone \ {job[w].claimed})]
        /\ clock' = clock
    BY <1>7 DEF DeleteBytes
  <2>3. LifecycleInv'
    BY <1>3, <2>1, <2>2
  <2>4. RowsInv'
    BY <1>1, <1>7 DEF DeleteBytes, RowsInv, RowsTypeOK, FiniteRows, identityVars
  <2> QED
    BY <2>3, <2>4
<1> QED
  BY <1>4, <1>5, <1>6, <1>7 DEF CollectJob

(***************************************************************************)
(* Time, notices, expiry and dying workers keep everything well typed.     *)
(***************************************************************************)
LEMMA LifecycleStepTyped ==
  ASSUME TypeInv, LifecycleStep
  PROVE  RowsInv' /\ LifecycleInv'
<1>1. RowsInv /\ LifecycleInv
  BY DEF TypeInv, TypeOK, RowsInv, LifecycleInv
<1>2. ASSUME NEW i \in Random, Tick(i)
      PROVE  RowsInv' /\ LifecycleInv'
  <2>1. clock \in [Random -> Early..PastGrace]
    BY <1>1 DEF LifecycleInv, LifecycleTypeOK
  <2>2. clock[i] + 1 \in Early..PastGrace
    BY <1>2, <2>1 DEF Tick, Early, PastGrace
  <2>3. clock' \in [Random -> Early..PastGrace] /\ job' = job
    BY <1>2, <2>1, <2>2 DEF Tick
  <2>4. LifecycleInv'
    BY <1>1, <2>3 DEF LifecycleInv, LifecycleTypeOK, FiniteJobs
  <2> QED
    BY <1>1, <1>2, <2>4, RowsStutter DEF Tick
<1>3. ASSUME NEW d \in deliveries, Age(d)
      PROVE  RowsInv' /\ LifecycleInv'
  <2>1. [d EXCEPT !.old = TRUE] \in Delivery
    BY <1>1 DEF RowsInv, RowsTypeOK, Delivery
  <2>2. deliveries' = (deliveries \ {d}) \cup {[d EXCEPT !.old = TRUE]}
    BY <1>3 DEF Age
  <2>3. deliveries' \subseteq Delivery /\ IsFiniteSet(deliveries')
    BY <1>1, <2>1, <2>2, FS_RemoveElement, FS_AddElement DEF RowsInv, RowsTypeOK, FiniteRows
  <2>4. RowsInv'
    BY <1>1, <1>3, <2>3 DEF Age, RowsInv, RowsTypeOK, FiniteRows, identityVars, blobVars
  <2> QED
    BY <1>1, <1>3, <2>4 DEF Age, lifecycleVars, LifecycleInv, LifecycleTypeOK, FiniteJobs
<1>4. ASSUME NEW S, NEW to \in IdentityState, NEW event, MoveState(S, to, event)
      PROVE  RowsInv' /\ LifecycleInv'
  <2>1. IsABag(events')
    BY <1>1, <1>4, EmitKeepsBag DEF MoveState, RowsInv, RowsTypeOK
  <2>2. state' \in [Identities -> IdentityState]
    BY <1>1, <1>4 DEF MoveState, RowsInv, RowsTypeOK
  <2>3. RowsInv'
    BY <1>1, <1>4, <2>1, <2>2 DEF MoveState, RowsInv, RowsTypeOK, FiniteRows, blobVars
  <2> QED
    BY <1>1, <1>4, <2>3 DEF MoveState, lifecycleVars, LifecycleInv, LifecycleTypeOK,
                            FiniteJobs
<1>5. CASE Notice
  BY <1>4, <1>5 DEF Notice, IdentityState
<1>6. CASE Expire
  BY <1>4, <1>6 DEF Expire, IdentityState
<1>7. ASSUME NEW w \in Workers, JobDies(w)
      PROVE  RowsInv' /\ LifecycleInv'
  <2>1. LifecycleInv'
    BY <1>1, <1>7, BetweenCandidates, JobReplaced, FS_EmptySet DEF JobDies
  <2> QED
    BY <1>1, <1>7, <2>1, MaxFaultsAssumption
       DEF JobDies, Fault, RowsInv, RowsTypeOK, FiniteRows, identityVars, blobVars
<1> QED
  BY <1>2, <1>3, <1>5, <1>6, <1>7, PurgeJobTyped, SweepJobTyped, CollectJobTyped
     DEF LifecycleStep

-----------------------------------------------------------------------------
(* Parsing.                                                                *)

(***************************************************************************)
(* Every step of a parser keeps the rows, the queue and the parsers well   *)
(* typed.                                                                  *)
(***************************************************************************)
LEMMA ParseStepTyped ==
  ASSUME TypeInv, NEW p \in Parsers, ParseStep(p)
  PROVE  RowsInv' /\ ParseTypeOK'
<1>1. /\ RowsInv /\ ParseTypeOK
      /\ queue \subseteq Job /\ parser \in [Parsers -> ParserState]
      /\ IdleParser \in ParserState
  BY DEF TypeInv, TypeOK, RowsInv, ParseTypeOK, IdleParser, ParserState
<1>2. ASSUME Drop(p) PROVE ParseTypeOK'
  BY <1>1, <1>2 DEF Drop, ParseTypeOK
<1>3. ASSUME Retry(p) PROVE ParseTypeOK'
  <2>1. \A j \in {x \in parser[p].job : x.attempt < MaxAttempts} :
          [j EXCEPT !.attempt = @ + 1] \in Job
    BY <1>1, MaxAttemptsAssumption DEF ParserState, Job
  <2> QED
    BY <1>1, <1>3, <2>1 DEF Retry, ParseTypeOK
<1>4. ASSUME NEW j \in ParserState, parser' = [parser EXCEPT ![p] = j],
             queue' \subseteq queue
      PROVE  ParseTypeOK'
  BY <1>1, <1>4 DEF ParseTypeOK
<1>5. CASE Load(p)
  <2>1. PICK j \in queue :
          /\ queue' = queue \ {j}
          /\ parser' = [parser EXCEPT ![p].pc = "loaded", ![p].job = {j},
                                      ![p].message = Unparsed(j)]
    BY <1>5 DEF Load
  <2> DEFINE new == [parser[p] EXCEPT !.pc = "loaded", !.job = {j},
                                      !.message = Unparsed(j)]
  <2>2. Unparsed(j) \subseteq Delivery
    BY <1>1 DEF Unparsed, DeliveryAt, RowsInv, RowsTypeOK
  <2>3. new \in ParserState
    BY <1>1, <2>2 DEF ParserState
  <2>4. parser' = [parser EXCEPT ![p] = new]
    BY <1>1, <2>1
  <2> HIDE DEF new
  <2> QED
    BY <1>1, <1>4, <1>5, <2>1, <2>3, <2>4, RowsStutter DEF Load
<1>6. CASE NothingToParse(p)
  BY <1>1, <1>6, RowsStutter DEF NothingToParse, ParseTypeOK
<1>7. CASE LoadFails(p)
  BY <1>1, <1>7, MaxFaultsAssumption
     DEF LoadFails, Fault, ParseTypeOK, RowsInv, RowsTypeOK, FiniteRows,
         identityVars, blobVars
<1>21. CASE LookupFails(p)
  BY <1>1, <1>2, <1>21, MaxFaultsAssumption
     DEF LookupFails, Fault, RowsInv, RowsTypeOK, FiniteRows, identityVars, blobVars
<1>8. CASE Locate(p)
  <2>1. [parser[p] EXCEPT !.pc = "located"] \in ParserState
    BY <1>1 DEF ParserState
  <2> QED
    BY <1>1, <1>8, <2>1, RowsStutter DEF Locate, ParseTypeOK
<1>9. CASE GiveUp(p)
  BY <1>1, <1>2, <1>9, RowsStutter DEF GiveUp
<1>10. CASE ReadBytes(p)
  <2>1. [parser[p] EXCEPT !.pc = "extracting"] \in ParserState
    BY <1>1 DEF ParserState
  <2> QED
    BY <1>1, <1>10, <2>1, RowsStutter DEF ReadBytes, ParseTypeOK
<1>11. CASE BytesMissing(p)
  BY <1>1, <1>3, <1>11, RowsStutter DEF BytesMissing
<1>12. CASE PutAttachment(p)
  <2>1. PICK b \in Blobs :
          PutBytes(b) /\ parser' = [parser EXCEPT ![p].put = {b}]
    BY <1>12 DEF PutAttachment
  <2>2. [parser[p] EXCEPT !.put = {b}] \in ParserState
    BY <1>1 DEF ParserState
  <2>3. ParseTypeOK'
    BY <1>1, <1>12, <2>1, <2>2 DEF PutAttachment, ParseTypeOK
  <2> QED
    BY <1>1, <1>12, <2>1, <2>3
       DEF PutAttachment, PutBytes, RowsInv, RowsTypeOK, FiniteRows, identityVars
<1>13. CASE AcquireAttachment(p)
  <2>1. PICK b \in parser[p].put :
          /\ Acquire(b, 1)
          /\ parser' = [parser EXCEPT ![p].put = {}, ![p].stored = @ \cup {b}]
    BY <1>13 DEF AcquireAttachment
  <2>2. b \in Blobs
    BY <1>1 DEF ParserState
  <2>3. [parser[p] EXCEPT !.put = {}, !.stored = @ \cup {b}] \in ParserState
    BY <1>1, <2>2 DEF ParserState
  <2>4. ParseTypeOK'
    BY <1>1, <1>13, <2>1, <2>3 DEF AcquireAttachment, ParseTypeOK
  <2>5. refcount' \in [Blobs -> Nat] /\ blobRows' \subseteq Blobs
    BY <1>1, <2>1, <2>2 DEF Acquire, RowsInv, RowsTypeOK
  <2> QED
    BY <1>1, <1>13, <2>4, <2>5
       DEF AcquireAttachment, RowsInv, RowsTypeOK, FiniteRows, identityVars
<1>14. ASSUME MarkFailed(p)
       PROVE  deliveries' \subseteq Delivery /\ IsFiniteSet(deliveries')
  <2> DEFINE failed == [d \in Current(p) |-> [d EXCEPT !.status = "failed"]]
  <2>1. Current(p) \subseteq deliveries
    BY DEF Current, DeliveryAt
  <2>2. Current(p) \subseteq Delivery /\ IsFiniteSet(Current(p))
    BY <1>1, <2>1, FS_Subset DEF RowsInv, RowsTypeOK, FiniteRows
  <2>3. DOMAIN failed = Current(p) /\ \A d \in Current(p) : failed[d] \in Delivery
    BY <2>2 DEF Delivery, DeliveryState
  <2>4. deliveries' = (deliveries \ Current(p)) \cup {failed[d] : d \in Current(p)}
    BY <1>14 DEF MarkFailed
  <2> HIDE DEF failed
  <2>5. IsFiniteSet({failed[d] : d \in Current(p)})
    BY <2>2, <2>3, FiniteImage
  <2>6. IsFiniteSet(deliveries \ Current(p))
    BY <1>1, FS_Subset DEF RowsInv, FiniteRows
  <2>7. IsFiniteSet(deliveries')
    BY <2>4, <2>5, <2>6, FS_Union
  <2> QED
    BY <1>1, <2>3, <2>4, <2>7 DEF RowsInv, RowsTypeOK
<1>15. CASE Unparseable(p)
  <2>1. ParseTypeOK'
    BY <1>2, <1>15 DEF Unparseable
  <2>2. deliveries' \subseteq Delivery /\ IsFiniteSet(deliveries')
    BY <1>14, <1>15 DEF Unparseable
  <2> QED
    BY <1>1, <1>15, <2>1, <2>2
       DEF Unparseable, RowsInv, RowsTypeOK, FiniteRows, identityVars, blobVars
<1>16. CASE StoreAttachmentFails(p)
  <2>1. ParseTypeOK'
    BY <1>2, <1>16 DEF StoreAttachmentFails
  <2>2. deliveries' \subseteq Delivery /\ IsFiniteSet(deliveries')
    BY <1>14, <1>16 DEF StoreAttachmentFails
  <2> QED
    BY <1>1, <1>16, <2>1, <2>2, MaxFaultsAssumption
       DEF StoreAttachmentFails, Fault, RowsInv, RowsTypeOK, FiniteRows,
           identityVars, blobVars
<1>17. CASE StoreResults(p)
  <2>1. PICK d \in Current(p) :
          /\ deliveries' = (deliveries \ {d}) \cup {[d EXCEPT !.status = "parsed"]}
          /\ attachments' = {a \in attachments : Key(a) # Key(d)} \cup
               {[identity |-> d.identity, seq |-> d.seq, blob |-> b] :
                  b \in parser[p].stored}
          /\ Emit({Event("message.parsed", d.identity, d.seq)})
    BY <1>17 DEF StoreResults
  <2>2. d \in deliveries /\ d \in Delivery
    BY <1>1 DEF Current, DeliveryAt, RowsInv, RowsTypeOK
  <2>3. [d EXCEPT !.status = "parsed"] \in Delivery
    BY <2>2 DEF Delivery, DeliveryState
  <2>4. deliveries' \subseteq Delivery /\ IsFiniteSet(deliveries')
    BY <1>1, <2>1, <2>3, FS_RemoveElement, FS_AddElement
       DEF RowsInv, RowsTypeOK, FiniteRows
  <2> DEFINE named == [b \in parser[p].stored |->
                         [identity |-> d.identity, seq |-> d.seq, blob |-> b]]
             kept  == {a \in attachments : Key(a) # Key(d)}
  <2>5. attachments' = kept \cup {named[b] : b \in parser[p].stored}
    BY <2>1
  <2>6. parser[p].stored \subseteq Blobs /\ IsFiniteSet(parser[p].stored)
    BY <1>1, BlobsAssumption, FS_Subset DEF ParserState
  <2>7. \A b \in parser[p].stored : named[b] \in Attachment
    BY <2>2, <2>6 DEF Delivery, Attachment
  <2>8. kept \subseteq Attachment /\ IsFiniteSet(kept)
    BY <1>1, FS_Subset DEF RowsInv, RowsTypeOK, FiniteRows
  <2>9. DOMAIN named = parser[p].stored
    OBVIOUS
  <2> HIDE DEF named, kept
  <2>10. IsFiniteSet({named[b] : b \in parser[p].stored})
    BY <2>6, <2>9, FiniteImage
  <2>11. attachments' \subseteq Attachment /\ IsFiniteSet(attachments')
    BY <2>5, <2>7, <2>8, <2>10, FS_Union
  <2>12. IsABag(events')
    BY <1>1, <2>1, EmitKeepsBag DEF RowsInv, RowsTypeOK
  <2>13. [parser[p] EXCEPT !.pc = "parsed"] \in ParserState
    BY <1>1 DEF ParserState
  <2>14. ParseTypeOK'
    BY <1>1, <1>17, <2>13 DEF StoreResults, ParseTypeOK
  <2> QED
    BY <1>1, <1>17, <2>4, <2>11, <2>12, <2>14
       DEF StoreResults, RowsInv, RowsTypeOK, FiniteRows, identityVars, blobVars
<1>18. CASE DeliveryGone(p)
  BY <1>1, <1>3, <1>18, RowsStutter DEF DeliveryGone
<1>19. CASE JobDone(p)
  BY <1>1, <1>2, <1>19, RowsStutter DEF JobDone
<1>20. CASE ParserDies(p)
  <2>1. ParseTypeOK'
    BY <1>3, <1>20 DEF ParserDies
  <2> QED
    BY <1>1, <1>20, <2>1, MaxFaultsAssumption
       DEF ParserDies, Fault, RowsInv, RowsTypeOK, FiniteRows, identityVars, blobVars
<1> QED
  BY <1>5, <1>6, <1>7, <1>8, <1>9, <1>10, <1>11, <1>12, <1>13, <1>15, <1>16,
     <1>17, <1>18, <1>19, <1>20, <1>21 DEF ParseStep, ParseProgress

-----------------------------------------------------------------------------
(* The whole pipeline.                                                     *)

(***************************************************************************)
(* The empty database is well typed.                                       *)
(***************************************************************************)
LEMMA InitTyped == Init => TypeInv
<1> SUFFICES ASSUME Init PROVE TypeInv
  OBVIOUS
<1>1. IsFiniteSet({})
  BY FS_EmptySet
<1>2. IsABag(events)
  BY DEF Init, RowsInit, EmptyBag, SetToBag, IsABag
<1>3. RowsTypeOK
  BY <1>2, MaxFaultsAssumption DEF Init, RowsInit, RowsTypeOK, IdentityState
<1>4. IngestTypeOK
  BY DEF Init, IngestInit, IngestTypeOK, IdleSession, SessionState
<1>5. AccountsTypeOK
  BY DEF Init, AccountsInit, AccountsTypeOK
<1>6. LifecycleTypeOK
  BY DEF Init, LifecycleInit, LifecycleTypeOK, NoJob, JobState, Early, PastGrace
<1>7. ParseTypeOK
  BY DEF Init, ParseInit, ParseTypeOK, IdleParser, ParserState
<1>8. FiniteRows /\ FiniteJobs
  BY <1>1 DEF Init, RowsInit, LifecycleInit, FiniteRows, FiniteJobs, NoJob
<1> QED
  BY <1>3, <1>4, <1>5, <1>6, <1>7, <1>8 DEF TypeInv, TypeOK

(***************************************************************************)
(* A committed message puts well-typed parse jobs in the queue.            *)
(***************************************************************************)
LEMMA EnqueueTyped ==
  ASSUME TypeInv, NEW s \in Sessions, Commit(s), Enqueue(s), UNCHANGED parser
  PROVE  ParseTypeOK'
<1> DEFINE tx == session[s]
<1>1. tx.rcpts \in Seq(Identities) /\ tx.seqs \in Seq(Nat \ {0})
  BY DEF TypeInv, TypeOK, IngestTypeOK, SessionState
<1>2. DOMAIN tx.rcpts = DOMAIN tx.seqs
  BY <1>1 DEF Commit
<1>3. \A n \in DOMAIN tx.rcpts : tx.rcpts[n] \in Identities /\ tx.seqs[n] \in Nat \ {0}
  BY <1>1, <1>2
<1> HIDE DEF tx
<1>4. \A n \in DOMAIN tx.rcpts : NewJob(tx.rcpts[n], tx.seqs[n]) \in Job
  BY <1>3, MaxAttemptsAssumption DEF NewJob, Job
<1>5. queue' \subseteq Job
  BY <1>4 DEF Enqueue, TypeInv, TypeOK, ParseTypeOK, tx
<1> QED
  BY <1>5 DEF TypeInv, TypeOK, ParseTypeOK

(***************************************************************************)
(* Every step of every process keeps the whole state well typed.           *)
(***************************************************************************)
LEMMA StepTyped == TypeInv /\ [Next]_vars => TypeInv'
<1> SUFFICES ASSUME TypeInv, [Next]_vars PROVE TypeInv'
  OBVIOUS
<1>1. /\ RowsInv /\ IngestTypeOK /\ AccountsTypeOK /\ LifecycleInv /\ ParseTypeOK
  BY DEF TypeInv, TypeOK, RowsInv, LifecycleInv
<1>2. /\ UNCHANGED session => IngestTypeOK'
      /\ UNCHANGED destroying => AccountsTypeOK'
      /\ UNCHANGED lifecycleVars => LifecycleInv'
      /\ UNCHANGED parseVars => ParseTypeOK'
  BY <1>1 DEF IngestTypeOK, AccountsTypeOK, LifecycleInv, LifecycleTypeOK,
              FiniteJobs, ParseTypeOK, lifecycleVars, parseVars
<1> DEFINE AllTyped ==
      RowsInv /\ IngestTypeOK /\ AccountsTypeOK /\ LifecycleInv /\ ParseTypeOK
<1>3. AllTyped'
  <2>1. ASSUME NEW s \in Sessions, IngestStep(s), UNCHANGED OthersOfIngest
        PROVE  AllTyped'
    BY <1>2, <2>1, IngestStepTyped DEF OthersOfIngest
  <2>2. ASSUME NEW s \in Sessions, CommitMessage(s)
        PROVE  AllTyped'
    BY <1>2, <2>2, CommitTyped, EnqueueTyped DEF CommitMessage
  <2>3. CASE AccountsStep /\ UNCHANGED OthersOfAccounts
    BY <1>2, <2>3, AccountsStepTyped DEF OthersOfAccounts
  <2>4. CASE LifecycleStep /\ UNCHANGED OthersOfLifecycle
    BY <1>2, <2>4, LifecycleStepTyped DEF OthersOfLifecycle
  <2>5. ASSUME NEW p \in Parsers, ParseStep(p), UNCHANGED OthersOfParse
        PROVE  AllTyped'
    BY <1>2, <2>5, ParseStepTyped DEF OthersOfParse
  <2>6. CASE UNCHANGED vars
    BY <1>1, <1>2, <2>6, RowsStutter DEF vars
  <2> QED
    BY <2>1, <2>2, <2>3, <2>4, <2>5, <2>6 DEF Next
<1> QED
  BY <1>3 DEF TypeInv, TypeOK, RowsInv, LifecycleInv

(***************************************************************************)
(* Every row and every process's private state is well typed, and only     *)
(* finitely many rows exist, whatever the pipeline does.                   *)
(***************************************************************************)
THEOREM TypeCorrect == Spec => []TypeOK
<1>1. TypeInv => TypeOK
  BY DEF TypeInv
<1> QED
  BY InitTyped, StepTyped, <1>1, PTL DEF Spec

HIDE DEF Identities

-----------------------------------------------------------------------------
(* Bytes and keys.                                                         *)

ServiceInv == LocksHeld /\ KeysKept

BlobInv ==
  /\ ReadableMail
  /\ RowsHaveBytes
  /\ PendingIsPrivate
  /\ ClaimedIsGone
  /\ StoredAttachmentsKept
  /\ ReferencesMinted

-----------------------------------------------------------------------------
(* Steps that hand no blob to anyone.                                      *)

\* Rows only disappear or change what no reader of bytes looks at.
QuietRows ==
  /\ \A d \in deliveries' :
       \E c \in deliveries : c.identity = d.identity /\ c.blob = d.blob
  /\ attachments' \subseteq attachments
  /\ \A d \in deliveries' : dataKey[d.identity] => dataKey'[d.identity]
  /\ blobRows' = blobRows /\ bytes' = bytes /\ minted' = minted
  /\ \A b \in Blobs : Unnamed(b) /\ refcount[b] > 0 => refcount'[b] > 0

\* Sessions keep their message or let it go.
QuietSessions ==
  \A s \in Sessions :
    session'[s].pc = "commit" =>
      session[s].pc = "commit" /\ session'[s].blob = session[s].blob

\* Jobs read references from rows and claim nothing.
QuietJobs ==
  \A w \in Workers :
    /\ job'[w].claimed \in {NoBlob, job[w].claimed}
    /\ job'[w].refs \subseteq job[w].refs \cup deliveries \cup attachments

\* Parsers keep the attachments of a message or let them go.
QuietParsers ==
  \A p \in Parsers :
    /\ parser'[p].pc # "extracting" => parser'[p].put = {}
    /\ parser'[p].pc \in {"idle", "loaded", "located"} => parser'[p].stored = {}
    /\ parser'[p].pc = "extracting" =>
         \/ parser'[p].stored = {} /\ parser'[p].put = {}
         \/ /\ parser[p].pc = "extracting"
            /\ parser'[p].stored = parser[p].stored
            /\ parser'[p].put = parser[p].put

(***************************************************************************)
(* Standing still is quiet.                                                *)
(***************************************************************************)
LEMMA StandingStill ==
  ASSUME TypeOK, BlobInv
  PROVE  /\ UNCHANGED <<dataKey, deliveries, attachments, blobVars>> => QuietRows
         /\ UNCHANGED session => QuietSessions
         /\ UNCHANGED job => QuietJobs
         /\ UNCHANGED parser => QuietParsers
<1>1. UNCHANGED <<dataKey, deliveries, attachments, blobVars>> => QuietRows
  BY DEF QuietRows, blobVars
<1>2. UNCHANGED session => QuietSessions
  BY DEF QuietSessions
<1>3. UNCHANGED job => QuietJobs
  BY DEF QuietJobs
<1>4. UNCHANGED parser => QuietParsers
  BY DEF QuietParsers, BlobInv, StoredAttachmentsKept
<1> QED
  BY <1>1, <1>2, <1>3, <1>4

(***************************************************************************)
(* A quiet step leaves all mail readable and every pending, claimed and    *)
(* stored blob as it was.                                                  *)
(***************************************************************************)
LEMMA QuietStep ==
  ASSUME TypeInv, TypeInv', BlobInv,
         QuietRows, QuietSessions, QuietJobs, QuietParsers
  PROVE  BlobInv'
<1>1. \A r \in (deliveries \cup attachments)' :
        \E q \in deliveries \cup attachments : q.blob = r.blob
  BY DEF QuietRows
<1>2. \A b : Pending(b)' => Pending(b)
  BY DEF Pending, QuietSessions, QuietParsers
<1>3. \A b : Unnamed(b) => Unnamed(b)'
  BY <1>1 DEF Unnamed, QuietJobs
<1>4. ReadableMail'
  BY <1>1 DEF QuietRows, BlobInv, ReadableMail
<1>5. RowsHaveBytes'
  BY DEF QuietRows, BlobInv, RowsHaveBytes
<1>6. PendingIsPrivate'
  <2>1. \A b \in Blobs : Pending(b)' => b \in bytes' /\ b \notin blobRows'
    BY <1>2 DEF QuietRows, BlobInv, PendingIsPrivate
  <2>2. \A p \in Parsers : parser'[p].put \subseteq parser[p].put
    BY DEF QuietParsers
  <2> QED
    BY <2>1, <2>2 DEF QuietSessions, BlobInv, PendingIsPrivate
<1>7. ClaimedIsGone'
  BY <1>2 DEF QuietJobs, QuietRows, BlobInv, ClaimedIsGone
<1>8. StoredAttachmentsKept'
  <2>1. \A p \in Parsers : parser[p].stored \subseteq Blobs /\ parser[p].put \subseteq Blobs
    BY DEF TypeInv, TypeOK, ParseTypeOK, ParserState
  <2>2. ASSUME NEW p \in Parsers, parser'[p].pc = "extracting"
        PROVE  /\ \A b \in parser'[p].stored : b \in blobRows' /\ refcount'[b] > 0
               /\ \A b \in parser'[p].stored \cup parser'[p].put : Unnamed(b)'
    BY <1>3, <2>1, <2>2 DEF QuietParsers, QuietRows, BlobInv, StoredAttachmentsKept
  <2>3. ASSUME NEW p \in Parsers, NEW q \in Parsers, p # q,
               parser'[p].pc = "extracting", parser'[q].pc = "extracting"
        PROVE  parser'[p].stored \cap parser'[q].stored = {}
    BY <2>3 DEF QuietParsers, BlobInv, StoredAttachmentsKept
  <2> QED
    BY <2>2, <2>3 DEF QuietParsers, StoredAttachmentsKept
<1>9. ReferencesMinted'
  BY DEF QuietJobs, QuietRows, BlobInv, ReferencesMinted, RowsHaveBytes,
         ReadableMail, BlobsIn
<1> QED
  BY <1>4, <1>5, <1>6, <1>7, <1>8, <1>9 DEF BlobInv

-----------------------------------------------------------------------------
(* Steps that put bytes, give them a row, or take them away.               *)

(***************************************************************************)
(* Nothing names, awaits or deletes a content address that was never       *)
(* produced.                                                               *)
(***************************************************************************)
LEMMA FreshBlob ==
  ASSUME TypeInv, BlobInv, NEW b \in Blobs, b \notin minted
  PROVE  /\ Unnamed(b) /\ ~Pending(b)
         /\ b \notin bytes /\ b \notin blobRows
         /\ \A w \in Workers : job[w].claimed # b
<1>1. b \notin bytes /\ b \notin blobRows
  BY DEF BlobInv, RowsHaveBytes
<1>2. ~Pending(b)
  BY <1>1 DEF BlobInv, PendingIsPrivate
<1>3. Unnamed(b)
  BY <1>1 DEF Unnamed, BlobInv, ReadableMail, ReferencesMinted, BlobsIn
<1>4. \A w \in Workers : job[w].claimed # b
  BY BlobsAssumption DEF BlobInv, ClaimedIsGone
<1> QED
  BY <1>1, <1>2, <1>3, <1>4

(***************************************************************************)
(* FS.Put of a received message.                                           *)
(***************************************************************************)
LEMMA StoreBodySafe ==
  ASSUME TypeInv, TypeInv', BlobInv, NEW s \in Sessions, StoreBody(s),
         UNCHANGED OthersOfIngest
  PROVE  BlobInv'
<1>1. PICK b \in Blobs, size \in Sizes :
        /\ PutBytes(b)
        /\ session' = [session EXCEPT ![s].pc = "commit", ![s].blob = b,
                                      ![s].size = size]
  BY DEF StoreBody
<1>2. /\ deliveries' = deliveries /\ attachments' = attachments
      /\ dataKey' = dataKey /\ blobRows' = blobRows /\ refcount' = refcount
      /\ job' = job /\ parser' = parser
      /\ b \notin minted /\ minted' = minted \cup {b} /\ bytes' = bytes \cup {b}
  BY <1>1 DEF StoreBody, PutBytes, identityVars, OthersOfIngest, lifecycleVars, parseVars
<1>3. /\ Unnamed(b) /\ ~Pending(b)
      /\ b \notin bytes /\ b \notin blobRows
      /\ \A w \in Workers : job[w].claimed # b
  BY <1>2, FreshBlob
<1>4. session \in [Sessions -> SessionState]
  BY DEF TypeInv, TypeOK, IngestTypeOK
<1>5. /\ session'[s].pc = "commit" /\ session'[s].blob = b
      /\ \A t \in Sessions : t # s => session'[t] = session[t]
  BY <1>1, <1>4 DEF SessionState
<1>6. \A c : Pending(c)' => Pending(c) \/ c = b
  BY <1>2, <1>5 DEF Pending
<1>7. ReadableMail' /\ RowsHaveBytes' /\ ReferencesMinted'
  BY <1>2 DEF BlobInv, ReadableMail, RowsHaveBytes, ReferencesMinted
<1>8. PendingIsPrivate'
  <2>1. \A c \in Blobs : Pending(c)' => c \in bytes' /\ c \notin blobRows'
    BY <1>2, <1>3, <1>6 DEF BlobInv, PendingIsPrivate
  <2>2. \A t \in Sessions : session[t].pc = "commit" => session[t].blob # b
    BY <1>3 DEF Pending
  <2>3. \A p \in Parsers : b \notin parser[p].put
    BY <1>3 DEF Pending
  <2> QED
    BY <1>2, <1>5, <2>1, <2>2, <2>3 DEF BlobInv, PendingIsPrivate
<1>9. ClaimedIsGone'
  BY <1>2, <1>3, <1>6 DEF BlobInv, ClaimedIsGone
<1>10. StoredAttachmentsKept'
  BY <1>2 DEF BlobInv, StoredAttachmentsKept, Unnamed
<1> QED
  BY <1>7, <1>8, <1>9, <1>10 DEF BlobInv

(***************************************************************************)
(* FS.Put of an attachment.                                                *)
(***************************************************************************)
LEMMA PutAttachmentSafe ==
  ASSUME TypeInv, TypeInv', BlobInv, NEW p \in Parsers, PutAttachment(p),
         UNCHANGED OthersOfParse
  PROVE  BlobInv'
<1>1. PICK b \in Blobs :
        PutBytes(b) /\ parser' = [parser EXCEPT ![p].put = {b}]
  BY DEF PutAttachment
<1>2. /\ deliveries' = deliveries /\ attachments' = attachments
      /\ dataKey' = dataKey /\ blobRows' = blobRows /\ refcount' = refcount
      /\ job' = job /\ session' = session
      /\ b \notin minted /\ minted' = minted \cup {b} /\ bytes' = bytes \cup {b}
      /\ parser[p].pc = "extracting" /\ parser[p].put = {}
  BY <1>1 DEF PutAttachment, PutBytes, identityVars, OthersOfParse, lifecycleVars
<1>3. /\ Unnamed(b) /\ ~Pending(b)
      /\ b \notin bytes /\ b \notin blobRows
      /\ \A w \in Workers : job[w].claimed # b
  BY <1>2, FreshBlob
<1>4. parser \in [Parsers -> ParserState]
  BY DEF TypeInv, TypeOK, ParseTypeOK
<1>5. /\ parser'[p].put = {b} /\ parser'[p].pc = parser[p].pc
      /\ parser'[p].stored = parser[p].stored
      /\ \A q \in Parsers : q # p => parser'[q] = parser[q]
  BY <1>1, <1>4 DEF ParserState
<1>6. \A c : Pending(c)' => Pending(c) \/ c = b
  BY <1>2, <1>5 DEF Pending
<1>7. ReadableMail' /\ RowsHaveBytes' /\ ReferencesMinted'
  BY <1>2 DEF BlobInv, ReadableMail, RowsHaveBytes, ReferencesMinted
<1>8. PendingIsPrivate'
  <2>1. \A c \in Blobs : Pending(c)' => c \in bytes' /\ c \notin blobRows'
    BY <1>2, <1>3, <1>6 DEF BlobInv, PendingIsPrivate
  <2>2. \A t \in Sessions : session[t].pc = "commit" => session[t].blob # b
    BY <1>3 DEF Pending
  <2>3. \A q \in Parsers : b \notin parser[q].put
    BY <1>3 DEF Pending
  <2> QED
    BY <1>2, <1>5, <2>1, <2>2, <2>3 DEF BlobInv, PendingIsPrivate
<1>9. ClaimedIsGone'
  BY <1>2, <1>3, <1>6 DEF BlobInv, ClaimedIsGone
<1>10. StoredAttachmentsKept'
  <2>1. \A c : Unnamed(c) => Unnamed(c)'
    BY <1>2 DEF Unnamed
  <2> QED
    BY <1>2, <1>3, <1>5, <2>1 DEF BlobInv, StoredAttachmentsKept
<1> QED
  BY <1>7, <1>8, <1>9, <1>10 DEF BlobInv

(***************************************************************************)
(* storeAttachment's transaction gives the attachment a row and one        *)
(* reference.                                                              *)
(***************************************************************************)
LEMMA AcquireAttachmentSafe ==
  ASSUME TypeInv, TypeInv', BlobInv, NEW p \in Parsers, AcquireAttachment(p),
         UNCHANGED OthersOfParse
  PROVE  BlobInv'
<1>1. PICK b \in parser[p].put :
        /\ Acquire(b, 1)
        /\ parser' = [parser EXCEPT ![p].put = {}, ![p].stored = @ \cup {b}]
  BY DEF AcquireAttachment
<1>2. /\ deliveries' = deliveries /\ attachments' = attachments
      /\ dataKey' = dataKey /\ bytes' = bytes /\ minted' = minted
      /\ job' = job /\ session' = session
  BY DEF AcquireAttachment, identityVars, OthersOfParse, lifecycleVars
<1>3. parser \in [Parsers -> ParserState] /\ refcount \in [Blobs -> Nat]
  BY DEF TypeInv, TypeOK, ParseTypeOK, RowsTypeOK
<1>4. b \in Blobs
  BY <1>3 DEF ParserState
<1>5. /\ parser'[p].put = {} /\ parser'[p].pc = parser[p].pc
      /\ parser'[p].stored = parser[p].stored \cup {b}
      /\ \A q \in Parsers : q # p => parser'[q] = parser[q]
  BY <1>1, <1>3 DEF ParserState
<1>6. /\ Pending(b) /\ b \in bytes /\ b \notin blobRows
      /\ parser[p].pc = "extracting" /\ Unnamed(b)
  BY <1>1, <1>4 DEF BlobInv, PendingIsPrivate, StoredAttachmentsKept, Pending
<1>7. /\ blobRows' = blobRows \cup {b}
      /\ refcount' = [refcount EXCEPT ![b] = 1]
  BY <1>1, <1>6 DEF Acquire
<1>8. \A c : Pending(c)' => Pending(c) /\ c # b
  <2>1. \A s \in Sessions : session[s].pc = "commit" => session[s].blob # b
    BY <1>1 DEF BlobInv, PendingIsPrivate
  <2>2. \A q \in Parsers : q # p => b \notin parser[q].put
    BY <1>1 DEF BlobInv, PendingIsPrivate
  <2>3. \A q \in Parsers : b \notin parser'[q].put /\ parser'[q].put \subseteq parser[q].put
    BY <1>5, <2>2
  <2> QED
    BY <1>2, <2>1, <2>3 DEF Pending
<1>9. ReadableMail' /\ RowsHaveBytes' /\ ReferencesMinted'
  BY <1>2, <1>6, <1>7 DEF BlobInv, ReadableMail, RowsHaveBytes, ReferencesMinted
<1>10. PendingIsPrivate'
  <2>1. \A c \in Blobs : Pending(c)' => c \in bytes' /\ c \notin blobRows'
    BY <1>2, <1>7, <1>8 DEF BlobInv, PendingIsPrivate
  <2> QED
    BY <1>2, <1>5, <2>1 DEF BlobInv, PendingIsPrivate
<1>11. ClaimedIsGone'
  BY <1>2, <1>6, <1>7, <1>8 DEF BlobInv, ClaimedIsGone
<1>12. StoredAttachmentsKept'
  <2>1. \A c : Unnamed(c) => Unnamed(c)'
    BY <1>2 DEF Unnamed
  <2>2. \A c \in blobRows : refcount[c] > 0 => refcount'[c] > 0
    BY <1>3, <1>6, <1>7 DEF TypeInv, TypeOK, RowsTypeOK
  <2>3. b \in blobRows' /\ refcount'[b] > 0
    BY <1>3, <1>4, <1>7
  <2>4. \A q \in Parsers : parser[q].pc = "extracting" => b \notin parser[q].stored
    BY <1>6 DEF BlobInv, StoredAttachmentsKept
  <2> QED
    BY <1>5, <1>6, <1>7, <2>1, <2>2, <2>3, <2>4 DEF BlobInv, StoredAttachmentsKept
<1> QED
  BY <1>9, <1>10, <1>11, <1>12 DEF BlobInv

(***************************************************************************)
(* The results' transaction names the stored attachments of the message.   *)
(***************************************************************************)
LEMMA StoreResultsSafe ==
  ASSUME TypeInv, TypeInv', BlobInv, NEW p \in Parsers, StoreResults(p),
         UNCHANGED OthersOfParse
  PROVE  BlobInv'
<1>1. PICK d \in Current(p) :
        /\ deliveries' = (deliveries \ {d}) \cup {[d EXCEPT !.status = "parsed"]}
        /\ attachments' = {a \in attachments : Key(a) # Key(d)} \cup
             {[identity |-> d.identity, seq |-> d.seq, blob |-> b] :
                b \in parser[p].stored}
  BY DEF StoreResults
<1>2. /\ dataKey' = dataKey /\ UNCHANGED <<blobRows, refcount, bytes, minted>>
      /\ job' = job /\ session' = session
      /\ parser[p].pc = "extracting" /\ parser[p].put = {}
      /\ parser' = [parser EXCEPT ![p].pc = "parsed"]
  BY DEF StoreResults, identityVars, blobVars, OthersOfParse, lifecycleVars
<1>3. /\ parser \in [Parsers -> ParserState] /\ deliveries \subseteq Delivery
      /\ d \in deliveries
  BY DEF TypeInv, TypeOK, ParseTypeOK, RowsTypeOK, Current, DeliveryAt
<1>4. /\ parser'[p].put = {} /\ parser'[p].pc = "parsed"
      /\ parser'[p].stored = parser[p].stored
      /\ \A q \in Parsers : q # p => parser'[q] = parser[q]
  BY <1>2, <1>3 DEF ParserState
<1>5. \A e \in deliveries' :
        \E c \in deliveries : c.identity = e.identity /\ c.blob = e.blob
  BY <1>1, <1>3 DEF Delivery
<1>6. \A a \in attachments' : a \in attachments \/ a.blob \in parser[p].stored
  BY <1>1
<1>7. \A b \in parser[p].stored : b \in blobRows
  BY <1>2 DEF BlobInv, StoredAttachmentsKept
<1>8. \A c : Pending(c)' => Pending(c)
  BY <1>2, <1>4 DEF Pending
<1>9. ReadableMail'
  BY <1>2, <1>5, <1>6, <1>7 DEF BlobInv, ReadableMail, RowsHaveBytes
<1>10. RowsHaveBytes' /\ ReferencesMinted'
  BY <1>2 DEF BlobInv, RowsHaveBytes, ReferencesMinted
<1>11. PendingIsPrivate'
  <2>1. \A c \in Blobs : Pending(c)' => c \in bytes' /\ c \notin blobRows'
    BY <1>2, <1>8 DEF BlobInv, PendingIsPrivate
  <2> QED
    BY <1>2, <1>4, <2>1 DEF BlobInv, PendingIsPrivate
<1>12. ClaimedIsGone'
  BY <1>2, <1>8 DEF BlobInv, ClaimedIsGone
<1>13. StoredAttachmentsKept'
  <2>1. \A c : Unnamed(c) /\ c \notin parser[p].stored => Unnamed(c)'
    BY <1>2, <1>5, <1>6 DEF Unnamed
  <2>2. ASSUME NEW q \in Parsers, q # p, parser[q].pc = "extracting"
        PROVE  \A c \in parser[q].stored \cup parser[q].put : c \notin parser[p].stored
    <3>1. \A c \in parser[q].put : c \in Blobs /\ Pending(c)
      BY <1>3 DEF Pending, ParserState
    <3>2. \A c \in parser[q].put : c \notin blobRows
      BY <3>1 DEF BlobInv, PendingIsPrivate
    <3> QED
      BY <1>2, <1>7, <2>2, <3>2 DEF BlobInv, StoredAttachmentsKept
  <2> QED
    BY <1>2, <1>4, <2>1, <2>2 DEF BlobInv, StoredAttachmentsKept
<1> QED
  BY <1>9, <1>10, <1>11, <1>12, <1>13 DEF BlobInv

(***************************************************************************)
(* The commit gives the message's bytes a row, its deliveries name it, and *)
(* every recipient has a key: the locked ones kept theirs, the provisioned *)
(* ones are created with one.                                              *)
(***************************************************************************)
LEMMA CommitSafe ==
  ASSUME TypeInv, TypeInv', ServiceInv, BlobInv, NEW s \in Sessions,
         CommitMessage(s)
  PROVE  BlobInv'
<1> DEFINE b == session[s].blob
           R == Recipients(s)
<1>1. /\ session \in [Sessions -> SessionState] /\ session[s].pc = "commit"
      /\ b \in Blobs /\ deliveries \subseteq Delivery
      /\ Len(session[s].seqs) = Len(session[s].rcpts)
      /\ refcount \in [Blobs -> Nat]
  BY DEF TypeInv, TypeOK, IngestTypeOK, RowsTypeOK, CommitMessage, Commit
<1>2. /\ job' = job /\ parser' = parser
      /\ attachments' = attachments /\ bytes' = bytes /\ minted' = minted
      /\ Acquire(b, Cardinality(R))
      /\ session' = [session EXCEPT ![s] = IdleSession]
  BY DEF CommitMessage, Commit, lifecycleVars
<1>3. \A e \in deliveries' :
        e \in deliveries \/ (e.identity \in R /\ e.blob = b)
  <2> DEFINE seqOf == [i \in R |->
               session[s].seqs[CHOOSE n \in DOMAIN session[s].rcpts :
                                 session[s].rcpts[n] = i]]
  <2>1. deliveries' = deliveries \cup
          {[identity |-> i, seq |-> seqOf[i], blob |-> b, size |-> session[s].size,
            status |-> "received", old |-> FALSE] : i \in R}
    BY Zenon DEF CommitMessage, Commit
  <2> HIDE DEF seqOf
  <2> QED
    BY <2>1
<1>4. \A i \in Identities : dataKey[i] => dataKey'[i]
  BY DEF CommitMessage, Commit
<1>5. \A i \in R : dataKey'[i]
  <2> SUFFICES ASSUME NEW i \in R PROVE dataKey'[i]
    OBVIOUS
  <2>1. i \in Identities
    BY <1>1 DEF Recipients, SessionState
  <2>2. AcceptsMail(i) \/ Provisionable(i)
    <3>1. PICK n \in DOMAIN session[s].rcpts : session[s].rcpts[n] = i
      BY DEF Recipients
    <3>2. n \in DOMAIN session[s].seqs
      BY <1>1, <3>1 DEF SessionState
    <3> QED
      BY <3>1, <3>2 DEF ServiceInv, LocksHeld
  <2>3. state[i] = "absent" => dataKey'[i]
    BY <2>1 DEF CommitMessage, Commit
  <2>4. AcceptsMail(i) => dataKey[i]
    BY <2>1 DEF AcceptsMail, ServiceInv, KeysKept
  <2> QED
    BY <1>4, <2>1, <2>2, <2>3, <2>4 DEF Provisionable
<1>6. /\ session'[s].pc = "idle"
      /\ \A t \in Sessions : t # s => session'[t] = session[t]
  BY <1>1, <1>2 DEF IdleSession
<1>7. Pending(b)
  BY <1>1 DEF Pending
<1>8. b \in bytes /\ b \notin blobRows
  BY <1>1, <1>7 DEF BlobInv, PendingIsPrivate
<1>9. /\ blobRows' = blobRows \cup {b}
      /\ \A c \in Blobs : c # b => refcount'[c] = refcount[c]
  BY <1>1, <1>2 DEF Acquire
<1> HIDE DEF b, R
<1>10. \A c : Pending(c)' => Pending(c) /\ c # b
  <2>1. \A t \in Sessions : t # s /\ session[t].pc = "commit" => session[t].blob # b
    BY <1>1 DEF BlobInv, PendingIsPrivate, b
  <2>2. \A p \in Parsers : b \notin parser[p].put
    BY <1>1 DEF BlobInv, PendingIsPrivate, b
  <2> QED
    BY <1>2, <1>6, <2>1, <2>2 DEF Pending
<1>11. ReadableMail'
  <2>1. \A e \in deliveries : e.identity \in Identities
    BY <1>1 DEF Delivery
  <2> QED
    BY <1>2, <1>3, <1>4, <1>5, <1>8, <1>9, <2>1 DEF BlobInv, ReadableMail
<1>12. RowsHaveBytes' /\ ReferencesMinted'
  BY <1>2, <1>8, <1>9 DEF BlobInv, RowsHaveBytes, ReferencesMinted
<1>13. PendingIsPrivate'
  <2>1. \A c \in Blobs : Pending(c)' => c \in bytes' /\ c \notin blobRows'
    BY <1>2, <1>9, <1>10 DEF BlobInv, PendingIsPrivate
  <2> QED
    BY <1>2, <1>6, <2>1 DEF BlobInv, PendingIsPrivate
<1>14. ClaimedIsGone'
  BY <1>2, <1>7, <1>9, <1>10 DEF BlobInv, ClaimedIsGone
<1>15. StoredAttachmentsKept'
  <2>1. \A c : Unnamed(c) /\ c # b => Unnamed(c)'
    BY <1>2, <1>3 DEF Unnamed
  <2>2. ASSUME NEW p \in Parsers, parser[p].pc = "extracting"
        PROVE  \A c \in parser[p].stored \cup parser[p].put : c # b
    BY <1>1, <1>8, <2>2 DEF BlobInv, StoredAttachmentsKept, PendingIsPrivate, b
  <2>3. \A p \in Parsers : parser[p].stored \subseteq Blobs
    BY DEF TypeInv, TypeOK, ParseTypeOK, ParserState
  <2> QED
    BY <1>2, <1>9, <2>1, <2>2, <2>3 DEF BlobInv, StoredAttachmentsKept
<1> QED
  BY <1>11, <1>12, <1>13, <1>14, <1>15 DEF BlobInv

(***************************************************************************)
(* ClaimOrphanBlob deletes the row of a blob nothing references.           *)
(***************************************************************************)
LEMMA ClaimSafe ==
  ASSUME TypeInv, TypeInv', BlobInv, NEW w \in Workers, NEW b \in Blobs,
         ClaimOrphanBlob(w, b), UNCHANGED OthersOfLifecycle
  PROVE  BlobInv'
<1>1. /\ UNCHANGED <<dataKey, deliveries, attachments, refcount, bytes, minted,
                     session, parser>>
      /\ blobRows' = blobRows \ {b}
      /\ job' = [job EXCEPT ![w].claimed = b]
      /\ b \in blobRows /\ refcount[b] = 0 /\ References(b) = {}
  BY DEF ClaimOrphanBlob, Claimable, OrphanedBlobs, identityVars,
         OthersOfLifecycle, parseVars
<1>2. job \in [Workers -> JobState]
  BY DEF TypeInv, TypeOK, LifecycleTypeOK
<1>3. /\ job'[w].claimed = b /\ job'[w].refs = job[w].refs
      /\ \A v \in Workers : v # w => job'[v] = job[v]
  BY <1>1, <1>2 DEF JobState
<1>4. \A c : Pending(c)' <=> Pending(c)
  BY <1>1 DEF Pending
<1>5. ReadableMail'
  BY <1>1 DEF BlobInv, ReadableMail, References
<1>6. RowsHaveBytes' /\ ReferencesMinted'
  BY <1>1, <1>3 DEF BlobInv, RowsHaveBytes, ReferencesMinted
<1>7. PendingIsPrivate'
  <2>1. \A c \in Blobs : Pending(c)' => c \in bytes' /\ c \notin blobRows'
    BY <1>1, <1>4 DEF BlobInv, PendingIsPrivate
  <2> QED
    BY <1>1, <2>1 DEF BlobInv, PendingIsPrivate
<1>8. ClaimedIsGone'
  <2>1. b \in minted /\ ~Pending(b)
    BY <1>1 DEF BlobInv, RowsHaveBytes, PendingIsPrivate
  <2> QED
    BY <1>1, <1>3, <1>4, <2>1 DEF BlobInv, ClaimedIsGone
<1>9. StoredAttachmentsKept'
  <2>1. \A c : Unnamed(c)' <=> Unnamed(c)
    BY <1>1, <1>3 DEF Unnamed
  <2>2. \A p \in Parsers : parser[p].pc = "extracting" => b \notin parser[p].stored
    BY <1>1 DEF BlobInv, StoredAttachmentsKept
  <2> QED
    BY <1>1, <2>1, <2>2 DEF BlobInv, StoredAttachmentsKept
<1> QED
  BY <1>5, <1>6, <1>7, <1>8, <1>9 DEF BlobInv

(***************************************************************************)
(* The bytes that FS.Delete removes have no row.                           *)
(***************************************************************************)
LEMMA DeleteBytesSafe ==
  ASSUME TypeInv, TypeInv', BlobInv, NEW w \in Workers, DeleteBytes(w),
         UNCHANGED OthersOfLifecycle
  PROVE  BlobInv'
<1> DEFINE b == job[w].claimed
<1>1. /\ UNCHANGED <<dataKey, deliveries, attachments, blobRows, refcount, minted,
                     session, parser>>
      /\ b # NoBlob /\ bytes' = bytes \ {b}
      /\ job' = [job EXCEPT ![w] = ThenCollect(@.todo, @.gone \ {@.claimed})]
  BY DEF DeleteBytes, identityVars, OthersOfLifecycle, parseVars
<1>2. job \in [Workers -> JobState]
  BY DEF TypeInv, TypeOK, LifecycleTypeOK
<1>3. /\ job'[w].claimed = NoBlob /\ job'[w].refs = {}
      /\ \A v \in Workers : v # w => job'[v] = job[v]
  BY <1>1, <1>2 DEF ThenCollect, NextCandidate, NoJob
<1>4. b \notin blobRows /\ ~Pending(b)
  BY <1>1 DEF BlobInv, ClaimedIsGone
<1> HIDE DEF b
<1>5. \A c : Pending(c)' <=> Pending(c)
  BY <1>1 DEF Pending
<1>6. ReadableMail'
  BY <1>1, <1>4 DEF BlobInv, ReadableMail
<1>7. RowsHaveBytes' /\ ReferencesMinted'
  BY <1>1, <1>3, <1>4 DEF BlobInv, RowsHaveBytes, ReferencesMinted, BlobsIn
<1>8. PendingIsPrivate'
  <2>1. \A c \in Blobs : Pending(c)' => c \in bytes' /\ c \notin blobRows'
    BY <1>1, <1>4, <1>5 DEF BlobInv, PendingIsPrivate
  <2> QED
    BY <1>1, <2>1 DEF BlobInv, PendingIsPrivate
<1>9. ClaimedIsGone'
  BY <1>1, <1>3, <1>5 DEF BlobInv, ClaimedIsGone
<1>10. StoredAttachmentsKept'
  <2>1. \A c : Unnamed(c) => Unnamed(c)'
    BY <1>1, <1>3 DEF Unnamed
  <2> QED
    BY <1>1, <2>1 DEF BlobInv, StoredAttachmentsKept
<1> QED
  BY <1>6, <1>7, <1>8, <1>9, <1>10 DEF BlobInv

-----------------------------------------------------------------------------
(* The locks and the keys.                                                 *)

(***************************************************************************)
(* Steps that change no lock, no reservation, no state and no key.         *)
(***************************************************************************)
LEMMA ServiceStutter ==
  ServiceInv /\ UNCHANGED <<session, lock, state, dataKey>> => ServiceInv'
  BY DEF ServiceInv, LocksHeld, KeysKept, AcceptsMail, Provisionable

(***************************************************************************)
(* A session locks a row before it reserves a number of it, and lets go of *)
(* everything at once.                                                     *)
(***************************************************************************)
LEMMA IngestKeepsLocks ==
  ASSUME TypeInv, TypeInv', ServiceInv, NEW s \in Sessions, IngestStep(s)
  PROVE  ServiceInv'
<1>1. /\ session \in [Sessions -> SessionState]
      /\ lock \in [Identities -> Sessions \cup {NoOne}]
      /\ state' = state /\ dataKey' = dataKey
  BY DEF TypeInv, TypeOK, IngestTypeOK, RowsTypeOK, IngestStep, Rcpt, Reset,
         StoreBody, LockRecipient, Refuse, DeadlockAbort, CommitFails, Rollback,
         rowVars, identityVars
<1>2. KeysKept'
  BY <1>1 DEF ServiceInv, KeysKept
<1>3. ASSUME Rollback(s) PROVE LocksHeld'
  <2>1. /\ session'[s] = IdleSession
        /\ \A t \in Sessions : t # s => session'[t] = session[t]
    BY <1>1, <1>3 DEF Rollback
  <2>2. \A i \in Identities : lock[i] # s => lock'[i] = lock[i]
    BY <1>1, <1>3 DEF Rollback
  <2>3. \A t \in Sessions : \A n \in DOMAIN session[t].seqs :
          session[t].rcpts[n] \in Identities
    BY <1>1 DEF SessionState, ServiceInv, LocksHeld
  <2>4. \A i : /\ AcceptsMail(i)' <=> AcceptsMail(i)
               /\ Provisionable(i)' <=> Provisionable(i)
    BY <1>1 DEF AcceptsMail, Provisionable
  <2>5. ASSUME NEW t \in Sessions, t # s, NEW n \in DOMAIN session[t].seqs
        PROVE  /\ lock'[session[t].rcpts[n]] = t
               /\ \/ AcceptsMail(session[t].rcpts[n])
                  \/ Provisionable(session[t].rcpts[n])
    <3> DEFINE i == session[t].rcpts[n]
    <3>1. /\ lock[i] = t /\ i \in Identities
          /\ AcceptsMail(i) \/ Provisionable(i)
      BY <2>3, <2>5 DEF ServiceInv, LocksHeld
    <3> HIDE DEF i
    <3>2. lock'[i] = t
      BY <2>2, <2>5, <3>1
    <3> QED
      BY <3>1, <3>2 DEF i
  <2>6. /\ DOMAIN session'[s].seqs = {} /\ session'[s].seqs = << >>
        /\ Len(session'[s].seqs) <= Len(session'[s].rcpts)
    BY <2>1 DEF IdleSession
  <2> QED
    BY <2>1, <2>4, <2>5, <2>6 DEF ServiceInv, LocksHeld
<1>4. ASSUME NEW i \in Identities, Rcpt(s, i) PROVE LocksHeld'
  <2>1. /\ session[s].seqs = << >> /\ session[s].pc = "idle"
    BY <1>4 DEF Rcpt, ServiceInv, LocksHeld
  <2>2. /\ session'[s].seqs = << >>
        /\ Len(session'[s].rcpts) \in Nat
        /\ \A t \in Sessions : t # s => session'[t] = session[t]
        /\ lock' = lock
    BY <1>1, <1>4, <2>1 DEF Rcpt, SessionState, rowVars
  <2> QED
    BY <1>1, <2>2 DEF ServiceInv, LocksHeld, AcceptsMail, Provisionable
<1>5. CASE Reset(s)
  <2>1. /\ session'[s] = IdleSession /\ lock' = lock
        /\ \A t \in Sessions : t # s => session'[t] = session[t]
    BY <1>1, <1>5 DEF Reset, rowVars
  <2>2. /\ session'[s].seqs = << >>
        /\ Len(session'[s].seqs) <= Len(session'[s].rcpts)
    BY <2>1 DEF IdleSession
  <2> QED
    BY <1>1, <1>2, <2>1, <2>2 DEF ServiceInv, LocksHeld, AcceptsMail, Provisionable
<1>6. CASE StoreBody(s)
  <2>1. /\ session'[s].seqs = session[s].seqs
        /\ session'[s].rcpts = session[s].rcpts /\ session'[s].pc = "commit"
        /\ \A t \in Sessions : t # s => session'[t] = session[t]
        /\ lock' = lock
    BY <1>1, <1>6 DEF StoreBody, SessionState
  <2> QED
    BY <1>1, <1>2, <2>1 DEF ServiceInv, LocksHeld, AcceptsMail, Provisionable
<1>7. CASE LockRecipient(s)
  <2> DEFINE i == NextRecipient(s)
             n == Len(session[s].seqs) + 1
  <2>1. /\ i \in Identities /\ i = session[s].rcpts[n]
        /\ n \in Nat /\ n <= Len(session[s].rcpts)
        /\ session[s].pc = "commit"
    BY <1>1, <1>7 DEF LockRecipient, InLoop, NextRecipient, SessionState
  <2>2. /\ lock[i] = NoOne /\ lock' = [lock EXCEPT ![i] = s]
        /\ AcceptsMail(i) \/ Provisionable(i)
        /\ session' = [session EXCEPT ![s].seqs = Append(@, deliverySeq[i] + 1)]
    BY <1>7 DEF LockRecipient, Unlocked, CanReceive
  <2> HIDE DEF i
  <2>3. /\ session'[s].seqs = Append(session[s].seqs, deliverySeq[i] + 1)
        /\ session'[s].rcpts = session[s].rcpts /\ session'[s].pc = "commit"
        /\ \A t \in Sessions : t # s => session'[t] = session[t]
    BY <1>1, <2>1, <2>2 DEF SessionState
  <2>4. DOMAIN session'[s].seqs = DOMAIN session[s].seqs \cup {n}
    <3>1. session[s].seqs \in Seq(Nat \ {0})
      BY <1>1 DEF SessionState
    <3> QED
      BY <2>3, <3>1
  <2>5. Len(session'[s].seqs) <= Len(session'[s].rcpts)
    <3>1. session[s].seqs \in Seq(Nat \ {0})
      BY <1>1 DEF SessionState
    <3> QED
      BY <2>1, <2>3, <3>1
  <2>6. \A j \in Identities : lock[j] # NoOne => lock'[j] = lock[j]
    BY <1>1, <2>2
  <2>7. \A t \in Sessions : \A m \in DOMAIN session[t].seqs :
          session[t].rcpts[m] \in Identities
    BY <1>1 DEF SessionState, ServiceInv, LocksHeld
  <2>8. \A t \in Sessions : \A m \in DOMAIN session[t].seqs :
          /\ lock'[session[t].rcpts[m]] = t
          /\ AcceptsMail(session[t].rcpts[m]) \/ Provisionable(session[t].rcpts[m])
    BY <2>6, <2>7, NoOneAssumption DEF ServiceInv, LocksHeld
  <2>9. lock'[i] = s
    BY <1>1, <2>1, <2>2
  <2>10. \A j : /\ AcceptsMail(j)' <=> AcceptsMail(j)
                /\ Provisionable(j)' <=> Provisionable(j)
    BY <1>1 DEF AcceptsMail, Provisionable
  <2>11. ASSUME NEW t \in Sessions
         PROVE  \A m \in DOMAIN session'[t].seqs :
                  /\ lock'[session'[t].rcpts[m]] = t
                  /\ \/ AcceptsMail(session'[t].rcpts[m])
                     \/ Provisionable(session'[t].rcpts[m])
    BY <2>1, <2>2, <2>3, <2>4, <2>8, <2>9
  <2>12. \A t \in Sessions : session'[t].pc = "idle" => session'[t].seqs = << >>
    BY <2>3 DEF ServiceInv, LocksHeld
  <2>13. \A t \in Sessions : Len(session'[t].seqs) <= Len(session'[t].rcpts)
    BY <2>3, <2>5 DEF ServiceInv, LocksHeld
  <2> QED
    BY <1>2, <2>10, <2>11, <2>12, <2>13 DEF ServiceInv, LocksHeld
<1> QED
  BY <1>2, <1>3, <1>4, <1>5, <1>6, <1>7
     DEF ServiceInv, IngestStep, Refuse, DeadlockAbort, CommitFails

(***************************************************************************)
(* Other steps change the state of an unlocked row only, or of one that    *)
(* the committing session holds itself.                                    *)
(***************************************************************************)
LEMMA LockedRowsKeepState ==
  ASSUME TypeInv, ServiceInv, NEW s \in Sessions,
         \A t \in Sessions : t # s => session'[t] = session[t],
         /\ session'[s].seqs = << >>
         /\ Len(session'[s].seqs) <= Len(session'[s].rcpts)
         /\ DOMAIN session'[s].seqs = {},
         \A i \in Identities :
           lock[i] \notin {s, NoOne} /\ (AcceptsMail(i) \/ Provisionable(i)) =>
             /\ lock'[i] = lock[i]
             /\ AcceptsMail(i)' \/ Provisionable(i)'
  PROVE  LocksHeld'
<1>1. ASSUME NEW t \in Sessions, t # s, NEW n \in DOMAIN session[t].seqs
      PROVE  /\ lock'[session[t].rcpts[n]] = t
             /\ \/ AcceptsMail(session[t].rcpts[n])'
                \/ Provisionable(session[t].rcpts[n])'
  <2> DEFINE i == session[t].rcpts[n]
  <2>1. session[t].rcpts[n] \in Identities
    BY <1>1 DEF TypeInv, TypeOK, IngestTypeOK, SessionState, ServiceInv, LocksHeld
  <2>2. /\ lock[i] = t /\ t # NoOne
        /\ AcceptsMail(i) \/ Provisionable(i)
    BY <1>1, NoOneAssumption DEF ServiceInv, LocksHeld
  <2>3. PICK j \in Identities : j = i
    BY <2>1
  <2>4. lock'[j] = t /\ (AcceptsMail(j)' \/ Provisionable(j)')
    BY <1>1, <2>2, <2>3
  <2>5. session'[t] = session[t]
    BY <1>1
  <2> QED
    BY <2>3, <2>4, <2>5 DEF AcceptsMail, Provisionable
<1> QED
  BY <1>1 DEF ServiceInv, LocksHeld, AcceptsMail, Provisionable

(***************************************************************************)
(* Committing and creating: a created identity is active and has its key.  *)
(***************************************************************************)
LEMMA CommitKeepsLocks ==
  ASSUME TypeInv, TypeInv', ServiceInv, NEW s \in Sessions, Commit(s)
  PROVE  ServiceInv'
<1> DEFINE R == Recipients(s)
           created == {i \in R : state[i] = "absent"}
<1>1. /\ session \in [Sessions -> SessionState]
      /\ lock \in [Identities -> Sessions \cup {NoOne}]
      /\ state \in [Identities -> IdentityState]
      /\ dataKey \in [Identities -> BOOLEAN]
  BY DEF TypeInv, TypeOK, IngestTypeOK, RowsTypeOK
<1>2. /\ Len(session[s].seqs) = Len(session[s].rcpts)
      /\ state'   = [i \in Identities |-> IF i \in created THEN "active" ELSE state[i]]
      /\ dataKey' = [i \in Identities |-> i \in created \/ dataKey[i]]
      /\ lock'    = [i \in Identities |-> IF lock[i] = s THEN NoOne ELSE lock[i]]
      /\ session' = [session EXCEPT ![s] = IdleSession]
  BY Zenon DEF Commit
<1>3. \A i \in R : lock[i] = s
  <2> SUFFICES ASSUME NEW n \in DOMAIN session[s].rcpts
               PROVE  lock[session[s].rcpts[n]] = s
    BY DEF Recipients
  <2>1. n \in DOMAIN session[s].seqs
    BY <1>1, <1>2 DEF SessionState
  <2> QED
    BY <2>1 DEF ServiceInv, LocksHeld
<1> HIDE DEF R
<1>4. LocksHeld'
  <2>1. /\ session'[s].seqs = << >> /\ DOMAIN session'[s].seqs = {}
        /\ Len(session'[s].seqs) <= Len(session'[s].rcpts)
        /\ \A t \in Sessions : t # s => session'[t] = session[t]
    BY <1>1, <1>2 DEF IdleSession
  <2>2. \A i \in Identities : lock[i] # s => lock'[i] = lock[i] /\ state'[i] = state[i]
    BY <1>1, <1>2, <1>3
  <2>3. \A i \in Identities :
          lock[i] \notin {s, NoOne} /\ (AcceptsMail(i) \/ Provisionable(i)) =>
            /\ lock'[i] = lock[i]
            /\ AcceptsMail(i)' \/ Provisionable(i)'
    BY <2>2 DEF AcceptsMail, Provisionable
  <2> QED
    BY <2>1, <2>3, LockedRowsKeepState
<1>5. KeysKept'
  <2>1. \A i \in Identities : state'[i] = "reserved" => i \notin created
    BY <1>1, <1>2
  <2> HIDE DEF created
  <2> QED
    BY <1>1, <1>2, <2>1 DEF ServiceInv, KeysKept
<1> QED
  BY <1>4, <1>5 DEF ServiceInv

(***************************************************************************)
(* A step that leaves the sessions and the locks alone keeps the locks     *)
(* when it leaves the state of locked rows alone.                          *)
(***************************************************************************)
LEMMA UnlockedRowsChange ==
  ASSUME TypeInv, ServiceInv, UNCHANGED <<session, lock>>,
         \A i \in Identities :
           lock[i] # NoOne /\ (AcceptsMail(i) \/ Provisionable(i)) =>
             state'[i] = state[i]
  PROVE  LocksHeld'
<1>1. ASSUME NEW t \in Sessions, NEW n \in DOMAIN session[t].seqs
      PROVE  state'[session[t].rcpts[n]] = state[session[t].rcpts[n]]
  <2>1. session[t].rcpts[n] \in Identities
    BY DEF TypeInv, TypeOK, IngestTypeOK, SessionState, ServiceInv, LocksHeld
  <2>2. /\ lock[session[t].rcpts[n]] # NoOne
        /\ AcceptsMail(session[t].rcpts[n]) \/ Provisionable(session[t].rcpts[n])
    BY NoOneAssumption DEF ServiceInv, LocksHeld
  <2> QED
    BY <2>1, <2>2
<1> QED
  BY <1>1 DEF ServiceInv, LocksHeld, AcceptsMail, Provisionable

(***************************************************************************)
(* The API creates identities with a key and changes unlocked rows only.   *)
(***************************************************************************)
LEMMA AccountsKeepLocks ==
  ASSUME TypeInv, TypeInv', ServiceInv, AccountsStep, UNCHANGED session
  PROVE  ServiceInv'
<1>1. /\ state \in [Identities -> IdentityState]
      /\ dataKey \in [Identities -> BOOLEAN]
  BY DEF TypeInv, TypeOK, RowsTypeOK
<1>2. ASSUME NEW i \in Identities, CreateIdentity(i) PROVE ServiceInv'
  <2>1. LocksHeld'
    BY <1>1, <1>2, UnlockedRowsChange DEF CreateIdentity, Unlocked
  <2>2. KeysKept'
    BY <1>1, <1>2 DEF CreateIdentity, ServiceInv, KeysKept
  <2> QED
    BY <2>1, <2>2 DEF ServiceInv
<1>3. ASSUME NEW i \in Identities, DestroyIdentity(i) PROVE ServiceInv'
  <2>1. LocksHeld'
    BY <1>1, <1>3, UnlockedRowsChange DEF DestroyIdentity, Unlocked
  <2>2. KeysKept'
    BY <1>1, <1>3 DEF DestroyIdentity, AcceptsMail, ServiceInv, KeysKept
  <2> QED
    BY <2>1, <2>2 DEF ServiceInv
<1>4. ASSUME NEW i \in Identities, RecordDestroyed(i) \/ LoseDestroyed(i)
      PROVE  ServiceInv'
  BY <1>4, ServiceStutter DEF RecordDestroyed, LoseDestroyed, identityVars
<1> QED
  BY <1>2, <1>3, <1>4 DEF AccountsStep, AllocateRandom, OpenNamed

(***************************************************************************)
(* Lifecycle jobs leave locked rows alone and destroy a key only with the  *)
(* transition to reserved.                                                 *)
(***************************************************************************)
LEMMA LifecycleKeepsLocks ==
  ASSUME TypeInv, TypeInv', ServiceInv, LifecycleStep, UNCHANGED session
  PROVE  ServiceInv'
<1>1. /\ state \in [Identities -> IdentityState]
      /\ dataKey \in [Identities -> BOOLEAN]
  BY DEF TypeInv, TypeOK, RowsTypeOK
<1>2. CASE Notice
  <2> DEFINE S == MarkExpiringIdentities
  <2>1. /\ state' = [i \in Identities |-> IF i \in S THEN "expiring" ELSE state[i]]
        /\ lock' = lock /\ dataKey' = dataKey
    BY <1>2 DEF Notice, MoveState
  <2>2. \A i \in S : Unlocked(i) /\ state[i] = "active"
    BY DEF MarkExpiringIdentities
  <2> HIDE DEF S
  <2>3. LocksHeld'
    BY <2>1, <2>2, UnlockedRowsChange DEF Unlocked
  <2> QED
    BY <1>1, <2>1, <2>2, <2>3 DEF ServiceInv, KeysKept
<1>3. CASE Expire
  <2> DEFINE S == ExpireDueIdentities
  <2>1. /\ state' = [i \in Identities |-> IF i \in S THEN "expired" ELSE state[i]]
        /\ lock' = lock /\ dataKey' = dataKey
    BY <1>3 DEF Expire, MoveState
  <2>2. \A i \in S : Unlocked(i) /\ state[i] \in {"active", "expiring"}
    BY DEF ExpireDueIdentities, AcceptsMail
  <2> HIDE DEF S
  <2>3. LocksHeld'
    BY <2>1, <2>2, UnlockedRowsChange DEF Unlocked
  <2> QED
    BY <1>1, <2>1, <2>2, <2>3 DEF ServiceInv, KeysKept
<1>4. ASSUME NEW w \in Workers, PurgeApply(w)
      PROVE  ServiceInv'
  <2> DEFINE moved == {i \in job[w].target : state[i] = "expired"}
  <2>1. /\ state' = [i \in Identities |-> IF i \in moved THEN "reserved" ELSE state[i]]
        /\ dataKey' = [i \in Identities |-> dataKey[i] /\ i \notin moved]
        /\ lock' = lock
    BY <1>4 DEF PurgeApply
  <2>2. \A i \in moved : state[i] = "expired"
    OBVIOUS
  <2> HIDE DEF moved
  <2>3. LocksHeld'
    BY <2>1, <2>2, UnlockedRowsChange DEF AcceptsMail, Provisionable
  <2> QED
    BY <1>1, <2>1, <2>2, <2>3 DEF ServiceInv, KeysKept
<1>5. ASSUME \/ \E i \in Random : Tick(i)
             \/ \E d \in deliveries : Age(d)
             \/ \E w \in Workers :
                  \/ PurgeList(w) \/ (\E i \in Random : PurgeRead(w, i))
                  \/ PurgeConflict(w) \/ SweepJob(w) \/ CollectJob(w) \/ JobDies(w)
      PROVE  ServiceInv'
  <2>1. UNCHANGED <<lock, state, dataKey>>
    <3>1. CASE (\E i \in Random : Tick(i)) \/ (\E d \in deliveries : Age(d))
      BY <3>1 DEF Tick, Age, rowVars, identityVars
    <3>2. ASSUME NEW w \in Workers,
                 PurgeList(w) \/ (\E i \in Random : PurgeRead(w, i)) \/ PurgeConflict(w)
          PROVE  UNCHANGED <<lock, state, dataKey>>
      BY <3>2 DEF PurgeList, PurgeRead, PurgeConflict, rowVars, identityVars
    <3>3. ASSUME NEW w \in Workers, SweepJob(w)
          PROVE  UNCHANGED <<lock, state, dataKey>>
      BY <3>3 DEF SweepJob, SweepList, SweepRead, SweepApply, rowVars, identityVars
    <3>4. ASSUME NEW w \in Workers, CollectJob(w) \/ JobDies(w)
          PROVE  UNCHANGED <<lock, state, dataKey>>
      BY <3>4 DEF CollectJob, CollectList, ClaimOrphanBlob, Skip, DeleteBytes,
                  JobDies, rowVars, identityVars
    <3> QED
      BY <1>5, <3>1, <3>2, <3>3, <3>4
  <2> QED
    BY <2>1, ServiceStutter
<1> QED
  BY <1>2, <1>3, <1>4, <1>5 DEF LifecycleStep, PurgeJob

(***************************************************************************)
(* Parsing touches no identity row.                                        *)
(***************************************************************************)
LEMMA ParseKeepsLocks ==
  ASSUME TypeInv, ServiceInv, NEW p \in Parsers, ParseStep(p), UNCHANGED session
  PROVE  ServiceInv'
<1>1. UNCHANGED <<lock, state, dataKey>>
  BY DEF ParseStep, ParseProgress, Load, NothingToParse, LoadFails, LookupFails, Locate, GiveUp,
         ReadBytes, BytesMissing, PutAttachment, AcquireAttachment, Unparseable,
         StoreAttachmentFails, StoreResults, DeliveryGone, JobDone, ParserDies,
         rowVars, identityVars
<1> QED
  BY <1>1, ServiceStutter

-----------------------------------------------------------------------------
(* The quiet steps of each process.                                        *)

(***************************************************************************)
(* Releasing references leaves the count of a blob alone that none of them *)
(* names.                                                                  *)
(***************************************************************************)
LEMMA ReleaseOthers ==
  ASSUME TypeInv, NEW w \in Workers, NEW refs, refs \subseteq job[w].refs,
         refcount' = Released(refs)
  PROVE  \A b \in Blobs : Unnamed(b) /\ refcount[b] > 0 => refcount'[b] > 0
<1> SUFFICES ASSUME NEW b \in Blobs, Unnamed(b), refcount[b] > 0
             PROVE  refcount'[b] > 0
  OBVIOUS
<1>1. {r \in refs : r.blob = b} = {}
  BY DEF Unnamed
<1>2. Cardinality({r \in refs : r.blob = b}) = 0
  BY <1>1, FS_EmptySet
<1> QED
  BY <1>2 DEF Released, TypeInv, TypeOK, RowsTypeOK

(***************************************************************************)
(* Between StoreBody and Commit a session keeps its message or gives it up.*)
(***************************************************************************)
LEMMA SessionsBetween ==
  ASSUME TypeOK, NEW s \in Sessions, IngestStep(s), ~StoreBody(s)
  PROVE  QuietSessions
<1>1. session \in [Sessions -> SessionState]
  BY DEF TypeOK, IngestTypeOK
<1>2. ASSUME NEW i \in Identities, Rcpt(s, i) PROVE QuietSessions
  BY <1>1, <1>2 DEF Rcpt, QuietSessions, SessionState
<1>3. CASE LockRecipient(s)
  BY <1>1, <1>3 DEF LockRecipient, QuietSessions, SessionState
<1>4. CASE Reset(s) \/ Refuse(s) \/ DeadlockAbort(s) \/ CommitFails(s)
  BY <1>1, <1>4 DEF Reset, Refuse, DeadlockAbort, CommitFails, Rollback,
                    QuietSessions, IdleSession
<1> QED
  BY <1>2, <1>3, <1>4 DEF IngestStep

(***************************************************************************)
(* Only StoreBody and Commit hand blobs on.                                *)
(***************************************************************************)
LEMMA IngestSafe ==
  ASSUME TypeInv, TypeInv', BlobInv, NEW s \in Sessions, IngestStep(s),
         UNCHANGED OthersOfIngest
  PROVE  BlobInv'
<1>1. CASE StoreBody(s)
  BY <1>1, StoreBodySafe
<1>2. CASE ~StoreBody(s)
  <2>1. /\ UNCHANGED <<dataKey, deliveries, attachments, blobVars>>
        /\ UNCHANGED job /\ UNCHANGED parser
    BY <1>2 DEF IngestStep, Rcpt, Reset, LockRecipient, Refuse, DeadlockAbort,
                CommitFails, Rollback, rowVars, identityVars, blobVars,
                OthersOfIngest, lifecycleVars, parseVars
  <2>2. QuietSessions
    BY <1>2, SessionsBetween DEF TypeInv
  <2> QED
    BY <2>1, <2>2, StandingStill, QuietStep DEF TypeInv
<1> QED
  BY <1>1, <1>2

(***************************************************************************)
(* The API never touches a blob, and takes no key away.                    *)
(***************************************************************************)
LEMMA AccountsSafe ==
  ASSUME TypeInv, TypeInv', BlobInv, AccountsStep, UNCHANGED OthersOfAccounts
  PROVE  BlobInv'
<1>1. /\ UNCHANGED <<deliveries, attachments, blobVars>>
      /\ UNCHANGED session /\ UNCHANGED job /\ UNCHANGED parser
  BY DEF AccountsStep, AllocateRandom, OpenNamed, CreateIdentity, DestroyIdentity,
         RecordDestroyed, LoseDestroyed, OthersOfAccounts, lifecycleVars, parseVars,
         blobVars, identityVars
<1>2. \A i \in Identities : dataKey[i] => dataKey'[i]
  BY DEF AccountsStep, AllocateRandom, OpenNamed, CreateIdentity, DestroyIdentity,
         RecordDestroyed, LoseDestroyed, identityVars, TypeInv, TypeOK, RowsTypeOK
<1>3. \A d \in deliveries : d.identity \in Identities
  BY DEF TypeInv, TypeOK, RowsTypeOK, Delivery
<1>4. QuietRows
  BY <1>1, <1>2, <1>3 DEF QuietRows, blobVars
<1> QED
  BY <1>1, <1>4, StandingStill, QuietStep DEF TypeInv

(***************************************************************************)
(* Purging and sweeping only remove rows, release references they read     *)
(* and leave the keys of the mail that stays.                              *)
(***************************************************************************)
LEMMA LifecycleSafe ==
  ASSUME TypeInv, TypeInv', BlobInv, LifecycleStep, UNCHANGED OthersOfLifecycle
  PROVE  BlobInv'
<1>1. /\ UNCHANGED session /\ UNCHANGED parser
      /\ job \in [Workers -> JobState]
  BY DEF OthersOfLifecycle, parseVars, TypeInv, TypeOK, LifecycleTypeOK
<1>2. QuietSessions /\ QuietParsers
  BY <1>1, StandingStill DEF TypeInv
<1>3. UNCHANGED <<dataKey, deliveries, attachments, blobVars>> => QuietRows
  BY StandingStill DEF TypeInv
<1>4. UNCHANGED job => QuietJobs
  BY StandingStill DEF TypeInv
<1>5. ASSUME QuietRows, QuietJobs PROVE BlobInv'
  BY <1>2, <1>5, QuietStep
<1>6. ASSUME NEW i \in Random, Tick(i) PROVE BlobInv'
  BY <1>3, <1>4, <1>5, <1>6 DEF Tick, rowVars, identityVars
<1>7. ASSUME NEW d \in deliveries, Age(d) PROVE BlobInv'
  <2>1. [d EXCEPT !.old = TRUE].identity = d.identity /\ [d EXCEPT !.old = TRUE].blob = d.blob
    BY DEF TypeInv, TypeOK, RowsTypeOK, Delivery
  <2>2. QuietRows
    BY <1>7, <2>1 DEF Age, QuietRows, identityVars, blobVars
  <2> QED
    BY <1>4, <1>5, <1>7, <2>2 DEF Age, lifecycleVars
<1>8. CASE Notice \/ Expire
  BY <1>3, <1>4, <1>5, <1>8 DEF Notice, Expire, MoveState, lifecycleVars
<1>9. ASSUME NEW w \in Workers, NEW j,
             job' = [job EXCEPT ![w] = j], j.claimed \in {NoBlob, job[w].claimed},
             j.refs \subseteq job[w].refs \cup deliveries \cup attachments
      PROVE  QuietJobs
  BY <1>1, <1>9 DEF QuietJobs
<1>10. \A todo, blobs : /\ ThenCollect(todo, blobs).claimed = NoBlob
                        /\ ThenCollect(todo, blobs).refs = {}
                        /\ NextCandidate(todo).claimed = NoBlob
                        /\ NextCandidate(todo).refs = {}
                        /\ NoJob.claimed = NoBlob /\ NoJob.refs = {}
  BY DEF ThenCollect, NextCandidate, NoJob
<1>11. ASSUME NEW w \in Workers,
              PurgeList(w) \/ PurgeConflict(w) \/ CollectList(w) \/ JobDies(w)
                \/ (\E b \in Blobs : Skip(w, b))
       PROVE  BlobInv'
  <2>1. UNCHANGED <<dataKey, deliveries, attachments, blobVars>>
    BY <1>11 DEF PurgeList, PurgeConflict, CollectList, JobDies, Skip, rowVars,
                 identityVars
  <2> DEFINE Replaced == \E j : /\ job' = [job EXCEPT ![w] = j]
                                /\ j.claimed = NoBlob /\ j.refs = {}
  <2>2. Replaced
    <3>1. CASE PurgeList(w)
      BY <1>10, <3>1 DEF PurgeList
    <3>2. CASE PurgeConflict(w)
      <4> DEFINE j == NextCandidate(job[w].todo)
      <4>1. job' = [job EXCEPT ![w] = j]
        BY <3>2 DEF PurgeConflict
      <4>2. j.claimed = NoBlob /\ j.refs = {}
        BY <1>10
      <4> HIDE DEF j
      <4> QED
        BY <4>1, <4>2
    <3>3. CASE CollectList(w)
      <4> DEFINE j == ThenCollect({}, OrphanedBlobs)
      <4>1. job' = [job EXCEPT ![w] = j]
        BY <3>3 DEF CollectList
      <4>2. j.claimed = NoBlob /\ j.refs = {}
        BY <1>10
      <4> HIDE DEF j
      <4> QED
        BY <4>1, <4>2
    <3>4. CASE JobDies(w)
      <4>1. job' = [job EXCEPT ![w] = NoJob]
        BY <3>4 DEF JobDies
      <4> QED
        BY <1>10, <4>1
    <3>5. ASSUME NEW b \in Blobs, Skip(w, b) PROVE Replaced
      <4> DEFINE j == ThenCollect(job[w].todo, job[w].gone \ {b})
      <4>1. job' = [job EXCEPT ![w] = j]
        BY <3>5 DEF Skip
      <4>2. j.claimed = NoBlob /\ j.refs = {}
        BY <1>10
      <4> HIDE DEF j
      <4> QED
        BY <4>1, <4>2
    <3> QED
      BY <1>11, <3>1, <3>2, <3>3, <3>4, <3>5
  <2> QED
    BY <1>3, <1>5, <1>9, <2>1, <2>2
<1>12. ASSUME NEW w \in Workers, NEW i \in Random, PurgeRead(w, i)
       PROVE  BlobInv'
  <2> DEFINE j == [job[w] EXCEPT !.pc = "purging", !.todo = @ \ {i},
                                 !.target = {i}, !.refs = IdentityReferences(i)]
  <2>1. job' = [job EXCEPT ![w] = j] /\ UNCHANGED rowVars
    BY <1>1, <1>12 DEF PurgeRead
  <2>2. /\ j.claimed = job[w].claimed
        /\ j.refs \subseteq deliveries \cup attachments
    BY <1>1 DEF IdentityReferences, JobState
  <2> HIDE DEF j
  <2> QED
    BY <1>3, <1>5, <1>9, <2>1, <2>2 DEF rowVars, identityVars
<1>13. ASSUME NEW w \in Workers, SweepList(w) \/ SweepRead(w)
       PROVE  BlobInv'
  <2>1. UNCHANGED <<dataKey, deliveries, attachments, blobVars>>
    BY <1>13 DEF SweepList, SweepRead, rowVars, identityVars
  <2>2. CASE SweepList(w)
    <3>1. /\ job'[w].claimed = job[w].claimed /\ job'[w].refs = job[w].refs
          /\ \A v \in Workers : v # w => job'[v] = job[v]
      BY <1>1, <2>2 DEF SweepList, JobState
    <3> QED
      BY <1>3, <1>5, <2>1, <3>1 DEF QuietJobs
  <2>3. CASE SweepRead(w)
    <3> DEFINE refs == ReferencesOf(Keys(job[w].list))
    <3>1. refs \subseteq deliveries \cup attachments
      BY DEF ReferencesOf
    <3>2. job' = [job EXCEPT ![w].pc = "sweeping", ![w].refs = refs]
      BY <2>3 DEF SweepRead
    <3> HIDE DEF refs
    <3>3. /\ job'[w].claimed = job[w].claimed /\ job'[w].refs = refs
          /\ \A v \in Workers : v # w => job'[v] = job[v]
      BY <1>1, <3>2 DEF JobState
    <3> QED
      BY <1>3, <1>5, <2>1, <3>1, <3>3 DEF QuietJobs
  <2> QED
    BY <1>13, <2>2, <2>3
<1>14. ASSUME NEW w \in Workers, PurgeApply(w)
       PROVE  BlobInv'
  <2> DEFINE T == job[w].target
             moved == {i \in T : state[i] = "expired"}
             blobs == IF moved = {} THEN {} ELSE BlobsIn(job[w].refs)
             gone == {Key(d) : d \in {e \in deliveries : e.identity \in T}}
  <2>1. /\ deliveries' = {d \in deliveries : Key(d) \notin gone}
        /\ attachments' = {a \in attachments : Key(a) \notin gone}
        /\ refcount' = Released(job[w].refs)
        /\ dataKey' = [i \in Identities |-> dataKey[i] /\ i \notin moved]
        /\ blobRows' = blobRows /\ bytes' = bytes /\ minted' = minted
        /\ job' = [job EXCEPT ![w] = ThenCollect(job[w].todo, blobs)]
    BY <1>14 DEF PurgeApply, DeleteDeliveries
  <2>2. \A d \in deliveries' : d \in deliveries /\ d.identity \notin moved
    BY <2>1
  <2>3. \A d \in deliveries : d.identity \in Identities
    BY DEF TypeInv, TypeOK, RowsTypeOK, Delivery
  <2> HIDE DEF moved, gone, blobs
  <2>4. \A d \in deliveries' : dataKey[d.identity] => dataKey'[d.identity]
    BY <2>1, <2>2, <2>3
  <2>5. \A b \in Blobs : Unnamed(b) /\ refcount[b] > 0 => refcount'[b] > 0
    BY <2>1, ReleaseOthers
  <2>6. QuietRows
    BY <2>1, <2>4, <2>5 DEF QuietRows
  <2>7. QuietJobs
    BY <1>9, <1>10, <2>1
  <2> QED
    BY <1>5, <2>6, <2>7
<1>15. ASSUME NEW w \in Workers, SweepApply(w)
       PROVE  BlobInv'
  <2> DEFINE removed == {d \in deliveries : Key(d) \in Keys(job[w].list)}
             refs == {r \in job[w].refs : Key(r) \in Keys(removed)}
  <2>1. /\ deliveries' = {d \in deliveries : Key(d) \notin Keys(removed)}
        /\ attachments' = {a \in attachments : Key(a) \notin Keys(removed)}
        /\ refcount' = Released(refs)
        /\ dataKey' = dataKey
        /\ blobRows' = blobRows /\ bytes' = bytes /\ minted' = minted
        /\ job' = [job EXCEPT ![w] = ThenCollect({}, BlobsIn(refs))]
    BY <1>15 DEF SweepApply, DeleteDeliveries
  <2>2. refs \subseteq job[w].refs
    OBVIOUS
  <2> HIDE DEF refs, removed
  <2>3. \A b \in Blobs : Unnamed(b) /\ refcount[b] > 0 => refcount'[b] > 0
    BY <2>1, <2>2, ReleaseOthers
  <2>4. QuietRows
    BY <2>1, <2>3 DEF QuietRows
  <2>5. QuietJobs
    BY <1>9, <1>10, <2>1
  <2> QED
    BY <1>5, <2>4, <2>5
<1>16. ASSUME NEW w \in Workers,
              (\E b \in Blobs : ClaimOrphanBlob(w, b)) \/ DeleteBytes(w)
       PROVE  BlobInv'
  BY <1>16, ClaimSafe, DeleteBytesSafe
<1> QED
  BY <1>6, <1>7, <1>8, <1>11, <1>12, <1>13, <1>14, <1>15, <1>16
     DEF LifecycleStep, PurgeJob, SweepJob, CollectJob

(***************************************************************************)
(* Giving a message up, or marking it failed, lets its attachments go.     *)
(***************************************************************************)
LEMMA ParseSafe ==
  ASSUME TypeInv, TypeInv', BlobInv, NEW p \in Parsers, ParseStep(p),
         UNCHANGED OthersOfParse
  PROVE  BlobInv'
<1>1. /\ UNCHANGED session /\ UNCHANGED job
      /\ parser \in [Parsers -> ParserState]
  BY DEF OthersOfParse, lifecycleVars, TypeInv, TypeOK, ParseTypeOK
<1>2. QuietSessions /\ QuietJobs
  BY <1>1, StandingStill DEF TypeInv
<1>3. UNCHANGED <<dataKey, deliveries, attachments, blobVars>> => QuietRows
  BY StandingStill DEF TypeInv
<1>4. UNCHANGED parser => QuietParsers
  BY StandingStill DEF TypeInv
<1>5. ASSUME QuietRows, QuietParsers PROVE BlobInv'
  BY <1>2, <1>5, QuietStep
<1>6. ASSUME Drop(p) \/ Retry(p) PROVE QuietParsers
  <2>1. parser'[p] = IdleParser /\ \A q \in Parsers : q # p => parser'[q] = parser[q]
    BY <1>1, <1>6 DEF Drop, Retry
  <2> QED
    BY <2>1 DEF IdleParser, QuietParsers, BlobInv, StoredAttachmentsKept
<1>7. ASSUME MarkFailed(p), UNCHANGED <<dataKey, attachments, blobVars>>
      PROVE  QuietRows
  <2>1. \A d \in Current(p) : /\ d \in deliveries
                              /\ [d EXCEPT !.status = "failed"].identity = d.identity
                              /\ [d EXCEPT !.status = "failed"].blob = d.blob
    BY DEF Current, DeliveryAt, TypeInv, TypeOK, RowsTypeOK, Delivery
  <2> QED
    BY <1>7, <2>1 DEF MarkFailed, QuietRows, blobVars
<1>8. CASE Load(p) \/ Locate(p) \/ ReadBytes(p)
  <2>1. UNCHANGED <<dataKey, deliveries, attachments, blobVars>>
    BY <1>8 DEF Load, Locate, ReadBytes, rowVars, identityVars
  <2>2. /\ parser[p].pc \in {"idle", "loaded", "located"}
        /\ parser'[p].pc \in {"loaded", "located", "extracting"}
        /\ parser'[p].put = parser[p].put /\ parser'[p].stored = parser[p].stored
        /\ \A q \in Parsers : q # p => parser'[q] = parser[q]
    <3>1. CASE Load(p)
      BY <1>1, <3>1 DEF Load, ParserState
    <3>2. CASE Locate(p) \/ ReadBytes(p)
      BY <1>1, <3>2 DEF Locate, ReadBytes, ParserState
    <3> QED
      BY <1>8, <3>1, <3>2
  <2>3. QuietParsers
    BY <2>2 DEF QuietParsers, BlobInv, StoredAttachmentsKept
  <2> QED
    BY <1>3, <1>5, <2>1, <2>3
<1>9. CASE NothingToParse(p) \/ LoadFails(p)
  BY <1>3, <1>4, <1>5, <1>9 DEF NothingToParse, LoadFails, rowVars, identityVars
<1>10. CASE GiveUp(p) \/ LookupFails(p) \/ BytesMissing(p) \/ DeliveryGone(p)
         \/ JobDone(p) \/ ParserDies(p)
  <2>1. UNCHANGED <<dataKey, deliveries, attachments, blobVars>>
    BY <1>10 DEF GiveUp, LookupFails, BytesMissing, DeliveryGone, JobDone, ParserDies, rowVars,
                 identityVars
  <2>2. Drop(p) \/ Retry(p)
    BY <1>10 DEF GiveUp, LookupFails, BytesMissing, DeliveryGone, JobDone, ParserDies
  <2> QED
    BY <1>3, <1>5, <1>6, <2>1, <2>2
<1>11. CASE Unparseable(p) \/ StoreAttachmentFails(p)
  BY <1>5, <1>6, <1>7, <1>11 DEF Unparseable, StoreAttachmentFails, identityVars
<1> QED
  BY <1>8, <1>9, <1>10, <1>11, PutAttachmentSafe, AcquireAttachmentSafe,
     StoreResultsSafe DEF ParseStep, ParseProgress

-----------------------------------------------------------------------------
(* The theorem.                                                            *)

(***************************************************************************)
(* The empty pipeline satisfies the inductive invariant.                   *)
(***************************************************************************)
LEMMA InitSafe == Init => IInv
<1> SUFFICES ASSUME Init PROVE IInv
  OBVIOUS
<1>1. TypeInv
  BY InitTyped
<1>2. ServiceInv
  BY DEF Init, RowsInit, IngestInit, IdleSession, ServiceInv, LocksHeld, KeysKept
<1>3. BlobInv
  BY DEF Init, RowsInit, IngestInit, LifecycleInit, ParseInit, IdleSession, NoJob,
         IdleParser, BlobInv, ReadableMail, RowsHaveBytes, PendingIsPrivate, Pending,
         ClaimedIsGone, StoredAttachmentsKept, Unnamed, ReferencesMinted, BlobsIn
<1> QED
  BY <1>1, <1>2, <1>3 DEF IInv, TypeInv, ServiceInv, BlobInv

(***************************************************************************)
(* Every step of every process preserves the inductive invariant.          *)
(***************************************************************************)
LEMMA StepSafe == IInv /\ [Next]_vars => IInv'
<1> SUFFICES ASSUME IInv, [Next]_vars PROVE IInv'
  OBVIOUS
<1>1. TypeInv /\ ServiceInv /\ BlobInv
  BY DEF IInv, TypeInv, ServiceInv, BlobInv
<1>2. TypeInv'
  BY <1>1, StepTyped
<1> DEFINE Safe == ServiceInv /\ BlobInv
<1>3. Safe'
  <2>1. ASSUME NEW s \in Sessions, IngestStep(s), UNCHANGED OthersOfIngest
        PROVE  Safe'
    BY <1>1, <1>2, <2>1, IngestKeepsLocks, IngestSafe
  <2>2. ASSUME NEW s \in Sessions, CommitMessage(s)
        PROVE  Safe'
    BY <1>1, <1>2, <2>2, CommitKeepsLocks, CommitSafe DEF CommitMessage
  <2>3. CASE AccountsStep /\ UNCHANGED OthersOfAccounts
    BY <1>1, <1>2, <2>3, AccountsKeepLocks, AccountsSafe DEF OthersOfAccounts
  <2>4. CASE LifecycleStep /\ UNCHANGED OthersOfLifecycle
    BY <1>1, <1>2, <2>4, LifecycleKeepsLocks, LifecycleSafe DEF OthersOfLifecycle
  <2>5. ASSUME NEW p \in Parsers, ParseStep(p), UNCHANGED OthersOfParse
        PROVE  Safe'
    BY <1>1, <1>2, <2>5, ParseKeepsLocks, ParseSafe DEF OthersOfParse
  <2>6. CASE UNCHANGED vars
    <3>1. UNCHANGED <<session, lock, state, dataKey, deliveries, attachments,
                      blobVars, job, parser>>
      BY <2>6 DEF vars, rowVars, identityVars, lifecycleVars, parseVars
    <3>2. ServiceInv'
      BY <1>1, <3>1, ServiceStutter
    <3>3. BlobInv'
      BY <1>1, <1>2, <3>1, StandingStill, QuietStep DEF TypeInv
    <3> QED
      BY <3>2, <3>3
  <2> QED
    BY <2>1, <2>2, <2>3, <2>4, <2>5, <2>6 DEF Next
<1> QED
  BY <1>2, <1>3 DEF IInv, TypeInv, ServiceInv, BlobInv

(***************************************************************************)
(* The inductive invariant holds in every reachable state.                 *)
(***************************************************************************)
THEOREM InvariantHolds == Spec => []IInv
  BY InitSafe, StepSafe, PTL DEF Spec

(***************************************************************************)
(* Whatever is delivered can be read: no interleaving of receiving,        *)
(* parsing, destroying, purging, sweeping and collecting, and no crash     *)
(* between any two of their steps, leaves a delivery without its key, or   *)
(* a blob that a row names without its own row or its bytes.               *)
(***************************************************************************)
THEOREM MailStaysReadable == Spec => []ReadableMail
<1>1. IInv => ReadableMail
  BY DEF IInv
<1> QED
  BY InvariantHolds, <1>1, PTL

(* A lifecycle step that applies no purge and no sweep touches only blobs,  *)
(* apart from the aging of a message and the two changes of state.         *)
LEMMA LifecycleMoves ==
  ASSUME LifecycleStep
  PROVE  \/ \E d \in deliveries : Age(d)
         \/ Notice \/ Expire
         \/ \E w \in Workers : PurgeApply(w) \/ SweepApply(w)
         \/ UNCHANGED <<identityVars, lock, deliveries, attachments, events>>
<1> DEFINE Rows == <<identityVars, lock, deliveries, attachments, events>>
<1>1. ASSUME NEW i \in Random, Tick(i) PROVE UNCHANGED Rows
  BY <1>1 DEF Tick, rowVars
<1>2. ASSUME NEW w \in Workers, JobDies(w) PROVE UNCHANGED Rows
  BY <1>2 DEF JobDies
<1>3. ASSUME NEW w \in Workers, PurgeJob(w) PROVE PurgeApply(w) \/ UNCHANGED Rows
  BY <1>3 DEF PurgeJob, PurgeList, PurgeRead, PurgeConflict, rowVars
<1>4. ASSUME NEW w \in Workers, SweepJob(w) PROVE SweepApply(w) \/ UNCHANGED Rows
  BY <1>4 DEF SweepJob, SweepList, SweepRead, rowVars
<1>5. ASSUME NEW w \in Workers, CollectJob(w) PROVE UNCHANGED Rows
  BY <1>5 DEF CollectJob, CollectList, ClaimOrphanBlob, Skip, DeleteBytes, rowVars
<1> QED
  BY <1>1, <1>2, <1>3, <1>4, <1>5 DEF LifecycleStep

(* Only a commit of a session gives out numbers.                           *)
LEMMA OnlyCommitsNumber ==
  ASSUME [Next]_vars
  PROVE  UNCHANGED deliverySeq \/ \E s \in Sessions : Commit(s)
<1>1. ASSUME NEW s \in Sessions, IngestStep(s) PROVE UNCHANGED deliverySeq
  BY <1>1 DEF IngestStep, Rcpt, Reset, StoreBody, LockRecipient, Refuse,
              DeadlockAbort, CommitFails, Rollback, rowVars, identityVars
<1>2. ASSUME AccountsStep PROVE UNCHANGED deliverySeq
  BY <1>2 DEF AccountsStep, AllocateRandom, OpenNamed, CreateIdentity,
              DestroyIdentity, RecordDestroyed, LoseDestroyed, identityVars
<1>3. ASSUME LifecycleStep PROVE UNCHANGED deliverySeq
  BY <1>3, LifecycleMoves DEF Age, Notice, Expire, MoveState, PurgeApply, SweepApply,
                              identityVars
<1>4. ASSUME NEW p \in Parsers, ParseStep(p) PROVE UNCHANGED deliverySeq
  <2>1. CASE StoreResults(p)
    BY <2>1 DEF StoreResults, identityVars
  <2>2. CASE ~StoreResults(p)
    BY <1>4, <2>2 DEF ParseStep, ParseProgress, Load, NothingToParse, LoadFails, LookupFails, Locate,
                GiveUp, ReadBytes, BytesMissing, PutAttachment, AcquireAttachment,
                Unparseable, StoreAttachmentFails, DeliveryGone,
                JobDone, ParserDies, rowVars, identityVars
  <2> QED  BY <2>1, <2>2
<1>5. CASE UNCHANGED vars
  BY <1>5 DEF vars, rowVars, identityVars
<1> QED
  BY <1>1, <1>2, <1>3, <1>4, <1>5 DEF Next, CommitMessage

(***************************************************************************)
(* A delivery number is only ever given out by a commit, to an inbox that  *)
(* is in service or comes into being with the message: the recipient's row *)
(* has been locked since its state was checked.                            *)
(***************************************************************************)
THEOREM NothingArrivesAfterExpiry == Spec => NoMailAfterExpiry
<1> DEFINE InService ==
      \A i \in Identities :
        deliverySeq'[i] # deliverySeq[i] => state[i] = "absent" \/ AcceptsMail(i)
<1>1. IInv /\ [Next]_vars => [InService]_vars
  <2> SUFFICES ASSUME IInv, [Next]_vars PROVE InService
    OBVIOUS
  <2>1. ASSUME NEW s \in Sessions, Commit(s) PROVE InService
    <3> DEFINE R == Recipients(s)
               seqOf == [i \in R |->
                  session[s].seqs[CHOOSE n \in DOMAIN session[s].rcpts :
                                    session[s].rcpts[n] = i]]
    <3>1. deliverySeq' = [i \in Identities |->
                            IF i \in R THEN seqOf[i] ELSE deliverySeq[i]]
      BY <2>1, Zenon DEF Commit
    <3>2. DOMAIN session[s].seqs = DOMAIN session[s].rcpts
      BY <2>1 DEF Commit, IInv, TypeOK, IngestTypeOK, SessionState
    <3>3. \A n \in DOMAIN session[s].rcpts :
            AcceptsMail(session[s].rcpts[n]) \/ Provisionable(session[s].rcpts[n])
      BY <3>2 DEF IInv, LocksHeld
    <3>4. \A i \in R : AcceptsMail(i) \/ state[i] = "absent"
      BY <3>3 DEF Recipients, Provisionable
    <3> HIDE DEF R, seqOf
    <3> QED
      BY <3>1, <3>4
  <2>2. CASE UNCHANGED deliverySeq
    BY <2>2
  <2> QED
    BY <2>1, <2>2, OnlyCommitsNumber
<1> QED
  BY InvariantHolds, <1>1, PTL DEF Spec, NoMailAfterExpiry
=============================================================================
