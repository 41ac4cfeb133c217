------------------------------- MODULE Ingest -------------------------------
(***************************************************************************)
(* SMTP ingestion: RCPT TO resolution, then the one transaction that makes *)
(* a message durable for all its recipients before the 250 is sent.        *)
(*                                                                         *)
(* Source: internal/smtpd/session.go (Rcpt, Data, reset) and               *)
(* internal/smtpd/receiver.go (Resolve, Commit).                           *)
(*                                                                         *)
(* The transaction locks identity rows one at a time in RCPT TO order      *)
(* (IdentityForUpdate; for a name that does not exist yet, the unique      *)
(* index entry of its uncommitted row), so two sessions can wait for each  *)
(* other; Postgres then aborts one of them.                                *)
(***************************************************************************)
EXTENDS MailRows

CONSTANTS
  Sizes,           \* sizes a message may have
  MaxRecipients    \* smtp.max_recipients

ASSUME SizesAssumption == Sizes \subseteq Nat
ASSUME MaxRecipientsAssumption == MaxRecipients \in Nat

VARIABLE session   \* the transaction each session has open

\* rcpts: recipients in RCPT TO order; seqs: the sequence numbers reserved
\* for the prefix of rcpts already locked; blob is meaningful once pc is
\* "commit".
IdleSession ==
  [pc |-> "idle", rcpts |-> << >>, seqs |-> << >>, blob |-> NoBlob, size |-> 0]

SessionState ==
  [pc : {"idle", "commit"}, rcpts : Seq(Identities), seqs : Seq(Nat \ {0}),
   blob : Blobs \cup {NoBlob}, size : Nat]

IngestInit == session = [s \in Sessions |-> IdleSession]

IngestTypeOK ==
  /\ session \in [Sessions -> SessionState]
  /\ \A s \in Sessions : session[s].pc = "commit" => session[s].blob \in Blobs

-----------------------------------------------------------------------------
\* A never-seen name on a public domain is provisioned by the commit.
Provisionable(i) == i \in Named /\ state[i] = "absent"

Recipients(s) == {session[s].rcpts[n] : n \in DOMAIN session[s].rcpts}

Resolvable(i) ==
  \/ AcceptsMail(i) /\ ~QuotaExceeded(i, 0)
  \/ Provisionable(i)

\* A session may sit on a resolved recipient for as long as it likes, which
\* is also what a cached resolution amounts to.
Rcpt(s, i) ==
  /\ session[s].pc = "idle"
  /\ Len(session[s].rcpts) < MaxRecipients
  /\ i \notin Recipients(s)
  /\ Resolvable(i)
  /\ session' = [session EXCEPT ![s].rcpts = Append(@, i)]
  /\ UNCHANGED rowVars

\* RSET, a new MAIL FROM, or a client that goes away before DATA.
Reset(s) ==
  /\ session[s].pc = "idle"
  /\ session[s].rcpts # << >>
  /\ session' = [session EXCEPT ![s] = IdleSession]
  /\ UNCHANGED rowVars

\* The bytes go to disk first: that write cannot join the transaction.
StoreBody(s) ==
  /\ session[s].pc = "idle"
  /\ session[s].rcpts # << >>
  /\ \E b \in Blobs, size \in Sizes :
       /\ PutBytes(b)
       /\ session' = [session EXCEPT ![s].pc = "commit", ![s].blob = b,
                                     ![s].size = size]
  /\ UNCHANGED <<identityVars, lock, deliveries, attachments, blobRows,
                 refcount, events, faults>>

-----------------------------------------------------------------------------
InLoop(s) ==
  /\ session[s].pc = "commit"
  /\ Len(session[s].seqs) < Len(session[s].rcpts)

NextRecipient(s) == session[s].rcpts[Len(session[s].seqs) + 1]

\* Deviation: the message's size is not charged against the byte quota.
CanReceiveAnySize(i, size) ==
  /\ AcceptsMail(i) \/ Provisionable(i)
  /\ ~QuotaExceeded(i, 0)

\* Deviation: the state found at RCPT TO is trusted.
CanReceiveInAnyState(i, size) == ~QuotaExceeded(i, size)

\* State and quota are re-read under the row lock.
CanReceive(i, size) ==
  /\ AcceptsMail(i) \/ Provisionable(i)
  /\ ~QuotaExceeded(i, size)

\* One turn of the loop over recipients: lock the row, check it, reserve the
\* next sequence number.
LockRecipient(s) ==
  LET i == NextRecipient(s) IN
  /\ InLoop(s)
  /\ Unlocked(i)
  /\ CanReceive(i, session[s].size)
  /\ lock'    = [lock EXCEPT ![i] = s]
  /\ session' = [session EXCEPT ![s].seqs = Append(@, deliverySeq[i] + 1)]
  /\ UNCHANGED <<identityVars, deliveries, attachments, blobVars, events,
                 faults>>

\* Deviation: an early return forgets to roll back.
RollbackKeepingLocks(s) ==
  /\ session' = [session EXCEPT ![s] = IdleSession]
  /\ UNCHANGED <<identityVars, lock, deliveries, attachments, blobVars, events>>

\* The transaction leaves nothing behind but the bytes.
Rollback(s) ==
  /\ lock'    = [i \in Identities |-> IF lock[i] = s THEN NoOne ELSE lock[i]]
  /\ session' = [session EXCEPT ![s] = IdleSession]
  /\ UNCHANGED <<identityVars, deliveries, attachments, blobVars, events>>

\* ErrUnknownRecipient or ErrMailboxFull: nobody gets the message.
Refuse(s) ==
  LET i == NextRecipient(s) IN
  /\ InLoop(s)
  /\ Unlocked(i)
  /\ ~CanReceive(i, session[s].size)
  /\ Rollback(s)
  /\ UNCHANGED faults

\* Every session of the set waits for a row another session of the set holds.
DeadlockedSet(S) ==
  \A s \in S : InLoop(s) /\ lock[NextRecipient(s)] \in S

\* Postgres picks a victim; the session answers 451.
DeadlockAbort(s) ==
  /\ \E S \in SUBSET Sessions : s \in S /\ DeadlockedSet(S)
  /\ Rollback(s)
  /\ UNCHANGED faults

\* Any other error, or the process dying, inside the transaction.
CommitFails(s) ==
  /\ session[s].pc = "commit"
  /\ Fault
  /\ Rollback(s)

\* InTx commits: identity rows, blob references, deliveries and events
\* become visible together, and the sender gets its 250.
Commit(s) ==
  LET tx == session[s]
      R  == Recipients(s)
      seqOf == [i \in R |-> tx.seqs[CHOOSE n \in DOMAIN tx.rcpts :
                                      tx.rcpts[n] = i]]
      created == {i \in R : state[i] = "absent"}
  IN
  /\ tx.pc = "commit"
  /\ Len(tx.seqs) = Len(tx.rcpts)
  /\ state'   = [i \in Identities |->
                   IF i \in created THEN "active" ELSE state[i]]
  /\ dataKey' = [i \in Identities |-> i \in created \/ dataKey[i]]
  /\ deliverySeq'  = [i \in Identities |->
                        IF i \in R THEN seqOf[i] ELSE deliverySeq[i]]
  /\ usedMessages' = [i \in Identities |->
                        usedMessages[i] + (IF i \in R THEN 1 ELSE 0)]
  /\ usedBytes'    = [i \in Identities |->
                        usedBytes[i] + (IF i \in R THEN tx.size ELSE 0)]
  /\ deliveries' = deliveries \cup
       {[identity |-> i, seq |-> seqOf[i], blob |-> tx.blob, size |-> tx.size,
         status |-> "received", old |-> FALSE] : i \in R}
  /\ Acquire(tx.blob, Cardinality(R))
  /\ Emit({Event("identity.created", i, 0) : i \in created}
            \cup {Event("message.received", i, seqOf[i]) : i \in R})
  /\ lock'    = [i \in Identities |-> IF lock[i] = s THEN NoOne ELSE lock[i]]
  /\ session' = [session EXCEPT ![s] = IdleSession]
  /\ UNCHANGED <<attachments, bytes, minted, faults>>

-----------------------------------------------------------------------------
\* Everything but Commit, which also inserts parse jobs.
IngestStep(s) ==
  \/ \E i \in Identities : Rcpt(s, i)
  \/ Reset(s)
  \/ StoreBody(s)
  \/ LockRecipient(s)
  \/ Refuse(s)
  \/ DeadlockAbort(s)
  \/ CommitFails(s)
=============================================================================
