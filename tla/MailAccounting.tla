--------------------------- MODULE MailAccounting ---------------------------
(***************************************************************************)
(* What the pipeline counts is right: no inbox holds more than its quota,  *)
(* a shared inbox is charged for what it holds, and the reference count of *)
(* a blob covers every row that names it.                                  *)
(*                                                                         *)
(* The argument: a quota is checked under the row lock that the commit     *)
(* still holds when it charges the message; a sweep refunds the rows it    *)
(* deletes; and a lifecycle transaction releases just the references of    *)
(* the rows it deletes.  The last holds only while no two jobs work on one *)
(* identity, because references are read before the rows are locked: the   *)
(* theorems about references and bytes are about the behaviours in which   *)
(* TargetsApart always holds.  What a named inbox is charged in messages,  *)
(* and what a random one is charged, needs no such condition.              *)
(***************************************************************************)
EXTENDS MailPromises

USE DEF Identities, Undeleted

-----------------------------------------------------------------------------
(* Counting.                                                               *)

(***************************************************************************)
(* Rows with different names are as many as their names.                   *)
(***************************************************************************)
LEMMA KeysCounted ==
  ASSUME NEW D, IsFiniteSet(D), \A d, e \in D : Key(d) = Key(e) => d = e
  PROVE  IsFiniteSet(Keys(D)) /\ Cardinality(Keys(D)) = Cardinality(D)
<1> DEFINE f == [d \in D |-> Key(d)]
<1>1. f \in Surjection(D, Keys(D)) /\ f \in Injection(D, Keys(D))
  BY DEF Surjection, Injection, IsInjective, Keys
<1> HIDE DEF f
<1> QED
  BY <1>1, FS_Surjection

(***************************************************************************)
(* The bytes of finitely many deliveries are finitely many, and one        *)
(* delivery has as many as its size says.                                  *)
(***************************************************************************)
LEMMA BytesOfOne ==
  ASSUME NEW d \in Delivery
  PROVE  IsFiniteSet(BytesOf({d})) /\ TotalSize({d}) = d.size
<1> DEFINE B == {<<Key(d), n>> : n \in 1..d.size}
           f == [n \in 1..d.size |-> <<Key(d), n>>]
<1>1. d.size \in Nat
  BY DEF Delivery
<1>2. f \in Surjection(1..d.size, B) /\ f \in Injection(1..d.size, B)
  <2>1. f \in [1..d.size -> B] /\ \A b \in B : \E n \in 1..d.size : f[n] = b
    OBVIOUS
  <2>2. \A m, n \in 1..d.size : f[m] = f[n] => m = n
    OBVIOUS
  <2> HIDE DEF f, B
  <2>3. f \in Surjection(1..d.size, B)
    BY <2>1 DEF Surjection
  <2>4. f \in Injection(1..d.size, B)
    BY <2>1, <2>2 DEF Injection, IsInjective
  <2> QED
    BY <2>3, <2>4
<1> HIDE DEF f, B
<1>3. IsFiniteSet(1..d.size) /\ Cardinality(1..d.size) = d.size
  <2>1. ASSUME NEW n \in Nat  PROVE IsFiniteSet(1..n) /\ Cardinality(1..n) = n
    BY FS_Interval
  <2> QED
    BY <1>1, <2>1
<1>4. IsFiniteSet(B) /\ Cardinality(B) = d.size
  BY <1>2, <1>3, FS_Surjection
<1>5. BytesOf({d}) = B
  BY DEF BytesOf, B
<1> QED
  BY <1>4, <1>5 DEF TotalSize

(* The size of finitely many deliveries is a number.                       *)
LEMMA BytesFinite ==
  ASSUME NEW D \in SUBSET Delivery, IsFiniteSet(D)
  PROVE  IsFiniteSet(BytesOf(D)) /\ TotalSize(D) \in Nat
<1> DEFINE f == [d \in D |-> BytesOf({d})]
           S == {f[d] : d \in DOMAIN f}
<1>1. IsFiniteSet(S)
  BY FiniteImage
<1>2. \A B \in S : IsFiniteSet(B)
  BY BytesOfOne
<1>3. BytesOf(D) = UNION S
  BY DEF BytesOf
<1> HIDE DEF S
<1> QED
  BY <1>1, <1>2, <1>3, FS_UNION, FS_CardinalityType DEF TotalSize

(***************************************************************************)
(* Sizes of rows with different names add up.                              *)
(***************************************************************************)
LEMMA BytesUnion ==
  ASSUME NEW C \in SUBSET Delivery, NEW D \in SUBSET Delivery,
         IsFiniteSet(C), IsFiniteSet(D), Keys(C) \cap Keys(D) = {}
  PROVE  TotalSize(C \cup D) = TotalSize(C) + TotalSize(D)
<1>1. BytesOf(C \cup D) = BytesOf(C) \cup BytesOf(D)
  BY DEF BytesOf
<1>2. BytesOf(C) \cap BytesOf(D) = {}
  BY DEF BytesOf, Keys
<1>3. IsFiniteSet(BytesOf(C)) /\ IsFiniteSet(BytesOf(D))
  BY BytesFinite
<1>4. Cardinality(BytesOf(C) \cup BytesOf(D))
        = Cardinality(BytesOf(C)) + Cardinality(BytesOf(D))
            - Cardinality(BytesOf(C) \cap BytesOf(D))
  BY <1>3, FS_Union
<1>5. Cardinality(BytesOf(C)) \in Nat /\ Cardinality(BytesOf(D)) \in Nat
  BY <1>3, FS_CardinalityType
<1>6. Cardinality(BytesOf(C) \cap BytesOf(D)) = 0
  BY <1>2, FS_EmptySet
<1>7. Cardinality(BytesOf(C) \cup BytesOf(D))
        = Cardinality(BytesOf(C)) + Cardinality(BytesOf(D))
  BY <1>4, <1>5, <1>6
<1> QED
  BY <1>1, <1>7 DEF TotalSize

(***************************************************************************)
(* Part of the mail has no more bytes than all of it.                      *)
(***************************************************************************)
LEMMA BytesSubset ==
  ASSUME NEW D \in SUBSET Delivery, IsFiniteSet(D), NEW C \in SUBSET D
  PROVE  TotalSize(C) <= TotalSize(D)
<1>1. BytesOf(C) \subseteq BytesOf(D)
  BY DEF BytesOf
<1> QED
  BY <1>1, BytesFinite, FS_Subset DEF TotalSize

(***************************************************************************)
(* The same names with the same sizes have the same bytes.                 *)
(***************************************************************************)
LEMMA SameBytes ==
  ASSUME NEW C, NEW D,
         \A c \in C : \E d \in D : Key(d) = Key(c) /\ d.size = c.size,
         \A d \in D : \E c \in C : Key(d) = Key(c) /\ d.size = c.size
  PROVE  BytesOf(C) = BytesOf(D) /\ TotalSize(C) = TotalSize(D) /\ Keys(C) = Keys(D)
<1>1. BytesOf(C) \subseteq BytesOf(D)
  BY DEF BytesOf
<1>2. BytesOf(D) \subseteq BytesOf(C)
  BY DEF BytesOf
<1>3. Keys(C) = Keys(D)
  BY DEF Keys
<1> QED
  BY <1>1, <1>2, <1>3 DEF TotalSize

-----------------------------------------------------------------------------
(* Charges.                                                                *)

\* Each inbox holds the same messages, with the same sizes, as before.
SameHoldings ==
  \A i \in Identities :
    /\ Cardinality(MailOf(i)') = Cardinality(MailOf(i))
    /\ TotalSize(MailOf(i)') = TotalSize(MailOf(i))

(***************************************************************************)
(* An inbox holds finitely many messages, each under its own name.         *)
(***************************************************************************)
LEMMA HoldingsFinite ==
  ASSUME TypeOK, FiniteRows, NumbersUnique, NEW i
  PROVE  /\ MailOf(i) \in SUBSET Delivery /\ IsFiniteSet(MailOf(i))
         /\ Cardinality(MailOf(i)) \in Nat /\ TotalSize(MailOf(i)) \in Nat
         /\ Cardinality(Keys(MailOf(i))) = Cardinality(MailOf(i))
<1>1. MailOf(i) \subseteq deliveries /\ MailOf(i) \in SUBSET Delivery
  BY DEF MailOf, TypeOK, RowsTypeOK
<1>2. IsFiniteSet(MailOf(i))
  BY <1>1, FS_Subset DEF FiniteRows
<1>3. \A d, e \in MailOf(i) : Key(d) = Key(e) => d = e
  BY <1>1 DEF NumbersUnique
<1> HIDE DEF MailOf
<1> QED
  BY <1>1, <1>2, <1>3, FS_CardinalityType, BytesFinite, KeysCounted

(***************************************************************************)
(* Rewriting rows changes no holding.                                      *)
(***************************************************************************)
LEMMA RewrittenHoldings ==
  ASSUME TypeOK, FiniteRows, NumbersUnique, NumbersUnique', Rewritten
  PROVE  SameHoldings
<1>1. PICK g \in [deliveries -> Delivery] :
        /\ deliveries' = {g[d] : d \in deliveries}
        /\ \A d \in deliveries :
             Key(g[d]) = Key(d) /\ g[d].blob = d.blob /\ g[d].size = d.size
  BY DEF Rewritten
<1> SUFFICES ASSUME NEW i \in Identities
             PROVE  /\ Cardinality(MailOf(i)') = Cardinality(MailOf(i))
                    /\ TotalSize(MailOf(i)') = TotalSize(MailOf(i))
  BY DEF SameHoldings
<1>2. \A d \in deliveries : g[d].identity = d.identity
  BY <1>1 DEF Key
<1>3. MailOf(i)' = {g[d] : d \in MailOf(i)}
  BY <1>1, <1>2 DEF MailOf
<1>4. \A d \in MailOf(i) : Key(g[d]) = Key(d) /\ g[d].size = d.size
  BY <1>1 DEF MailOf
<1>5. \A d, e \in MailOf(i) : Key(d) = Key(e) => d = e
  BY DEF MailOf, NumbersUnique
<1>6. IsFiniteSet(MailOf(i))
  BY HoldingsFinite
<1> DEFINE M == MailOf(i)
           N == {g[d] : d \in M}
           f == [d \in M |-> g[d]]
<1> HIDE DEF M
<1>7. f \in Surjection(M, N) /\ f \in Injection(M, N)
  BY <1>4, <1>5 DEF Surjection, Injection, IsInjective, M
<1> HIDE DEF f
<1>8. Cardinality(N) = Cardinality(M)
  BY <1>6, <1>7, FS_Surjection DEF M
<1>9. TotalSize(N) = TotalSize(M)
  <2>1. \A c \in N : \E d \in M : Key(d) = Key(c) /\ d.size = c.size
    BY <1>4 DEF M
  <2>2. \A d \in M : \E c \in N : Key(d) = Key(c) /\ d.size = c.size
    BY <1>4 DEF M
  <2> HIDE DEF N
  <2> QED
    BY <2>1, <2>2, SameBytes
<1> QED
  BY <1>3, <1>8, <1>9 DEF M

(***************************************************************************)
(* Steps that charge nobody and change no holding.                         *)
(***************************************************************************)
LEMMA ChargesStutter ==
  ASSUME ChargesInv, SameHoldings, QuotaReserved',
         UNCHANGED <<usedMessages, usedBytes>>
  PROVE  ChargesInv'
<1>1. UsageWithinQuota'
  BY DEF ChargesInv, UsageWithinQuota
<1>2. MessagesCharged'
  BY DEF ChargesInv, MessagesCharged, SameHoldings
<1>3. BytesCharged'
  BY DEF ChargesInv, BytesCharged, SameHoldings
<1> QED
  BY <1>1, <1>2, <1>3 DEF ChargesInv

(* While no delivery changes, every inbox holds the mail it held.          *)
LEMMA UntouchedHoldings == UNCHANGED deliveries => SameHoldings
  BY DEF SameHoldings, MailOf

(* What a session has reserved of a quota stays within it while no charge  *)
(* is made.                                                                *)
LEMMA ReservedQuotaStutter ==
  ASSUME QuotaReserved, UNCHANGED <<session, usedMessages, usedBytes>>
  PROVE  QuotaReserved'
BY DEF QuotaReserved, QuotaExceeded

(***************************************************************************)
(* A session checks the quota of the row it locks for the message it has.  *)
(***************************************************************************)
LEMMA IngestReservesQuota ==
  ASSUME TypeOK, LocksHeld, QuotaReserved, NEW s \in Sessions, IngestStep(s)
  PROVE  QuotaReserved'
<1> DEFINE Fits(tx) == \A n \in DOMAIN tx.seqs : ~QuotaExceeded(tx.rcpts[n], tx.size)
<1>0. session \in [Sessions -> SessionState]
  BY DEF TypeOK, IngestTypeOK
<1>1. UNCHANGED <<usedMessages, usedBytes>>
  BY DEF IngestStep, Rcpt, Reset, StoreBody, LockRecipient, Refuse,
         DeadlockAbort, CommitFails, Rollback, rowVars, identityVars
<1>2. ASSUME NEW tx, session' = [session EXCEPT ![s] = tx], Fits(tx)
      PROVE  QuotaReserved'
  BY <1>0, <1>1, <1>2 DEF QuotaReserved, QuotaExceeded
<1>3. Fits(IdleSession)
  BY DEF IdleSession
<1>4. Fits(session[s])
  BY DEF QuotaReserved
<1>5. session[s].pc = "idle" => session[s].seqs = << >>
  BY DEF LocksHeld
<1>6. ASSUME NEW i \in Identities, Rcpt(s, i) PROVE QuotaReserved'
  <2> DEFINE tx == [session[s] EXCEPT !.rcpts = Append(@, i)]
  <2>1. session' = [session EXCEPT ![s] = tx]
    BY <1>0, <1>6 DEF Rcpt, SessionState
  <2>2. tx.seqs = << >>
    BY <1>0, <1>5, <1>6 DEF Rcpt, SessionState
  <2> HIDE DEF tx
  <2>3. Fits(tx)
    BY <2>2
  <2> QED
    BY <1>2, <2>1, <2>3
<1>7. CASE StoreBody(s)
  <2>1. PICK b \in Blobs, size \in Sizes :
          session' = [session EXCEPT ![s].pc = "commit", ![s].blob = b,
                                     ![s].size = size]
    BY <1>7 DEF StoreBody
  <2> DEFINE tx == [session[s] EXCEPT !.pc = "commit", !.blob = b, !.size = size]
  <2>2. session' = [session EXCEPT ![s] = tx]
    BY <1>0, <2>1 DEF SessionState
  <2>3. tx.seqs = << >>
    BY <1>0, <1>5, <1>7 DEF StoreBody, SessionState
  <2> HIDE DEF tx
  <2>4. Fits(tx)
    BY <2>3
  <2> QED
    BY <1>2, <2>2, <2>4
<1>8. CASE LockRecipient(s)
  <2> DEFINE seqs == session[s].seqs
             i == NextRecipient(s)
             tx == [session[s] EXCEPT !.seqs = Append(@, deliverySeq[i] + 1)]
  <2>1. session' = [session EXCEPT ![s] = tx]
    BY <1>0, <1>8 DEF LockRecipient, SessionState
  <2>2. session[s].rcpts \in Seq(Identities) /\ seqs \in Seq(Nat \ {0})
    BY <1>0 DEF SessionState
  <2>3. /\ tx.seqs = Append(seqs, deliverySeq[i] + 1) /\ tx.rcpts = session[s].rcpts
        /\ tx.size = session[s].size
    BY <1>0 DEF SessionState
  <2>4. i = session[s].rcpts[Len(seqs) + 1]
    BY DEF NextRecipient
  <2>5. ~QuotaExceeded(i, session[s].size)
    BY <1>8 DEF LockRecipient, CanReceive
  <2> HIDE DEF tx, i
  <2>6. ASSUME NEW n \in DOMAIN tx.seqs PROVE ~QuotaExceeded(tx.rcpts[n], tx.size)
    <3>1. n \in DOMAIN seqs \/ n = Len(seqs) + 1
      BY <2>2, <2>3
    <3> QED
      BY <1>4, <2>3, <2>4, <2>5, <3>1
  <2> QED
    BY <1>2, <2>1, <2>6
<1>9. CASE Reset(s) \/ Refuse(s) \/ DeadlockAbort(s) \/ CommitFails(s)
  BY <1>2, <1>3, <1>9 DEF Reset, Refuse, DeadlockAbort, CommitFails, Rollback
<1> QED
  BY <1>6, <1>7, <1>8, <1>9 DEF IngestStep

(***************************************************************************)
(* A commit adds one message of its size to each recipient's holding.      *)
(***************************************************************************)
LEMMA CommitHoldings ==
  ASSUME TypeOK, FiniteRows, NumbersReserved, NumbersUnique,
         NEW s \in Sessions, Commit(s), NEW i \in Identities
  PROVE  LET n == IF i \in Recipients(s) THEN 1 ELSE 0
             size == IF i \in Recipients(s) THEN session[s].size ELSE 0
         IN  /\ Cardinality(MailOf(i)') = Cardinality(MailOf(i)) + n
             /\ TotalSize(MailOf(i)') = TotalSize(MailOf(i)) + size
             /\ usedMessages'[i] = usedMessages[i] + n
             /\ usedBytes'[i] = usedBytes[i] + size
<1> DEFINE R == Recipients(s)
           new(j) == [identity |-> j, seq |-> deliverySeq[j] + 1,
                      blob |-> session[s].blob, size |-> session[s].size,
                      status |-> "received", old |-> FALSE]
           M == MailOf(i)
<1>0. /\ session[s] \in SessionState /\ session[s].blob \in Blobs
      /\ deliverySeq \in [Identities -> Nat] /\ deliveries \subseteq Delivery
      /\ usedMessages \in [Identities -> Nat] /\ usedBytes \in [Identities -> Nat]
  BY DEF TypeOK, IngestTypeOK, RowsTypeOK, Commit
<1>1. deliveries' = deliveries \cup {new(j) : j \in R}
  BY CommitNumbers DEF CommitWrites
<1>2. /\ usedMessages'[i] = usedMessages[i] + (IF i \in R THEN 1 ELSE 0)
      /\ usedBytes'[i] = usedBytes[i] + (IF i \in R THEN session[s].size ELSE 0)
  BY DEF Commit
<1>3. /\ M \in SUBSET Delivery /\ IsFiniteSet(M) /\ Cardinality(M) \in Nat
      /\ TotalSize(M) \in Nat
  BY HoldingsFinite
<1>4. CASE i \notin R
  <2>1. MailOf(i)' = M
    BY <1>1, <1>4 DEF MailOf
  <2> HIDE DEF M, R
  <2> QED
    BY <1>2, <1>3, <1>4, <2>1, <1>0 DEF R, M
<1>5. CASE i \in R
  <2>1. new(i) \in Delivery /\ new(i).size = session[s].size
    BY <1>0 DEF SessionState, Delivery, DeliveryState
  <2>2. MailOf(i)' = M \cup {new(i)}
    BY <1>1, <1>5 DEF MailOf
  <2>3. new(i).seq = deliverySeq[i] + 1 /\ new(i).identity = i
    OBVIOUS
  <2> DEFINE d == new(i)
  <2> HIDE DEF new
  <2>4. \A e \in M : Key(e) # Key(d)
    BY <1>0, <2>3 DEF MailOf, NumbersUnique, Key
  <2> HIDE DEF M, d
  <2>5. d \notin M /\ Keys(M) \cap Keys({d}) = {}
    BY <2>4 DEF Keys
  <2>6. Cardinality(M \cup {d}) = Cardinality(M) + 1
    BY <1>3, <2>5, FS_AddElement
  <2>7. IsFiniteSet({d}) /\ {d} \in SUBSET Delivery
    BY <2>1, FS_Singleton DEF d
  <2>8. TotalSize(M \cup {d}) = TotalSize(M) + TotalSize({d})
    BY <1>3, <2>5, <2>7, BytesUnion
  <2>9. TotalSize({d}) = session[s].size
    BY <2>1, BytesOfOne DEF d
  <2> QED
    BY <1>2, <1>5, <2>2, <2>6, <2>8, <2>9 DEF M, d
<1> QED
  BY <1>4, <1>5

(* A commit charges each inbox for exactly the mail it adds to it.         *)
LEMMA CommitCharges ==
  ASSUME TypeOK, FiniteRows, LocksHeld, NumbersReserved, NumbersUnique, ChargesInv,
         NEW s \in Sessions, Commit(s)
  PROVE  ChargesInv'
<1> DEFINE R == Recipients(s)
           n(i) == IF i \in R THEN 1 ELSE 0
           size(i) == IF i \in R THEN session[s].size ELSE 0
<1>0. /\ session \in [Sessions -> SessionState]
      /\ usedMessages \in [Identities -> Nat] /\ usedBytes \in [Identities -> Nat]
  BY DEF TypeOK, IngestTypeOK, RowsTypeOK
<1>1. ASSUME NEW i \in Identities
      PROVE  /\ Cardinality(MailOf(i)') = Cardinality(MailOf(i)) + n(i)
             /\ TotalSize(MailOf(i)') = TotalSize(MailOf(i)) + size(i)
             /\ usedMessages'[i] = usedMessages[i] + n(i)
             /\ usedBytes'[i] = usedBytes[i] + size(i)
             /\ Cardinality(MailOf(i)) \in Nat /\ TotalSize(MailOf(i)) \in Nat
             /\ n(i) \in Nat /\ size(i) \in Nat
  <2>1. session[s].size \in Nat
    BY <1>0 DEF SessionState
  <2> QED
    BY <2>1, CommitHoldings, HoldingsFinite
<1>2. session' = [session EXCEPT ![s] = IdleSession]
      /\ Len(session[s].seqs) = Len(session[s].rcpts)
  BY DEF Commit
<1>3. DOMAIN session[s].seqs = DOMAIN session[s].rcpts
  BY <1>0, <1>2 DEF SessionState
<1>4. \A i \in R : lock[i] = s /\ ~QuotaExceeded(i, session[s].size)
  BY <1>3 DEF LocksHeld, Recipients, ChargesInv, QuotaReserved
<1>5. UsageWithinQuota'
  <2> SUFFICES ASSUME NEW i \in Identities
               PROVE  usedMessages'[i] <= QuotaMessages /\ usedBytes'[i] <= QuotaBytes
    BY DEF UsageWithinQuota
  <2>1. usedMessages[i] <= QuotaMessages /\ usedBytes[i] <= QuotaBytes
    BY DEF ChargesInv, UsageWithinQuota
  <2>2. usedMessages[i] \in Nat /\ usedBytes[i] \in Nat /\ session[s].size \in Nat
    BY <1>0 DEF SessionState
  <2>3. CASE i \in R
    BY <1>1, <1>4, <2>2, <2>3, QuotaAssumption DEF QuotaExceeded
  <2>4. CASE i \notin R
    BY <1>1, <2>1, <2>2, <2>4
  <2> QED
    BY <2>3, <2>4
<1>6. ASSUME NEW t \in Sessions, t # s, NEW k \in DOMAIN session[t].seqs
      PROVE  session[t].rcpts[k] \in Identities \ R
  <2>1. session[t].rcpts[k] \notin R
    BY <1>4, <1>6 DEF LocksHeld
  <2>2. k \in DOMAIN session[t].rcpts
    BY <1>0 DEF LocksHeld, SessionState
  <2> QED
    BY <1>0, <2>1, <2>2 DEF SessionState
<1>7. QuotaReserved'
  <2> SUFFICES ASSUME NEW t \in Sessions, NEW k \in DOMAIN session'[t].seqs
               PROVE  LET i == session'[t].rcpts[k]
                      IN  /\ ~(usedMessages'[i] + 1 > QuotaMessages)
                          /\ ~(usedBytes'[i] + session'[t].size > QuotaBytes)
    BY DEF QuotaReserved, QuotaExceeded
  <2>1. t # s /\ session'[t] = session[t]
    BY <1>0, <1>2 DEF IdleSession
  <2> DEFINE i == session[t].rcpts[k]
  <2>2. i \in Identities \ R /\ ~QuotaExceeded(i, session[t].size)
    BY <1>6, <2>1 DEF ChargesInv, QuotaReserved
  <2>3. usedMessages'[i] = usedMessages[i] /\ usedBytes'[i] = usedBytes[i]
    BY <1>0, <1>1, <2>2
  <2> QED
    BY <2>1, <2>2, <2>3 DEF QuotaExceeded
<1> HIDE DEF n, size
<1>8. MessagesCharged'
  <2>1. \A i \in Random : Cardinality(MailOf(i)') <= usedMessages'[i]
    BY <1>0, <1>1 DEF ChargesInv, MessagesCharged
  <2>2. \A i \in Named : Cardinality(MailOf(i)') = usedMessages'[i]
    BY <1>0, <1>1 DEF ChargesInv, MessagesCharged
  <2> QED
    BY <2>1, <2>2 DEF MessagesCharged
<1>9. BytesCharged'
  BY <1>0, <1>1 DEF ChargesInv, BytesCharged
<1> QED
  BY <1>5, <1>7, <1>8, <1>9 DEF ChargesInv

(***************************************************************************)
(* A purge takes mail of random identities only, and refunds nobody.       *)
(***************************************************************************)
LEMMA PurgeCharges ==
  ASSUME TypeOK, FiniteRows, NumbersUnique, JobsAimed, ChargesInv, UNCHANGED session,
         NEW w \in Workers, PurgeApply(w)
  PROVE  ChargesInv'
<1>1. UNCHANGED <<usedMessages, usedBytes>>
  BY DEF PurgeApply
<1>2. PICK i \in Random : job[w].target = {i}
  BY DEF PurgeApply, JobsAimed
<1>3. \A d \in deliveries : d \in deliveries' \/ d.identity = i
  BY <1>2 DEF PurgeApply, DeleteDeliveries, Key
<1>4. deliveries' \subseteq deliveries
  BY DEF PurgeApply, DeleteDeliveries
<1>5. \A j \in Named : MailOf(j)' = MailOf(j)
  BY <1>2, <1>3, <1>4, KindsAssumption DEF MailOf
<1>6. \A j \in Random : MailOf(j)' \subseteq MailOf(j)
  BY <1>4 DEF MailOf
<1>7. ASSUME NEW j \in Random
      PROVE  /\ Cardinality(MailOf(j)') <= Cardinality(MailOf(j))
             /\ TotalSize(MailOf(j)') <= TotalSize(MailOf(j))
             /\ Cardinality(MailOf(j)) \in Nat /\ TotalSize(MailOf(j)) \in Nat
             /\ Cardinality(MailOf(j)') \in Nat /\ TotalSize(MailOf(j)') \in Nat
  <2> DEFINE M == MailOf(j)
             N == MailOf(j)'
  <2>1. M \in SUBSET Delivery /\ IsFiniteSet(M)
    BY HoldingsFinite
  <2>2. N \in SUBSET M
    BY <1>6
  <2> HIDE DEF M, N
  <2>3. N \in SUBSET Delivery /\ IsFiniteSet(N) /\ Cardinality(N) <= Cardinality(M)
    BY <2>1, <2>2, FS_Subset
  <2>4. Cardinality(M) \in Nat /\ Cardinality(N) \in Nat
        /\ TotalSize(M) \in Nat /\ TotalSize(N) \in Nat
    BY <2>1, <2>3, FS_CardinalityType, BytesFinite
  <2>5. TotalSize(N) <= TotalSize(M)
    BY <2>1, <2>2, BytesSubset
  <2> QED
    BY <2>3, <2>4, <2>5 DEF M, N
<1>8. usedMessages \in [Identities -> Nat] /\ usedBytes \in [Identities -> Nat]
  BY DEF TypeOK, RowsTypeOK
<1>9. QuotaReserved' /\ UsageWithinQuota'
  BY <1>1, ReservedQuotaStutter DEF ChargesInv, UsageWithinQuota
<1>10. MessagesCharged' /\ BytesCharged'
  <2>1. \A j \in Random : /\ Cardinality(MailOf(j)') <= usedMessages[j]
                          /\ TotalSize(MailOf(j)') <= usedBytes[j]
    BY <1>7, <1>8 DEF ChargesInv, MessagesCharged, BytesCharged
  <2>2. \A j \in Named : Cardinality(MailOf(j)') = usedMessages[j]
    BY <1>5 DEF ChargesInv, MessagesCharged
  <2> QED
    BY <1>1, <2>1, <2>2 DEF MessagesCharged, BytesCharged
<1> QED
  BY <1>9, <1>10 DEF ChargesInv

(***************************************************************************)
(* What a sweep deletes: the listed messages that are still there, all of  *)
(* one shared inbox whose row nobody has locked.                           *)
(***************************************************************************)
Swept(w) == {d \in deliveries : Key(d) \in Keys(job[w].list)}

(* A sweep takes from one named inbox the rows it listed that are still    *)
(* there, and nothing from another; count and size fall by just those.     *)
LEMMA SweepDeletes ==
  ASSUME TypeOK, FiniteRows, NumbersUnique, JobsAimed, NEW w \in Workers, SweepApply(w)
  PROVE  \E i \in Named :
           /\ job[w].target = {i} /\ (Swept(w) # {} => lock[i] = NoOne)
           /\ Swept(w) \subseteq MailOf(i)
           /\ MailOf(i)' = MailOf(i) \ Swept(w)
           /\ \A j \in Identities \ {i} : MailOf(j)' = MailOf(j)
           /\ Cardinality(Swept(w)) \in Nat
           /\ TotalSize(Swept(w)) \in Nat
           /\ Cardinality(MailOf(i)') = Cardinality(MailOf(i)) - Cardinality(Swept(w))
           /\ TotalSize(MailOf(i)') = TotalSize(MailOf(i)) - TotalSize(Swept(w))
<1> DEFINE D == Swept(w)
<1>1. PICK i \in Named :
        job[w].target = {i} /\ \A d \in job[w].list : d.identity = i
  BY DEF SweepApply, JobsAimed
<1>2. D \subseteq MailOf(i)
  BY <1>1 DEF Swept, MailOf, Keys, Key
<1>3. deliveries' = {d \in deliveries : Key(d) \notin Keys(D)}
  BY DEF SweepApply, DeleteDeliveries, Swept
<1>4. \A d \in deliveries : Key(d) \in Keys(D) <=> d \in D
  BY DEF Keys, Swept, NumbersUnique
<1>5. deliveries' = deliveries \ D
  BY <1>3, <1>4
<1>6. MailOf(i)' = MailOf(i) \ D /\ \A j \in Identities \ {i} : MailOf(j)' = MailOf(j)
  BY <1>2, <1>5 DEF MailOf
<1>7. D # {} => lock[i] = NoOne
  <2>1. IsFiniteSet(D)
    BY FS_Subset DEF Swept, FiniteRows
  <2>2. D # {} => Cardinality(D) > 0
    BY <2>1, FS_EmptySet, FS_CardinalityType
  <2>3. \A j \in (IF Cardinality(D) > 0 THEN {i} ELSE {}) : Unlocked(j)
    BY <1>1 DEF SweepApply, Swept
  <2> HIDE DEF D
  <2> QED
    BY <2>2, <2>3 DEF Unlocked
<1> DEFINE M == MailOf(i)
<1>8. M \in SUBSET Delivery /\ IsFiniteSet(M)
  BY HoldingsFinite
<1>9. D \in SUBSET Delivery /\ IsFiniteSet(D) /\ M \cap D = D
  BY <1>2, <1>8, FS_Subset
<1>10. Keys(M \ D) \cap Keys(D) = {}
  BY <1>4 DEF MailOf, Keys
<1> HIDE DEF M, D
<1>11. IsFiniteSet(M \ D) /\ Cardinality(M \ D) = Cardinality(M) - Cardinality(D)
  BY <1>8, <1>9, FS_Difference
<1>12. (M \ D) \cup D = M /\ M \ D \in SUBSET Delivery
  BY <1>8, <1>9
<1>13. TotalSize(M) = TotalSize(M \ D) + TotalSize(D)
  BY <1>9, <1>10, <1>11, <1>12, BytesUnion
<1>14. /\ TotalSize(M \ D) \in Nat /\ TotalSize(D) \in Nat /\ TotalSize(M) \in Nat
       /\ Cardinality(D) \in Nat
  BY <1>8, <1>9, <1>11, <1>12, BytesFinite, FS_CardinalityType
<1>15. TotalSize(M \ D) = TotalSize(M) - TotalSize(D)
  BY <1>13, <1>14
<1> QED
  BY <1>1, <1>2, <1>6, <1>7, <1>11, <1>14, <1>15 DEF M, D

(***************************************************************************)
(* A sweep refunds the messages it deletes, of a row no session has locked.*)
(***************************************************************************)
LEMMA SweepCharges ==
  ASSUME TypeOK, FiniteRows, NumbersUnique, LocksHeld, JobsAimed, ChargesInv,
         UNCHANGED session, NEW w \in Workers, SweepApply(w)
  PROVE  ChargesInv'
<1> DEFINE D == Swept(w)
           n == Cardinality(D)
           freed == TotalSize(FirstListed(job[w].list, n))
           T == IF n > 0 THEN job[w].target ELSE {}
<1>0. usedMessages \in [Identities -> Nat] /\ usedBytes \in [Identities -> Nat]
      /\ session \in [Sessions -> SessionState]
  BY DEF TypeOK, RowsTypeOK, IngestTypeOK
<1>1. /\ usedMessages' = [j \in Identities |-> IF j \in T
                            THEN Reduced(usedMessages[j], n) ELSE usedMessages[j]]
      /\ usedBytes' = [j \in Identities |-> IF j \in T
                         THEN Reduced(usedBytes[j], freed) ELSE usedBytes[j]]
  BY DEF SweepApply, Swept
<1>2. PICK i \in Named :
        /\ job[w].target = {i} /\ (D # {} => lock[i] = NoOne)
        /\ D \subseteq MailOf(i)
        /\ \A j \in Identities \ {i} : MailOf(j)' = MailOf(j)
        /\ n \in Nat
        /\ Cardinality(MailOf(i)') = Cardinality(MailOf(i)) - n
  BY SweepDeletes
<1>3. i \notin Random
  BY KindsAssumption
<1>4. n > 0 => lock[i] = NoOne
  BY <1>2, FS_EmptySet
<1>5. T \subseteq {i} /\ (T = {} => n = 0) /\ (T # {} => i \in T)
  BY <1>2
<1> HIDE DEF n, T, D, freed
<1>6. \A k : \A u \in Nat : Reduced(u, k) \in Nat /\ Reduced(u, k) <= u
  BY DEF Reduced
<1>7. ASSUME NEW j \in Identities
      PROVE  /\ usedMessages'[j] <= usedMessages[j] /\ usedBytes'[j] <= usedBytes[j]
             /\ usedMessages'[j] \in Nat /\ usedBytes'[j] \in Nat
  BY <1>0, <1>1, <1>6
<1>8. UsageWithinQuota'
  BY <1>0, <1>7, QuotaAssumption DEF ChargesInv, UsageWithinQuota
<1>9. ASSUME NEW t \in Sessions, NEW k \in DOMAIN session[t].seqs
      PROVE  session[t].rcpts[k] \in Identities \ T
  <2>1. k \in DOMAIN session[t].rcpts /\ session[t].rcpts[k] \in Identities
    BY <1>0 DEF LocksHeld, SessionState
  <2>2. lock[session[t].rcpts[k]] = t /\ t # NoOne
    BY NoOneAssumption DEF LocksHeld
  <2>3. T # {} => lock[i] = NoOne
    BY <1>4 DEF T
  <2> QED
    BY <1>5, <2>1, <2>2, <2>3
<1>10. QuotaReserved'
  <2> SUFFICES ASSUME NEW t \in Sessions, NEW k \in DOMAIN session[t].seqs
               PROVE  LET j == session[t].rcpts[k]
                      IN  /\ ~(usedMessages'[j] + 1 > QuotaMessages)
                          /\ ~(usedBytes'[j] + session[t].size > QuotaBytes)
    BY DEF QuotaReserved, QuotaExceeded
  <2> DEFINE j == session[t].rcpts[k]
  <2>1. j \in Identities \ T /\ ~QuotaExceeded(j, session[t].size)
    BY <1>9 DEF ChargesInv, QuotaReserved
  <2>2. usedMessages'[j] = usedMessages[j] /\ usedBytes'[j] = usedBytes[j]
    BY <1>1, <2>1
  <2> QED
    BY <2>1, <2>2 DEF QuotaExceeded
<1>11. ASSUME NEW j \in Random
       PROVE  /\ MailOf(j)' = MailOf(j) /\ usedMessages'[j] = usedMessages[j]
              /\ usedBytes'[j] = usedBytes[j]
  BY <1>1, <1>2, <1>3, <1>5
<1>12. ASSUME NEW j \in Named PROVE Cardinality(MailOf(j)') = usedMessages'[j]
  <2>1. Cardinality(MailOf(j)) = usedMessages[j] /\ usedMessages[j] \in Nat
    BY <1>0 DEF ChargesInv, MessagesCharged
  <2>2. CASE j # i
    BY <1>0, <1>1, <1>2, <1>5, <2>1, <2>2
  <2>3. CASE j = i /\ T = {}
    BY <1>0, <1>1, <1>2, <1>5, <2>1, <2>3
  <2>4. CASE j = i /\ T # {}
    <3>1. usedMessages'[i] = Reduced(usedMessages[i], n)
      BY <1>1, <1>5, <2>4
    <3>2. IsFiniteSet(MailOf(i)) /\ D \in SUBSET MailOf(i)
      BY <1>2, HoldingsFinite
    <3>3. n <= Cardinality(MailOf(i))
      BY <3>2, FS_Subset DEF n
    <3> QED
      BY <1>2, <2>1, <2>4, <3>1, <3>3 DEF Reduced
  <2> QED
    BY <2>2, <2>3, <2>4
<1>13. MessagesCharged' /\ BytesCharged'
  <2>1. \A j \in Random : /\ Cardinality(MailOf(j)') <= usedMessages'[j]
                          /\ TotalSize(MailOf(j)') <= usedBytes'[j]
    BY <1>11 DEF ChargesInv, MessagesCharged, BytesCharged
  <2> QED
    BY <1>12, <2>1 DEF MessagesCharged, BytesCharged
<1> QED
  BY <1>8, <1>10, <1>13 DEF ChargesInv

(***************************************************************************)
(* Every step of every process keeps usage within the quota and the mail   *)
(* within what was charged.                                                *)
(***************************************************************************)
LEMMA ChargesKept ==
  ASSUME HistoryInv, HistoryInv', ChargesInv, [Next]_vars
  PROVE  ChargesInv'
<1>0. /\ TypeOK /\ FiniteRows /\ LocksHeld /\ NumbersReserved /\ NumbersUnique
      /\ JobsAimed /\ QuotaReserved /\ NumbersUnique'
  BY DEF HistoryInv, IInv, ChargesInv
<1>1. ASSUME NEW s \in Sessions, IngestStep(s) PROVE ChargesInv'
  <2>1. UNCHANGED <<usedMessages, usedBytes, deliveries>>
    BY <1>1 DEF IngestStep, Rcpt, Reset, StoreBody, LockRecipient, Refuse,
           DeadlockAbort, CommitFails, Rollback, rowVars, identityVars
  <2> QED
    BY <1>0, <1>1, <2>1, IngestReservesQuota, UntouchedHoldings, ChargesStutter
<1>2. ASSUME NEW s \in Sessions, Commit(s) PROVE ChargesInv'
  BY <1>0, <1>2, CommitCharges
<1>3. CASE UNCHANGED <<session, usedMessages, usedBytes, deliveries>>
  BY <1>0, <1>3, ReservedQuotaStutter, UntouchedHoldings, ChargesStutter
<1>4. CASE Rewritten /\ UNCHANGED <<session, usedMessages, usedBytes>>
  BY <1>0, <1>4, ReservedQuotaStutter, RewrittenHoldings, ChargesStutter
<1>5. CASE AccountsStep /\ UNCHANGED OthersOfAccounts
  BY <1>3, <1>5 DEF AccountsStep, AllocateRandom, OpenNamed, CreateIdentity,
     DestroyIdentity, RecordDestroyed, LoseDestroyed, identityVars, OthersOfAccounts
<1>6. CASE LifecycleStep /\ UNCHANGED OthersOfLifecycle
  <2>0. UNCHANGED session
    BY <1>6 DEF OthersOfLifecycle
  <2>1. ASSUME NEW d \in deliveries, Age(d) PROVE ChargesInv'
    BY <1>0, <1>4, <2>0, <2>1, AgeRewrites DEF Age, identityVars
  <2>2. ASSUME NEW w \in Workers, PurgeApply(w) PROVE ChargesInv'
    BY <1>0, <2>0, <2>2, PurgeCharges
  <2>3. ASSUME NEW w \in Workers, SweepApply(w) PROVE ChargesInv'
    BY <1>0, <2>0, <2>3, SweepCharges
  <2>4. Notice \/ Expire => UNCHANGED <<usedMessages, usedBytes, deliveries>>
    BY DEF Notice, Expire, MoveState
  <2> QED
    BY <1>3, <1>6, <2>0, <2>1, <2>2, <2>3, <2>4, LifecycleMoves DEF identityVars
<1>7. ASSUME NEW p \in Parsers, ParseStep(p), UNCHANGED OthersOfParse
      PROVE  ChargesInv'
  <2>1. UNCHANGED <<session, usedMessages, usedBytes>>
    BY <1>7 DEF OthersOfParse, ParseStep, ParseProgress, Load, NothingToParse,
         LoadFails, LookupFails, Locate, GiveUp, ReadBytes, BytesMissing, PutAttachment,
         AcquireAttachment, Unparseable, StoreAttachmentFails, StoreResults,
         DeliveryGone, JobDone, ParserDies, rowVars, identityVars
  <2>2. CASE MarkFailed(p)
    BY <1>0, <1>4, <2>1, <2>2, MarkFailedRewrites
  <2>3. CASE StoreResults(p)
    BY <1>0, <1>4, <2>1, <2>3, StoreRewrites
  <2>4. CASE UNCHANGED deliveries
    BY <1>3, <2>1, <2>4
  <2> QED
    BY <1>7, <2>2, <2>3, <2>4 DEF ParseStep, ParseProgress, Load, NothingToParse,
       LoadFails, LookupFails, Locate, GiveUp, ReadBytes, BytesMissing, PutAttachment,
       AcquireAttachment, Unparseable, StoreAttachmentFails, DeliveryGone, JobDone,
       ParserDies, rowVars, identityVars
<1>8. CASE UNCHANGED vars
  BY <1>3, <1>8 DEF vars, rowVars, identityVars
<1> QED
  BY <1>1, <1>2, <1>5, <1>6, <1>7, <1>8 DEF Next, CommitMessage

(***************************************************************************)
(* The quota invariant holds in every reachable state, for any number of   *)
(* workers.                                                                *)
(***************************************************************************)
THEOREM ChargesHold == Spec => []QuotaInv
<1>1. Init => ChargesInv
  <2> SUFFICES ASSUME Init PROVE ChargesInv
    OBVIOUS
  <2>1. \A i : MailOf(i) = {} /\ BytesOf(MailOf(i)) = {}
    BY DEF Init, RowsInit, MailOf, BytesOf
  <2>2. \A i : Cardinality(MailOf(i)) = 0 /\ TotalSize(MailOf(i)) = 0
    BY <2>1, FS_EmptySet DEF TotalSize
  <2> QED
    BY <2>2, QuotaAssumption DEF Init, RowsInit, IngestInit, IdleSession, ChargesInv,
       QuotaReserved, UsageWithinQuota, MessagesCharged, BytesCharged
<1>2. HistoryInv /\ HistoryInv' /\ ChargesInv /\ [Next]_vars => ChargesInv'
  BY ChargesKept
<1>3. QuotaInv <=> HistoryInv /\ ChargesInv
  BY DEF QuotaInv
<1> QED
  BY <1>1, <1>2, <1>3, HistoryHolds, PTL DEF Spec

(***************************************************************************)
(* No inbox ever holds more messages than its quota, and no random         *)
(* identity more bytes, however many sessions checked the quota at RCPT TO *)
(* before any of them committed and however many jobs run.                 *)
(***************************************************************************)
THEOREM MessageQuotaHolds ==
  Spec => [](/\ \A i \in Identities : Cardinality(MailOf(i)) <= QuotaMessages
             /\ \A i \in Random : TotalSize(MailOf(i)) <= QuotaBytes)
<1>1. QuotaInv => /\ \A i \in Identities : Cardinality(MailOf(i)) <= QuotaMessages
                  /\ \A i \in Random : TotalSize(MailOf(i)) <= QuotaBytes
  <2> SUFFICES ASSUME QuotaInv
               PROVE  /\ \A i \in Identities : Cardinality(MailOf(i)) <= QuotaMessages
                      /\ \A i \in Random : TotalSize(MailOf(i)) <= QuotaBytes
    OBVIOUS
  <2>1. TypeOK /\ FiniteRows /\ NumbersUnique
    BY DEF QuotaInv, HistoryInv, IInv
  <2>2. \A i \in Identities : Cardinality(MailOf(i)) \in Nat /\ TotalSize(MailOf(i)) \in Nat
    BY <2>1, HoldingsFinite
  <2>3. usedMessages \in [Identities -> Nat] /\ usedBytes \in [Identities -> Nat]
    BY <2>1 DEF TypeOK, RowsTypeOK
  <2> QED
    BY <2>2, <2>3, QuotaAssumption
       DEF QuotaInv, ChargesInv, UsageWithinQuota, MessagesCharged, BytesCharged
<1> QED
  BY ChargesHold, <1>1, PTL

-----------------------------------------------------------------------------
(* What a job has read, while no other works on the same identity.         *)

\* ReferencesAimed and ListStillThere, of one job.
RefsAimed(j) ==
  /\ j.pc \notin {"purging", "sweeping"} => j.refs = {}
  /\ j.pc = "purging"  => \A r \in j.refs : r.identity \in j.target
  /\ j.pc = "sweeping" => \A r \in j.refs : Key(r) \in Keys(j.list)
  /\ \A q, r \in j.refs : RowId(q) = RowId(r) => q = r

ListThere(j) ==
  j.pc \in {"sweep", "sweeping"} =>
    /\ \A d, e \in j.list : Key(d) = Key(e) => d = e
    /\ \A d \in j.list : \E e \in deliveries : Key(e) = Key(d) /\ e.size = d.size

NewlyRead(j) ==
  RefsAimed(j) /\ ListThere(j) /\ j.refs \subseteq deliveries \cup attachments

(***************************************************************************)
(* A row is known by its key, its blob and its kind.                       *)
(***************************************************************************)
LEMMA RowsKnown ==
  ASSUME TypeOK, NumbersUnique, NEW q \in deliveries \cup attachments,
         NEW r \in deliveries \cup attachments, RowId(q) = RowId(r)
  PROVE  q = r
<1>1. Key(q) = Key(r) /\ q.blob = r.blob /\ (q \in Attachment <=> r \in Attachment)
  BY DEF RowId
<1>2. CASE q \in Attachment
  BY <1>1, <1>2 DEF Attachment, Key
<1>3. CASE q \notin Attachment
  BY <1>1, <1>3 DEF NumbersUnique, TypeOK, RowsTypeOK
<1> QED
  BY <1>2, <1>3

NothingRead(j) == j.refs = {} /\ j.pc \notin {"purging", "sweep", "sweeping"}

(***************************************************************************)
(* A job between two transactions has read nothing.                        *)
(***************************************************************************)
LEMMA ReadBetween ==
  ASSUME NEW todo
  PROVE  /\ NothingRead(NoJob) /\ NothingRead(NextCandidate(todo))
         /\ \A blobs : NothingRead(ThenCollect(todo, blobs))
<1>1. NothingRead(NoJob)
  BY DEF NothingRead, NoJob
<1>2. NothingRead([NoJob EXCEPT !.pc = "purge", !.todo = todo])
  BY DEF NothingRead, NoJob
<1>3. \A blobs : NothingRead([NoJob EXCEPT !.pc = "collect", !.todo = todo, !.gone = blobs])
  BY DEF NothingRead, NoJob
<1> QED
  BY <1>1, <1>2, <1>3 DEF NextCandidate, ThenCollect

(***************************************************************************)
(* Every step of a job leaves it with what it has just read in the rows,   *)
(* or with nothing.                                                        *)
(***************************************************************************)
LEMMA JobsRead ==
  ASSUME TypeOK, NumbersUnique, ReferencesAimed, ListStillThere, NEW w \in Workers,
         PurgeJob(w) \/ SweepJob(w) \/ CollectJob(w) \/ JobDies(w)
  PROVE  \E j : job' = [job EXCEPT ![w] = j] /\ NewlyRead(j)
<1> DEFINE Goal == \E j : job' = [job EXCEPT ![w] = j] /\ NewlyRead(j)
<1>0. job \in [Workers -> JobState] /\ job[w] \in JobState
  BY DEF TypeOK, LifecycleTypeOK
<1>1. RefsAimed(job[w]) /\ ListThere(job[w])
  BY DEF ReferencesAimed, ListStillThere, RefsAimed, ListThere
<1>2. \A refs : refs \subseteq deliveries \cup attachments =>
        \A q, r \in refs : RowId(q) = RowId(r) => q = r
  BY RowsKnown
<1> \A j : NothingRead(j) => NewlyRead(j)
  BY DEF NothingRead, NewlyRead, RefsAimed, ListThere
<1>3. CASE PurgeList(w)
  BY <1>3, ReadBetween DEF PurgeList
<1>4. ASSUME NEW i \in Random, PurgeRead(w, i) PROVE Goal
  <2> DEFINE j == [job[w] EXCEPT !.pc = "purging", !.todo = @ \ {i},
                                 !.target = {i}, !.refs = IdentityReferences(i)]
  <2>1. job' = [job EXCEPT ![w] = j]
    BY <1>0, <1>4 DEF PurgeRead, JobState
  <2>2. j.pc = "purging" /\ j.refs = IdentityReferences(i) /\ j.target = {i}
    BY <1>0 DEF JobState
  <2>3. /\ IdentityReferences(i) \subseteq deliveries \cup attachments
        /\ \A r \in IdentityReferences(i) : r.identity = i
    BY DEF IdentityReferences
  <2> HIDE DEF j
  <2>4. NewlyRead(j)
    BY <1>2, <2>2, <2>3 DEF NewlyRead, RefsAimed, ListThere
  <2> QED
    BY <2>1, <2>4
<1>5. CASE PurgeApply(w) \/ PurgeConflict(w)
  BY <1>5, ReadBetween DEF PurgeApply, PurgeConflict
<1>6. CASE SweepList(w)
  <2>1. PICK i \in Named :
          job' = [job EXCEPT ![w].pc = "sweep", ![w].target = {i},
                             ![w].list = ExpiredDeliveries(i)]
    BY <1>6 DEF SweepList
  <2> DEFINE j == [job[w] EXCEPT !.pc = "sweep", !.target = {i},
                                 !.list = ExpiredDeliveries(i)]
  <2>2. job' = [job EXCEPT ![w] = j]
    BY <1>0, <2>1 DEF JobState
  <2>3. j.pc = "sweep" /\ j.refs = {} /\ j.list = ExpiredDeliveries(i)
    BY <1>0, <1>1, <1>6 DEF JobState, SweepList, RefsAimed
  <2>4. ExpiredDeliveries(i) \subseteq deliveries
    BY DEF ExpiredDeliveries
  <2> HIDE DEF j
  <2>5. NewlyRead(j)
    BY <2>3, <2>4 DEF NewlyRead, RefsAimed, ListThere, NumbersUnique
  <2> QED
    BY <2>2, <2>5
<1>7. CASE SweepRead(w)
  <2> DEFINE j == [job[w] EXCEPT !.pc = "sweeping",
                                 !.refs = ReferencesOf(Keys(job[w].list))]
  <2>1. job' = [job EXCEPT ![w] = j]
    BY <1>0, <1>7 DEF SweepRead, JobState
  <2>2. /\ j.pc = "sweeping" /\ j.refs = ReferencesOf(Keys(job[w].list))
        /\ j.list = job[w].list
    BY <1>0 DEF JobState
  <2>3. /\ ReferencesOf(Keys(job[w].list)) \subseteq deliveries \cup attachments
        /\ \A r \in ReferencesOf(Keys(job[w].list)) : Key(r) \in Keys(job[w].list)
    BY DEF ReferencesOf
  <2>4. job[w].pc = "sweep"
    BY <1>7 DEF SweepRead
  <2> HIDE DEF j
  <2>5. RefsAimed(j) /\ j.refs \subseteq deliveries \cup attachments
    BY <1>2, <2>2, <2>3 DEF RefsAimed
  <2>6. ListThere(j)
    BY <1>1, <2>2, <2>4 DEF ListThere
  <2> QED
    BY <2>1, <2>5, <2>6 DEF NewlyRead
<1>8. CASE SweepApply(w)
  BY <1>8, ReadBetween DEF SweepApply
<1>9. CASE CollectList(w) \/ DeleteBytes(w) \/ JobDies(w)
  BY <1>9, ReadBetween DEF CollectList, DeleteBytes, JobDies
<1>10. ASSUME NEW b \in Blobs, ClaimOrphanBlob(w, b) PROVE Goal
  <2> DEFINE j == [job[w] EXCEPT !.claimed = b]
  <2>1. job' = [job EXCEPT ![w] = j]
    BY <1>0, <1>10 DEF ClaimOrphanBlob, JobState
  <2>2. j.pc = "collect" /\ j.refs = {}
    BY <1>0, <1>1, <1>10 DEF JobState, ClaimOrphanBlob, Unclaimed, RefsAimed
  <2> HIDE DEF j
  <2>3. NewlyRead(j)
    BY <2>2 DEF NewlyRead, RefsAimed, ListThere
  <2> QED
    BY <2>1, <2>3
<1>11. ASSUME NEW b \in Blobs, Skip(w, b) PROVE Goal
  BY <1>11, ReadBetween DEF Skip
<1> QED
  BY <1>3, <1>4, <1>5, <1>6, <1>7, <1>8, <1>9, <1>10, <1>11
     DEF PurgeJob, SweepJob, CollectJob

(***************************************************************************)
(* Reading rows that stay as they are.                                     *)
(***************************************************************************)
LEMMA ReadsKept ==
  ASSUME TypeOK, ReferencesAimed, ListStillThere, NEW w \in Workers, NEW j,
         NewlyRead(j), job' = [job EXCEPT ![w] = j],
         UNCHANGED <<deliveries, attachments>>
  PROVE  /\ ReferencesAimed' /\ ListStillThere'
         /\ JobRefs' \subseteq JobRefs \cup deliveries \cup attachments
<1>1. job \in [Workers -> JobState]
  BY DEF TypeOK, LifecycleTypeOK
<1>2. \A v \in Workers : job'[v] = job[v] \/ job'[v] = j
  BY <1>1
<1>3. \A v \in Workers : RefsAimed(job'[v]) /\ ListThere(job'[v])
  BY <1>2 DEF NewlyRead, ReferencesAimed, ListStillThere, RefsAimed, ListThere
<1>4. JobRefs' \subseteq JobRefs \cup deliveries \cup attachments
  BY <1>2 DEF JobRefs, NewlyRead
<1>5. ReferencesAimed'
  BY <1>3 DEF ReferencesAimed, RefsAimed
<1>6. ListStillThere'
  BY <1>3 DEF ListStillThere, ListThere
<1> QED
  BY <1>4, <1>5, <1>6

(***************************************************************************)
(* What a job has read is about the identity it works on.                  *)
(***************************************************************************)
LEMMA ReadOfTarget ==
  ASSUME JobsAimed, ReferencesAimed, NEW w \in Workers, NEW r \in job[w].refs
  PROVE  r.identity \in job[w].target
<1>1. CASE job[w].pc = "purging"
  BY <1>1 DEF ReferencesAimed
<1>2. CASE job[w].pc = "sweeping"
  <2>1. PICK d \in job[w].list : Key(d) = Key(r)
    BY <1>2 DEF ReferencesAimed, Keys
  <2>2. PICK i \in Named : job[w].target = {i} /\ d.identity = i
    BY <1>2 DEF JobsAimed
  <2> QED
    BY <2>1, <2>2 DEF Key
<1> QED
  BY <1>1, <1>2 DEF ReferencesAimed

(***************************************************************************)
(* A job is between two transactions: it has deleted mail of the identity  *)
(* it worked on, which no other job works on.                              *)
(***************************************************************************)
LEMMA ReadsSettled ==
  ASSUME TypeOK, JobsAimed, TargetsApart, ReferencesAimed, ListStillThere,
         NEW w \in Workers, NEW j, NothingRead(j), job' = [job EXCEPT ![w] = j],
         NEW i, job[w].target = {i},
         \A d \in deliveries : d.identity # i => d \in deliveries'
  PROVE  /\ ReferencesAimed' /\ ListStillThere' /\ JobRefs' \subseteq JobRefs
         /\ \A r \in JobRefs' : r.identity # i
<1>1. job'[w] = j /\ \A v \in Workers \ {w} : job'[v] = job[v]
  BY DEF TypeOK, LifecycleTypeOK
<1>2. j.refs = {} /\ j.pc \notin {"purging", "sweep", "sweeping"}
  BY DEF NothingRead
<1>3. \A v \in Workers \ {w} : i \notin job[v].target
  BY DEF TargetsApart
<1>4. ReferencesAimed'
  BY <1>1, <1>2 DEF ReferencesAimed
<1>5. ASSUME NEW v \in Workers, job'[v].pc \in {"sweep", "sweeping"},
             NEW d \in job'[v].list
      PROVE  \E e \in deliveries' : Key(e) = Key(d) /\ e.size = d.size
  <2>1. v # w /\ job'[v] = job[v]
    BY <1>1, <1>2, <1>5
  <2>2. d.identity # i
    BY <1>3, <1>5, <2>1 DEF JobsAimed
  <2>3. PICK e \in deliveries : Key(e) = Key(d) /\ e.size = d.size
    BY <1>5, <2>1 DEF ListStillThere
  <2> QED
    BY <2>2, <2>3 DEF Key
<1>6. \A v \in Workers : job'[v].pc \in {"sweep", "sweeping"} =>
         \A d, e \in job'[v].list : Key(d) = Key(e) => d = e
  BY <1>1, <1>2 DEF ListStillThere
<1>7. ListStillThere'
  BY <1>5, <1>6 DEF ListStillThere
<1>8. ASSUME NEW v \in Workers, NEW r \in job'[v].refs
      PROVE  r \in JobRefs /\ r.identity # i
  <2>1. v # w /\ job'[v] = job[v]
    BY <1>1, <1>2, <1>8
  <2>2. r \in JobRefs
    BY <1>8, <2>1 DEF JobRefs
  <2>3. r.identity \in job[v].target
    BY <1>8, <2>1, ReadOfTarget
  <2> QED
    BY <1>3, <2>1, <2>2, <2>3
<1>9. JobRefs' = UNION {job'[v].refs : v \in Workers}
  BY DEF JobRefs
<1> QED
  BY <1>4, <1>7, <1>8, <1>9

(***************************************************************************)
(* Messages that stay, with their sizes, stay for the sweep that listed    *)
(* them.                                                                   *)
(***************************************************************************)
LEMMA ListKept ==
  ASSUME ReferencesAimed, ListStillThere, UNCHANGED job,
         \A d \in deliveries : \E e \in deliveries' : Key(e) = Key(d) /\ e.size = d.size
  PROVE  ReferencesAimed' /\ ListStillThere' /\ JobRefs' = JobRefs
<1>1. ReferencesAimed' /\ JobRefs' = JobRefs
  BY DEF ReferencesAimed, JobRefs
<1>2. ASSUME NEW w \in Workers, job[w].pc \in {"sweep", "sweeping"},
             NEW d \in job[w].list
      PROVE  \E e \in deliveries' : Key(e) = Key(d) /\ e.size = d.size
  <2>1. PICK c \in deliveries : Key(c) = Key(d) /\ c.size = d.size
    BY <1>2 DEF ListStillThere
  <2> QED
    BY <2>1
<1>3. ListStillThere'
  BY <1>2 DEF ListStillThere
<1> QED
  BY <1>1, <1>3

-----------------------------------------------------------------------------
(* What a reference count has to cover.                                    *)

(***************************************************************************)
(* Finitely many references are owed, and names of rows are no more than   *)
(* the rows.                                                               *)
(***************************************************************************)
LEMMA NamesFinite ==
  ASSUME NEW refs, IsFiniteSet(refs)
  PROVE  /\ IsFiniteSet(RowIds(refs))
         /\ Cardinality(RowIds(refs)) <= Cardinality(refs)
         /\ (\A q, r \in refs : RowId(q) = RowId(r) => q = r) =>
               Cardinality(RowIds(refs)) = Cardinality(refs)
<1> DEFINE f == [r \in refs |-> RowId(r)]
<1>1. f \in Surjection(refs, RowIds(refs))
  BY DEF Surjection, RowIds
<1>2. (\A q, r \in refs : RowId(q) = RowId(r) => q = r) => f \in Injection(refs, RowIds(refs))
  BY DEF Injection, IsInjective, RowIds
<1> HIDE DEF f
<1> QED
  BY <1>1, <1>2, FS_Surjection

(* Finitely many references to a blob are still to be given up.            *)
LEMMA OwedFinite ==
  ASSUME FiniteRows, FiniteJobs, NEW b
  PROVE  IsFiniteSet(Owed(b)) /\ Cardinality(Owed(b)) \in Nat
<1>1. IsFiniteSet(JobRefs)
  <2> DEFINE read == {job[w].refs : w \in Workers}
             f == [w \in Workers |-> job[w].refs]
  <2>1. f \in Surjection(Workers, read)
    BY DEF Surjection
  <2>2. \A refs \in read : IsFiniteSet(refs)
    BY DEF FiniteJobs
  <2>3. JobRefs = UNION read
    BY DEF JobRefs
  <2> HIDE DEF f, read
  <2> QED
    BY <2>1, <2>2, <2>3, WorkersAssumption, FS_Surjection, FS_UNION
<1> DEFINE rows == deliveries \cup attachments \cup JobRefs
           refs == {r \in rows : r.blob = b}
<1>2. IsFiniteSet(deliveries \cup attachments)
  BY FS_Union DEF FiniteRows
<1>3. IsFiniteSet(rows)
  BY <1>1, <1>2, FS_Union
<1>4. refs \in SUBSET rows
  OBVIOUS
<1> HIDE DEF refs, rows
<1>5. IsFiniteSet(refs)
  BY <1>3, <1>4, FS_Subset
<1>6. Owed(b) = RowIds(refs)
  BY DEF Owed, refs, rows
<1> QED
  BY <1>5, <1>6, NamesFinite, FS_CardinalityType

\* The counts are those of before, of rows that owe no more than before.
OwesNoMore ==
  \A b \in blobRows' :
    b \in blobRows /\ refcount'[b] = refcount[b] /\ Owed(b)' \subseteq Owed(b)

(***************************************************************************)
(* Owing less keeps the counts covered.                                    *)
(***************************************************************************)
LEMMA OwedLess ==
  ASSUME TypeOK, FiniteRows, FiniteJobs, OwedCovered, OwesNoMore
  PROVE  OwedCovered'
<1> SUFFICES ASSUME NEW b \in blobRows' PROVE Cardinality(Owed(b)') <= refcount'[b]
  BY DEF OwedCovered
<1>1. b \in blobRows /\ refcount'[b] = refcount[b]
  BY DEF OwesNoMore
<1>2. refcount[b] \in Nat
  BY <1>1 DEF TypeOK, RowsTypeOK
<1> DEFINE O == Owed(b)
           P == Owed(b)'
<1>3. IsFiniteSet(O) /\ Cardinality(O) \in Nat /\ Cardinality(O) <= refcount[b]
  BY <1>1, OwedFinite DEF OwedCovered
<1>4. P \in SUBSET O
  BY DEF OwesNoMore
<1> HIDE DEF O, P
<1>5. IsFiniteSet(P) /\ Cardinality(P) <= Cardinality(O)
  BY <1>3, <1>4, FS_Subset
<1>6. Cardinality(P) \in Nat
  BY <1>5, FS_CardinalityType
<1> QED
  BY <1>1, <1>2, <1>3, <1>5, <1>6 DEF P

(***************************************************************************)
(* What a job reads from rows that stay is owed already.                   *)
(***************************************************************************)
LEMMA ReadingOwesNoMore ==
  ASSUME UNCHANGED <<deliveries, attachments, refcount>>, blobRows' \subseteq blobRows,
         JobRefs' \subseteq JobRefs \cup deliveries \cup attachments
  PROVE  OwesNoMore
BY DEF OwesNoMore, Owed, RowIds, RowId

(***************************************************************************)
(* A delivery has fields that no attachment has, so RowId tells the rows   *)
(* of the two tables apart.                                                *)
(***************************************************************************)
LEMMA KindsOfRows == \A d \in Delivery : d \notin Attachment
BY DEF Delivery, Attachment

(***************************************************************************)
(* A rewritten row owes what it owed.                                      *)
(***************************************************************************)
LEMMA RewritingOwesNoMore ==
  ASSUME TypeOK, Rewritten, JobRefs' = JobRefs, NEW b,
         \A a \in attachments' : a.blob = b => a \in attachments
  PROVE  Owed(b)' \subseteq Owed(b)
<1>1. PICK g \in [deliveries -> Delivery] :
        /\ deliveries' = {g[d] : d \in deliveries}
        /\ \A d \in deliveries :
             Key(g[d]) = Key(d) /\ g[d].blob = d.blob /\ g[d].size = d.size
  BY DEF Rewritten
<1>2. \A d \in deliveries : RowId(g[d]) = RowId(d) /\ g[d].blob = d.blob
  BY <1>1, KindsOfRows DEF RowId, TypeOK, RowsTypeOK
<1>3. \A r \in deliveries' \cup attachments' \cup JobRefs' : r.blob = b =>
        \E q \in deliveries \cup attachments \cup JobRefs :
          q.blob = b /\ RowId(q) = RowId(r)
  BY <1>1, <1>2
<1>4. Owed(b)' = {RowId(r) : r \in {q \in deliveries' \cup attachments' \cup JobRefs' : q.blob = b}}
  BY DEF Owed, RowIds, RowId, Key
<1>5. Owed(b) = {RowId(r) : r \in {q \in deliveries \cup attachments \cup JobRefs : q.blob = b}}
  BY DEF Owed, RowIds
<1> QED
  BY <1>3, <1>4, <1>5

(***************************************************************************)
(* A transaction that releases references it read, each once, to rows that *)
(* it deletes: what remains owed no longer names them.                     *)
(***************************************************************************)
LEMMA ReleaseCovers ==
  ASSUME TypeOK, FiniteRows, FiniteJobs, ReferencesAimed, OwedCovered,
         NEW w \in Workers, NEW refs \in SUBSET job[w].refs, JobRefs' \subseteq JobRefs,
         refcount' = Released(refs), UNCHANGED blobRows,
         deliveries' \subseteq deliveries, attachments' \subseteq attachments,
         \A r \in deliveries' \cup attachments' \cup JobRefs' : Key(r) \notin Keys(refs)
  PROVE  OwedCovered'
<1> SUFFICES ASSUME NEW b \in blobRows PROVE Cardinality(Owed(b)') <= refcount'[b]
  BY DEF OwedCovered
<1>0. b \in Blobs /\ refcount[b] \in Nat
  BY DEF TypeOK, RowsTypeOK
<1> DEFINE mine == {r \in refs : r.blob = b}
           O == Owed(b)
           P == Owed(b)'
           M == RowIds(mine)
<1>1. refcount'[b] = IF refcount[b] > Cardinality(mine)
                     THEN refcount[b] - Cardinality(mine) ELSE 0
  BY <1>0 DEF Released
<1>2. IsFiniteSet(mine)
  <2>1. mine \in SUBSET job[w].refs /\ IsFiniteSet(job[w].refs)
    BY DEF FiniteJobs
  <2> HIDE DEF mine
  <2> QED
    BY <2>1, FS_Subset
<1>3. IsFiniteSet(O) /\ Cardinality(O) \in Nat /\ Cardinality(O) <= refcount[b]
  BY OwedFinite DEF OwedCovered
<1>4. Cardinality(M) = Cardinality(mine) /\ Cardinality(mine) \in Nat
  <2>1. \A q, r \in mine : RowId(q) = RowId(r) => q = r
    BY DEF ReferencesAimed
  <2> HIDE DEF mine
  <2> QED
    BY <1>2, <2>1, NamesFinite, FS_CardinalityType
<1>5. M \subseteq O
  BY DEF Owed, RowIds, JobRefs
<1>6. P \subseteq O
  BY DEF Owed, RowIds, RowId
<1>7. P \cap M = {}
  BY DEF Owed, RowIds, RowId, Keys
<1> HIDE DEF M, O, P, mine
<1>8. P \in SUBSET (O \ M) /\ M \in SUBSET O /\ O \cap M = M
  BY <1>5, <1>6, <1>7
<1>9. IsFiniteSet(O \ M) /\ Cardinality(O \ M) = Cardinality(O) - Cardinality(M)
  BY <1>3, <1>8, FS_Difference
<1>10. IsFiniteSet(P) /\ Cardinality(P) <= Cardinality(O \ M)
  BY <1>8, <1>9, FS_Subset
<1>11. Cardinality(P) \in Nat
  BY <1>10, FS_CardinalityType
<1>12. Cardinality(P) + Cardinality(mine) <= refcount[b]
  BY <1>0, <1>3, <1>4, <1>9, <1>10, <1>11
<1> QED
  BY <1>0, <1>1, <1>4, <1>11, <1>12 DEF P

(***************************************************************************)
(* A commit counts one reference for each recipient of a blob nobody named.*)
(***************************************************************************)
LEMMA CommitCovers ==
  ASSUME TypeOK, FiniteRows, FiniteJobs, NumbersReserved,
         PendingIsPrivate, BodyUnnamed, OwedCovered,
         NEW s \in Sessions, Commit(s), UNCHANGED job
  PROVE  OwedCovered'
<1>0. /\ session[s] \in SessionState /\ session[s].pc = "commit"
      /\ refcount \in [Blobs -> Nat] /\ blobRows \subseteq Blobs
  BY DEF TypeOK, IngestTypeOK, RowsTypeOK, Commit
<1> PICK c \in Blobs : c = session[s].blob
  BY <1>0 DEF TypeOK, IngestTypeOK
<1> DEFINE R == Recipients(s)
           new(i) == [identity |-> i, seq |-> deliverySeq[i] + 1,
                      blob |-> session[s].blob, size |-> session[s].size,
                      status |-> "received", old |-> FALSE]
<1>1. deliveries' = deliveries \cup {new(i) : i \in R} /\ UNCHANGED attachments
  BY CommitNumbers DEF CommitWrites, Commit
<1>2. /\ blobRows' = blobRows \cup {c}
      /\ refcount' = [refcount EXCEPT ![c] = IF c \in blobRows
                        THEN @ + Cardinality(R) ELSE Cardinality(R)]
  BY DEF Commit, Acquire
<1>3. c \notin blobRows
  BY <1>0 DEF PendingIsPrivate, Pending
<1>4. JobRefs' = JobRefs
  BY DEF JobRefs
<1>5. \A i \in R : new(i).blob = c
  OBVIOUS
<1> DEFINE old == deliveries \cup attachments \cup JobRefs
           N == {new(i) : i \in R}
<1>6. \A r \in old : r.blob # c
  BY <1>0 DEF BodyUnnamed, Unnamed, JobRefs
<1>7. \A b : Owed(b)' = RowIds({r \in old \cup N : r.blob = b})
  BY <1>1, <1>4 DEF Owed, RowIds, RowId, Key
<1>8. \A b : Owed(b) = RowIds({r \in old : r.blob = b})
  BY DEF Owed
<1>9. \A r \in N : r.blob = c
  BY <1>5
<1>10. IsFiniteSet(N) /\ Cardinality(N) <= Cardinality(R)
       /\ IsFiniteSet(R) /\ Cardinality(R) \in Nat /\ Cardinality(N) \in Nat
  <2>1. IsFiniteSet(R)
    <3> DEFINE rcpts == session[s].rcpts
    <3>1. rcpts \in Seq(Identities)
      BY <1>0 DEF SessionState
    <3>2. IsFiniteSet(1..Len(rcpts)) /\ DOMAIN rcpts = 1..Len(rcpts)
      BY <3>1, FS_Interval
    <3>3. R = {rcpts[n] : n \in DOMAIN rcpts}
      BY DEF Recipients
    <3> HIDE DEF R
    <3>4. rcpts \in Surjection(DOMAIN rcpts, R)
      BY <3>1, <3>3 DEF Surjection
    <3> HIDE DEF rcpts
    <3> QED
      BY <3>2, <3>4, FS_Surjection
  <2> DEFINE f == [i \in R |-> new(i)]
  <2>2. f \in Surjection(R, N)
    BY DEF Surjection
  <2> HIDE DEF f, N, R
  <2> QED
    BY <2>1, <2>2, FS_Surjection, FS_CardinalityType
<1> HIDE DEF old, N
<1>11. CASE Cardinality(Owed(c)') <= Cardinality(R)
  <2> SUFFICES ASSUME NEW b \in blobRows' PROVE Cardinality(Owed(b)') <= refcount'[b]
    BY DEF OwedCovered
  <2>1. CASE b = c
    BY <1>0, <1>2, <1>3, <1>11, <2>1
  <2>2. CASE b # c
    <3>1. b \in blobRows /\ refcount'[b] = refcount[b]
      BY <1>0, <1>2, <2>2
    <3>2. Owed(b)' = Owed(b)
      <4>1. {r \in old \cup N : r.blob = b} = {r \in old : r.blob = b}
        BY <1>9, <2>2
      <4> QED
        BY <1>7, <1>8, <4>1
    <3> QED
      BY <3>1, <3>2 DEF OwedCovered
  <2> QED
    BY <2>1, <2>2
<1>12. {r \in old \cup N : r.blob = c} = N
  BY <1>6, <1>9 DEF old
<1>13. Owed(c)' = RowIds(N)
  BY <1>7, <1>12
<1>14. Cardinality(RowIds(N)) <= Cardinality(N) /\ Cardinality(RowIds(N)) \in Nat
  BY <1>10, NamesFinite, FS_CardinalityType
<1> HIDE DEF R
<1>15. Cardinality(Owed(c)') <= Cardinality(R)
  BY <1>10, <1>13, <1>14
<1> QED
  BY <1>11, <1>15

(***************************************************************************)
(* A parser's transactions: a row for bytes nobody names, then the rows    *)
(* that name the stored attachments, each once.                            *)
(***************************************************************************)
LEMMA ParserCovers ==
  ASSUME TypeOK, FiniteRows, FiniteJobs, NumbersUnique, StoredAttachmentsKept,
         PendingIsPrivate, OwedCovered, NEW p \in Parsers, UNCHANGED job,
         AcquireAttachment(p) \/ StoreResults(p)
  PROVE  OwedCovered'
<1>0. /\ refcount \in [Blobs -> Nat] /\ blobRows \subseteq Blobs
      /\ parser[p].put \subseteq Blobs /\ parser[p].stored \subseteq Blobs
  BY DEF TypeOK, RowsTypeOK, ParseTypeOK, ParserState
<1>1. JobRefs' = JobRefs
  BY DEF JobRefs
<1>2. \A c : Unnamed(c) => Owed(c) = {}
  BY DEF Unnamed, Owed, RowIds, JobRefs
<1>3. CASE AcquireAttachment(p)
  <2>1. PICK c \in parser[p].put : Acquire(c, 1)
    BY <1>3 DEF AcquireAttachment
  <2>2. parser[p].pc = "extracting" /\ Unnamed(c)
    BY DEF StoredAttachmentsKept
  <2>3. \A b : Owed(b)' = Owed(b)
    BY <1>1, <1>3 DEF AcquireAttachment, Owed, RowIds, RowId, Key
  <2>4. Cardinality(Owed(c)') = 0
    BY <1>2, <2>2, <2>3, FS_EmptySet
  <2>5. \A b \in blobRows' : b # c => b \in blobRows /\ refcount'[b] = refcount[b]
    BY <1>0, <2>1 DEF Acquire
  <2>6. refcount'[c] \in Nat
    BY <1>0, <2>1 DEF Acquire
  <2> QED
    BY <2>3, <2>4, <2>5, <2>6 DEF OwedCovered
<1>4. CASE StoreResults(p)
  <2>1. PICK d \in Current(p) :
          attachments' = {a \in attachments : Key(a) # Key(d)} \cup
             {[identity |-> d.identity, seq |-> d.seq, blob |-> b] :
                b \in parser[p].stored}
    BY <1>4 DEF StoreResults
  <2>2. parser[p].pc = "extracting" /\ UNCHANGED <<blobRows, refcount>>
    BY <1>4 DEF StoreResults, blobVars
  <2>3. Rewritten
    BY <1>4, StoreRewrites
  <2>4. d \in Delivery
    BY DEF Current, DeliveryAt, TypeOK, RowsTypeOK
  <2> SUFFICES ASSUME NEW b \in blobRows PROVE Cardinality(Owed(b)') <= refcount[b]
    BY <2>2 DEF OwedCovered
  <2>5. CASE b \in parser[p].stored
    <3> DEFINE a == [identity |-> d.identity, seq |-> d.seq, blob |-> b]
    <3>1. a \in Attachment
      BY <1>0, <2>4, <2>5 DEF Delivery, Attachment
    <3>2. Unnamed(b) /\ refcount[b] \in Nat /\ refcount[b] > 0
      BY <1>0, <2>2, <2>5 DEF StoredAttachmentsKept
    <3>3. \A r \in deliveries' \cup attachments' \cup JobRefs' : r.blob = b => r = a
      <4>1. \A r \in deliveries' : r.blob # b
        BY <2>3, <3>2 DEF Rewritten, Unnamed
      <4>2. \A r \in attachments' : r.blob = b => r = a
        BY <2>1, <3>2 DEF Unnamed
      <4>3. \A r \in JobRefs' : r.blob # b
        BY <1>1, <3>2 DEF Unnamed, JobRefs
      <4> QED
        BY <4>1, <4>2, <4>3
    <3> HIDE DEF a
    <3>4. Owed(b)' \subseteq {RowId(a)}
      BY <3>3 DEF Owed, RowIds, RowId, Key
    <3> DEFINE x == RowId(a)
               P == Owed(b)'
    <3>5. P \subseteq {x}
      BY <3>4
    <3> HIDE DEF x, P
    <3>6. P = {} \/ P = {x}
      BY <3>5
    <3>7. Cardinality(P) \in {0, 1}
      BY <3>6, FS_EmptySet, FS_Singleton
    <3> QED
      BY <3>2, <3>7 DEF P
  <2>6. CASE b \notin parser[p].stored
    <3>1. \A a \in attachments' : a.blob = b => a \in attachments
      BY <2>1, <2>6
    <3>2. Owed(b)' \subseteq Owed(b)
      BY <1>1, <2>3, <3>1, RewritingOwesNoMore
    <3> DEFINE O == Owed(b)
               P == Owed(b)'
    <3>3. IsFiniteSet(O) /\ Cardinality(O) \in Nat /\ Cardinality(O) <= refcount[b]
      BY OwedFinite DEF OwedCovered
    <3>4. P \in SUBSET O
      BY <3>2
    <3> HIDE DEF O, P
    <3>5. IsFiniteSet(P) /\ Cardinality(P) <= Cardinality(O)
      BY <3>3, <3>4, FS_Subset
    <3>6. Cardinality(P) \in Nat /\ refcount[b] \in Nat
      BY <1>0, <3>5, FS_CardinalityType
    <3> QED
      BY <3>3, <3>5, <3>6 DEF P
  <2> QED
    BY <2>5, <2>6
<1> QED
  BY <1>3, <1>4

-----------------------------------------------------------------------------
(* What a shared inbox is charged for.                                     *)

(***************************************************************************)
(* A list of messages that all are still there is deleted as a whole, and  *)
(* the sizes the sweep read are the sizes of what it deletes.              *)
(***************************************************************************)
LEMMA SweepTakesList ==
  ASSUME TypeOK, FiniteRows, FiniteJobs, NumbersUnique, ListStillThere,
         NEW w \in Workers, SweepApply(w)
  PROVE  TotalSize(FirstListed(job[w].list, Cardinality(Swept(w)))) = TotalSize(Swept(w))
<1> DEFINE L == job[w].list
           D == Swept(w)
           n == Cardinality(D)
<1>1. job[w].pc = "sweeping" /\ L \subseteq Delivery /\ IsFiniteSet(L)
  BY DEF SweepApply, FiniteJobs, TypeOK, LifecycleTypeOK, JobState
<1>2. /\ \A d, e \in L : Key(d) = Key(e) => d = e
      /\ \A d \in L : \E e \in deliveries : Key(e) = Key(d) /\ e.size = d.size
  BY <1>1 DEF ListStillThere
<1>3. /\ \A d \in L : \E e \in D : Key(e) = Key(d) /\ e.size = d.size
      /\ \A e \in D : \E d \in L : Key(e) = Key(d) /\ e.size = d.size
  <2>1. \A d \in L : \E e \in D : Key(e) = Key(d) /\ e.size = d.size
    BY <1>2 DEF Swept, Keys
  <2>2. \A d, e \in D : Key(d) = Key(e) => d = e
    BY DEF Swept, NumbersUnique
  <2>3. \A e \in D : \E d \in L : Key(e) = Key(d)
    BY DEF Swept, Keys
  <2> HIDE DEF D, L
  <2> QED
    BY <2>1, <2>2, <2>3
<1>4. D \in SUBSET deliveries /\ IsFiniteSet(deliveries)
  BY DEF Swept, FiniteRows
<1>5. \A d, e \in D : Key(d) = Key(e) => d = e
  BY <1>4 DEF NumbersUnique
<1> HIDE DEF L, D
<1>6. Keys(L) = Keys(D) /\ TotalSize(L) = TotalSize(D)
  BY <1>3, SameBytes
<1>7. IsFiniteSet(D)
  BY <1>4, FS_Subset
<1>8. Cardinality(L) = n
  BY <1>1, <1>2, <1>5, <1>6, <1>7, KeysCounted
<1>9. ASSUME NEW d \in L PROVE Cardinality({e \in L : e.seq < d.seq}) < n
  <2> DEFINE B == {e \in L : e.seq < d.seq}
  <2>1. B \in SUBSET L /\ d \notin B
    BY <1>1 DEF Delivery
  <2> HIDE DEF B
  <2>2. B # L
    BY <2>1
  <2>3. IsFiniteSet(B) /\ Cardinality(B) <= Cardinality(L)
        /\ (Cardinality(B) = Cardinality(L) => L = B)
    BY <1>1, <2>1, FS_Subset
  <2>4. Cardinality(B) \in Nat /\ Cardinality(L) \in Nat
    BY <1>1, <2>3, FS_CardinalityType
  <2> QED
    BY <1>8, <2>2, <2>3, <2>4 DEF B
<1>10. FirstListed(L, n) = L
  BY <1>9 DEF FirstListed
<1> QED
  BY <1>6, <1>10 DEF L, D

(***************************************************************************)
(* So a sweep refunds the bytes of what it deletes.                        *)
(***************************************************************************)
LEMMA SweepRefunds ==
  ASSUME TypeOK, FiniteRows, FiniteJobs, NumbersUnique, JobsAimed, ListStillThere,
         NamedBytesCharged, NEW w \in Workers, SweepApply(w)
  PROVE  NamedBytesCharged'
<1> DEFINE D == Swept(w)
           n == Cardinality(D)
           freed == TotalSize(FirstListed(job[w].list, n))
           T == IF n > 0 THEN job[w].target ELSE {}
<1>0. usedBytes \in [Identities -> Nat]
  BY DEF TypeOK, RowsTypeOK
<1>1. usedBytes' = [j \in Identities |-> IF j \in T
                      THEN Reduced(usedBytes[j], freed) ELSE usedBytes[j]]
  BY DEF SweepApply, Swept
<1>2. PICK i \in Named :
        /\ job[w].target = {i} /\ D \subseteq MailOf(i)
        /\ \A j \in Identities \ {i} : MailOf(j)' = MailOf(j)
        /\ n \in Nat /\ TotalSize(D) \in Nat
        /\ TotalSize(MailOf(i)') = TotalSize(MailOf(i)) - TotalSize(D)
  BY SweepDeletes
<1>3. freed = TotalSize(D)
  BY SweepTakesList
<1>4. TotalSize(D) <= TotalSize(MailOf(i)) /\ IsFiniteSet(D)
  <2>1. IsFiniteSet(MailOf(i)) /\ MailOf(i) \in SUBSET Delivery /\ D \in SUBSET MailOf(i)
    BY <1>2, HoldingsFinite
  <2> HIDE DEF D
  <2> QED
    BY <2>1, BytesSubset, FS_Subset
<1>5. n = 0 => TotalSize(D) = 0
  <2>1. n = 0 => D = {}
    BY <1>4, FS_EmptySet
  <2>2. BytesOf({}) = {} /\ Cardinality({}) = 0
    BY FS_EmptySet DEF BytesOf
  <2> QED
    BY <2>1, <2>2 DEF TotalSize
<1>6. T = IF n > 0 THEN {i} ELSE {}
  BY <1>2
<1> HIDE DEF D, n, freed, T
<1>7. ASSUME NEW j \in Named PROVE TotalSize(MailOf(j)') = usedBytes'[j]
  <2>1. TotalSize(MailOf(j)) = usedBytes[j] /\ usedBytes[j] \in Nat
    BY <1>0 DEF NamedBytesCharged
  <2>2. CASE j # i
    BY <1>1, <1>2, <1>6, <2>1, <2>2
  <2>3. CASE j = i /\ n = 0
    BY <1>1, <1>2, <1>5, <1>6, <2>1, <2>3
  <2>4. CASE j = i /\ n > 0
    <3>1. usedBytes'[i] = Reduced(usedBytes[i], TotalSize(D))
      BY <1>1, <1>3, <1>6, <2>4
    <3>2. TotalSize(D) <= usedBytes[i]
      BY <1>4, <2>1, <2>4
    <3> QED
      BY <1>2, <2>1, <2>4, <3>1, <3>2 DEF Reduced
  <2> QED
    BY <1>2, <2>2, <2>3, <2>4
<1> QED
  BY <1>7 DEF NamedBytesCharged

(***************************************************************************)
(* Steps that change no holding and charge nobody.                         *)
(***************************************************************************)
LEMMA NamedBytesStutter ==
  ASSUME NamedBytesCharged, SameHoldings, UNCHANGED usedBytes
  PROVE  NamedBytesCharged'
BY DEF NamedBytesCharged, SameHoldings

-----------------------------------------------------------------------------
(* Every step, with one worker.                                            *)

(***************************************************************************)
(* A message on its way stays unnamed while others' blobs change hands.    *)
(***************************************************************************)
LEMMA BodyStaysUnnamed ==
  ASSUME BodyUnnamed, QuietSessions,
         JobRefs' \subseteq JobRefs \cup deliveries \cup attachments,
         \A r \in deliveries' \cup attachments' :
           \/ \E q \in deliveries \cup attachments : q.blob = r.blob
           \/ \A s \in Sessions : session'[s].pc = "commit" => session'[s].blob # r.blob
  PROVE  BodyUnnamed'
<1> SUFFICES ASSUME NEW s \in Sessions, session'[s].pc = "commit"
             PROVE  /\ \A r \in deliveries' \cup attachments' : r.blob # session'[s].blob
                    /\ \A w \in Workers : \A r \in job'[w].refs : r.blob # session'[s].blob
  BY DEF BodyUnnamed, Unnamed
<1>1. session[s].pc = "commit" /\ session'[s].blob = session[s].blob
  BY DEF QuietSessions
<1>2. /\ \A r \in deliveries \cup attachments : r.blob # session[s].blob
      /\ \A r \in JobRefs : r.blob # session[s].blob
  BY <1>1 DEF BodyUnnamed, Unnamed, JobRefs
<1>3. \A r \in deliveries' \cup attachments' : r.blob # session'[s].blob
  BY <1>1, <1>2
<1>4. \A r \in JobRefs' : r.blob # session'[s].blob
  BY <1>1, <1>2
<1> QED
  BY <1>3, <1>4 DEF JobRefs

(***************************************************************************)
(* Sessions between two commits.                                           *)
(***************************************************************************)
LEMMA IngestSole ==
  ASSUME IInv, SolePart, NEW s \in Sessions, IngestStep(s), UNCHANGED job
  PROVE  SolePart'
<1>0. /\ TypeOK /\ FiniteRows /\ FiniteJobs /\ ReadableMail /\ RowsHaveBytes
      /\ ReferencesMinted /\ session \in [Sessions -> SessionState]
  BY DEF IInv, TypeOK, IngestTypeOK
<1>1. UNCHANGED <<deliveries, attachments, blobRows, refcount, usedBytes>>
  BY DEF IngestStep, Rcpt, Reset, StoreBody, LockRecipient, Refuse,
         DeadlockAbort, CommitFails, Rollback, rowVars, identityVars, blobVars
<1>2. ReferencesAimed' /\ ListStillThere' /\ JobRefs' = JobRefs
  BY <1>1, ListKept DEF SolePart
<1>3. OwedCovered'
  <2>1. OwesNoMore
    BY <1>1, <1>2, ReadingOwesNoMore
  <2> QED
    BY <1>0, <2>1, OwedLess DEF SolePart
<1>4. NamedBytesCharged'
  BY <1>1, UntouchedHoldings, NamedBytesStutter DEF SolePart
<1>5. BodyUnnamed'
  <2>1. CASE StoreBody(s)
    <3>1. PICK b \in Blobs, size \in Sizes :
            /\ b \notin minted
            /\ session' = [session EXCEPT ![s].pc = "commit", ![s].blob = b,
                                          ![s].size = size]
      BY <2>1 DEF StoreBody, PutBytes
    <3>2. Unnamed(b)
      BY <1>0, <3>1 DEF Unnamed, ReadableMail, RowsHaveBytes, ReferencesMinted, BlobsIn
    <3>3. /\ session'[s].blob = b
          /\ \A t \in Sessions : t # s => session'[t] = session[t]
      BY <1>0, <3>1 DEF SessionState
    <3>4. \A t \in Sessions : session'[t].pc = "commit" => Unnamed(session'[t].blob)
      BY <3>2, <3>3 DEF SolePart, BodyUnnamed
    <3> QED
      BY <1>1, <3>4 DEF BodyUnnamed, Unnamed
  <2>2. CASE ~StoreBody(s)
    <3>1. QuietSessions
      BY <1>0, <2>2, SessionsBetween
    <3> QED
      BY <1>1, <1>2, <3>1, BodyStaysUnnamed DEF SolePart
  <2> QED
    BY <2>1, <2>2
<1> QED
  BY <1>2, <1>3, <1>4, <1>5 DEF SolePart

(***************************************************************************)
(* A commit, which names the message of its session and of no other.       *)
(***************************************************************************)
LEMMA CommitSole ==
  ASSUME HistoryInv, SolePart, NEW s \in Sessions, Commit(s), UNCHANGED job
  PROVE  SolePart'
<1>0. /\ TypeOK /\ FiniteRows /\ FiniteJobs /\ PendingIsPrivate /\ NumbersReserved
      /\ NumbersUnique /\ session \in [Sessions -> SessionState]
  BY DEF HistoryInv, IInv, TypeOK, IngestTypeOK
<1>1. /\ session[s].pc = "commit" /\ session' = [session EXCEPT ![s] = IdleSession]
      /\ UNCHANGED attachments
  BY DEF Commit
<1>2. deliveries' = deliveries \cup
       {[identity |-> i, seq |-> deliverySeq[i] + 1, blob |-> session[s].blob,
         size |-> session[s].size, status |-> "received", old |-> FALSE] :
          i \in Recipients(s)}
  BY <1>0, CommitNumbers DEF CommitWrites
<1>3. \A d \in deliveries' : d \in deliveries \/ d.blob = session[s].blob
  BY <1>2
<1>4. ReferencesAimed' /\ ListStillThere' /\ JobRefs' = JobRefs
  <2>1. \A d \in deliveries : d \in deliveries'
    BY <1>2
  <2> QED
    BY <2>1, ListKept DEF SolePart
<1>5. OwedCovered'
  BY <1>0, CommitCovers DEF SolePart
<1>6. NamedBytesCharged'
  <2> SUFFICES ASSUME NEW i \in Named PROVE TotalSize(MailOf(i)') = usedBytes'[i]
    BY DEF NamedBytesCharged
  <2>1. TotalSize(MailOf(i)) = usedBytes[i]
    BY DEF SolePart, NamedBytesCharged
  <2> QED
    BY <1>0, <2>1, CommitHoldings
<1>7. BodyUnnamed'
  <2>1. /\ session'[s].pc = "idle" /\ \A t \in Sessions : t # s => session'[t] = session[t]
    BY <1>0, <1>1 DEF IdleSession
  <2>2. QuietSessions
    BY <2>1 DEF QuietSessions
  <2>3. \A t \in Sessions : session'[t].pc = "commit" => session'[t].blob # session[s].blob
    BY <1>0, <1>1, <2>1 DEF PendingIsPrivate
  <2> QED
    BY <1>1, <1>3, <1>4, <2>2, <2>3, BodyStaysUnnamed DEF SolePart
<1> QED
  BY <1>4, <1>5, <1>6, <1>7 DEF SolePart

(***************************************************************************)
(* Steps that touch no message and no reference, or only rewrite messages. *)
(***************************************************************************)
LEMMA StandingSole ==
  ASSUME HistoryInv, HistoryInv', SolePart, Rewritten \/ UNCHANGED deliveries,
         UNCHANGED <<session, job, attachments, blobRows, refcount, usedBytes>>
  PROVE  SolePart'
<1>0. TypeOK /\ FiniteRows /\ FiniteJobs /\ NumbersUnique /\ NumbersUnique'
  BY DEF HistoryInv, IInv
<1>1. /\ \A d \in deliveries :
           \E e \in deliveries' : Key(e) = Key(d) /\ e.size = d.size
      /\ \A e \in deliveries' : \E d \in deliveries : d.blob = e.blob
  BY DEF Rewritten
<1>2. ReferencesAimed' /\ ListStillThere' /\ JobRefs' = JobRefs
  BY <1>1, ListKept DEF SolePart
<1>3. BodyUnnamed'
  BY <1>1, <1>2, BodyStaysUnnamed DEF SolePart, QuietSessions
<1>4. SameHoldings
  BY <1>0, RewrittenHoldings, UntouchedHoldings
<1>5. NamedBytesCharged'
  BY <1>4, NamedBytesStutter DEF SolePart
<1>6. OwesNoMore
  <2>1. CASE UNCHANGED deliveries
    BY <1>2, <2>1, ReadingOwesNoMore
  <2>2. CASE Rewritten
    <3>1. \A b : Owed(b)' \subseteq Owed(b)
      BY <1>0, <1>2, <2>2, RewritingOwesNoMore
    <3> QED
      BY <3>1 DEF OwesNoMore
  <2> QED
    BY <2>1, <2>2
<1>7. OwedCovered'
  BY <1>0, <1>6, OwedLess DEF SolePart
<1> QED
  BY <1>2, <1>3, <1>5, <1>7 DEF SolePart

(***************************************************************************)
(* Steps of the worker that only read, or delete the row of a blob.        *)
(***************************************************************************)
LEMMA ReadingSole ==
  ASSUME HistoryInv, SolePart, NEW w \in Workers,
         PurgeJob(w) \/ SweepJob(w) \/ CollectJob(w) \/ JobDies(w),
         UNCHANGED <<session, deliveries, attachments, refcount, usedBytes>>,
         blobRows' \subseteq blobRows
  PROVE  SolePart'
<1>0. TypeOK /\ FiniteRows /\ FiniteJobs /\ NumbersUnique
  BY DEF HistoryInv, IInv
<1>1. PICK j : job' = [job EXCEPT ![w] = j] /\ NewlyRead(j)
  BY <1>0, JobsRead DEF SolePart
<1>2. /\ ReferencesAimed' /\ ListStillThere'
      /\ JobRefs' \subseteq JobRefs \cup deliveries \cup attachments
  BY <1>0, <1>1, ReadsKept DEF SolePart
<1>3. BodyUnnamed'
  BY <1>2, BodyStaysUnnamed DEF SolePart, QuietSessions
<1>4. OwedCovered'
  BY <1>0, <1>2, ReadingOwesNoMore, OwedLess DEF SolePart
<1>5. NamedBytesCharged'
  BY UntouchedHoldings, NamedBytesStutter DEF SolePart
<1> QED
  BY <1>2, <1>3, <1>4, <1>5 DEF SolePart

(***************************************************************************)
(* The worker's two deleting transactions.                                 *)
(***************************************************************************)
LEMMA PurgeSole ==
  ASSUME HistoryInv, TargetsApart, SolePart, NEW w \in Workers, PurgeApply(w),
         UNCHANGED session
  PROVE  SolePart'
<1>0. TypeOK /\ FiniteRows /\ FiniteJobs /\ NumbersUnique /\ JobsAimed
  BY DEF HistoryInv, IInv
<1>1. PICK i \in Random : job[w].target = {i}
  BY <1>0 DEF PurgeApply, JobsAimed
<1>2. /\ deliveries' = {d \in deliveries : d.identity # i}
      /\ attachments' = {a \in attachments : a.identity # i}
  <2> DEFINE keys == {Key(d) : d \in {e \in deliveries : e.identity \in job[w].target}}
  <2>1. /\ deliveries' = {d \in deliveries : Key(d) \notin keys}
        /\ attachments' = {a \in attachments : Key(a) \notin keys}
    BY DEF PurgeApply, DeleteDeliveries
  <2>2. \A d \in deliveries : Key(d) \in keys <=> d.identity = i
    BY <1>1 DEF Key
  <2>3. \A a \in attachments : Key(a) \in keys <=> a.identity = i
    BY <1>0, <1>1 DEF Key, NumbersUnique
  <2> QED
    BY <2>1, <2>2, <2>3
<1>3. /\ ReferencesAimed' /\ ListStillThere' /\ JobRefs' \subseteq JobRefs
      /\ \A r \in JobRefs' : r.identity # i
  <2>1. PICK j : NothingRead(j) /\ job' = [job EXCEPT ![w] = j]
    BY ReadBetween DEF PurgeApply
  <2> QED
    BY <1>0, <1>1, <1>2, <2>1, ReadsSettled DEF SolePart
<1>4. OwedCovered'
  <2>1. \A r \in job[w].refs : r.identity = i
    BY <1>1 DEF SolePart, ReferencesAimed, PurgeApply
  <2>2. \A r \in deliveries' \cup attachments' \cup JobRefs' :
          Key(r) \notin Keys(job[w].refs)
    BY <1>2, <1>3, <2>1 DEF Keys, Key
  <2>3. refcount' = Released(job[w].refs) /\ UNCHANGED blobRows
    BY DEF PurgeApply
  <2> QED
    BY <1>0, <1>2, <1>3, <2>2, <2>3, ReleaseCovers DEF SolePart
<1>5. BodyUnnamed'
  BY <1>2, <1>3, BodyStaysUnnamed DEF SolePart, QuietSessions
<1>6. NamedBytesCharged'
  <2>1. \A j \in Named : MailOf(j)' = MailOf(j)
    BY <1>2, KindsAssumption DEF MailOf
  <2> QED
    BY <2>1 DEF SolePart, NamedBytesCharged, PurgeApply
<1> QED
  BY <1>3, <1>4, <1>5, <1>6 DEF SolePart

(* A sweep without a rival leaves its list as true as it was.              *)
LEMMA SweepSole ==
  ASSUME HistoryInv, TargetsApart, SolePart, NEW w \in Workers, SweepApply(w),
         UNCHANGED session
  PROVE  SolePart'
<1>0. TypeOK /\ FiniteRows /\ FiniteJobs /\ NumbersUnique /\ JobsAimed
  BY DEF HistoryInv, IInv
<1> DEFINE refs == {r \in job[w].refs : Key(r) \in Keys(Swept(w))}
<1>1. /\ deliveries' = {d \in deliveries : Key(d) \notin Keys(Swept(w))}
      /\ attachments' = {a \in attachments : Key(a) \notin Keys(Swept(w))}
      /\ refcount' = Released(refs) /\ UNCHANGED blobRows
      /\ job' = [job EXCEPT ![w] = ThenCollect({}, BlobsIn(refs))]
  BY DEF SweepApply, DeleteDeliveries, Swept
<1> PICK i \in Named : job[w].target = {i} /\ \A d \in job[w].list : d.identity = i
  BY <1>0 DEF SweepApply, JobsAimed
<1>2. /\ ReferencesAimed' /\ ListStillThere' /\ JobRefs' \subseteq JobRefs
      /\ \A r \in JobRefs' : r.identity # i
  <2>1. PICK j : NothingRead(j) /\ job' = [job EXCEPT ![w] = j]
    BY <1>1, ReadBetween
  <2>2. \A d \in deliveries : d.identity # i => d \in deliveries'
    BY <1>1 DEF Swept, Keys, Key
  <2> QED
    BY <1>0, <2>1, <2>2, ReadsSettled DEF SolePart
<1>3. OwedCovered'
  <2>1. \A r \in deliveries' \cup attachments' \cup JobRefs' : Key(r) \notin Keys(refs)
    <3>1. \A r \in refs : r.identity = i
      BY <1>0, ReadOfTarget DEF SolePart
    <3>2. \A r \in JobRefs' : Key(r) \notin Keys(refs)
      BY <1>2, <3>1 DEF Keys, Key
    <3> QED
      BY <1>1, <3>2 DEF Keys
  <2>2. refs \in SUBSET job[w].refs
    OBVIOUS
  <2> HIDE DEF refs
  <2> QED
    BY <1>0, <1>1, <1>2, <2>1, <2>2, ReleaseCovers DEF SolePart
<1>4. BodyUnnamed'
  BY <1>1, <1>2, BodyStaysUnnamed DEF SolePart, QuietSessions
<1>5. NamedBytesCharged'
  BY <1>0, SweepRefunds DEF SolePart
<1> QED
  BY <1>2, <1>3, <1>4, <1>5 DEF SolePart

(***************************************************************************)
(* The parse worker's steps.                                               *)
(***************************************************************************)
LEMMA ParseSole ==
  ASSUME HistoryInv, HistoryInv', SolePart, NEW p \in Parsers, ParseStep(p),
         UNCHANGED OthersOfParse
  PROVE  SolePart'
<1>0. /\ TypeOK /\ FiniteRows /\ FiniteJobs /\ NumbersUnique /\ NumbersUnique'
      /\ StoredAttachmentsKept /\ PendingIsPrivate
  BY DEF HistoryInv, IInv
<1>1. UNCHANGED <<session, job, usedBytes>>
  BY DEF OthersOfParse, lifecycleVars, ParseStep, ParseProgress, Load, NothingToParse,
     LoadFails, LookupFails, Locate, GiveUp, ReadBytes, BytesMissing, PutAttachment,
     AcquireAttachment, Unparseable, StoreAttachmentFails, StoreResults,
     DeliveryGone, JobDone, ParserDies, rowVars, identityVars
<1>2. CASE Unparseable(p) \/ StoreAttachmentFails(p)
  <2>1. Rewritten /\ UNCHANGED <<attachments, blobRows, refcount>>
    BY <1>0, <1>2, MarkFailedRewrites DEF Unparseable, StoreAttachmentFails, blobVars
  <2> QED
    BY <1>1, <2>1, StandingSole
<1>3. CASE AcquireAttachment(p) \/ StoreResults(p)
  <2>1. \/ UNCHANGED <<deliveries, attachments>>
        \/ /\ Rewritten
           /\ \A a \in attachments' : a \in attachments \/ a.blob \in parser[p].stored
    <3>1. CASE AcquireAttachment(p)
      BY <3>1 DEF AcquireAttachment
    <3>2. CASE StoreResults(p)
      <4>1. PICK d \in Current(p) :
              attachments' = {a \in attachments : Key(a) # Key(d)} \cup
                {[identity |-> d.identity, seq |-> d.seq, blob |-> b] :
                   b \in parser[p].stored}
        BY <3>2 DEF StoreResults
      <4> QED
        BY <1>0, <3>2, <4>1, StoreRewrites
    <3> QED
      BY <1>3, <3>1, <3>2
  <2>2. /\ \A d \in deliveries :
             \E e \in deliveries' : Key(e) = Key(d) /\ e.size = d.size
        /\ \A e \in deliveries' : \E d \in deliveries : d.blob = e.blob
    BY <2>1 DEF Rewritten
  <2>3. ReferencesAimed' /\ ListStillThere' /\ JobRefs' = JobRefs
    BY <1>1, <2>2, ListKept DEF SolePart
  <2>4. SameHoldings
    BY <1>0, <2>1, RewrittenHoldings, UntouchedHoldings
  <2>5. NamedBytesCharged'
    BY <1>1, <2>4, NamedBytesStutter DEF SolePart
  <2>6. OwedCovered'
    BY <1>0, <1>1, <1>3, ParserCovers DEF SolePart
  <2>7. BodyUnnamed'
    <3>1. \A b \in parser[p].stored : b \in blobRows /\ b \in Blobs
      <4>1. parser[p].pc = "extracting"
        BY <1>0, <1>3 DEF StoredAttachmentsKept, AcquireAttachment, StoreResults
      <4> QED
        BY <1>0, <4>1 DEF StoredAttachmentsKept, TypeOK, RowsTypeOK
    <3>2. \A s \in Sessions : session[s].pc = "commit" => session[s].blob \notin blobRows
      BY <1>0 DEF PendingIsPrivate, Pending, TypeOK, IngestTypeOK
    <3>3. \A r \in deliveries' \cup attachments' :
            \/ \E q \in deliveries \cup attachments : q.blob = r.blob
            \/ r.blob \in parser[p].stored
      BY <2>1, <2>2
    <3> QED
      BY <1>1, <2>3, <3>1, <3>2, <3>3, BodyStaysUnnamed DEF SolePart, QuietSessions
  <2> QED
    BY <2>3, <2>5, <2>6, <2>7 DEF SolePart
<1>4. CASE UNCHANGED <<deliveries, attachments, blobRows, refcount>>
  BY <1>1, <1>4, StandingSole
<1> QED
  BY <1>2, <1>3, <1>4 DEF ParseStep, ParseProgress, Load, NothingToParse, LoadFails,
     LookupFails, Locate, GiveUp, ReadBytes, BytesMissing, PutAttachment, DeliveryGone, JobDone,
     ParserDies, rowVars, blobVars

(***************************************************************************)
(* Every step of every process keeps the counts, while no two jobs work on *)
(* one identity.                                                           *)
(***************************************************************************)
LEMMA SoleKept ==
  ASSUME HistoryInv, HistoryInv', TargetsApart, SolePart, [Next]_vars
  PROVE  SolePart'
<1>0. IInv /\ TypeOK
  BY DEF HistoryInv, IInv
<1>1. ASSUME NEW s \in Sessions, IngestStep(s), UNCHANGED OthersOfIngest
      PROVE  SolePart'
  BY <1>0, <1>1, IngestSole DEF OthersOfIngest, lifecycleVars
<1>2. ASSUME NEW s \in Sessions, CommitMessage(s) PROVE SolePart'
  BY <1>2, CommitSole DEF CommitMessage, lifecycleVars
<1>3. CASE UNCHANGED <<session, job, deliveries, attachments, blobRows, refcount, usedBytes>>
  BY <1>3, StandingSole
<1>4. CASE AccountsStep /\ UNCHANGED OthersOfAccounts
  BY <1>3, <1>4 DEF AccountsStep, AllocateRandom, OpenNamed, CreateIdentity,
     DestroyIdentity, RecordDestroyed, LoseDestroyed, identityVars, blobVars,
     OthersOfAccounts, lifecycleVars
<1>5. CASE LifecycleStep /\ UNCHANGED OthersOfLifecycle
  <2>0. UNCHANGED session
    BY <1>5 DEF OthersOfLifecycle
  <2>1. ASSUME NEW d \in deliveries, Age(d) PROVE SolePart'
    BY <1>0, <2>0, <2>1, AgeRewrites, StandingSole DEF Age, identityVars, blobVars,
       lifecycleVars
  <2>2. ASSUME NEW w \in Workers, PurgeApply(w) PROVE SolePart'
    BY <2>0, <2>2, PurgeSole
  <2>3. ASSUME NEW w \in Workers, SweepApply(w) PROVE SolePart'
    BY <2>0, <2>3, SweepSole
  <2>4. CASE Notice \/ Expire \/ \E i \in Random : Tick(i)
    BY <1>3, <2>0, <2>4 DEF Notice, Expire, MoveState, Tick, rowVars, identityVars,
       blobVars, lifecycleVars
  <2>5. ASSUME NEW w \in Workers,
               PurgeJob(w) \/ SweepJob(w) \/ CollectJob(w) \/ JobDies(w),
               ~PurgeApply(w), ~SweepApply(w)
        PROVE  SolePart'
    <3>1. /\ UNCHANGED <<deliveries, attachments, refcount, usedBytes>>
          /\ blobRows' \subseteq blobRows
      BY <2>5 DEF PurgeJob, PurgeList, PurgeRead, PurgeConflict, SweepJob, SweepList,
         SweepRead, CollectJob, CollectList, ClaimOrphanBlob, Skip, DeleteBytes,
         JobDies, rowVars, identityVars, blobVars
    <3> QED
      BY <2>0, <2>5, <3>1, ReadingSole
  <2> QED
    BY <1>5, <2>1, <2>2, <2>3, <2>4, <2>5 DEF LifecycleStep
<1>6. ASSUME NEW p \in Parsers, ParseStep(p), UNCHANGED OthersOfParse PROVE SolePart'
  BY <1>6, ParseSole
<1>7. CASE UNCHANGED vars
  BY <1>3, <1>7 DEF vars, rowVars, identityVars, blobVars, lifecycleVars
<1> QED
  BY <1>1, <1>2, <1>4, <1>5, <1>6, <1>7 DEF Next

(***************************************************************************)
(* The invariant of the counts holds in every behaviour in which no two    *)
(* jobs work on one identity at once, for any number of workers.           *)
(***************************************************************************)
THEOREM CountsHold == Spec /\ []TargetsApart => []SoleInv
<1>1. Init => SolePart
  <2> SUFFICES ASSUME Init PROVE SolePart
    OBVIOUS
  <2>1. \A i : MailOf(i) = {} /\ BytesOf(MailOf(i)) = {}
    BY DEF Init, RowsInit, MailOf, BytesOf
  <2>2. \A i : TotalSize(MailOf(i)) = 0
    BY <2>1, FS_EmptySet DEF TotalSize
  <2> QED
    BY <2>2 DEF Init, RowsInit, IngestInit, IdleSession, LifecycleInit, NoJob, SolePart,
       BodyUnnamed, ReferencesAimed, ListStillThere, OwedCovered, NamedBytesCharged
<1>2. HistoryInv /\ HistoryInv' /\ TargetsApart /\ SolePart /\ [Next]_vars => SolePart'
  BY SoleKept
<1>3. QuotaInv => HistoryInv
  BY DEF QuotaInv
<1>4. SoleInv <=> QuotaInv /\ SolePart
  BY DEF SoleInv
<1> QED
  BY <1>1, <1>2, <1>3, <1>4, ChargesHold, PTL DEF Spec

(***************************************************************************)
(* No inbox ever holds more than its quota, in messages or in bytes, while *)
(* no two sweeps of an inbox overlap.                                      *)
(***************************************************************************)
THEOREM NoInboxOverQuota == Spec /\ []TargetsApart => []QuotaHolds
<1>1. SoleInv => QuotaHolds
  <2> SUFFICES ASSUME SoleInv PROVE QuotaHolds
    OBVIOUS
  <2>1. TypeOK /\ FiniteRows /\ NumbersUnique
    BY DEF SoleInv, QuotaInv, HistoryInv, IInv
  <2>2. \A i \in Identities : Cardinality(MailOf(i)) \in Nat /\ TotalSize(MailOf(i)) \in Nat
    BY <2>1, HoldingsFinite
  <2>3. usedMessages \in [Identities -> Nat] /\ usedBytes \in [Identities -> Nat]
    BY <2>1 DEF TypeOK, RowsTypeOK
  <2>4. \A i \in Identities : /\ Cardinality(MailOf(i)) <= usedMessages[i]
                              /\ TotalSize(MailOf(i)) <= usedBytes[i]
    BY <2>2, <2>3 DEF SoleInv, QuotaInv, SolePart, ChargesInv, MessagesCharged,
                              BytesCharged, NamedBytesCharged
  <2>5. \A i \in Identities : /\ Cardinality(MailOf(i)) <= QuotaMessages
                              /\ TotalSize(MailOf(i)) <= QuotaBytes
    BY <2>2, <2>3, <2>4, QuotaAssumption DEF SoleInv, QuotaInv, ChargesInv,
       UsageWithinQuota
  <2> QED
    BY <2>5 DEF QuotaHolds, MailOf
<1> QED
  BY <1>1, CountsHold, PTL

(***************************************************************************)
(* A named inbox is charged for as many messages as it holds, however many *)
(* sweeps of it overlap.                                                   *)
(***************************************************************************)
THEOREM MessagesAreCounted == Spec => []MessagesCounted
<1>1. QuotaInv => MessagesCounted
  BY DEF QuotaInv, ChargesInv, MessagesCharged, MessagesCounted, MailOf
<1> QED
  BY <1>1, ChargesHold, PTL

(***************************************************************************)
(* A named inbox is charged for exactly the messages it holds, while no    *)
(* two sweeps of it overlap.                                               *)
(***************************************************************************)
THEOREM UsageFollowsMail == Spec /\ []TargetsApart => []UsageIsMail
<1>1. SoleInv => UsageIsMail
  BY DEF SoleInv, QuotaInv, SolePart, ChargesInv, MessagesCharged, NamedBytesCharged,
         UsageIsMail, MailOf
<1> QED
  BY <1>1, CountsHold, PTL

(***************************************************************************)
(* A blob's count is never below the number of rows that name it, while no *)
(* two purges of an identity overlap.                                      *)
(***************************************************************************)
THEOREM EveryReferenceCounted == Spec /\ []TargetsApart => []RefcountCovers
<1>1. SoleInv => RefcountCovers
  <2> SUFFICES ASSUME SoleInv, NEW b \in blobRows
               PROVE  refcount[b] >= Cardinality(References(b))
    BY DEF RefcountCovers
  <2>1. TypeOK /\ FiniteRows /\ FiniteJobs /\ NumbersUnique
    BY DEF SoleInv, QuotaInv, HistoryInv, IInv
  <2>2. refcount[b] \in Nat
    BY <2>1 DEF TypeOK, RowsTypeOK
  <2> DEFINE O == Owed(b)
             refs == References(b)
             N == RowIds(refs)
  <2>3. IsFiniteSet(O) /\ Cardinality(O) \in Nat /\ Cardinality(O) <= refcount[b]
    BY <2>1, OwedFinite DEF SoleInv, SolePart, OwedCovered
  <2>4. N \subseteq O
    BY DEF References, Owed, RowIds
  <2>5. IsFiniteSet(refs) /\ \A q, r \in refs : RowId(q) = RowId(r) => q = r
    <3>1. IsFiniteSet(deliveries \cup attachments)
      BY <2>1, FS_Union DEF FiniteRows
    <3>2. refs \in SUBSET (deliveries \cup attachments)
      BY DEF References
    <3> HIDE DEF refs
    <3> QED
      BY <2>1, <3>1, <3>2, FS_Subset, RowsKnown
  <2> HIDE DEF refs, O
  <2>6. Cardinality(N) = Cardinality(refs) /\ Cardinality(refs) \in Nat
    BY <2>5, NamesFinite, FS_CardinalityType
  <2> HIDE DEF N
  <2>7. Cardinality(N) <= Cardinality(O)
    BY <2>3, <2>4, FS_Subset
  <2> QED
    BY <2>2, <2>3, <2>6, <2>7 DEF refs
<1> QED
  BY <1>1, CountsHold, PTL

-----------------------------------------------------------------------------
(* Exact counts of the blobs that messages are stored in.                  *)

(***************************************************************************)
(* The rows that name a blob are finitely many, and as many as their names.*)
(***************************************************************************)
LEMMA ReferencesCounted ==
  ASSUME TypeOK, FiniteRows, NumbersUnique, NEW S \in SUBSET (deliveries \cup attachments)
  PROVE  /\ IsFiniteSet(S) /\ Cardinality(S) \in Nat
         /\ Cardinality(RowIds(S)) = Cardinality(S)
<1>1. IsFiniteSet(deliveries \cup attachments)
  BY FS_Union DEF FiniteRows
<1>2. IsFiniteSet(S)
  BY <1>1, FS_Subset
<1>3. \A q, r \in S : RowId(q) = RowId(r) => q = r
  BY RowsKnown
<1> QED
  BY <1>2, <1>3, NamesFinite, FS_CardinalityType

(***************************************************************************)
(* A transaction that releases exactly the references of what it deletes,  *)
(* and those of attachments, which name no message.                        *)
(***************************************************************************)
LEMMA ReleaseExact ==
  ASSUME TypeOK, FiniteRows, FiniteJobs, NumbersUnique, ReferencesAimed, BodiesApart,
         BodiesCounted, NEW w \in Workers, NEW refs \in SUBSET job[w].refs,
         NEW gone \in SUBSET deliveries, RowIds(BodyRefs(refs)) = RowIds(gone),
         refcount' = Released(refs), deliveries' = deliveries \ gone, UNCHANGED blobRows
  PROVE  BodiesCounted'
<1> SUFFICES ASSUME NEW b \in blobRows, NEW c \in deliveries', c.blob = b
             PROVE  refcount'[b] = Cardinality(CopiesOf(b)')
  BY DEF BodiesCounted, CopiesOf
<1>0. b \in Blobs /\ c \in deliveries
  BY DEF TypeOK, RowsTypeOK
<1> DEFINE mine == {r \in refs : r.blob = b}
           G == {d \in gone : d.blob = b}
           R == CopiesOf(b)
<1>1. refcount'[b] = IF refcount[b] > Cardinality(mine)
                     THEN refcount[b] - Cardinality(mine) ELSE 0
  BY <1>0 DEF Released
<1>2. RowIds(mine) = RowIds(G)
  <2>1. \A r : RowId(r)[2] = r.blob
    BY DEF RowId
  <2>2. \A r \in BodyRefs(refs) : \E d \in gone : RowId(d) = RowId(r)
    BY DEF RowIds
  <2>3. \A d \in gone : \E r \in BodyRefs(refs) : RowId(d) = RowId(r)
    BY DEF RowIds
  <2>4. \A r \in mine : r \in BodyRefs(refs)
    BY <1>0 DEF BodiesApart, JobRefs, BodyRefs
  <2>5. \A r \in mine : \E d \in G : RowId(d) = RowId(r)
    BY <2>1, <2>2, <2>4
  <2>6. \A d \in G : \E r \in mine : RowId(d) = RowId(r)
    BY <2>1, <2>3 DEF BodyRefs
  <2> HIDE DEF mine, G
  <2> QED
    BY <2>5, <2>6 DEF RowIds
<1>3. Cardinality(RowIds(mine)) = Cardinality(mine)
  <2>1. mine \in SUBSET job[w].refs /\ IsFiniteSet(job[w].refs)
    BY DEF FiniteJobs
  <2>2. \A q, r \in mine : RowId(q) = RowId(r) => q = r
    BY DEF ReferencesAimed
  <2> HIDE DEF mine
  <2> QED
    BY <2>1, <2>2, FS_Subset, NamesFinite
<1>4. G \in SUBSET (deliveries \cup attachments) /\ R \in SUBSET (deliveries \cup attachments)
  BY DEF CopiesOf
<1>5. R \cap G = G /\ CopiesOf(b)' = R \ G
  BY DEF CopiesOf
<1> HIDE DEF G, R, mine
<1>6. /\ IsFiniteSet(G) /\ Cardinality(G) \in Nat /\ Cardinality(RowIds(G)) = Cardinality(G)
      /\ IsFiniteSet(R) /\ Cardinality(R) \in Nat
  BY <1>4, ReferencesCounted
<1>7. IsFiniteSet(R \ G) /\ Cardinality(R \ G) = Cardinality(R) - Cardinality(G)
  <2>1. IsFiniteSet(R \ G) /\ Cardinality(R \ G) = Cardinality(R) - Cardinality(R \cap G)
    BY <1>6, FS_Difference
  <2> QED
    BY <1>5, <2>1
<1>8. Cardinality(R \ G) \in Nat
  BY <1>7, FS_CardinalityType
<1>9. refcount[b] = Cardinality(R)
  BY <1>0 DEF BodiesCounted, CopiesOf, R
<1>10. Cardinality(mine) = Cardinality(G)
  BY <1>2, <1>3, <1>6
<1> QED
  BY <1>1, <1>5, <1>6, <1>7, <1>8, <1>9, <1>10

(***************************************************************************)
(* A job reads exactly the messages it will delete.                        *)
(***************************************************************************)
LEMMA ReadsExact ==
  ASSUME TypeOK, UNCHANGED <<deliveries, attachments>>, BodiesRead, ReferencesAimed,
         NEW w \in Workers, PurgeJob(w) \/ SweepJob(w) \/ CollectJob(w) \/ JobDies(w)
  PROVE  BodiesRead'
<1>0. /\ job \in [Workers -> JobState] /\ deliveries \subseteq Delivery
      /\ attachments \subseteq Attachment
  BY DEF TypeOK, LifecycleTypeOK, RowsTypeOK
<1>a. \A v \in Workers \ {w} : job'[v] = job[v]
  BY <1>0 DEF PurgeJob, PurgeList, PurgeRead, PurgeApply, PurgeConflict, SweepJob,
     SweepList, SweepRead, SweepApply, CollectJob, CollectList, ClaimOrphanBlob, Skip,
     DeleteBytes, JobDies
<1>b. ASSUME job'[w].pc = "purging" =>
               RowIds(BodyRefs(job'[w].refs)) =
                 RowIds({d \in deliveries : d.identity \in job'[w].target}),
             job'[w].pc = "sweeping" =>
               RowIds(BodyRefs(job'[w].refs)) =
                 RowIds({d \in deliveries : Key(d) \in Keys(job'[w].list)})
      PROVE  BodiesRead'
  <2>1. \A v \in Workers :
          /\ job'[v].pc = "purging" =>
               RowIds(BodyRefs(job'[v].refs)) =
                 RowIds({d \in deliveries' : d.identity \in job'[v].target})
          /\ job'[v].pc = "sweeping" =>
               RowIds(BodyRefs(job'[v].refs)) =
                 RowIds({d \in deliveries' : Key(d) \in Keys(job'[v].list)})
    BY <1>a, <1>b DEF BodiesRead
  <2> QED
    BY <2>1 DEF BodiesRead, RowIds, RowId, Key, Keys, BodyRefs
<1>1. ASSUME NEW i \in Random, PurgeRead(w, i) PROVE BodiesRead'
  <2>1. /\ job'[w].pc = "purging" /\ job'[w].refs = IdentityReferences(i)
        /\ job'[w].target = {i}
    BY <1>0, <1>1 DEF PurgeRead, JobState
  <2>2. BodyRefs(IdentityReferences(i)) = {d \in deliveries : d.identity \in {i}}
    BY <1>0, KindsOfRows DEF IdentityReferences, BodyRefs
  <2> QED
    BY <1>b, <2>1, <2>2
<1>2. CASE SweepRead(w)
  <2>1. /\ job'[w].pc = "sweeping" /\ job'[w].refs = ReferencesOf(Keys(job[w].list))
        /\ job'[w].list = job[w].list
    BY <1>0, <1>2 DEF SweepRead, JobState
  <2>2. BodyRefs(ReferencesOf(Keys(job[w].list)))
          = {d \in deliveries : Key(d) \in Keys(job'[w].list)}
    BY <1>0, <2>1, KindsOfRows DEF ReferencesOf, BodyRefs
  <2> QED
    BY <1>b, <2>1, <2>2
<1>3. CASE job'[w].pc \notin {"purging", "sweeping"}
  BY <1>3, <1>b
<1>4. CASE SweepList(w)
  <2>1. job'[w].pc = "sweep"
    BY <1>0, <1>4 DEF SweepList, JobState
  <2> QED
    BY <1>3, <2>1
<1>5. ASSUME NEW j, NothingRead(j), job' = [job EXCEPT ![w] = j] PROVE BodiesRead'
  <2>1. job'[w] = j
    BY <1>0, <1>5
  <2> QED
    BY <1>3, <1>5, <2>1 DEF NothingRead
<1>6. CASE PurgeList(w) \/ PurgeApply(w) \/ PurgeConflict(w) \/ SweepApply(w)
           \/ CollectList(w) \/ DeleteBytes(w) \/ JobDies(w)
           \/ \E b \in Blobs : Skip(w, b)
  <2>1. CASE PurgeList(w) \/ PurgeApply(w) \/ PurgeConflict(w)
    BY <1>5, <2>1, ReadBetween DEF PurgeList, PurgeApply, PurgeConflict
  <2>2. CASE SweepApply(w)
    BY <1>5, <2>2, ReadBetween DEF SweepApply
  <2>3. CASE CollectList(w) \/ DeleteBytes(w) \/ JobDies(w) \/ \E b \in Blobs : Skip(w, b)
    BY <1>5, <2>3, ReadBetween DEF CollectList, DeleteBytes, JobDies, Skip
  <2> QED
    BY <1>6, <2>1, <2>2, <2>3
<1>7. ASSUME NEW b \in Blobs, ClaimOrphanBlob(w, b) PROVE BodiesRead'
  <2>1. job'[w].pc = "collect"
    BY <1>0, <1>7 DEF ClaimOrphanBlob, Unclaimed, JobState
  <2> QED
    BY <1>3, <2>1
<1> QED
  BY <1>1, <1>2, <1>4, <1>6, <1>7 DEF PurgeJob, SweepJob, CollectJob

(***************************************************************************)
(* Rows that stand, or are rewritten in place, are named as before.        *)
(***************************************************************************)
LEMMA StandingExact ==
  ASSUME TypeOK, FiniteRows, NumbersUnique, FiniteRows', NumbersUnique', BodiesCounted,
         Rewritten \/ UNCHANGED deliveries,
         \A d \in deliveries : d.blob \in blobRows' =>
           d.blob \in blobRows /\ refcount'[d.blob] = refcount[d.blob]
  PROVE  BodiesCounted' /\ (BodiesRead /\ UNCHANGED job => BodiesRead')
<1>1. PICK g \in [deliveries -> Delivery] :
        /\ deliveries' = {g[d] : d \in deliveries}
        /\ \A d \in deliveries : Key(g[d]) = Key(d) /\ RowId(g[d]) = RowId(d)
                                 /\ g[d].blob = d.blob
  <2>1. deliveries \subseteq Delivery
    BY DEF TypeOK, RowsTypeOK
  <2>2. CASE UNCHANGED deliveries
    <3> DEFINE g == [d \in deliveries |-> d]
    <3>1. g \in [deliveries -> Delivery]
      BY <2>1
    <3>2. deliveries' = {g[d] : d \in deliveries} /\ \A d \in deliveries : g[d] = d
      BY <2>2
    <3> HIDE DEF g
    <3> QED
      BY <3>1, <3>2
  <2>3. CASE Rewritten
    BY <2>1, <2>3, KindsOfRows DEF Rewritten, RowId
  <2> QED
    BY <2>2, <2>3
<1>2. ASSUME NEW b PROVE RowIds(CopiesOf(b)') = RowIds(CopiesOf(b))
  <2>1. CopiesOf(b)' = {d \in deliveries' : d.blob = b}
    BY DEF CopiesOf
  <2>2. CopiesOf(b) = {d \in deliveries : d.blob = b}
    BY DEF CopiesOf
  <2> QED
    BY <1>1, <2>1, <2>2 DEF RowIds
<1>3. BodiesCounted'
  <2> SUFFICES ASSUME NEW b \in blobRows', NEW c \in deliveries', c.blob = b
               PROVE  refcount'[b] = Cardinality(CopiesOf(b)')
    BY DEF BodiesCounted, CopiesOf
  <2>0. PICK d \in deliveries : d.blob = b
    BY <1>1
  <2>1. CopiesOf(b) \in SUBSET (deliveries \cup attachments)
    BY DEF CopiesOf
  <2>2. Cardinality(RowIds(CopiesOf(b))) = Cardinality(CopiesOf(b))
    BY <2>1, ReferencesCounted
  <2>3. Cardinality(RowIds(CopiesOf(b)')) = Cardinality(CopiesOf(b)')
    <3> DEFINE S == CopiesOf(b)'
    <3>1. S \subseteq deliveries'
      BY DEF CopiesOf
    <3>2. IsFiniteSet(deliveries')
      BY DEF FiniteRows
    <3>3. \A q, r \in S : RowId(q) = RowId(r) => q = r
      BY <3>1 DEF RowId, NumbersUnique
    <3> HIDE DEF S
    <3>4. IsFiniteSet(S)
      BY <3>1, <3>2, FS_Subset
    <3> QED
      BY <3>3, <3>4, NamesFinite DEF S
  <2>4. b \in blobRows /\ refcount'[b] = refcount[b]
    BY <2>0
  <2>5. refcount[b] = Cardinality(CopiesOf(b))
    BY <2>0, <2>4 DEF BodiesCounted, CopiesOf
  <2> QED
    BY <1>2, <2>2, <2>3, <2>4, <2>5
<1>4. ASSUME BodiesRead, UNCHANGED job PROVE BodiesRead'
  <2>1. \A T : RowIds({d \in deliveries' : d.identity \in T})
                 = RowIds({d \in deliveries : d.identity \in T})
    BY <1>1 DEF RowIds, Key
  <2>2. \A K : RowIds({d \in deliveries' : Key(d) \in K})
                 = RowIds({d \in deliveries : Key(d) \in K})
    BY <1>1 DEF RowIds
  <2>3. ASSUME NEW w \in Workers, job'[w].pc = "purging"
        PROVE  RowIds(BodyRefs(job'[w].refs)) =
                 RowIds({d \in deliveries' : d.identity \in job'[w].target})
    BY <1>4, <2>1, <2>3 DEF BodiesRead
  <2>4. ASSUME NEW w \in Workers, job'[w].pc = "sweeping"
        PROVE  RowIds(BodyRefs(job'[w].refs)) =
                 RowIds({d \in deliveries' : Key(d) \in Keys(job'[w].list)})
    BY <1>4, <2>2, <2>4 DEF BodiesRead
  <2> QED
    BY <2>3, <2>4 DEF BodiesRead, RowIds, RowId, Key, Keys, BodyRefs
<1> QED
  BY <1>3, <1>4

(***************************************************************************)
(* A commit adds as many references as it counts, and delivers nothing     *)
(* that the worker is about to delete: an identity being purged accepts no *)
(* mail, and a number a sweep has listed is not given out again.           *)
(***************************************************************************)
LEMMA CommitExact ==
  ASSUME HistoryInv, SolePart, ExactPart, NEW s \in Sessions, Commit(s), UNCHANGED job
  PROVE  ExactPart'
<1>0. /\ TypeOK /\ FiniteRows /\ LocksHeld /\ PendingIsPrivate /\ NumbersReserved
      /\ NumbersUnique /\ JobsAimed /\ deliverySeq \in [Identities -> Nat]
      /\ session[s] \in SessionState /\ session[s].pc = "commit"
      /\ refcount \in [Blobs -> Nat] /\ blobRows \subseteq Blobs
      /\ job \in [Workers -> JobState] /\ UNCHANGED attachments
      /\ deliveries \subseteq Delivery
  BY DEF HistoryInv, IInv, TypeOK, IngestTypeOK, RowsTypeOK, LifecycleTypeOK, Commit
<1> PICK c \in Blobs : c = session[s].blob
  BY <1>0 DEF TypeOK, IngestTypeOK
<1> DEFINE R == Recipients(s)
           new(i) == [identity |-> i, seq |-> deliverySeq[i] + 1, blob |-> c,
                      size |-> session[s].size, status |-> "received", old |-> FALSE]
           N == {new(i) : i \in R}
<1>1. deliveries' = deliveries \cup N /\ R \subseteq Identities
  BY <1>0, CommitNumbers DEF CommitWrites
<1>2. /\ blobRows' = blobRows \cup {c}
      /\ refcount' = [refcount EXCEPT ![c] = IF c \in blobRows
                        THEN @ + Cardinality(R) ELSE Cardinality(R)]
  BY DEF Commit, Acquire
<1>3. c \notin blobRows /\ \A r \in deliveries \cup attachments \cup JobRefs : r.blob # c
  BY <1>0 DEF PendingIsPrivate, Pending, SolePart, BodyUnnamed, Unnamed, JobRefs
<1>4. Cardinality(N) = Cardinality(R)
  <2> DEFINE f == [i \in R |-> new(i)]
  <2>1. IsFiniteSet(R)
    <3> DEFINE rcpts == session[s].rcpts
    <3>1. rcpts \in Seq(Identities)
      BY <1>0 DEF SessionState
    <3>2. IsFiniteSet(1..Len(rcpts)) /\ DOMAIN rcpts = 1..Len(rcpts)
      BY <3>1, FS_Interval
    <3>3. R = {rcpts[n] : n \in DOMAIN rcpts}
      BY DEF Recipients
    <3> HIDE DEF R
    <3>4. rcpts \in Surjection(DOMAIN rcpts, R)
      BY <3>1, <3>3 DEF Surjection
    <3> HIDE DEF rcpts
    <3> QED
      BY <3>2, <3>4, FS_Surjection
  <2>2. f \in Surjection(R, N) /\ f \in Injection(R, N)
    BY DEF Surjection, Injection, IsInjective
  <2> HIDE DEF f, N, R
  <2> QED
    BY <2>1, <2>2, FS_Surjection
<1>5. \A d \in N : /\ d.blob = c /\ d.identity \in R
                   /\ d.seq = deliverySeq[d.identity] + 1
  OBVIOUS
<1> HIDE DEF N
<1>6. BodiesCounted'
  <2> SUFFICES ASSUME NEW b \in blobRows', CopiesOf(b)' # {}
               PROVE  refcount'[b] = Cardinality(CopiesOf(b)')
    BY DEF BodiesCounted
  <2>1. CASE b = c
    <3>1. CopiesOf(b)' = N
      BY <1>1, <1>3, <1>5, <2>1 DEF CopiesOf
    <3> QED
      BY <1>0, <1>2, <1>3, <1>4, <2>1, <3>1
  <2>2. CASE b # c
    <3>1. CopiesOf(b)' = CopiesOf(b)
      BY <1>1, <1>5, <2>2 DEF CopiesOf
    <3>2. b \in blobRows /\ refcount'[b] = refcount[b]
      BY <1>0, <1>2, <2>2
    <3> QED
      BY <3>1, <3>2 DEF ExactPart, BodiesCounted
  <2> QED
    BY <2>1, <2>2
<1>7. ASSUME NEW i \in R PROVE ~Ended(i)
  <2>1. PICK n \in DOMAIN session[s].rcpts : session[s].rcpts[n] = i
    BY DEF Recipients
  <2>2. n \in DOMAIN session[s].seqs
    BY <1>0, <2>1 DEF Commit, SessionState
  <2> QED
    BY <1>0, <2>1, <2>2 DEF LocksHeld, AcceptsMail, Provisionable, Ended
<1>8. ASSUME NEW w \in Workers
      PROVE  /\ job[w].pc = "purging" =>
                  {d \in deliveries' : d.identity \in job[w].target}
                    = {d \in deliveries : d.identity \in job[w].target}
             /\ job[w].pc = "sweeping" =>
                  {d \in deliveries' : Key(d) \in Keys(job[w].list)}
                    = {d \in deliveries : Key(d) \in Keys(job[w].list)}
  <2>1. job[w].pc = "purging" => \A d \in N : d.identity \notin job[w].target
    BY <1>0, <1>5, <1>7 DEF JobsAimed
  <2>2. ASSUME job[w].pc = "sweeping", NEW d \in N, Key(d) \in Keys(job[w].list)
        PROVE  FALSE
    <3>1. PICK e \in deliveries : Key(e) = Key(d)
      BY <2>2 DEF SolePart, ListStillThere, Keys
    <3>2. e.seq <= deliverySeq[e.identity] /\ e.identity = d.identity /\ e.seq = d.seq
      BY <1>0, <3>1 DEF NumbersUnique, Key
    <3>3. e.identity \in Identities
      BY <1>1, <1>5, <3>2
    <3> QED
      BY <1>0, <1>5, <3>2, <3>3
  <2> QED
    BY <1>1, <2>1, <2>2
<1>9. BodiesRead'
  <2>1. \A w \in Workers :
          /\ job'[w].pc = "purging" =>
               RowIds(BodyRefs(job'[w].refs)) =
                 RowIds({d \in deliveries' : d.identity \in job'[w].target})
          /\ job'[w].pc = "sweeping" =>
               RowIds(BodyRefs(job'[w].refs)) =
                 RowIds({d \in deliveries' : Key(d) \in Keys(job'[w].list)})
    BY <1>8 DEF ExactPart, BodiesRead
  <2> QED
    BY <2>1 DEF BodiesRead, RowIds, RowId, Key, Keys, BodyRefs
<1>10. BodiesApart'
  <2>1. JobRefs' = JobRefs
    BY DEF JobRefs
  <2>2. \A d \in deliveries', r \in attachments \cup JobRefs :
          r \in Attachment => r.blob # d.blob
    BY <1>1, <1>3, <1>5 DEF ExactPart, BodiesApart
  <2> QED
    BY <1>0, <2>1, <2>2 DEF BodiesApart
<1> QED
  BY <1>6, <1>9, <1>10 DEF ExactPart

(***************************************************************************)
(* The blob of a message stays apart from those of attachments while a new *)
(* attachment gets a blob that no message has.                             *)
(***************************************************************************)
LEMMA ApartStays ==
  ASSUME BodiesApart, \A d \in deliveries' : \E e \in deliveries : e.blob = d.blob,
         \A r \in attachments' \cup JobRefs' : r \in Attachment =>
           r \in attachments \cup JobRefs \/ \A d \in deliveries : d.blob # r.blob
  PROVE  BodiesApart'
<1>1. \A d \in deliveries', r \in attachments' \cup JobRefs' :
        r \in Attachment => r.blob # d.blob
  BY DEF BodiesApart
<1> QED
  BY <1>1 DEF BodiesApart

(***************************************************************************)
(* The deleting transactions of a job release what they delete, and delete *)
(* nothing that another job has read.                                      *)
(***************************************************************************)
LEMMA DeletesExact ==
  ASSUME HistoryInv, TargetsApart, SolePart, ExactPart, NEW w \in Workers,
         PurgeApply(w) \/ SweepApply(w)
  PROVE  ExactPart'
<1>0. /\ TypeOK /\ FiniteRows /\ FiniteJobs /\ NumbersUnique /\ JobsAimed
      /\ BodiesApart /\ BodiesRead /\ BodiesCounted /\ ReferencesAimed /\ ListStillThere
  BY DEF HistoryInv, IInv, ExactPart, SolePart
<1> PICK i : job[w].target = {i}
  BY <1>0 DEF PurgeApply, SweepApply, JobsAimed
<1> DEFINE gone == IF PurgeApply(w) THEN {d \in deliveries : d.identity = i} ELSE Swept(w)
           refs == IF PurgeApply(w) THEN job[w].refs
                   ELSE {r \in job[w].refs : Key(r) \in Keys(Swept(w))}
<1>1. /\ gone \in SUBSET deliveries /\ deliveries' = deliveries \ gone
      /\ \A d \in gone : d.identity = i
      /\ RowIds(BodyRefs(refs)) = RowIds(gone)
  <2>1. CASE PurgeApply(w)
    <3>1. deliveries' = {d \in deliveries : Key(d) \notin {Key(e) : e \in gone}}
      BY <2>1 DEF PurgeApply, DeleteDeliveries
    <3>2. RowIds(BodyRefs(job[w].refs)) = RowIds(gone)
      BY <1>0, <2>1 DEF BodiesRead, PurgeApply
    <3> QED
      BY <2>1, <3>1, <3>2 DEF Key
  <2>2. CASE ~PurgeApply(w)
    <3>1. deliveries' = {d \in deliveries : Key(d) \notin Keys(Swept(w))}
      BY <2>2 DEF SweepApply, DeleteDeliveries, Swept
    <3>2. RowIds(BodyRefs(job[w].refs)) = RowIds(Swept(w))
      BY <1>0, <2>2 DEF BodiesRead, SweepApply, Swept
    <3>3. \A d \in deliveries : Key(d) \in Keys(Swept(w)) <=> d \in Swept(w)
      BY <1>0 DEF Swept, Keys, NumbersUnique
    <3>4. BodyRefs(refs) = BodyRefs(job[w].refs)
      <4>1. ASSUME NEW r \in BodyRefs(job[w].refs) PROVE Key(r) \in Keys(Swept(w))
        <5>1. PICK d \in Swept(w) : RowId(d) = RowId(r)
          BY <3>2 DEF RowIds
        <5> QED
          BY <5>1 DEF RowId, Keys
      <4> QED
        BY <2>2, <4>1 DEF BodyRefs
    <3>5. \A d \in Swept(w) : d \in deliveries /\ d.identity = i
      BY <1>0, <2>2 DEF Swept, Keys, Key, SweepApply, JobsAimed
    <3> QED
      BY <2>2, <3>1, <3>2, <3>3, <3>4, <3>5
  <2> QED
    BY <2>1, <2>2
<1>2. /\ refs \in SUBSET job[w].refs /\ refcount' = Released(refs)
      /\ UNCHANGED blobRows /\ attachments' \subseteq attachments
  BY DEF PurgeApply, SweepApply, DeleteDeliveries, Swept
<1> HIDE DEF gone, refs
<1>3. BodiesCounted'
  BY <1>0, <1>1, <1>2, ReleaseExact
<1>4. PICK j : NothingRead(j) /\ job' = [job EXCEPT ![w] = j]
  BY ReadBetween DEF PurgeApply, SweepApply
<1>5. job'[w] = j /\ \A v \in Workers \ {w} : job'[v] = job[v]
  BY <1>0, <1>4 DEF TypeOK, LifecycleTypeOK
<1>6. BodiesRead'
  <2>1. ASSUME NEW v \in Workers, job'[v].pc \in {"purging", "sweeping"}
        PROVE  v # w /\ job'[v] = job[v] /\ i \notin job[v].target
    BY <1>4, <1>5, <2>1 DEF NothingRead, TargetsApart
  <2>2. ASSUME NEW v \in Workers, job'[v].pc = "purging"
        PROVE  {d \in deliveries' : d.identity \in job[v].target}
                 = {d \in deliveries : d.identity \in job[v].target}
    BY <1>1, <2>1, <2>2
  <2>3. ASSUME NEW v \in Workers, job'[v].pc = "sweeping"
        PROVE  {d \in deliveries' : Key(d) \in Keys(job[v].list)}
                 = {d \in deliveries : Key(d) \in Keys(job[v].list)}
    <3>1. \A d \in job[v].list : d.identity # i
      BY <1>0, <2>1, <2>3 DEF JobsAimed
    <3> QED
      BY <1>1, <3>1 DEF Keys, Key
  <2>4. \A v \in Workers :
          /\ job'[v].pc = "purging" =>
               RowIds(BodyRefs(job'[v].refs)) =
                 RowIds({d \in deliveries' : d.identity \in job'[v].target})
          /\ job'[v].pc = "sweeping" =>
               RowIds(BodyRefs(job'[v].refs)) =
                 RowIds({d \in deliveries' : Key(d) \in Keys(job'[v].list)})
    BY <1>0, <2>1, <2>2, <2>3 DEF BodiesRead
  <2> QED
    BY <2>4 DEF BodiesRead, RowIds, RowId, Key, Keys, BodyRefs
<1>7. BodiesApart'
  <2>1. \A v \in Workers : job'[v].refs \subseteq job[v].refs
    BY <1>4, <1>5 DEF NothingRead
  <2>2. JobRefs' \subseteq JobRefs
    BY <2>1 DEF JobRefs
  <2> QED
    BY <1>0, <1>1, <1>2, <2>2, ApartStays
<1> QED
  BY <1>3, <1>6, <1>7 DEF ExactPart

(***************************************************************************)
(* Every step of every process keeps the counts of the messages exact.     *)
(***************************************************************************)
LEMMA ExactKept ==
  ASSUME HistoryInv, HistoryInv', TargetsApart, SolePart, ExactPart, [Next]_vars
  PROVE  ExactPart'
<1>0. /\ TypeOK /\ FiniteRows /\ NumbersUnique /\ FiniteRows' /\ NumbersUnique'
      /\ BodiesApart /\ BodiesRead /\ BodiesCounted /\ ReferencesAimed
      /\ ListStillThere /\ StoredAttachmentsKept
      /\ deliveries \subseteq Delivery
  BY DEF HistoryInv, IInv, ExactPart, SolePart, TypeOK, RowsTypeOK
<1>1. ASSUME Rewritten \/ UNCHANGED deliveries, UNCHANGED job,
             \A d \in deliveries : d.blob \in blobRows' =>
               d.blob \in blobRows /\ refcount'[d.blob] = refcount[d.blob],
             \A a \in attachments' : a \in attachments
                                    \/ \A d \in deliveries : d.blob # a.blob
      PROVE  ExactPart'
  <2>1. BodiesCounted' /\ BodiesRead'
    BY <1>0, <1>1, StandingExact
  <2>2. \A d \in deliveries' : \E e \in deliveries : e.blob = d.blob
    BY <1>1 DEF Rewritten
  <2>3. JobRefs' = JobRefs
    BY <1>1 DEF JobRefs
  <2>4. BodiesApart'
    BY <1>0, <1>1, <2>2, <2>3, ApartStays
  <2> QED
    BY <2>1, <2>4 DEF ExactPart
<1>2. CASE /\ Rewritten \/ UNCHANGED deliveries
           /\ UNCHANGED <<job, attachments, refcount, blobRows>>
  BY <1>1, <1>2
<1>3. ASSUME NEW s \in Sessions, IngestStep(s), UNCHANGED OthersOfIngest
      PROVE  ExactPart'
  BY <1>2, <1>3 DEF IngestStep, Rcpt, Reset, StoreBody, LockRecipient, Refuse,
     DeadlockAbort, CommitFails, Rollback, rowVars, blobVars, OthersOfIngest, lifecycleVars
<1>4. ASSUME NEW s \in Sessions, CommitMessage(s) PROVE ExactPart'
  BY <1>4, CommitExact DEF CommitMessage, lifecycleVars
<1>5. CASE AccountsStep /\ UNCHANGED OthersOfAccounts
  BY <1>2, <1>5 DEF AccountsStep, AllocateRandom, OpenNamed, CreateIdentity,
     DestroyIdentity, RecordDestroyed, LoseDestroyed, blobVars, OthersOfAccounts,
     lifecycleVars
<1>6. CASE LifecycleStep /\ UNCHANGED OthersOfLifecycle
  <2>1. ASSUME NEW d \in deliveries, Age(d) PROVE ExactPart'
    BY <1>0, <1>2, <2>1, AgeRewrites DEF Age, blobVars, lifecycleVars
  <2>2. ASSUME NEW w \in Workers, PurgeApply(w) \/ SweepApply(w) PROVE ExactPart'
    BY <2>2, DeletesExact
  <2>3. CASE Notice \/ Expire \/ \E i \in Random : Tick(i)
    BY <1>2, <2>3 DEF Notice, Expire, MoveState, Tick, rowVars, blobVars, lifecycleVars
  <2>4. ASSUME NEW w \in Workers,
               PurgeJob(w) \/ SweepJob(w) \/ CollectJob(w) \/ JobDies(w),
               ~PurgeApply(w), ~SweepApply(w)
        PROVE  ExactPart'
    <3>1. /\ UNCHANGED <<deliveries, attachments, refcount>>
          /\ blobRows' \subseteq blobRows
      BY <2>4 DEF PurgeJob, PurgeList, PurgeRead, PurgeConflict, SweepJob, SweepList,
         SweepRead, CollectJob, CollectList, ClaimOrphanBlob, Skip, DeleteBytes,
         JobDies, rowVars, blobVars
    <3>2. BodiesCounted'
      BY <1>0, <3>1, StandingExact
    <3>3. BodiesRead'
      BY <1>0, <2>4, <3>1, ReadsExact
    <3>4. PICK j : job' = [job EXCEPT ![w] = j] /\ NewlyRead(j)
      BY <1>0, <2>4, JobsRead
    <3>5. JobRefs' \subseteq JobRefs \cup deliveries \cup attachments
      BY <1>0, <3>1, <3>4, ReadsKept
    <3>6. BodiesApart'
      BY <1>0, <3>1, <3>5, KindsOfRows, ApartStays
    <3> QED
      BY <3>2, <3>3, <3>6 DEF ExactPart
  <2> QED
    BY <1>6, <2>1, <2>2, <2>3, <2>4 DEF LifecycleStep
<1>7. ASSUME NEW p \in Parsers, ParseStep(p), UNCHANGED OthersOfParse
      PROVE  ExactPart'
  <2>0. UNCHANGED job
    BY <1>7 DEF OthersOfParse, lifecycleVars
  <2>1. CASE AcquireAttachment(p)
    <3>1. PICK c \in parser[p].put : Acquire(c, 1)
      BY <2>1 DEF AcquireAttachment
    <3>2. c \in Blobs /\ refcount \in [Blobs -> Nat] /\ Unnamed(c)
      BY <1>0, <3>1 DEF TypeOK, ParseTypeOK, ParserState, RowsTypeOK,
                        StoredAttachmentsKept
    <3>3. \A d \in deliveries : d.blob # c
      BY <3>2 DEF Unnamed
    <3>4. \A b : b # c /\ b \in blobRows' =>
            b \in blobRows /\ refcount'[b] = refcount[b]
      BY <3>1, <3>2 DEF Acquire
    <3> QED
      BY <1>1, <2>0, <2>1, <3>3, <3>4 DEF AcquireAttachment
  <2>2. CASE ~AcquireAttachment(p)
    <3>1. UNCHANGED <<refcount, blobRows>>
      BY <1>7, <2>2 DEF ParseStep, ParseProgress, Load, NothingToParse, LoadFails,
         LookupFails, Locate, GiveUp, ReadBytes, BytesMissing, PutAttachment,
         Unparseable, StoreAttachmentFails, StoreResults, DeliveryGone, JobDone,
         ParserDies, rowVars, blobVars
    <3>2. CASE Unparseable(p) \/ StoreAttachmentFails(p)
      BY <1>0, <1>2, <2>0, <3>1, <3>2, MarkFailedRewrites
         DEF Unparseable, StoreAttachmentFails
    <3>3. CASE StoreResults(p)
      <4>1. Rewritten
        BY <1>0, <3>3, StoreRewrites
      <4>2. PICK d \in Current(p) :
              attachments' = {a \in attachments : Key(a) # Key(d)} \cup
                {[identity |-> d.identity, seq |-> d.seq, blob |-> b] :
                   b \in parser[p].stored}
        BY <3>3 DEF StoreResults
      <4>3. \A b \in parser[p].stored : Unnamed(b)
        BY <1>0, <3>3 DEF StoredAttachmentsKept, StoreResults
      <4>4. \A a \in attachments' : a \in attachments
                                   \/ \A e \in deliveries : e.blob # a.blob
        BY <4>2, <4>3 DEF Unnamed
      <4> QED
        BY <1>1, <2>0, <3>1, <4>1, <4>4
    <3>4. CASE UNCHANGED <<deliveries, attachments>>
      BY <1>2, <2>0, <3>1, <3>4
    <3> QED
      BY <1>7, <2>2, <3>2, <3>3, <3>4 DEF ParseStep, ParseProgress, Load,
         NothingToParse, LoadFails, LookupFails, Locate, GiveUp, ReadBytes,
         BytesMissing, PutAttachment, DeliveryGone, JobDone, ParserDies, rowVars
  <2> QED
    BY <2>1, <2>2
<1>8. CASE UNCHANGED vars
  BY <1>2, <1>8 DEF vars, rowVars, blobVars, lifecycleVars
<1> QED
  BY <1>3, <1>4, <1>5, <1>6, <1>7, <1>8 DEF Next

(***************************************************************************)
(* A message that recipients share is counted once for each copy left, in  *)
(* every behaviour in which no two jobs work on one identity at once, with *)
(* any number of workers, parsers, attachments and faults.                 *)
(***************************************************************************)
THEOREM CountsAreExact == Spec /\ []TargetsApart => []BodiesCounted
<1>1. Init => ExactPart
  BY DEF Init, RowsInit, LifecycleInit, NoJob, ExactPart, BodiesApart, BodiesRead,
         BodiesCounted
<1>2. HistoryInv /\ HistoryInv' /\ TargetsApart /\ SolePart /\ ExactPart /\ [Next]_vars
      => ExactPart'
  BY ExactKept
<1>3. SoleInv => HistoryInv /\ SolePart
  BY DEF SoleInv, QuotaInv
<1>4. ExactPart => BodiesCounted
  BY DEF ExactPart
<1> QED
  BY <1>1, <1>2, <1>3, <1>4, CountsHold, PTL DEF Spec
=============================================================================
