---------------------------- MODULE MailPromises ----------------------------
(***************************************************************************)
(* What the pipeline remembers and what it promises, for every value of    *)
(* the constants: message numbers without a gap, every transition          *)
(* announced once, empty tombstones, and the abstract mailbox that the     *)
(* pipeline implements.                                                    *)
(*                                                                         *)
(* The argument: a recipient's row is locked from the moment its next      *)
(* number is read until the commit that gives it out, so numbers are       *)
(* unique and every one is announced; an identity that has ended stays     *)
(* ended, so each transition, and the event written with it, happens once; *)
(* and since everything delivered can be read (MailSafety), the readable   *)
(* messages of the abstract mailbox are exactly the rows.                  *)
(***************************************************************************)
EXTENDS MailSafety

USE DEF Identities, Undeleted

-----------------------------------------------------------------------------
(* Events.                                                                 *)

(***************************************************************************)
(* Appending a set of events adds one copy of each and of no other.        *)
(***************************************************************************)
LEMMA EmitCopies ==
  ASSUME IsABag(events), NEW evs, Emit(evs)
  PROVE  /\ BagToSet(events') = BagToSet(events) \cup evs
         /\ \A type, i, n :
              Copies(type, i, n)' =
                Copies(type, i, n) + (IF Event(type, i, n) \in evs THEN 1 ELSE 0)
<1> DEFINE D == DOMAIN events \cup evs
           f == [e \in D |->
                   (IF e \in DOMAIN events THEN events[e] ELSE 0)
                     + (IF e \in evs THEN 1 ELSE 0)]
<1>1. events' = f
  BY DEF Emit, SetToBag, (+)
<1>2. DOMAIN events' = D
  BY <1>1
<1>3. ASSUME NEW type, NEW i, NEW n
      PROVE  Copies(type, i, n)' =
               Copies(type, i, n) + (IF Event(type, i, n) \in evs THEN 1 ELSE 0)
  <2> DEFINE e == Event(type, i, n)
             old == IF e \in DOMAIN events THEN events[e] ELSE 0
             added == IF e \in evs THEN 1 ELSE 0
  <2>1. Copies(type, i, n) = old
    BY DEF Copies, BagIn, BagToSet
  <2>2. Copies(type, i, n)' = IF e \in D THEN f[e] ELSE 0
    BY <1>1, <1>2 DEF Copies, BagIn, BagToSet, Event
  <2>3. e \in D => f[e] = old + added
    OBVIOUS
  <2>4. e \notin D => old = 0 /\ added = 0
    OBVIOUS
  <2> HIDE DEF D, f, e, old, added
  <2>5. (IF e \in D THEN f[e] ELSE 0) = old + added
    BY <2>3, <2>4
  <2> QED
    BY <2>1, <2>2, <2>5 DEF e, added
<1>4. BagToSet(events') = BagToSet(events) \cup evs
  BY <1>2 DEF BagToSet
<1> QED
  BY <1>3, <1>4

(***************************************************************************)
(* An identity that has ended stays ended: only a row in service, or no    *)
(* row at all, is given another state.                                     *)
(***************************************************************************)
LEMMA EndedStays ==
  ASSUME TypeOK, [Next]_vars
  PROVE  \A i \in Identities :
           /\ Ended(i) => Ended(i)'
           /\ state[i] = "reserved" => state'[i] = "reserved"
<1> DEFINE Stays == \A i \in Identities :
                      /\ Ended(i) => Ended(i)'
                      /\ state[i] = "reserved" => state'[i] = "reserved"
<1>0. state \in [Identities -> IdentityState]
  BY DEF TypeOK, RowsTypeOK
<1>1. UNCHANGED state => Stays
  BY DEF Ended
<1>2. ASSUME NEW s \in Sessions, IngestStep(s) PROVE Stays
  BY <1>1, <1>2 DEF IngestStep, Rcpt, Reset, StoreBody, LockRecipient, Refuse,
         DeadlockAbort, CommitFails, Rollback, rowVars, identityVars
<1>3. ASSUME NEW s \in Sessions, Commit(s) PROVE Stays
  BY <1>3 DEF Commit, Ended
<1>4. ASSUME AccountsStep PROVE Stays
  BY <1>0, <1>1, <1>4 DEF AccountsStep, AllocateRandom, OpenNamed, CreateIdentity,
         DestroyIdentity, RecordDestroyed, LoseDestroyed, identityVars, Ended,
         AcceptsMail
<1>5. ASSUME LifecycleStep PROVE Stays
  <2>1. CASE Notice \/ Expire
    BY <1>0, <2>1 DEF Notice, Expire, MoveState, MarkExpiringIdentities,
                      ExpireDueIdentities, Ended, AcceptsMail
  <2>2. ASSUME NEW w \in Workers, PurgeApply(w) PROVE Stays
    BY <1>0, <2>2 DEF PurgeApply, Ended
  <2>3. CASE UNCHANGED state
    BY <1>1, <2>3
  <2>4. ASSUME NEW w \in Workers, SweepApply(w) PROVE UNCHANGED state
    BY <2>4 DEF SweepApply
  <2>5. ASSUME NEW d \in deliveries, Age(d) PROVE UNCHANGED state
    BY <2>5 DEF Age, identityVars
  <2>6. UNCHANGED identityVars => UNCHANGED state
    BY DEF identityVars
  <2> HIDE DEF Stays
  <2> QED
    BY <1>5, <2>1, <2>2, <2>3, <2>4, <2>5, <2>6, LifecycleMoves
<1>6. ASSUME NEW p \in Parsers, ParseStep(p) PROVE Stays
  BY <1>1, <1>6 DEF ParseStep, ParseProgress, Load, NothingToParse, LoadFails, LookupFails, Locate,
         GiveUp, ReadBytes, BytesMissing, PutAttachment, AcquireAttachment,
         Unparseable, StoreAttachmentFails, StoreResults, DeliveryGone,
         JobDone, ParserDies, rowVars, identityVars
<1>7. CASE UNCHANGED vars
  BY <1>1, <1>7 DEF vars, rowVars, identityVars
<1> QED
  BY <1>2, <1>3, <1>4, <1>5, <1>6, <1>7 DEF Next, CommitMessage

-----------------------------------------------------------------------------
(* Numbers.                                                                *)

\* Deliveries change in what is not their name: one row each, before and
\* after.
Rewritten ==
  \E g \in [deliveries -> Delivery] :
    /\ deliveries' = {g[d] : d \in deliveries}
    /\ \A d \in deliveries :
         Key(g[d]) = Key(d) /\ g[d].blob = d.blob /\ g[d].size = d.size

\* Every attachment there is afterwards has its delivery.
AttachmentsKeyed ==
  \A a \in attachments' : \E d \in deliveries : Key(d) = Key(a)

(***************************************************************************)
(* Ageing a message, marking it failed and storing what was parsed of it   *)
(* rewrite its row.                                                        *)
(***************************************************************************)
LEMMA AgeRewrites ==
  ASSUME TypeOK, NEW d \in deliveries, Age(d)
  PROVE  Rewritten
<1> DEFINE aged == [d EXCEPT !.old = TRUE]
           g == [x \in deliveries |-> IF x = d THEN aged ELSE x]
<1>1. deliveries \subseteq Delivery
  BY DEF TypeOK, RowsTypeOK
<1>2. /\ aged \in Delivery /\ Key(aged) = Key(d)
      /\ aged.blob = d.blob /\ aged.size = d.size
  BY <1>1 DEF Delivery, Key
<1>3. deliveries' = (deliveries \ {d}) \cup {aged}
  BY DEF Age
<1> HIDE DEF aged
<1>4. g \in [deliveries -> Delivery] /\ deliveries' = {g[x] : x \in deliveries}
  BY <1>1, <1>2, <1>3
<1>5. \A x \in deliveries :
        Key(g[x]) = Key(x) /\ g[x].blob = x.blob /\ g[x].size = x.size
  BY <1>2
<1> QED
  BY <1>4, <1>5 DEF Rewritten

(***************************************************************************)
(* So does marking as failed whatever delivery a parse job still finds.    *)
(***************************************************************************)
LEMMA MarkFailedRewrites ==
  ASSUME TypeOK, NEW p \in Parsers, MarkFailed(p)
  PROVE  Rewritten
<1> DEFINE failed(x) == [x EXCEPT !.status = "failed"]
           g == [x \in deliveries |-> IF x \in Current(p) THEN failed(x) ELSE x]
<1>1. deliveries \subseteq Delivery /\ Current(p) \subseteq deliveries
  BY DEF TypeOK, RowsTypeOK, Current, DeliveryAt
<1>2. \A x \in deliveries :
        /\ failed(x) \in Delivery /\ Key(failed(x)) = Key(x)
        /\ failed(x).blob = x.blob /\ failed(x).size = x.size
  BY <1>1 DEF Delivery, DeliveryState, Key
<1>3. deliveries' = (deliveries \ Current(p)) \cup {failed(x) : x \in Current(p)}
  BY DEF MarkFailed
<1> HIDE DEF failed
<1>4. g \in [deliveries -> Delivery]
  BY <1>1, <1>2
<1>5. deliveries' = {g[x] : x \in deliveries}
  BY <1>1, <1>3
<1>6. \A x \in deliveries :
        Key(g[x]) = Key(x) /\ g[x].blob = x.blob /\ g[x].size = x.size
  BY <1>2
<1> QED
  BY <1>4, <1>5, <1>6 DEF Rewritten

(***************************************************************************)
(* StoreParsed marks its delivery and replaces that delivery's attachments.*)
(***************************************************************************)
LEMMA StoreRewrites ==
  ASSUME TypeOK, NumbersUnique, NEW p \in Parsers, StoreResults(p)
  PROVE  Rewritten /\ AttachmentsKeyed
<1>1. PICK d \in Current(p) :
        /\ deliveries'  = (deliveries \ {d}) \cup {[d EXCEPT !.status = "parsed"]}
        /\ attachments' = {a \in attachments : Key(a) # Key(d)} \cup
             {[identity |-> d.identity, seq |-> d.seq, blob |-> b] :
                b \in parser[p].stored}
  BY DEF StoreResults
<1> DEFINE parsed == [d EXCEPT !.status = "parsed"]
           g == [x \in deliveries |-> IF x = d THEN parsed ELSE x]
<1>2. deliveries \subseteq Delivery /\ d \in deliveries
  BY DEF TypeOK, RowsTypeOK, Current, DeliveryAt
<1>3. /\ parsed \in Delivery /\ Key(parsed) = Key(d)
      /\ parsed.blob = d.blob /\ parsed.size = d.size
  BY <1>2 DEF Delivery, DeliveryState, Key
<1>4. deliveries' = (deliveries \ {d}) \cup {parsed}
  BY <1>1
<1>5. AttachmentsKeyed
  BY <1>1, <1>2 DEF AttachmentsKeyed, NumbersUnique, Key
<1> HIDE DEF parsed
<1>6. g \in [deliveries -> Delivery] /\ deliveries' = {g[x] : x \in deliveries}
  BY <1>2, <1>3, <1>4
<1>7. \A x \in deliveries :
        Key(g[x]) = Key(x) /\ g[x].blob = x.blob /\ g[x].size = x.size
  BY <1>3
<1> QED
  BY <1>5, <1>6, <1>7 DEF Rewritten

(***************************************************************************)
(* Rewriting rows keeps the numbers of an inbox unique.                    *)
(***************************************************************************)
LEMMA RewrittenNumbers ==
  ASSUME TypeOK, NumbersUnique, Rewritten, AttachmentsKeyed, UNCHANGED deliverySeq
  PROVE  NumbersUnique'
<1>1. PICK g \in [deliveries -> Delivery] :
        /\ deliveries' = {g[d] : d \in deliveries}
        /\ \A d \in deliveries :
             Key(g[d]) = Key(d) /\ g[d].blob = d.blob /\ g[d].size = d.size
  BY DEF Rewritten
<1>2. \A d \in deliveries : g[d].identity = d.identity /\ g[d].seq = d.seq
  BY <1>1 DEF Key
<1>3. \A d \in deliveries' : d.seq <= deliverySeq'[d.identity]
  BY <1>1, <1>2 DEF NumbersUnique
<1>4. \A d, e \in deliveries' : Key(d) = Key(e) => d = e
  BY <1>1 DEF NumbersUnique
<1>5. \A a \in attachments' : \E d \in deliveries' : Key(d) = Key(a)
  BY <1>1 DEF AttachmentsKeyed
<1> QED
  BY <1>3, <1>4, <1>5 DEF NumbersUnique, Key

(***************************************************************************)
(* Deleting deliveries takes their attachments along (ON DELETE CASCADE).  *)
(***************************************************************************)
LEMMA DeletedNumbers ==
  ASSUME NumbersUnique, NEW keys, DeleteDeliveries(keys), UNCHANGED deliverySeq
  PROVE  NumbersUnique'
<1>1. /\ deliveries'  = {d \in deliveries : Key(d) \notin keys}
      /\ attachments' = {a \in attachments : Key(a) \notin keys}
  BY DEF DeleteDeliveries
<1>2. \A a \in attachments' : \E d \in deliveries' : Key(d) = Key(a)
  BY <1>1 DEF NumbersUnique
<1> QED
  BY <1>1, <1>2 DEF NumbersUnique, Key

(***************************************************************************)
(* What a commit writes, spelled out: each recipient gets the next number  *)
(* of its row, under a name no other delivery has.                         *)
(***************************************************************************)
CommitWrites(s) ==
  /\ Recipients(s) \subseteq Identities
  /\ deliverySeq' = [i \in Identities |-> IF i \in Recipients(s)
                       THEN deliverySeq[i] + 1 ELSE deliverySeq[i]]
  /\ deliveries' = deliveries \cup
       {[identity |-> i, seq |-> deliverySeq[i] + 1, blob |-> session[s].blob,
         size |-> session[s].size, status |-> "received", old |-> FALSE] :
          i \in Recipients(s)}
  /\ Emit({Event("identity.created", i, 0) :
             i \in {j \in Recipients(s) : state[j] = "absent"}}
            \cup {Event("message.received", i, deliverySeq[i] + 1) :
                    i \in Recipients(s)})

(***************************************************************************)
(* A commit takes its numbers from what its session reserved, and while the*)
(* rows stay locked those are the next numbers.                            *)
(***************************************************************************)
LEMMA CommitNumbers ==
  ASSUME TypeOK, NumbersReserved, NEW s \in Sessions, Commit(s)
  PROVE  CommitWrites(s)
<1> DEFINE R == Recipients(s)
           seqOf == [i \in R |->
             session[s].seqs[CHOOSE n \in DOMAIN session[s].rcpts :
                               session[s].rcpts[n] = i]]
           created == {i \in R : state[i] = "absent"}
<1>1. /\ deliverySeq' = [i \in Identities |->
                           IF i \in R THEN seqOf[i] ELSE deliverySeq[i]]
      /\ deliveries' = deliveries \cup
           {[identity |-> i, seq |-> seqOf[i], blob |-> session[s].blob,
             size |-> session[s].size, status |-> "received", old |-> FALSE] :
              i \in R}
      /\ Emit({Event("identity.created", i, 0) : i \in created}
                \cup {Event("message.received", i, seqOf[i]) : i \in R})
  BY Zenon DEF Commit
<1>2. session[s] \in SessionState /\ Len(session[s].seqs) = Len(session[s].rcpts)
  BY DEF Commit, TypeOK, IngestTypeOK
<1>3. DOMAIN session[s].seqs = DOMAIN session[s].rcpts
  BY <1>2 DEF SessionState
<1>4. ASSUME NEW i \in R PROVE seqOf[i] = deliverySeq[i] + 1
  <2>1. \E n \in DOMAIN session[s].rcpts : session[s].rcpts[n] = i
    BY DEF Recipients
  <2>2. PICK m \in DOMAIN session[s].rcpts :
          m = (CHOOSE n \in DOMAIN session[s].rcpts : session[s].rcpts[n] = i)
            /\ session[s].rcpts[m] = i
    BY <2>1
  <2>3. session[s].seqs[m] = deliverySeq[i] + 1
    BY <1>3, <2>2 DEF NumbersReserved
  <2> QED
    BY <2>2, <2>3
<1>5. R \subseteq Identities
  BY <1>2 DEF Recipients, SessionState
<1> HIDE DEF seqOf
<1>6. {[identity |-> i, seq |-> seqOf[i], blob |-> session[s].blob,
        size |-> session[s].size, status |-> "received", old |-> FALSE] : i \in R}
      = {[identity |-> i, seq |-> deliverySeq[i] + 1, blob |-> session[s].blob,
        size |-> session[s].size, status |-> "received", old |-> FALSE] : i \in R}
  BY <1>4
<1>7. {Event("message.received", i, seqOf[i]) : i \in R}
      = {Event("message.received", i, deliverySeq[i] + 1) : i \in R}
  BY <1>4
<1>8. deliverySeq' = [i \in Identities |-> IF i \in R
                        THEN deliverySeq[i] + 1 ELSE deliverySeq[i]]
  BY <1>1, <1>4
<1> QED
  BY <1>1, <1>5, <1>6, <1>7, <1>8 DEF CommitWrites

(***************************************************************************)
(* Between two commits a session only reserves numbers of rows nobody has  *)
(* locked, or forgets the ones it has.                                     *)
(***************************************************************************)
LEMMA IngestNumbers ==
  ASSUME TypeOK, LocksHeld, NumbersReserved, NEW s \in Sessions, IngestStep(s)
  PROVE  NumbersReserved'
<1> DEFINE Held(t, tx) ==
             /\ \A m, n \in DOMAIN tx.rcpts : tx.rcpts[m] = tx.rcpts[n] => m = n
             /\ \A n \in DOMAIN tx.seqs : tx.seqs[n] = deliverySeq[tx.rcpts[n]] + 1
<1>0. session \in [Sessions -> SessionState]
  BY DEF TypeOK, IngestTypeOK
<1>1. UNCHANGED deliverySeq
  BY DEF IngestStep, Rcpt, Reset, StoreBody, LockRecipient, Refuse,
         DeadlockAbort, CommitFails, Rollback, rowVars, identityVars
<1>2. ASSUME NEW tx, session' = [session EXCEPT ![s] = tx], Held(s, tx)
      PROVE  NumbersReserved'
  BY <1>0, <1>1, <1>2 DEF NumbersReserved
<1>3. Held(s, IdleSession)
  BY DEF IdleSession
<1>4. Held(s, session[s])
  BY DEF NumbersReserved
<1>5. ASSUME NEW i \in Identities, Rcpt(s, i) PROVE NumbersReserved'
  <2> DEFINE tx == [session[s] EXCEPT !.rcpts = Append(@, i)]
             rcpts == session[s].rcpts
  <2>1. session' = [session EXCEPT ![s] = tx]
    BY <1>0, <1>5 DEF Rcpt, SessionState
  <2>2. rcpts \in Seq(Identities) /\ session[s].seqs \in Seq(Nat \ {0})
    BY <1>0 DEF SessionState
  <2>3. tx.rcpts = Append(rcpts, i) /\ tx.seqs = session[s].seqs
    BY <1>0 DEF SessionState
  <2>4. \A n \in DOMAIN rcpts : rcpts[n] # i
    BY <1>5 DEF Rcpt, Recipients
  <2> HIDE DEF tx
  <2>5. \A m, n \in DOMAIN tx.rcpts : tx.rcpts[m] = tx.rcpts[n] => m = n
    BY <1>4, <2>2, <2>3, <2>4
  <2>6. DOMAIN tx.seqs \subseteq DOMAIN rcpts
    BY <1>5, <2>2, <2>3 DEF Rcpt, LocksHeld
  <2>7. \A n \in DOMAIN tx.seqs : tx.seqs[n] = deliverySeq[tx.rcpts[n]] + 1
    BY <1>4, <2>2, <2>3, <2>6
  <2> QED
    BY <1>2, <2>1, <2>5, <2>7
<1>6. CASE StoreBody(s)
  BY <1>0, <1>1, <1>6 DEF StoreBody, NumbersReserved, SessionState
<1>7. CASE LockRecipient(s)
  <2> DEFINE seqs == session[s].seqs
             i == NextRecipient(s)
             tx == [session[s] EXCEPT !.seqs = Append(@, deliverySeq[i] + 1)]
  <2>1. session' = [session EXCEPT ![s] = tx]
    BY <1>0, <1>7 DEF LockRecipient, SessionState
  <2>2. session[s].rcpts \in Seq(Identities) /\ seqs \in Seq(Nat \ {0})
    BY <1>0 DEF SessionState
  <2>3. tx.seqs = Append(seqs, deliverySeq[i] + 1) /\ tx.rcpts = session[s].rcpts
    BY <1>0 DEF SessionState
  <2>4. i = session[s].rcpts[Len(seqs) + 1]
    BY DEF NextRecipient
  <2> HIDE DEF tx, i
  <2>5. ASSUME NEW n \in DOMAIN tx.seqs
        PROVE  tx.seqs[n] = deliverySeq[tx.rcpts[n]] + 1
    <3>1. n \in 1..Len(seqs) \/ n = Len(seqs) + 1
      BY <2>2, <2>3
    <3>2. CASE n \in 1..Len(seqs)
      <4>1. tx.seqs[n] = seqs[n]
        BY <2>2, <2>3, <3>2
      <4> QED
        BY <1>4, <2>2, <2>3, <3>2, <4>1
    <3>3. CASE n = Len(seqs) + 1
      BY <2>2, <2>3, <2>4, <3>3
    <3> QED
      BY <3>1, <3>2, <3>3
  <2>6. \A m, n \in DOMAIN tx.rcpts : tx.rcpts[m] = tx.rcpts[n] => m = n
    BY <1>4, <2>3
  <2> QED
    BY <1>2, <2>1, <2>5, <2>6
<1>8. CASE Reset(s) \/ Refuse(s) \/ DeadlockAbort(s) \/ CommitFails(s)
  BY <1>2, <1>3, <1>8 DEF Reset, Refuse, DeadlockAbort, CommitFails, Rollback
<1> QED
  BY <1>5, <1>6, <1>7, <1>8 DEF IngestStep

(***************************************************************************)
(* A commit gives out the numbers of the rows it holds, which no other     *)
(* session has reserved a number of.                                       *)
(***************************************************************************)
LEMMA CommitKeepsNumbers ==
  ASSUME TypeOK, LocksHeld, NumbersReserved, NumbersUnique,
         NEW s \in Sessions, Commit(s)
  PROVE  NumbersReserved' /\ NumbersUnique'
<1> DEFINE R == Recipients(s)
           new(i) == [identity |-> i, seq |-> deliverySeq[i] + 1,
                      blob |-> session[s].blob, size |-> session[s].size,
                      status |-> "received", old |-> FALSE]
<1>1. /\ R \subseteq Identities
      /\ deliverySeq' = [i \in Identities |-> IF i \in R
                           THEN deliverySeq[i] + 1 ELSE deliverySeq[i]]
      /\ deliveries' = deliveries \cup {new(i) : i \in R}
  BY CommitNumbers DEF CommitWrites
<1>2. session \in [Sessions -> SessionState] /\ deliverySeq \in [Identities -> Nat]
      /\ deliveries \subseteq Delivery
  BY DEF TypeOK, IngestTypeOK, RowsTypeOK
<1>3. session' = [session EXCEPT ![s] = IdleSession] /\ UNCHANGED attachments
      /\ Len(session[s].seqs) = Len(session[s].rcpts)
  BY DEF Commit
<1>4. DOMAIN session[s].seqs = DOMAIN session[s].rcpts
  BY <1>2, <1>3 DEF SessionState
<1>5. \A i \in R : lock[i] = s
  BY <1>4 DEF LocksHeld, Recipients
<1>6. ASSUME NEW t \in Sessions, t # s, NEW n \in DOMAIN session[t].seqs
      PROVE  session[t].rcpts[n] \in Identities \ R
  <2>1. session[t].rcpts[n] \notin R
    BY <1>5, <1>6 DEF LocksHeld
  <2>2. n \in DOMAIN session[t].rcpts
    BY <1>2 DEF LocksHeld, SessionState
  <2> QED
    BY <1>2, <2>1, <2>2 DEF SessionState
<1>7. NumbersReserved'
  <2> SUFFICES ASSUME NEW t \in Sessions
               PROVE  /\ \A m, n \in DOMAIN session'[t].rcpts :
                           session'[t].rcpts[m] = session'[t].rcpts[n] => m = n
                      /\ \A n \in DOMAIN session'[t].seqs :
                           session'[t].seqs[n] = deliverySeq'[session'[t].rcpts[n]] + 1
    BY DEF NumbersReserved
  <2>1. CASE t = s
    BY <1>2, <1>3, <2>1 DEF IdleSession
  <2>2. CASE t # s
    BY <1>1, <1>2, <1>3, <1>6, <2>2 DEF NumbersReserved
  <2> QED
    BY <2>1, <2>2
<1>8. NumbersUnique'
  <2>1. \A d \in deliveries : d.identity \in Identities /\ d.seq \in Nat
    BY <1>2 DEF Delivery
  <2>2. \A i \in R : new(i).identity = i /\ new(i).seq = deliverySeq[i] + 1
    OBVIOUS
  <2> HIDE DEF new
  <2>3. \A d \in deliveries' : d.seq <= deliverySeq'[d.identity]
    BY <1>1, <1>2, <2>1, <2>2 DEF NumbersUnique
  <2>4. ASSUME NEW d \in deliveries', NEW e \in deliveries', Key(d) = Key(e)
        PROVE  d = e
    <3>0. d.identity = e.identity /\ d.seq = e.seq
      BY <2>4 DEF Key
    <3>1. CASE d \in deliveries /\ e \in deliveries
      BY <2>4, <3>1 DEF NumbersUnique
    <3>2. ASSUME NEW x \in deliveries, NEW i \in R PROVE ~(x.identity = i /\ x.seq = new(i).seq)
      BY <1>2, <2>1, <2>2 DEF NumbersUnique
    <3>3. CASE d \in deliveries /\ e \notin deliveries
      BY <1>1, <2>2, <3>0, <3>2, <3>3
    <3>4. CASE d \notin deliveries /\ e \in deliveries
      BY <1>1, <2>2, <3>0, <3>2, <3>4
    <3>5. CASE d \notin deliveries /\ e \notin deliveries
      BY <1>1, <2>2, <3>0, <3>5
    <3> QED
      BY <3>1, <3>3, <3>4, <3>5
  <2>5. \A a \in attachments' : \E d \in deliveries' : Key(d) = Key(a)
    BY <1>1, <1>3 DEF NumbersUnique
  <2> QED
    BY <2>3, <2>4, <2>5 DEF NumbersUnique, Key
<1> QED
  BY <1>7, <1>8

NumbersInv == NumbersReserved /\ NumbersUnique

(***************************************************************************)
(* Steps that give out no number and keep every row keep the numbers.      *)
(***************************************************************************)
LEMMA NumbersStutter ==
  NumbersInv /\ UNCHANGED <<session, deliverySeq, deliveries, attachments>>
    => NumbersInv'
  BY DEF NumbersInv, NumbersReserved, NumbersUnique, Key

(* Numbers stay reserved while no session and no inbox moves.              *)
LEMMA ReservedStutter ==
  NumbersReserved /\ UNCHANGED <<session, deliverySeq>> => NumbersReserved'
  BY DEF NumbersReserved

(***************************************************************************)
(* Every step of every process keeps the numbers of each inbox unique.     *)
(***************************************************************************)
LEMMA NumbersKept ==
  ASSUME IInv, NumbersInv, [Next]_vars
  PROVE  NumbersInv'
<1>0. TypeOK /\ LocksHeld /\ NumbersReserved /\ NumbersUnique
  BY DEF IInv, NumbersInv
<1>1. ASSUME NEW s \in Sessions, IngestStep(s) PROVE NumbersInv'
  <2>1. UNCHANGED <<deliverySeq, deliveries, attachments>>
    BY <1>1 DEF IngestStep, Rcpt, Reset, StoreBody, LockRecipient, Refuse,
           DeadlockAbort, CommitFails, Rollback, rowVars, identityVars
  <2> QED
    BY <1>0, <1>1, <2>1, IngestNumbers DEF NumbersInv, NumbersUnique, Key
<1>2. ASSUME NEW s \in Sessions, Commit(s) PROVE NumbersInv'
  BY <1>0, <1>2, CommitKeepsNumbers DEF NumbersInv
<1>3. CASE AccountsStep /\ UNCHANGED OthersOfAccounts
  BY <1>3, NumbersStutter DEF AccountsStep, AllocateRandom, OpenNamed, CreateIdentity,
     DestroyIdentity, RecordDestroyed, LoseDestroyed, identityVars, OthersOfAccounts
<1>4. CASE LifecycleStep /\ UNCHANGED OthersOfLifecycle
  <2>1. UNCHANGED session
    BY <1>4 DEF OthersOfLifecycle
  <2>2. ASSUME NEW d \in deliveries, Age(d) PROVE NumbersInv'
    <3>1. UNCHANGED <<deliverySeq, attachments>>
      BY <2>2 DEF Age, identityVars
    <3>2. AttachmentsKeyed
      BY <1>0, <3>1 DEF AttachmentsKeyed, NumbersUnique
    <3> QED
      BY <1>0, <2>1, <2>2, <3>1, <3>2, AgeRewrites, RewrittenNumbers, ReservedStutter
         DEF NumbersInv
  <2>3. ASSUME NEW w \in Workers, PurgeApply(w) \/ SweepApply(w) PROVE NumbersInv'
    <3>1. UNCHANGED deliverySeq
      BY <2>3 DEF PurgeApply, SweepApply
    <3>2. \E keys : DeleteDeliveries(keys)
      BY <2>3 DEF PurgeApply, SweepApply
    <3> QED
      BY <1>0, <2>1, <3>1, <3>2, DeletedNumbers, ReservedStutter DEF NumbersInv
  <2>4. CASE UNCHANGED <<deliverySeq, deliveries, attachments>>
    BY <2>1, <2>4, NumbersStutter
  <2>5. CASE Notice \/ Expire
    BY <2>4, <2>5 DEF Notice, Expire, MoveState
  <2>6. CASE UNCHANGED <<identityVars, lock, deliveries, attachments, events>>
    BY <2>4, <2>6 DEF identityVars
  <2> QED
    BY <1>4, <2>2, <2>3, <2>5, <2>6, LifecycleMoves
<1>5. ASSUME NEW p \in Parsers, ParseStep(p), UNCHANGED OthersOfParse
      PROVE  NumbersInv'
  <2>1. UNCHANGED session /\ UNCHANGED deliverySeq
    BY <1>5 DEF OthersOfParse, ParseStep, ParseProgress, Load, NothingToParse, LoadFails, LookupFails, Locate,
         GiveUp, ReadBytes, BytesMissing, PutAttachment, AcquireAttachment,
         Unparseable, StoreAttachmentFails, StoreResults, DeliveryGone,
         JobDone, ParserDies, rowVars, identityVars
  <2>2. CASE MarkFailed(p) /\ UNCHANGED attachments
    <3>1. AttachmentsKeyed
      BY <1>0, <2>2 DEF AttachmentsKeyed, NumbersUnique
    <3> QED
      BY <1>0, <2>1, <2>2, <3>1, MarkFailedRewrites, RewrittenNumbers, ReservedStutter
         DEF NumbersInv
  <2>3. CASE StoreResults(p)
    BY <1>0, <2>1, <2>3, StoreRewrites, RewrittenNumbers, ReservedStutter
       DEF NumbersInv
  <2>4. CASE UNCHANGED <<deliveries, attachments>>
    BY <2>1, <2>4, NumbersStutter
  <2> QED
    BY <1>5, <2>2, <2>3, <2>4 DEF ParseStep, ParseProgress, Load, NothingToParse,
       LoadFails, LookupFails, Locate, GiveUp, ReadBytes, BytesMissing, PutAttachment,
       AcquireAttachment, Unparseable, StoreAttachmentFails, DeliveryGone, JobDone,
       ParserDies, rowVars, identityVars
<1>6. CASE UNCHANGED vars
  BY <1>6, NumbersStutter DEF vars, rowVars, identityVars
<1> QED
  BY <1>1, <1>2, <1>3, <1>4, <1>5, <1>6 DEF Next, CommitMessage

-----------------------------------------------------------------------------
(* Jobs.                                                                   *)

(***************************************************************************)
(* Jobs that stay as they are stay well aimed, because what has ended      *)
(* stays ended.                                                            *)
(***************************************************************************)
LEMMA AimStutter ==
  ASSUME TypeOK, JobsAimed, [Next]_vars, UNCHANGED job,
         destroying' \subseteq destroying
  PROVE  JobsAimed'
<1>1. \A i \in Identities : Ended(i) => Ended(i)'
  BY EndedStays
<1>2. \A w \in Workers : job[w].todo \subseteq Random
  BY DEF TypeOK, LifecycleTypeOK, JobState
<1> QED
  BY <1>1, <1>2 DEF JobsAimed, Ended

(***************************************************************************)
(* A job is replaced by one that is well aimed.                            *)
(***************************************************************************)
WellAimed(j) ==
  /\ j.todo \subseteq {i \in Random : Ended(i)}
  /\ j.pc = "purging" => \E i \in Random : j.target = {i} /\ Ended(i)
  /\ j.pc \in {"sweep", "sweeping"} =>
       \E i \in Named : j.target = {i} /\ \A d \in j.list : d.identity = i

(* A job that is replaced by a well aimed one leaves all jobs well aimed.  *)
LEMMA AimReplaced ==
  ASSUME TypeOK, JobsAimed, [Next]_vars, UNCHANGED destroying,
         NEW w \in Workers, NEW j, WellAimed(j), job' = [job EXCEPT ![w] = j]
  PROVE  JobsAimed'
<1>1. \A i \in Identities : Ended(i) => Ended(i)'
  BY EndedStays
<1>2. job \in [Workers -> JobState]
  BY DEF TypeOK, LifecycleTypeOK
<1>3. \A v \in Workers : job[v].todo \subseteq Random
  BY <1>2 DEF JobState
<1>4. \A v \in Workers : v # w => job'[v] = job[v]
  BY <1>2
<1>5. job'[w] = j
  BY <1>2
<1>6. destroying' \subseteq {i \in Random : Ended(i)'}
  BY <1>1 DEF JobsAimed
<1>7. ASSUME NEW v \in Workers
      PROVE  /\ \A i \in job'[v].todo : Ended(i)'
             /\ job'[v].pc = "purging" =>
                  \E i \in Random : job'[v].target = {i} /\ Ended(i)'
             /\ job'[v].pc \in {"sweep", "sweeping"} =>
                  \E i \in Named : /\ job'[v].target = {i}
                                   /\ \A d \in job'[v].list : d.identity = i
  BY <1>1, <1>3, <1>4, <1>5 DEF JobsAimed, WellAimed
<1> QED
  BY <1>6, <1>7 DEF JobsAimed, Ended

(***************************************************************************)
(* Between two candidates, and while collecting, a job only keeps what it  *)
(* has still to purge.                                                     *)
(***************************************************************************)
LEMMA AimBetween ==
  ASSUME NEW todo, todo \subseteq {i \in Random : Ended(i)}
  PROVE  /\ WellAimed(NoJob) /\ WellAimed(NextCandidate(todo))
         /\ \A blobs : WellAimed(ThenCollect(todo, blobs))
<1>1. WellAimed(NoJob)
  BY DEF WellAimed, NoJob
<1>2. WellAimed([NoJob EXCEPT !.pc = "purge", !.todo = todo])
  BY DEF WellAimed, NoJob
<1>3. WellAimed(NextCandidate(todo))
  BY <1>1, <1>2 DEF NextCandidate
<1>4. ASSUME NEW blobs
      PROVE  WellAimed([NoJob EXCEPT !.pc = "collect", !.todo = todo, !.gone = blobs])
  BY DEF WellAimed, NoJob
<1> QED
  BY <1>1, <1>3, <1>4 DEF ThenCollect

(***************************************************************************)
(* Every job is aimed at what its list query found.                        *)
(***************************************************************************)
LEMMA AimKept ==
  ASSUME IInv, JobsAimed, [Next]_vars
  PROVE  JobsAimed'
<1>0. TypeOK /\ job \in [Workers -> JobState] /\ state \in [Identities -> IdentityState]
  BY DEF IInv, TypeOK, LifecycleTypeOK, RowsTypeOK
<1>1. CASE UNCHANGED job /\ destroying' \subseteq destroying
  BY <1>0, <1>1, AimStutter
<1>2. ASSUME NEW i \in Identities, DestroyIdentity(i), UNCHANGED job PROVE JobsAimed'
  <2>1. \A k \in Identities : Ended(k) => Ended(k)'
    BY <1>0, EndedStays
  <2>2. Ended(i)' /\ i \in Random
    BY <1>0, <1>2 DEF DestroyIdentity, Ended
  <2>3. destroying' = destroying \cup {i}
    BY <1>2 DEF DestroyIdentity
  <2>4. \A w \in Workers : job[w].todo \subseteq Random
    BY <1>0 DEF JobState
  <2> QED
    BY <1>2, <2>1, <2>2, <2>3, <2>4 DEF JobsAimed, Ended
<1>3. CASE AccountsStep /\ UNCHANGED OthersOfAccounts
  BY <1>1, <1>2, <1>3 DEF AccountsStep, AllocateRandom, OpenNamed, CreateIdentity,
     RecordDestroyed, LoseDestroyed, OthersOfAccounts, lifecycleVars
<1>4. CASE LifecycleStep /\ UNCHANGED OthersOfLifecycle
  <2>0. UNCHANGED destroying
    BY <1>4 DEF OthersOfLifecycle
  <2>1. CASE UNCHANGED job
    BY <1>1, <2>0, <2>1
  <2>2. ASSUME NEW w \in Workers, PurgeJob(w) \/ SweepJob(w) \/ CollectJob(w) \/ JobDies(w)
        PROVE  JobsAimed'
    <3>0. job[w] \in JobState /\ job[w].todo \subseteq {i \in Random : Ended(i)}
      BY <1>0 DEF JobsAimed, JobState
    <3>1. ASSUME NEW j, WellAimed(j), job' = [job EXCEPT ![w] = j] PROVE JobsAimed'
      BY <1>0, <2>0, <3>1, AimReplaced
    <3>2. CASE PurgeList(w)
      <4>1. PurgeableIdentities \subseteq {i \in Random : Ended(i)}
        BY DEF PurgeableIdentities, Ended
      <4> QED
        BY <3>1, <3>2, <4>1, AimBetween DEF PurgeList
    <3>3. ASSUME NEW i \in Random, PurgeRead(w, i) PROVE JobsAimed'
      <4> DEFINE j == [job[w] EXCEPT !.pc = "purging", !.todo = @ \ {i},
                                     !.target = {i}, !.refs = IdentityReferences(i)]
      <4>1. job' = [job EXCEPT ![w] = j]
        BY <1>0, <3>3 DEF PurgeRead, JobState
      <4>2. j.pc = "purging" /\ j.todo = job[w].todo \ {i} /\ j.target = {i}
        BY <3>0 DEF JobState
      <4>3. i \in job[w].todo
        BY <3>3 DEF PurgeRead
      <4> HIDE DEF j
      <4>4. WellAimed(j)
        BY <3>0, <4>2, <4>3 DEF WellAimed
      <4> QED
        BY <3>1, <4>1, <4>4
    <3>4. CASE PurgeApply(w)
      BY <3>0, <3>1, <3>4, AimBetween DEF PurgeApply
    <3>5. CASE PurgeConflict(w)
      BY <3>0, <3>1, <3>5, AimBetween DEF PurgeConflict
    <3>6. CASE SweepList(w)
      <4>1. PICK i \in Named :
              job' = [job EXCEPT ![w].pc = "sweep", ![w].target = {i},
                                 ![w].list = ExpiredDeliveries(i)]
        BY <3>6 DEF SweepList
      <4> DEFINE j == [job[w] EXCEPT !.pc = "sweep", !.target = {i},
                                     !.list = ExpiredDeliveries(i)]
      <4>2. job' = [job EXCEPT ![w] = j]
        BY <1>0, <4>1 DEF JobState
      <4>3. /\ j.pc = "sweep" /\ j.todo = job[w].todo /\ j.target = {i}
            /\ j.list = ExpiredDeliveries(i)
        BY <3>0 DEF JobState
      <4>4. \A d \in ExpiredDeliveries(i) : d.identity = i
        BY DEF ExpiredDeliveries
      <4> HIDE DEF j
      <4>5. WellAimed(j)
        BY <3>0, <4>3, <4>4 DEF WellAimed
      <4> QED
        BY <3>1, <4>2, <4>5
    <3>7. CASE SweepRead(w)
      <4> DEFINE j == [job[w] EXCEPT !.pc = "sweeping",
                                     !.refs = ReferencesOf(Keys(job[w].list))]
      <4>1. job' = [job EXCEPT ![w] = j]
        BY <1>0, <3>7 DEF SweepRead, JobState
      <4>2. /\ j.pc = "sweeping" /\ j.todo = job[w].todo
            /\ j.target = job[w].target /\ j.list = job[w].list
        BY <3>0 DEF JobState
      <4> HIDE DEF j
      <4>3. WellAimed(j)
        BY <3>0, <3>7, <4>2 DEF WellAimed, JobsAimed, SweepRead
      <4> QED
        BY <3>1, <4>1, <4>3
    <3>8. CASE SweepApply(w)
      BY <3>1, <3>8, AimBetween DEF SweepApply
    <3>9. CASE CollectList(w)
      BY <3>1, <3>9, AimBetween DEF CollectList
    <3>10. ASSUME NEW b \in Blobs, ClaimOrphanBlob(w, b) PROVE JobsAimed'
      <4> DEFINE j == [job[w] EXCEPT !.claimed = b]
      <4>1. job' = [job EXCEPT ![w] = j]
        BY <1>0, <3>10 DEF ClaimOrphanBlob, JobState
      <4>2. /\ j.pc = "collect" /\ j.todo = job[w].todo
        BY <3>0, <3>10 DEF JobState, ClaimOrphanBlob, Unclaimed
      <4> HIDE DEF j
      <4>3. WellAimed(j)
        BY <3>0, <4>2 DEF WellAimed
      <4> QED
        BY <3>1, <4>1, <4>3
    <3>11. ASSUME NEW b \in Blobs, Skip(w, b) PROVE JobsAimed'
      BY <3>0, <3>1, <3>11, AimBetween DEF Skip
    <3>12. CASE DeleteBytes(w)
      BY <3>0, <3>1, <3>12, AimBetween DEF DeleteBytes
    <3>13. CASE JobDies(w)
      BY <3>1, <3>13, AimBetween DEF JobDies
    <3> QED
      BY <2>2, <3>2, <3>3, <3>4, <3>5, <3>6, <3>7, <3>8, <3>9, <3>10, <3>11, <3>12,
         <3>13 DEF PurgeJob, SweepJob, CollectJob
  <2> QED
    BY <1>4, <2>1, <2>2 DEF LifecycleStep, Tick, Age, Notice, Expire, MoveState,
                            lifecycleVars
<1>5. ASSUME NEW s \in Sessions, IngestStep(s), UNCHANGED OthersOfIngest
      PROVE  JobsAimed'
  BY <1>1, <1>5 DEF OthersOfIngest, lifecycleVars
<1>6. ASSUME NEW s \in Sessions, CommitMessage(s) PROVE JobsAimed'
  BY <1>1, <1>6 DEF CommitMessage, lifecycleVars
<1>7. ASSUME NEW p \in Parsers, UNCHANGED OthersOfParse PROVE JobsAimed'
  BY <1>1, <1>7 DEF OthersOfParse, lifecycleVars
<1>8. CASE UNCHANGED vars
  BY <1>1, <1>8 DEF vars, lifecycleVars
<1> QED
  BY <1>3, <1>4, <1>5, <1>6, <1>7, <1>8 DEF Next

-----------------------------------------------------------------------------
(* The event log.                                                          *)

EventsInv == EventsTyped /\ EventsFollowState /\ ArrivalsLogged

\* How many copies of an event the log holds does not change.
SameCopies(type, i, n) == Copies(type, i, n)' = Copies(type, i, n)

(***************************************************************************)
(* An event is known by its type, its identity and its number.             *)
(***************************************************************************)
LEMMA EventIsUnique ==
  \A t, i, n, u, j, m : Event(t, i, n) = Event(u, j, m) => t = u /\ i = j /\ n = m
<1> SUFFICES ASSUME NEW t, NEW i, NEW n, NEW u, NEW j, NEW m,
                    Event(t, i, n) = Event(u, j, m)
             PROVE  t = u /\ i = j /\ n = m
  OBVIOUS
<1>1. /\ Event(t, i, n).type = t /\ Event(t, i, n).identity = i /\ Event(t, i, n).seq = n
      /\ Event(u, j, m).type = u /\ Event(u, j, m).identity = j /\ Event(u, j, m).seq = m
  BY DEF Event
<1> QED
  BY <1>1

(***************************************************************************)
(* Writing one type of event about some identities.                        *)
(***************************************************************************)
LEMMA EmitAbout ==
  ASSUME IsABag(events), EventsTyped, NEW t \in EventType, NEW S \in SUBSET Identities,
         Emit({Event(t, i, 0) : i \in S})
  PROVE  /\ EventsTyped'
         /\ \A type, i, n : type # t \/ i \notin S \/ n # 0 => SameCopies(type, i, n)
         /\ \A i \in S : Copies(t, i, 0)' = Copies(t, i, 0) + 1
<1> DEFINE evs == {Event(t, i, 0) : i \in S}
<1>1. /\ BagToSet(events') = BagToSet(events) \cup evs
      /\ \A type, i, n :
           Copies(type, i, n)' =
             Copies(type, i, n) + (IF Event(type, i, n) \in evs THEN 1 ELSE 0)
  BY EmitCopies
<1>2. \A type, i, n : Event(type, i, n) \in evs <=> type = t /\ i \in S /\ n = 0
  BY EventIsUnique
<1>3. EventsTyped'
  <2>1. BagToSet(events)' = BagToSet(events) \cup evs
    BY <1>1 DEF BagToSet
  <2>2. \A e \in evs : \E i \in Identities : e = Event(t, i, 0)
    OBVIOUS
  <2> HIDE DEF evs
  <2> QED
    BY <2>1, <2>2 DEF EventsTyped, Event
<1>4. \A type, i, n : Copies(type, i, n) \in Nat
  BY DEF Copies, BagIn, BagToSet, IsABag
<1> HIDE DEF evs
<1>5. \A type, i, n : type # t \/ i \notin S \/ n # 0 => SameCopies(type, i, n)
  BY <1>1, <1>2, <1>4 DEF SameCopies
<1>6. \A i \in S : Copies(t, i, 0)' = Copies(t, i, 0) + 1
  BY <1>1, <1>2, <1>4
<1> QED
  BY <1>3, <1>5, <1>6

(***************************************************************************)
(* Announcing that messages were parsed, or let go, changes nothing of     *)
(* what the log says about identities and arrivals.                        *)
(***************************************************************************)
LEMMA EmitMessages ==
  ASSUME IsABag(events), EventsTyped,
         NEW t \in {"message.parsed", "message.expired"}, NEW D \in SUBSET Delivery,
         Emit({Event(t, d.identity, d.seq) : d \in D})
  PROVE  /\ EventsTyped'
         /\ \A type, i, n : type # t => SameCopies(type, i, n)
<1> DEFINE evs == {Event(t, d.identity, d.seq) : d \in D}
<1>1. /\ BagToSet(events') = BagToSet(events) \cup evs
      /\ \A type, i, n :
           Copies(type, i, n)' =
             Copies(type, i, n) + (IF Event(type, i, n) \in evs THEN 1 ELSE 0)
  BY EmitCopies
<1>2. \A type, i, n : Event(type, i, n) \in evs => type = t
  BY EventIsUnique
<1>3. EventsTyped'
  <2>1. BagToSet(events)' = BagToSet(events) \cup evs
    BY <1>1 DEF BagToSet
  <2>2. \A e \in evs : \E i \in Identities, n \in Nat : e = Event(t, i, n)
    BY DEF Delivery
  <2>3. t \in EventType
    BY DEF EventType
  <2> HIDE DEF evs
  <2> QED
    BY <2>1, <2>2, <2>3 DEF EventsTyped, Event
<1>4. \A type, i, n : Copies(type, i, n) \in Nat
  BY DEF Copies, BagIn, BagToSet, IsABag
<1> HIDE DEF evs
<1>5. \A type, i, n : type # t => SameCopies(type, i, n)
  BY <1>1, <1>2, <1>4 DEF SameCopies
<1> QED
  BY <1>3, <1>5

(***************************************************************************)
(* Steps that change neither a state nor a number, and write no event      *)
(* about either, keep the log in step with the rows.                       *)
(***************************************************************************)
IdentityEvents ==
  {"identity.created", "identity.expiring", "identity.expired", "identity.purged"}

(* A step that changes no inbox and copies no event of an inbox or of a    *)
(* received message keeps the log in agreement with the inboxes.           *)
LEMMA LogKept ==
  ASSUME EventsInv, EventsTyped', UNCHANGED <<state, deliverySeq>>,
         destroying' \subseteq destroying,
         \A type \in IdentityEvents \cup {"message.received"} :
           \A i, n : SameCopies(type, i, n)
  PROVE  EventsInv'
<1>1. \A i : Ended(i)' = Ended(i)
  BY DEF Ended
<1>2. EventsFollowState'
  BY <1>1 DEF EventsInv, EventsFollowState, SameCopies, IdentityEvents
<1>3. ArrivalsLogged'
  BY DEF EventsInv, ArrivalsLogged, SameCopies
<1> QED
  BY <1>2, <1>3 DEF EventsInv

(* The log agrees with the inboxes while neither changes, whoever finishes *)
(* destroying.                                                             *)
LEMMA LogStutter ==
  ASSUME EventsInv, UNCHANGED <<state, deliverySeq, events>>,
         destroying' \subseteq destroying
  PROVE  EventsInv'
<1>1. \A type, i, n : SameCopies(type, i, n)
  BY DEF SameCopies, Copies, Event
<1>2. EventsTyped'
  BY DEF EventsInv, EventsTyped, Event
<1> QED
  BY <1>1, <1>2, LogKept

(***************************************************************************)
(* A commit announces the identities it brings into being and the numbers  *)
(* it gives out, in the transaction that makes them visible.               *)
(***************************************************************************)
LEMMA CommitLogged ==
  ASSUME TypeOK, NumbersReserved, EventsInv, UNCHANGED destroying,
         NEW s \in Sessions, Commit(s)
  PROVE  EventsInv'
<1> DEFINE R == Recipients(s)
           created == {i \in R : state[i] = "absent"}
           evs == {Event("identity.created", i, 0) : i \in created}
                    \cup {Event("message.received", i, deliverySeq[i] + 1) : i \in R}
<1>0. /\ IsABag(events) /\ state \in [Identities -> IdentityState]
      /\ deliverySeq \in [Identities -> Nat]
  BY DEF TypeOK, RowsTypeOK
<1>1. /\ R \subseteq Identities
      /\ deliverySeq' = [i \in Identities |-> IF i \in R
                           THEN deliverySeq[i] + 1 ELSE deliverySeq[i]]
      /\ Emit(evs)
  BY CommitNumbers DEF CommitWrites
<1>2. state' = [i \in Identities |-> IF i \in created THEN "active" ELSE state[i]]
  BY DEF Commit
<1>3. /\ BagToSet(events') = BagToSet(events) \cup evs
      /\ \A type, i, n :
           Copies(type, i, n)' =
             Copies(type, i, n) + (IF Event(type, i, n) \in evs THEN 1 ELSE 0)
  BY <1>0, <1>1, EmitCopies
<1>4. \A type, i, n :
        Event(type, i, n) \in evs <=>
          \/ type = "identity.created" /\ i \in created /\ n = 0
          \/ type = "message.received" /\ i \in R /\ n = deliverySeq[i] + 1
  BY EventIsUnique
<1>5. \A type, i, n : Copies(type, i, n) \in Nat
  BY <1>0 DEF Copies, BagIn, BagToSet, IsABag
<1>6. EventsTyped'
  <2>1. BagToSet(events)' = BagToSet(events) \cup evs
    BY <1>3 DEF BagToSet
  <2>2. \A e \in evs :
          \E type \in EventType, i \in Identities, n \in Nat : e = Event(type, i, n)
    <3>1. "identity.created" \in EventType /\ "message.received" \in EventType
      BY DEF EventType
    <3>2. \A i \in R : deliverySeq[i] + 1 \in Nat
      BY <1>0, <1>1
    <3> QED
      BY <1>1, <3>1, <3>2
  <2> HIDE DEF evs
  <2> QED
    BY <2>1, <2>2 DEF EventsInv, EventsTyped, Event
<1> HIDE DEF evs, R
<1>7. EventsFollowState'
  <2> SUFFICES ASSUME NEW i \in Identities
               PROVE
        /\ Copies("identity.created", i, 0)' = IF state'[i] = "absent" THEN 0 ELSE 1
        /\ Copies("identity.expiring", i, 0)' \in
             IF state'[i] \in {"absent", "active"} THEN {0} ELSE {0, 1}
        /\ Copies("identity.expired", i, 0)' \in
             IF Ended(i)' /\ i \notin destroying' THEN {0, 1} ELSE {0}
        /\ Copies("identity.purged", i, 0)' = IF state'[i] = "reserved" THEN 1 ELSE 0
    BY DEF EventsFollowState
  <2>1. /\ SameCopies("identity.expiring", i, 0)
        /\ SameCopies("identity.expired", i, 0)
        /\ SameCopies("identity.purged", i, 0)
        /\ Copies("identity.created", i, 0)' =
             Copies("identity.created", i, 0) + (IF i \in created THEN 1 ELSE 0)
    BY <1>3, <1>4, <1>5 DEF SameCopies
  <2>2. i \in created => state[i] = "absent" /\ state'[i] = "active"
    BY <1>0, <1>2
  <2>3. i \notin created => state'[i] = state[i]
    BY <1>0, <1>2
  <2> HIDE DEF created
  <2> QED
    BY <2>1, <2>2, <2>3 DEF EventsInv, EventsFollowState, SameCopies, Ended
<1>8. ArrivalsLogged'
  <2> SUFFICES ASSUME NEW i \in Identities, NEW n \in Nat
               PROVE  Copies("message.received", i, n)' =
                        IF n \in 1..deliverySeq'[i] THEN 1 ELSE 0
    BY DEF ArrivalsLogged
  <2>1. Copies("message.received", i, n) = IF n \in 1..deliverySeq[i] THEN 1 ELSE 0
    BY DEF EventsInv, ArrivalsLogged
  <2>2. Copies("message.received", i, n)' =
          Copies("message.received", i, n)
            + (IF i \in R /\ n = deliverySeq[i] + 1 THEN 1 ELSE 0)
    BY <1>3, <1>4
  <2>3. deliverySeq'[i] = IF i \in R THEN deliverySeq[i] + 1 ELSE deliverySeq[i]
    BY <1>1
  <2>4. deliverySeq[i] \in Nat
    BY <1>0
  <2> QED
    BY <2>1, <2>2, <2>3, <2>4
<1> QED
  BY <1>6, <1>7, <1>8 DEF EventsInv

(***************************************************************************)
(* One transition of a set of identities, announced with it.               *)
(***************************************************************************)
LEMMA TransitionLogged ==
  ASSUME TypeOK, EventsInv, UNCHANGED <<deliverySeq, destroying>>,
         NEW S \in SUBSET Identities, NEW to \in IdentityState, NEW t \in IdentityEvents,
         state' = [i \in Identities |-> IF i \in S THEN to ELSE state[i]],
         Emit({Event(t, i, 0) : i \in S}),
         \A i \in S :
           \/ state[i] = "absent" /\ to = "active" /\ t = "identity.created"
           \/ state[i] = "active" /\ to = "expiring" /\ t = "identity.expiring"
           \/ AcceptsMail(i) /\ i \notin destroying /\ to = "expired"
                /\ t = "identity.expired"
           \/ state[i] = "expired" /\ to = "reserved" /\ t = "identity.purged"
  PROVE  EventsInv'
<1>1. /\ EventsTyped'
      /\ \A type, i, n : type # t \/ i \notin S \/ n # 0 => SameCopies(type, i, n)
      /\ \A i \in S : Copies(t, i, 0)' = Copies(t, i, 0) + 1
  <2>1. t \in EventType
    BY DEF EventType, IdentityEvents
  <2> QED
    BY <2>1, EmitAbout DEF TypeOK, RowsTypeOK, EventsInv
<1>2. ArrivalsLogged'
  BY <1>1 DEF EventsInv, ArrivalsLogged, SameCopies, IdentityEvents
<1>3. ASSUME NEW i \in Identities \ S
      PROVE  /\ \A type : SameCopies(type, i, 0)
             /\ state'[i] = state[i]
  BY <1>1
<1>4. \A i \in S : state'[i] = to /\ Copies(t, i, 0)' = Copies(t, i, 0) + 1
  BY <1>1
<1>5. \A i \in S : \A type \in IdentityEvents \ {t} : SameCopies(type, i, 0)
  BY <1>1
<1>6. EventsFollowState'
  <2> SUFFICES ASSUME NEW i \in Identities
               PROVE
        /\ Copies("identity.created", i, 0)' = IF state'[i] = "absent" THEN 0 ELSE 1
        /\ Copies("identity.expiring", i, 0)' \in
             IF state'[i] \in {"absent", "active"} THEN {0} ELSE {0, 1}
        /\ Copies("identity.expired", i, 0)' \in
             IF Ended(i)' /\ i \notin destroying' THEN {0, 1} ELSE {0}
        /\ Copies("identity.purged", i, 0)' = IF state'[i] = "reserved" THEN 1 ELSE 0
    BY DEF EventsFollowState
  <2>0. /\ Copies("identity.created", i, 0) = IF state[i] = "absent" THEN 0 ELSE 1
        /\ Copies("identity.expiring", i, 0) \in
             IF state[i] \in {"absent", "active"} THEN {0} ELSE {0, 1}
        /\ Copies("identity.expired", i, 0) \in
             IF Ended(i) /\ i \notin destroying THEN {0, 1} ELSE {0}
        /\ Copies("identity.purged", i, 0) = IF state[i] = "reserved" THEN 1 ELSE 0
    BY DEF EventsInv, EventsFollowState
  <2>1. CASE i \notin S
    BY <1>3, <2>0, <2>1 DEF SameCopies, Ended
  <2>2. CASE i \in S /\ t = "identity.created"
    BY <1>4, <1>5, <2>0, <2>2 DEF SameCopies, Ended, IdentityEvents, AcceptsMail
  <2>3. CASE i \in S /\ t = "identity.expiring"
    BY <1>4, <1>5, <2>0, <2>3 DEF SameCopies, Ended, IdentityEvents, AcceptsMail
  <2>4. CASE i \in S /\ t = "identity.expired"
    BY <1>4, <1>5, <2>0, <2>4 DEF SameCopies, Ended, IdentityEvents, AcceptsMail
  <2>5. CASE i \in S /\ t = "identity.purged"
    BY <1>4, <1>5, <2>0, <2>5 DEF SameCopies, Ended, IdentityEvents, AcceptsMail
  <2> QED
    BY <2>1, <2>2, <2>3, <2>4, <2>5 DEF IdentityEvents
<1> QED
  BY <1>1, <1>2, <1>6 DEF EventsInv

(***************************************************************************)
(* Creating an identity announces it; destroying one owes the announcement *)
(* until it is written or lost.                                            *)
(***************************************************************************)
LEMMA AccountsLogged ==
  ASSUME TypeOK, JobsAimed, EventsInv, AccountsStep
  PROVE  EventsInv'
<1>0. state \in [Identities -> IdentityState] /\ IsABag(events)
  BY DEF TypeOK, RowsTypeOK
<1>1. ASSUME NEW i \in Identities, CreateIdentity(i) PROVE EventsInv'
  <2> DEFINE S == {i}
  <2>1. state' = [j \in Identities |-> IF j \in S THEN "active" ELSE state[j]]
    BY <1>0, <1>1 DEF CreateIdentity
  <2>2. {Event("identity.created", j, 0) : j \in S} = {Event("identity.created", i, 0)}
    OBVIOUS
  <2>3. Emit({Event("identity.created", j, 0) : j \in S})
    BY <1>1, <2>2 DEF CreateIdentity
  <2>4. \A j \in S : state[j] = "absent"
    BY <1>1 DEF CreateIdentity
  <2>5. UNCHANGED <<deliverySeq, destroying>> /\ S \in SUBSET Identities
    BY <1>1 DEF CreateIdentity
  <2>6. "identity.created" \in IdentityEvents /\ "active" \in IdentityState
    BY DEF IdentityEvents, IdentityState
  <2> HIDE DEF S
  <2> QED
    BY <2>1, <2>3, <2>4, <2>5, <2>6, TransitionLogged
<1>2. ASSUME NEW i \in Identities, DestroyIdentity(i) PROVE EventsInv'
  <2>1. state' = [state EXCEPT ![i] = "expired"] /\ destroying' = destroying \cup {i}
        /\ UNCHANGED <<deliverySeq, events>> /\ AcceptsMail(i)
    BY <1>2 DEF DestroyIdentity
  <2>2. \A type, j, n : SameCopies(type, j, n)
    BY <2>1 DEF SameCopies, Copies, Event
  <2>3. EventsTyped' /\ ArrivalsLogged'
    BY <2>1, <2>2 DEF EventsInv, EventsTyped, ArrivalsLogged, SameCopies, Event
  <2>4. \A j \in Identities : state'[j] = IF j = i THEN "expired" ELSE state[j]
    BY <1>0, <2>1
  <2>5. EventsFollowState'
    BY <2>1, <2>2, <2>4 DEF EventsInv, EventsFollowState, SameCopies, Ended, AcceptsMail
  <2> QED
    BY <2>3, <2>5 DEF EventsInv
<1>3. ASSUME NEW i \in Identities, RecordDestroyed(i) PROVE EventsInv'
  <2>1. /\ i \in destroying /\ destroying' = destroying \ {i}
        /\ Emit({Event("identity.expired", i, 0)})
        /\ UNCHANGED <<state, deliverySeq>>
    BY <1>3 DEF RecordDestroyed, identityVars
  <2>2. {Event("identity.expired", j, 0) : j \in {i}} = {Event("identity.expired", i, 0)}
    OBVIOUS
  <2>3. "identity.expired" \in EventType /\ {i} \in SUBSET Identities
    BY DEF EventType
  <2>4. /\ EventsTyped'
        /\ \A type, j, n : type # "identity.expired" \/ j \notin {i} \/ n # 0 =>
             SameCopies(type, j, n)
        /\ \A j \in {i} : Copies("identity.expired", j, 0)' =
                            Copies("identity.expired", j, 0) + 1
    BY <1>0, <2>1, <2>2, <2>3, EmitAbout DEF EventsInv
  <2>5. ArrivalsLogged'
    BY <2>1, <2>4 DEF EventsInv, ArrivalsLogged, SameCopies
  <2>6. Ended(i) /\ \A j : Ended(j)' = Ended(j)
    BY <2>1 DEF JobsAimed, Ended
  <2>7. EventsFollowState'
    BY <2>1, <2>4, <2>6 DEF EventsInv, EventsFollowState, SameCopies
  <2> QED
    BY <2>4, <2>5, <2>7 DEF EventsInv
<1>4. ASSUME NEW i \in Identities, LoseDestroyed(i) PROVE EventsInv'
  <2>1. UNCHANGED <<state, deliverySeq, events>> /\ destroying' \subseteq destroying
    BY <1>4 DEF LoseDestroyed, identityVars
  <2> QED
    BY <2>1, LogStutter
<1> QED
  BY <1>1, <1>2, <1>3, <1>4 DEF AccountsStep, AllocateRandom, OpenNamed

(***************************************************************************)
(* Notice, expire and purge announce the transition they make; a sweep     *)
(* announces messages only.                                                *)
(***************************************************************************)
LEMMA LifecycleLogged ==
  ASSUME TypeOK, JobsAimed, EventsInv, UNCHANGED destroying, LifecycleStep
  PROVE  EventsInv'
<1>0. /\ state \in [Identities -> IdentityState] /\ IsABag(events)
      /\ deliveries \subseteq Delivery
  BY DEF TypeOK, RowsTypeOK
<1>1. CASE Notice
  <2> DEFINE S == MarkExpiringIdentities
  <2>1. /\ state' = [i \in Identities |-> IF i \in S THEN "expiring" ELSE state[i]]
        /\ Emit({Event("identity.expiring", i, 0) : i \in S})
        /\ UNCHANGED deliverySeq
    BY <1>1 DEF Notice, MoveState
  <2>2. S \in SUBSET Identities /\ \A i \in S : state[i] = "active"
    BY DEF MarkExpiringIdentities
  <2>3. "identity.expiring" \in IdentityEvents /\ "expiring" \in IdentityState
    BY DEF IdentityEvents, IdentityState
  <2> HIDE DEF S
  <2> QED
    BY <2>1, <2>2, <2>3, TransitionLogged
<1>2. CASE Expire
  <2> DEFINE S == ExpireDueIdentities
  <2>1. /\ state' = [i \in Identities |-> IF i \in S THEN "expired" ELSE state[i]]
        /\ Emit({Event("identity.expired", i, 0) : i \in S})
        /\ UNCHANGED deliverySeq
    BY <1>2 DEF Expire, MoveState
  <2>2. S \in SUBSET Identities /\ \A i \in S : AcceptsMail(i)
    BY DEF ExpireDueIdentities
  <2>3. \A i \in S : i \notin destroying
    BY <2>2 DEF JobsAimed, AcceptsMail, Ended
  <2>4. "identity.expired" \in IdentityEvents /\ "expired" \in IdentityState
    BY DEF IdentityEvents, IdentityState
  <2> HIDE DEF S
  <2> QED
    BY <2>1, <2>2, <2>3, <2>4, TransitionLogged
<1>3. ASSUME NEW w \in Workers, PurgeApply(w) PROVE EventsInv'
  <2> DEFINE S == {i \in job[w].target : state[i] = "expired"}
  <2>1. /\ state' = [i \in Identities |-> IF i \in S THEN "reserved" ELSE state[i]]
        /\ Emit({Event("identity.purged", i, 0) : i \in S})
        /\ UNCHANGED deliverySeq
    BY <1>3 DEF PurgeApply
  <2>2. S \in SUBSET Identities /\ \A i \in S : state[i] = "expired"
    BY DEF TypeOK, LifecycleTypeOK, JobState
  <2>3. "identity.purged" \in IdentityEvents /\ "reserved" \in IdentityState
    BY DEF IdentityEvents, IdentityState
  <2> HIDE DEF S
  <2> QED
    BY <2>1, <2>2, <2>3, TransitionLogged
<1>4. ASSUME NEW w \in Workers, SweepApply(w) PROVE EventsInv'
  <2> DEFINE D == {d \in deliveries : Key(d) \in Keys(job[w].list)}
  <2>1. /\ Emit({Event("message.expired", d.identity, d.seq) : d \in D})
        /\ UNCHANGED <<state, deliverySeq>>
    BY <1>4 DEF SweepApply
  <2>2. D \in SUBSET Delivery
    BY <1>0
  <2> HIDE DEF D
  <2>3. EventsTyped' /\ \A type, i, n : type # "message.expired" => SameCopies(type, i, n)
    BY <1>0, <2>1, <2>2, EmitMessages DEF EventsInv
  <2> QED
    BY <2>1, <2>3, LogKept DEF IdentityEvents
<1>5. CASE UNCHANGED <<state, deliverySeq, events>>
  BY <1>5, LogStutter
<1>6. ASSUME NEW d \in deliveries, Age(d) PROVE EventsInv'
  BY <1>5, <1>6 DEF Age, identityVars
<1>7. CASE UNCHANGED <<identityVars, lock, deliveries, attachments, events>>
  BY <1>5, <1>7 DEF identityVars
<1> QED
  BY <1>1, <1>2, <1>3, <1>4, <1>6, <1>7, LifecycleMoves

(***************************************************************************)
(* A parser announces parsed messages only.                                *)
(***************************************************************************)
LEMMA ParseLogged ==
  ASSUME TypeOK, EventsInv, UNCHANGED destroying, NEW p \in Parsers, ParseStep(p)
  PROVE  EventsInv'
<1>1. CASE StoreResults(p)
  <2>1. PICK d \in Current(p) : Emit({Event("message.parsed", d.identity, d.seq)})
    BY <1>1 DEF StoreResults
  <2>2. {Event("message.parsed", x.identity, x.seq) : x \in {d}}
          = {Event("message.parsed", d.identity, d.seq)}
    OBVIOUS
  <2>3. {d} \in SUBSET Delivery
    BY DEF TypeOK, RowsTypeOK, Current, DeliveryAt
  <2>4. Emit({Event("message.parsed", x.identity, x.seq) : x \in {d}})
    BY <2>1, <2>2
  <2>5. EventsTyped' /\ \A type, i, n : type # "message.parsed" => SameCopies(type, i, n)
    BY <2>3, <2>4, EmitMessages DEF TypeOK, RowsTypeOK, EventsInv
  <2>6. UNCHANGED <<state, deliverySeq>>
    BY <1>1 DEF StoreResults, identityVars
  <2> QED
    BY <2>5, <2>6, LogKept DEF IdentityEvents
<1>2. CASE UNCHANGED <<state, deliverySeq, events>>
  BY <1>2, LogStutter
<1> QED
  BY <1>1, <1>2 DEF ParseStep, ParseProgress, Load, NothingToParse, LoadFails, LookupFails, Locate,
     GiveUp, ReadBytes, BytesMissing, PutAttachment, AcquireAttachment, Unparseable,
     StoreAttachmentFails, DeliveryGone, JobDone, ParserDies, rowVars, identityVars

(***************************************************************************)
(* Every step of every process keeps the log in step with the rows.        *)
(***************************************************************************)
LEMMA EventsKept ==
  ASSUME HistoryInv, [Next]_vars
  PROVE  EventsInv'
<1>0. TypeOK /\ JobsAimed /\ EventsInv /\ NumbersReserved
  BY DEF HistoryInv, IInv, EventsInv
<1>1. ASSUME NEW s \in Sessions, IngestStep(s), UNCHANGED OthersOfIngest
      PROVE  EventsInv'
  <2>1. UNCHANGED <<state, deliverySeq, events, destroying>>
    BY <1>1 DEF IngestStep, Rcpt, Reset, StoreBody, LockRecipient, Refuse,
           DeadlockAbort, CommitFails, Rollback, rowVars, identityVars, OthersOfIngest
  <2> QED
    BY <1>0, <2>1, LogStutter
<1>2. ASSUME NEW s \in Sessions, CommitMessage(s) PROVE EventsInv'
  BY <1>0, <1>2, CommitLogged DEF CommitMessage
<1>3. CASE AccountsStep
  BY <1>0, <1>3, AccountsLogged
<1>4. CASE LifecycleStep /\ UNCHANGED OthersOfLifecycle
  BY <1>0, <1>4, LifecycleLogged DEF OthersOfLifecycle
<1>5. ASSUME NEW p \in Parsers, ParseStep(p), UNCHANGED OthersOfParse PROVE EventsInv'
  BY <1>0, <1>5, ParseLogged DEF OthersOfParse
<1>6. CASE UNCHANGED vars
  BY <1>0, <1>6, LogStutter DEF vars, rowVars, identityVars
<1> QED
  BY <1>1, <1>2, <1>3, <1>4, <1>5, <1>6 DEF Next

-----------------------------------------------------------------------------
(* The theorems.                                                           *)

(***************************************************************************)
(* The empty pipeline satisfies the invariant of what the rows remember.   *)
(***************************************************************************)
LEMMA InitHistory == Init => HistoryInv
<1> SUFFICES ASSUME Init PROVE HistoryInv
  OBVIOUS
<1>1. IInv
  BY InitSafe
<1>2. NumbersReserved /\ NumbersUnique /\ JobsAimed
  BY DEF Init, RowsInit, IngestInit, AccountsInit, LifecycleInit, IdleSession, NoJob,
         NumbersReserved, NumbersUnique, JobsAimed
<1>3. \A type, i, n : Copies(type, i, n) = 0
  BY DEF Init, RowsInit, Copies, BagIn, BagToSet, EmptyBag, SetToBag
<1>4. EventsTyped
  BY DEF Init, RowsInit, EventsTyped, BagToSet, EmptyBag, SetToBag
<1>5. EventsFollowState /\ ArrivalsLogged
  BY <1>3 DEF Init, RowsInit, EventsFollowState, ArrivalsLogged, Ended
<1> QED
  BY <1>1, <1>2, <1>4, <1>5 DEF HistoryInv

(***************************************************************************)
(* Every step of every process preserves it.                               *)
(***************************************************************************)
LEMMA StepHistory == HistoryInv /\ [Next]_vars => HistoryInv'
<1> SUFFICES ASSUME HistoryInv, [Next]_vars PROVE HistoryInv'
  OBVIOUS
<1>1. IInv /\ NumbersInv /\ JobsAimed
  BY DEF HistoryInv, NumbersInv
<1>2. IInv' /\ NumbersInv' /\ JobsAimed' /\ EventsInv'
  BY <1>1, StepSafe, NumbersKept, AimKept, EventsKept
<1> QED
  BY <1>2 DEF HistoryInv, NumbersInv, EventsInv

(***************************************************************************)
(* What the rows remember is consistent in every reachable state.          *)
(***************************************************************************)
THEOREM HistoryHolds == Spec => []HistoryInv
  BY InitHistory, StepHistory, PTL DEF Spec

(***************************************************************************)
(* EventsOnce, for any number of workers, sessions and requests: whichever *)
(* of them race for a transition, it is announced at most once.            *)
(***************************************************************************)
THEOREM TransitionsAnnouncedOnce == Spec => []EventsOnce
<1>1. HistoryInv => EventsOnce
  BY DEF HistoryInv, EventsFollowState, EventsOnce
<1> QED
  BY HistoryHolds, <1>1, PTL

(***************************************************************************)
(* TombstoneIsEmpty, however purges overlap with each other and with       *)
(* parsing: a purged identity has no key, no message and no attachment     *)
(* left, and its purge is announced exactly once.                          *)
(***************************************************************************)
THEOREM PurgedIsEmpty == Spec => []TombstoneIsEmpty
<1>1. HistoryInv => TombstoneIsEmpty
  <2> SUFFICES ASSUME HistoryInv, NEW i \in Identities
               PROVE  /\ (state[i] = "reserved") <=>
                           (Copies("identity.purged", i, 0) = 1)
                      /\ state[i] = "reserved" =>
                           ~dataKey[i] /\ IdentityReferences(i) = {}
    BY DEF TombstoneIsEmpty
  <2>1. (state[i] = "reserved") <=> (Copies("identity.purged", i, 0) = 1)
    BY DEF HistoryInv, EventsFollowState
  <2>2. ASSUME state[i] = "reserved"
        PROVE  ~dataKey[i] /\ IdentityReferences(i) = {}
    <3>1. ~dataKey[i]
      BY <2>2 DEF HistoryInv, IInv, KeysKept
    <3>2. \A d \in deliveries : d.identity # i
      BY <3>1 DEF HistoryInv, IInv, ReadableMail
    <3>3. \A a \in attachments : a.identity # i
      BY <3>2 DEF HistoryInv, NumbersUnique, Key
    <3> QED
      BY <3>1, <3>2, <3>3 DEF IdentityReferences
  <2> QED
    BY <2>1, <2>2
<1> QED
  BY HistoryHolds, <1>1, PTL

(***************************************************************************)
(* GaplessCursor: for every number of sessions and recipients, a client    *)
(* that follows the cursor of an inbox sees each number up to the last one *)
(* exactly once, whatever commits were refused, rolled back or deadlocked. *)
(***************************************************************************)
THEOREM CursorHasNoGap == Spec => []GaplessCursor
<1>1. HistoryInv => GaplessCursor
  <2> SUFFICES ASSUME HistoryInv, NEW i \in Identities
               PROVE
        /\ {e \in BagToSet(events) : e.type = "message.received" /\ e.identity = i}
             = {Event("message.received", i, n) : n \in 1..deliverySeq[i]}
        /\ \A n \in 1..deliverySeq[i] : Copies("message.received", i, n) = 1
        /\ \A n \in {d.seq : d \in {x \in deliveries : x.identity = i}} :
             n <= deliverySeq[i] /\ Cardinality(DeliveryAt(<<i, n>>)) = 1
    BY DEF GaplessCursor
  <2>0. deliverySeq[i] \in Nat /\ deliveries \subseteq Delivery
    BY DEF HistoryInv, IInv, TypeOK, RowsTypeOK
  <2>1. \A n \in Nat : Copies("message.received", i, n) =
                         IF n \in 1..deliverySeq[i] THEN 1 ELSE 0
    BY DEF HistoryInv, ArrivalsLogged
  <2>2. \A n \in 1..deliverySeq[i] : Copies("message.received", i, n) = 1
    BY <2>0, <2>1
  <2>3. \A n \in 1..deliverySeq[i] : Event("message.received", i, n) \in BagToSet(events)
    BY <2>2 DEF Copies, BagIn
  <2>4. ASSUME NEW e \in BagToSet(events), e.type = "message.received", e.identity = i
        PROVE  e \in {Event("message.received", i, n) : n \in 1..deliverySeq[i]}
    <3>1. PICK t \in EventType, j \in Identities, n \in Nat : e = Event(t, j, n)
      BY DEF HistoryInv, EventsTyped
    <3>2. t = "message.received" /\ j = i
      BY <2>4, <3>1 DEF Event
    <3>3. Copies("message.received", i, n) # 0
      <4>1. IsABag(events) /\ e \in DOMAIN events
        BY DEF HistoryInv, IInv, TypeOK, RowsTypeOK, BagToSet
      <4>2. events[e] # 0
        BY <4>1 DEF IsABag
      <4> QED
        BY <3>1, <3>2, <4>2 DEF Copies, BagIn
    <3> QED
      BY <2>1, <3>1, <3>2, <3>3
  <2>5. ASSUME NEW d \in deliveries, d.identity = i
        PROVE  d.seq <= deliverySeq[i] /\ Cardinality(DeliveryAt(<<i, d.seq>>)) = 1
    <3>1. d.seq <= deliverySeq[i]
      BY <2>5 DEF HistoryInv, NumbersUnique
    <3>2. DeliveryAt(<<i, d.seq>>) = {d}
      BY <2>5 DEF DeliveryAt, HistoryInv, NumbersUnique, Key
    <3> QED
      BY <3>1, <3>2, FS_Singleton
  <2>6. \A e : e \in {Event("message.received", i, n) : n \in 1..deliverySeq[i]} =>
                 e.type = "message.received" /\ e.identity = i
    BY DEF Event
  <2> QED
    BY <2>2, <2>3, <2>4, <2>5, <2>6
<1> QED
  BY HistoryHolds, <1>1, PTL

-----------------------------------------------------------------------------
(* The pipeline implements the mailbox.                                    *)

\* The numbers of the messages an inbox holds.
Held(i) == {d.seq : d \in {x \in deliveries : x.identity = i}}

(***************************************************************************)
(* Because whatever is delivered can be read, the readable messages of an  *)
(* inbox are the ones it holds.                                            *)
(***************************************************************************)
LEMMA ReadableIsHeld ==
  ReadableMail => mailBar = [i \in Identities |-> Held(i)]
<1> SUFFICES ASSUME ReadableMail PROVE mailBar = [i \in Identities |-> Held(i)]
  OBVIOUS
<1>1. \A d \in deliveries : Readable(d)
  BY DEF ReadableMail, Readable
<1>2. ASSUME NEW i \in Identities
      PROVE  {x \in deliveries : x.identity = i /\ Readable(x)}
               = {x \in deliveries : x.identity = i}
  BY <1>1
<1> QED
  BY <1>2 DEF mailBar, Held

(***************************************************************************)
(* The same after a step.                                                  *)
(***************************************************************************)
LEMMA HeldAfterwards ==
  ASSUME ReadableMail'
  PROVE  mailBar' = [i \in Identities |-> Held(i)']
<1>1. (ReadableMail => mailBar = [i \in Identities |-> Held(i)])'
  BY ReadableIsHeld, PTL
<1> QED
  BY <1>1

(***************************************************************************)
(* The same names before and after: the same messages can be read.         *)
(***************************************************************************)
LEMMA SameMail ==
  ASSUME ReadableMail, ReadableMail',
         \A d \in deliveries' : \E e \in deliveries : Key(e) = Key(d),
         \A d \in deliveries : \E e \in deliveries' : Key(e) = Key(d)
  PROVE  mailBar' = mailBar
<1>1. ASSUME NEW i PROVE Held(i)' = Held(i)
  <2>1. ASSUME NEW d \in deliveries', d.identity = i
        PROVE  \E e \in deliveries : e.identity = i /\ e.seq = d.seq
    BY <2>1 DEF Key
  <2>2. ASSUME NEW d \in deliveries, d.identity = i
        PROVE  \E e \in deliveries' : e.identity = i /\ e.seq = d.seq
    BY <2>2 DEF Key
  <2> QED
    BY <2>1, <2>2 DEF Held
<1>2. mailBar = [i \in Identities |-> Held(i)]
  BY ReadableIsHeld
<1>3. mailBar' = [i \in Identities |-> Held(i)']
  BY HeldAfterwards
<1> QED
  BY <1>1, <1>2, <1>3

(***************************************************************************)
(* How a row's state shows in the mailbox.                                 *)
(***************************************************************************)
LEMMA BoxValues ==
  ASSUME NEW s \in IdentityState
  PROVE  /\ BoxOf(s) = "absent" <=> s = "absent"
         /\ BoxOf(s) = "open"   <=> s \in {"active", "expiring"}
         /\ BoxOf(s) = "closed" <=> s = "expired"
         /\ BoxOf(s) = "gone"   <=> s = "reserved"
<1>1. CASE s = "absent"
  BY <1>1 DEF BoxOf
<1>2. CASE s \in {"active", "expiring"}
  BY <1>2 DEF BoxOf
<1>3. CASE s = "expired"
  BY <1>3 DEF BoxOf
<1>4. CASE s = "reserved"
  BY <1>4 DEF BoxOf
<1> QED
  BY <1>1, <1>2, <1>3, <1>4 DEF IdentityState

(* What each state of an identity is to the abstract mailbox.              *)
LEMMA BoxNames ==
  /\ BoxOf("absent") = "absent" /\ BoxOf("active") = "open"
  /\ BoxOf("expired") = "closed" /\ BoxOf("reserved") = "gone"
BY DEF BoxOf

MailboxStep == [Abstract!Next]_(Abstract!boxVars)

(***************************************************************************)
(* Steps the mailbox does not notice.                                      *)
(***************************************************************************)
LEMMA Unnoticed ==
  ASSUME boxBar' = boxBar, UNCHANGED deliverySeq, mailBar' = mailBar
  PROVE  MailboxStep
BY DEF MailboxStep, Abstract!boxVars

(* A parser that rewrites rows shows the abstract mailbox nothing.         *)
LEMMA RewritingUnnoticed ==
  ASSUME ReadableMail, ReadableMail', Rewritten, UNCHANGED <<state, deliverySeq>>
  PROVE  MailboxStep
<1>1. PICK g \in [deliveries -> Delivery] :
        /\ deliveries' = {g[d] : d \in deliveries}
        /\ \A d \in deliveries :
             Key(g[d]) = Key(d) /\ g[d].blob = d.blob /\ g[d].size = d.size
  BY DEF Rewritten
<1>2. mailBar' = mailBar
  BY <1>1, SameMail
<1>3. boxBar' = boxBar
  BY DEF boxBar
<1> QED
  BY <1>2, <1>3, Unnoticed

(* Steps on blobs, events and jobs show the abstract mailbox nothing.      *)
LEMMA RowsUnnoticed ==
  ASSUME ReadableMail, ReadableMail', UNCHANGED <<deliveries, deliverySeq>>,
         boxBar' = boxBar
  PROVE  MailboxStep
<1>1. mailBar' = mailBar
  BY SameMail
<1> QED
  BY <1>1, Unnoticed

(***************************************************************************)
(* A commit delivers: to all its recipients at once, opening the inboxes   *)
(* that come into being with the message.                                  *)
(***************************************************************************)
LEMMA CommitDelivers ==
  ASSUME HistoryInv, ReadableMail', NEW s \in Sessions, Commit(s)
  PROVE  MailboxStep
<1> DEFINE R == Recipients(s)
           created == {i \in R : state[i] = "absent"}
           new(i) == [identity |-> i, seq |-> deliverySeq[i] + 1,
                      blob |-> session[s].blob, size |-> session[s].size,
                      status |-> "received", old |-> FALSE]
<1>0. /\ TypeOK /\ LocksHeld /\ NumbersReserved /\ ReadableMail
      /\ state \in [Identities -> IdentityState] /\ session[s] \in SessionState
  BY DEF HistoryInv, IInv, TypeOK, RowsTypeOK, IngestTypeOK
<1>1. /\ R \subseteq Identities
      /\ deliverySeq' = [i \in Identities |-> IF i \in R
                           THEN deliverySeq[i] + 1 ELSE deliverySeq[i]]
      /\ deliveries' = deliveries \cup {new(i) : i \in R}
  BY <1>0, CommitNumbers DEF CommitWrites
<1>2. /\ state' = [i \in Identities |-> IF i \in created THEN "active" ELSE state[i]]
      /\ Len(session[s].seqs) = Len(session[s].rcpts)
  BY DEF Commit
<1>3. DOMAIN session[s].seqs = DOMAIN session[s].rcpts
  BY <1>0, <1>2 DEF SessionState
<1>4. \A i \in R : AcceptsMail(i) \/ (i \in Named /\ state[i] = "absent")
  BY <1>0, <1>3 DEF LocksHeld, Recipients, Provisionable
<1>5. \A i \in R : new(i).identity = i /\ new(i).seq = deliverySeq[i] + 1
  OBVIOUS
<1> HIDE DEF new, R
<1>6. \A a \in R : boxBar[a] = "open" \/ (boxBar[a] = "absent" /\ a \in Named)
  BY <1>0, <1>1, <1>4, BoxValues DEF boxBar, AcceptsMail
<1>7. boxBar' = [a \in Identities |-> IF a \in R THEN "open" ELSE boxBar[a]]
  <2>1. ASSUME NEW a \in Identities
        PROVE  BoxOf(state'[a]) = IF a \in R THEN "open" ELSE BoxOf(state[a])
    BY <1>0, <1>2, <1>4, BoxNames, BoxValues DEF AcceptsMail
  <2> QED
    BY <2>1 DEF boxBar
<1>8. mailBar' = [a \in Identities |->
                    IF a \in R THEN mailBar[a] \cup {deliverySeq[a] + 1}
                    ELSE mailBar[a]]
  <2>1. ASSUME NEW a \in Identities
        PROVE  Held(a)' = IF a \in R THEN Held(a) \cup {deliverySeq[a] + 1}
                          ELSE Held(a)
    <3>1. CASE a \in R
      <4>1. \A x \in deliveries' : x \in deliveries \/ \E i \in R : x = new(i)
        BY <1>1
      <4>2. new(a) \in deliveries' /\ deliveries \subseteq deliveries'
        BY <1>1, <3>1
      <4>3. Held(a)' \subseteq Held(a) \cup {deliverySeq[a] + 1}
        BY <1>5, <4>1 DEF Held
      <4>4. Held(a) \cup {deliverySeq[a] + 1} \subseteq Held(a)'
        BY <1>5, <3>1, <4>2 DEF Held
      <4> QED
        BY <3>1, <4>3, <4>4
    <3>2. CASE a \notin R
      BY <1>1, <1>5, <3>2 DEF Held
    <3> QED
      BY <3>1, <3>2
  <2>2. mailBar = [i \in Identities |-> Held(i)]
    BY <1>0, ReadableIsHeld
  <2>3. mailBar' = [i \in Identities |-> Held(i)']
    BY HeldAfterwards
  <2> QED
    BY <2>1, <2>2, <2>3
<1>9. Abstract!Deliver(R)
  BY <1>1, <1>6, <1>7, <1>8 DEF Abstract!Deliver, Abstract!Addresses
<1>10. R \in SUBSET Abstract!Addresses
  BY <1>1 DEF Abstract!Addresses
<1> QED
  BY <1>9, <1>10 DEF MailboxStep, Abstract!Next

(***************************************************************************)
(* Creating opens, noticing is not noticed, expiring and destroying close. *)
(***************************************************************************)
LEMMA CreationOpens ==
  ASSUME HistoryInv, ReadableMail', NEW i \in Identities, CreateIdentity(i)
  PROVE  MailboxStep
<1>0. state \in [Identities -> IdentityState] /\ ReadableMail
  BY DEF HistoryInv, IInv, TypeOK, RowsTypeOK
<1>1. /\ state[i] = "absent" /\ state' = [state EXCEPT ![i] = "active"]
      /\ UNCHANGED <<deliveries, deliverySeq>>
  BY DEF CreateIdentity
<1>2. mailBar' = mailBar
  BY <1>0, <1>1, SameMail
<1>3. boxBar[i] = "absent" /\ boxBar' = [boxBar EXCEPT ![i] = "open"]
  BY <1>0, <1>1, BoxNames DEF boxBar
<1>4. Abstract!Open(i) /\ i \in Abstract!Addresses
  BY <1>1, <1>2, <1>3 DEF Abstract!Open, Abstract!Addresses
<1> QED
  BY <1>4 DEF MailboxStep, Abstract!Next

(* Inboxes that expire or are destroyed close their abstract boxes.        *)
LEMMA EndingCloses ==
  ASSUME HistoryInv, ReadableMail', NEW S \in SUBSET Random,
         \A i \in S : AcceptsMail(i),
         state' = [i \in Identities |-> IF i \in S THEN "expired" ELSE state[i]],
         UNCHANGED <<deliveries, deliverySeq>>
  PROVE  MailboxStep
<1>0. state \in [Identities -> IdentityState] /\ ReadableMail
  BY DEF HistoryInv, IInv, TypeOK, RowsTypeOK
<1>1. mailBar' = mailBar
  BY <1>0, SameMail
<1>2. \A a \in S : a \in Random /\ boxBar[a] = "open"
  BY <1>0, BoxValues DEF boxBar, AcceptsMail
<1>3. boxBar' = [a \in Identities |-> IF a \in S THEN "closed" ELSE boxBar[a]]
  <2>1. ASSUME NEW a \in Identities
        PROVE  BoxOf(state'[a]) = IF a \in S THEN "closed" ELSE BoxOf(state[a])
    BY BoxNames
  <2> QED
    BY <2>1 DEF boxBar
<1>4. Abstract!Close(S) /\ S \in SUBSET Abstract!Addresses
  BY <1>1, <1>2, <1>3 DEF Abstract!Close, Abstract!Addresses
<1> QED
  BY <1>4 DEF MailboxStep, Abstract!Next

(***************************************************************************)
(* A purge that still finds its identity expired empties the box; one that *)
(* comes second finds nothing to take.                                     *)
(***************************************************************************)
LEMMA PurgeEmpties ==
  ASSUME HistoryInv, ReadableMail', NEW w \in Workers, PurgeApply(w)
  PROVE  MailboxStep
<1>0. state \in [Identities -> IdentityState] /\ ReadableMail /\ KeysKept
  BY DEF HistoryInv, IInv, TypeOK, RowsTypeOK
<1>1. PICK i \in Random : job[w].target = {i} /\ Ended(i)
  BY DEF PurgeApply, HistoryInv, JobsAimed
<1> DEFINE keys == {Key(d) : d \in {e \in deliveries : e.identity \in {i}}}
           moved == {j \in {i} : state[j] = "expired"}
<1>2. /\ DeleteDeliveries(keys) /\ UNCHANGED deliverySeq
      /\ state' = [j \in Identities |-> IF j \in moved THEN "reserved" ELSE state[j]]
  BY <1>1 DEF PurgeApply
<1>3. deliveries' = {d \in deliveries : Key(d) \notin keys}
  BY <1>2 DEF DeleteDeliveries
<1>4. deliveries' = {d \in deliveries : d.identity # i}
  <2>1. ASSUME NEW d \in deliveries PROVE Key(d) \in keys <=> d.identity = i
    BY DEF Key
  <2> HIDE DEF keys
  <2> QED
    BY <1>3, <2>1
<1>5. CASE state[i] = "expired"
  <2>1. boxBar[i] = "closed" /\ boxBar' = [boxBar EXCEPT ![i] = "gone"]
    BY <1>0, <1>2, <1>5, BoxNames DEF boxBar
  <2>2. ASSUME NEW a \in Identities PROVE Held(a)' = IF a = i THEN {} ELSE Held(a)
    BY <1>4 DEF Held
  <2>3. mailBar = [a \in Identities |-> Held(a)]
    BY <1>0, ReadableIsHeld
  <2>4. mailBar' = [a \in Identities |-> Held(a)']
    BY HeldAfterwards
  <2>5. mailBar' = [mailBar EXCEPT ![i] = {}]
    BY <2>2, <2>3, <2>4
  <2>6. Abstract!Empty(i) /\ i \in Abstract!Addresses
    BY <1>2, <2>1, <2>5 DEF Abstract!Empty, Abstract!Addresses
  <2> QED
    BY <2>6 DEF MailboxStep, Abstract!Next
<1>6. CASE state[i] = "reserved"
  <2>1. ~dataKey[i]
    BY <1>0, <1>6 DEF KeysKept
  <2>2. \A d \in deliveries : d.identity # i
    BY <1>0, <2>1 DEF ReadableMail
  <2>3. deliveries' = deliveries
    BY <1>4, <2>2
  <2>4. \A j \in Identities : state'[j] = state[j]
    BY <1>2, <1>6
  <2>5. boxBar' = boxBar
    BY <2>4 DEF boxBar
  <2> QED
    BY <1>0, <1>2, <2>3, <2>5, RowsUnnoticed
<1> QED
  BY <1>1, <1>5, <1>6 DEF Ended

(***************************************************************************)
(* A sweep lets go of messages of one shared inbox, or comes second and    *)
(* finds none of them.                                                     *)
(***************************************************************************)
LEMMA SweepLetsGo ==
  ASSUME HistoryInv, ReadableMail', NEW w \in Workers, SweepApply(w)
  PROVE  MailboxStep
<1>0. ReadableMail
  BY DEF HistoryInv, IInv
<1>1. PICK i \in Named :
        job[w].target = {i} /\ \A d \in job[w].list : d.identity = i
  BY DEF SweepApply, HistoryInv, JobsAimed
<1> DEFINE removed == {d \in deliveries : Key(d) \in Keys(job[w].list)}
           M == {d.seq : d \in removed}
<1>2. DeleteDeliveries(Keys(removed)) /\ UNCHANGED <<state, deliverySeq>>
  BY DEF SweepApply
<1>3. deliveries' = {d \in deliveries : Key(d) \notin Keys(removed)}
  BY <1>2 DEF DeleteDeliveries
<1>4. \A d \in removed : d \in deliveries /\ d.identity = i
  BY <1>1 DEF Keys, Key
<1> HIDE DEF removed
<1>5. \A d \in deliveries : Key(d) \in Keys(removed) <=> d.identity = i /\ d.seq \in M
  <2> SUFFICES ASSUME NEW d \in deliveries
               PROVE  Key(d) \in Keys(removed) <=> d.identity = i /\ d.seq \in M
    OBVIOUS
  <2>1. Key(d) \in Keys(removed) => d.identity = i /\ d.seq \in M
    BY <1>4 DEF Keys, Key
  <2>2. ASSUME d.identity = i, d.seq \in M PROVE Key(d) \in Keys(removed)
    <3>1. PICK e \in removed : e.seq = d.seq
      BY <2>2
    <3>2. Key(d) = Key(e)
      BY <1>4, <2>2, <3>1 DEF Key
    <3> QED
      BY <3>2 DEF Keys
  <2> QED
    BY <2>1, <2>2
<1>6. M \subseteq Held(i)
  BY <1>4 DEF Held
<1> HIDE DEF M
<1>7. ASSUME NEW a \in Identities
      PROVE  Held(a)' = IF a = i THEN Held(a) \ M ELSE Held(a)
  BY <1>3, <1>5 DEF Held
<1>8. mailBar = [a \in Identities |-> Held(a)]
  BY <1>0, ReadableIsHeld
<1>9. mailBar' = [a \in Identities |-> Held(a)']
  BY HeldAfterwards
<1>10. mailBar' = [mailBar EXCEPT ![i] = @ \ M] /\ M \subseteq mailBar[i]
  BY <1>6, <1>7, <1>8, <1>9
<1>11. boxBar' = boxBar
  BY <1>2 DEF boxBar
<1>12. Abstract!LetGo(i, M) /\ i \in Abstract!Addresses /\ M \in SUBSET mailBar[i]
  BY <1>2, <1>10, <1>11 DEF Abstract!LetGo, Abstract!Addresses
<1> QED
  BY <1>12 DEF MailboxStep, Abstract!Next

(***************************************************************************)
(* Every step of the pipeline is a step of the mailbox, or none.           *)
(***************************************************************************)
LEMMA StepRefines ==
  ASSUME HistoryInv, HistoryInv', [Next]_vars
  PROVE  MailboxStep
<1>0. TypeOK /\ NumbersUnique /\ ReadableMail /\ ReadableMail'
  BY DEF HistoryInv, IInv
<1>1. CASE UNCHANGED <<deliveries, deliverySeq, state>>
  BY <1>0, <1>1, RowsUnnoticed DEF boxBar
<1>2. ASSUME NEW s \in Sessions, IngestStep(s) PROVE MailboxStep
  BY <1>1, <1>2 DEF IngestStep, Rcpt, Reset, StoreBody, LockRecipient, Refuse,
     DeadlockAbort, CommitFails, Rollback, rowVars, identityVars
<1>3. ASSUME NEW s \in Sessions, CommitMessage(s) PROVE MailboxStep
  BY <1>0, <1>3, CommitDelivers DEF CommitMessage
<1>4. CASE AccountsStep
  <2>1. ASSUME NEW i \in Identities, CreateIdentity(i) PROVE MailboxStep
    BY <1>0, <2>1, CreationOpens
  <2>2. ASSUME NEW i \in Identities, DestroyIdentity(i) PROVE MailboxStep
    <3> DEFINE S == {i}
    <3>1. S \in SUBSET Random /\ \A j \in S : AcceptsMail(j)
      BY <2>2 DEF DestroyIdentity
    <3>2. state' = [j \in Identities |-> IF j \in S THEN "expired" ELSE state[j]]
      BY <1>0, <2>2 DEF DestroyIdentity, TypeOK, RowsTypeOK
    <3>3. UNCHANGED <<deliveries, deliverySeq>>
      BY <2>2 DEF DestroyIdentity
    <3> HIDE DEF S
    <3> QED
      BY <1>0, <3>1, <3>2, <3>3, EndingCloses
  <2> QED
    BY <1>1, <1>4, <2>1, <2>2 DEF AccountsStep, AllocateRandom, OpenNamed,
       RecordDestroyed, LoseDestroyed, identityVars
<1>5. CASE LifecycleStep
  <2>1. ASSUME NEW d \in deliveries, Age(d) PROVE MailboxStep
    BY <1>0, <2>1, AgeRewrites, RewritingUnnoticed DEF Age, identityVars
  <2>2. CASE Notice
    <3>1. UNCHANGED <<deliveries, deliverySeq>>
      BY <2>2 DEF Notice, MoveState
    <3>2. \A i \in Identities : BoxOf(state'[i]) = BoxOf(state[i])
      <4>1. \A i \in Identities :
              state'[i] = state[i] \/ (state[i] = "active" /\ state'[i] = "expiring")
        BY <2>2 DEF Notice, MoveState, MarkExpiringIdentities
      <4>2. BoxOf("active") = BoxOf("expiring")
        BY DEF BoxOf
      <4> QED
        BY <4>1, <4>2
    <3>3. boxBar' = boxBar
      BY <3>2 DEF boxBar
    <3> QED
      BY <1>0, <3>1, <3>3, RowsUnnoticed
  <2>3. CASE Expire
    <3> DEFINE S == ExpireDueIdentities
    <3>1. S \in SUBSET Random /\ \A j \in S : AcceptsMail(j)
      BY DEF ExpireDueIdentities
    <3>2. /\ state' = [j \in Identities |-> IF j \in S THEN "expired" ELSE state[j]]
          /\ UNCHANGED <<deliveries, deliverySeq>>
      BY <2>3 DEF Expire, MoveState
    <3> HIDE DEF S
    <3> QED
      BY <1>0, <3>1, <3>2, EndingCloses
  <2>4. ASSUME NEW w \in Workers, PurgeApply(w) PROVE MailboxStep
    BY <1>0, <2>4, PurgeEmpties
  <2>5. ASSUME NEW w \in Workers, SweepApply(w) PROVE MailboxStep
    BY <1>0, <2>5, SweepLetsGo
  <2> QED
    BY <1>1, <1>5, <2>1, <2>2, <2>3, <2>4, <2>5, LifecycleMoves DEF identityVars
<1>6. ASSUME NEW p \in Parsers, ParseStep(p) PROVE MailboxStep
  <2>1. UNCHANGED <<state, deliverySeq>>
    BY <1>6 DEF ParseStep, ParseProgress, Load, NothingToParse, LoadFails, LookupFails, Locate,
         GiveUp, ReadBytes, BytesMissing, PutAttachment, AcquireAttachment,
         Unparseable, StoreAttachmentFails, StoreResults, DeliveryGone,
         JobDone, ParserDies, rowVars, identityVars
  <2>2. CASE MarkFailed(p)
    BY <1>0, <2>1, <2>2, MarkFailedRewrites, RewritingUnnoticed
  <2>3. CASE StoreResults(p)
    BY <1>0, <2>1, <2>3, StoreRewrites, RewritingUnnoticed
  <2>4. CASE UNCHANGED deliveries
    BY <1>1, <2>1, <2>4
  <2> QED
    BY <1>6, <2>2, <2>3, <2>4 DEF ParseStep, ParseProgress, Load, NothingToParse,
       LoadFails, LookupFails, Locate, GiveUp, ReadBytes, BytesMissing, PutAttachment,
       AcquireAttachment, Unparseable, StoreAttachmentFails, DeliveryGone, JobDone,
       ParserDies, rowVars, identityVars
<1>7. CASE UNCHANGED vars
  BY <1>1, <1>7 DEF vars, rowVars, identityVars
<1> QED
  BY <1>2, <1>3, <1>4, <1>5, <1>6, <1>7 DEF Next

(***************************************************************************)
(* ImplementsMailbox, for every value of the constants: through any number *)
(* of sessions, workers, parsers, crashes and races, what a reader can see *)
(* of the pipeline is a mailbox in which mail is delivered to all its      *)
(* recipients or none, and stays readable until its shared inbox lets it   *)
(* go or its closed box is emptied for good.                               *)
(***************************************************************************)
THEOREM PipelineIsAMailbox == Spec => ImplementsMailbox
<1>1. Init => Abstract!Init
  <2> SUFFICES ASSUME Init PROVE Abstract!Init
    OBVIOUS
  <2>1. boxBar = [a \in Abstract!Addresses |-> "absent"]
    BY BoxNames DEF Init, RowsInit, boxBar, Abstract!Addresses
  <2>2. deliverySeq = [a \in Abstract!Addresses |-> 0]
    BY DEF Init, RowsInit, Abstract!Addresses
  <2>3. mailBar = [a \in Abstract!Addresses |-> {}]
    BY DEF Init, RowsInit, mailBar, Abstract!Addresses
  <2> QED
    BY <2>1, <2>2, <2>3 DEF Abstract!Init
<1>2. HistoryInv /\ HistoryInv' /\ [Next]_vars => [Abstract!Next]_(Abstract!boxVars)
  BY StepRefines DEF MailboxStep
<1> QED
  BY <1>1, <1>2, HistoryHolds, PTL DEF Spec, ImplementsMailbox, Abstract!Spec
=============================================================================
