-------------------------- MODULE MailReadsProofs --------------------------
(***************************************************************************)
(* Reading never sees a message change under it, for any number of         *)
(* requests, parsers, workers, sessions and faults.                        *)
(*                                                                         *)
(* The argument: the commit inserts one parse job per message and a retry  *)
(* is the same job again, so a message is parsed once and its attachments  *)
(* are final from then on (ParsedInv, MailKept); a number is never given   *)
(* out twice, so a message that has gone does not come back; and a blob    *)
(* that a row names has its bytes (MailSafety).  What a handler read in an *)
(* earlier statement is therefore still true when it answers, unless the   *)
(* message has gone.                                                       *)
(***************************************************************************)
EXTENDS MailPromises, MailReads

USE DEF Identities, Undeleted

-----------------------------------------------------------------------------
(* Jobs.                                                                   *)

\* Jobs are taken from the queue, and given up, but not invented.
JobsShrink ==
  /\ queue' \subseteq queue
  /\ \A p \in Parsers : parser'[p].job \subseteq parser[p].job
  /\ \A i \in Identities : deliverySeq[i] <= deliverySeq'[i]

(***************************************************************************)
(* Giving up jobs leaves each of the others where it is, once.             *)
(***************************************************************************)
LEMMA ShrinkingJobs ==
  ASSUME TypeOK, TypeOK', JobsOnce, JobsShrink
  PROVE  JobsOnce'
<1>1. /\ queue \subseteq Job /\ queue' \subseteq Job
      /\ \A p \in Parsers : parser[p].job \subseteq Job /\ parser'[p].job \subseteq Job
      /\ deliverySeq \in [Identities -> Nat] /\ deliverySeq' \in [Identities -> Nat]
  BY DEF TypeOK, ParseTypeOK, ParserState, RowsTypeOK
<1>2. ASSUME NEW j \in queue' \cup Running'
      PROVE  j.seq <= deliverySeq'[j.identity]
  <2>1. j \in Job /\ j \in queue \cup Running
    BY <1>1 DEF JobsShrink, Running
  <2>2. j.seq \in Nat /\ j.identity \in Identities /\ j.seq <= deliverySeq[j.identity]
    BY <2>1 DEF JobsOnce, Job
  <2>3. deliverySeq[j.identity] <= deliverySeq'[j.identity]
    BY <2>2 DEF JobsShrink
  <2> QED
    BY <1>1, <2>2, <2>3
<1>3. \A j, k \in queue' : Key(j) = Key(k) => j = k
  BY DEF JobsOnce, JobsShrink
<1>4. ASSUME NEW p \in Parsers
      PROVE  /\ \A j, k \in parser'[p].job : j = k
             /\ \A j \in parser'[p].job :
                  /\ \A k \in queue' : Key(j) # Key(k)
                  /\ \A q \in Parsers : q # p => \A k \in parser'[q].job : Key(j) # Key(k)
  BY DEF JobsOnce, JobsShrink
<1> QED
  BY <1>2, <1>3, <1>4 DEF JobsOnce, Key

(***************************************************************************)
(* A job that is loaded leaves the queue.                                  *)
(***************************************************************************)
LEMMA LoadKeepsJobs ==
  ASSUME TypeOK, JobsOnce, NEW p \in Parsers, Load(p)
  PROVE  JobsOnce'
<1>1. PICK j \in queue :
        /\ queue'  = queue \ {j}
        /\ parser' = [parser EXCEPT ![p].pc = "loaded", ![p].job = {j},
                                    ![p].message = Unparsed(j)]
  BY DEF Load
<1>2. parser \in [Parsers -> ParserState] /\ UNCHANGED deliverySeq
  BY DEF TypeOK, ParseTypeOK, Load, rowVars, identityVars
<1>3. /\ parser'[p].job = {j}
      /\ \A q \in Parsers : q # p => parser'[q].job = parser[q].job
  BY <1>1, <1>2 DEF ParserState
<1>4. \A k \in queue : Key(k) = Key(j) => k = j
  BY DEF JobsOnce
<1>5. \A j1, k1 \in queue' : Key(j1) = Key(k1) => j1 = k1
  BY <1>1 DEF JobsOnce
<1>6. ASSUME NEW q \in Parsers
      PROVE  /\ \A x, y \in parser'[q].job : x = y
             /\ \A x \in parser'[q].job :
                  /\ \A k \in queue' : Key(x) # Key(k)
                  /\ \A t \in Parsers : t # q => \A k \in parser'[t].job : Key(x) # Key(k)
  <2>0. \A t \in Parsers : \A x \in parser[t].job, k \in queue : Key(x) # Key(k)
    BY DEF JobsOnce
  <2>1. CASE q = p
    <3>1. \A k \in queue' : Key(j) # Key(k)
      BY <1>1, <1>4
    <3>2. \A t \in Parsers : t # p => \A k \in parser'[t].job : Key(j) # Key(k)
      BY <1>3, <2>0
    <3> QED
      BY <1>3, <2>1, <3>1, <3>2
  <2>2. CASE q # p
    <3>1. parser'[q].job = parser[q].job
      BY <1>3, <2>2
    <3>2. \A x, y \in parser[q].job : x = y
      BY DEF JobsOnce
    <3>3. \A x \in parser[q].job : \A k \in queue' : Key(x) # Key(k)
      BY <1>1, <2>0
    <3>4. ASSUME NEW x \in parser[q].job, NEW t \in Parsers, t # q, NEW k \in parser'[t].job
          PROVE  Key(x) # Key(k)
      <4>1. CASE t = p
        BY <1>3, <2>0, <3>4, <4>1
      <4>2. CASE t # p
        BY <1>3, <3>4, <4>2 DEF JobsOnce
      <4> QED
        BY <4>1, <4>2
    <3> QED
      BY <3>1, <3>2, <3>3, <3>4
  <2> QED
    BY <2>1, <2>2
<1>7. ASSUME NEW x \in queue' \cup Running' PROVE x \in queue \cup Running
  <2>1. CASE x \in queue'
    BY <1>1, <2>1
  <2>2. CASE x \in Running'
    <3>1. PICK q \in Parsers : x \in parser'[q].job
      BY <2>2 DEF Running
    <3>2. q = p => x \in queue
      BY <1>3, <3>1
    <3>3. q # p => x \in Running
      BY <1>3, <3>1 DEF Running
    <3> QED
      BY <3>2, <3>3
  <2> QED
    BY <2>1, <2>2
<1>8. \A x \in queue' \cup Running' : x.seq <= deliverySeq'[x.identity]
  BY <1>2, <1>7 DEF JobsOnce
<1> QED
  BY <1>5, <1>6, <1>8 DEF JobsOnce, Key

(***************************************************************************)
(* A job that is retried goes back to the queue under its own key.         *)
(***************************************************************************)
LEMMA RetryKeepsJobs ==
  ASSUME TypeOK, JobsOnce, NEW p \in Parsers, Retry(p), UNCHANGED deliverySeq
  PROVE  JobsOnce'
<1> DEFINE back == {x \in parser[p].job : x.attempt < MaxAttempts}
           next(j) == [j EXCEPT !.attempt = @ + 1]
<1>1. /\ parser \in [Parsers -> ParserState] /\ queue \subseteq Job
      /\ parser[p].job \subseteq Job
  BY DEF TypeOK, ParseTypeOK, ParserState
<1>2. /\ parser'[p].job = {}
      /\ \A q \in Parsers : q # p => parser'[q].job = parser[q].job
  BY <1>1 DEF Retry, IdleParser
<1>3. queue' = queue \cup {next(j) : j \in back}
  BY DEF Retry
<1>4. \A j \in back : Key(next(j)) = Key(j) /\ next(j).seq = j.seq
                        /\ next(j).identity = j.identity
  BY <1>1 DEF Key, Job
<1> HIDE DEF next
<1>5. \A x, y \in queue' : Key(x) = Key(y) => x = y
  BY <1>3, <1>4 DEF JobsOnce
<1>6. ASSUME NEW q \in Parsers
      PROVE  /\ \A x, y \in parser'[q].job : x = y
             /\ \A x \in parser'[q].job :
                  /\ \A k \in queue' : Key(x) # Key(k)
                  /\ \A t \in Parsers : t # q => \A k \in parser'[t].job : Key(x) # Key(k)
  <2>1. CASE q = p
    BY <1>2, <2>1
  <2>2. CASE q # p
    BY <1>2, <1>3, <1>4, <2>2 DEF JobsOnce
  <2> QED
    BY <2>1, <2>2
<1>7. \A x \in Running' : x \in Running
  BY <1>2 DEF Running
<1>8. \A j \in back : j \in Running
  BY DEF Running
<1>9. \A x \in queue' \cup Running' : x.seq <= deliverySeq'[x.identity]
  BY <1>3, <1>4, <1>7, <1>8 DEF JobsOnce
<1> QED
  BY <1>5, <1>6, <1>9 DEF JobsOnce, Key

(***************************************************************************)
(* The jobs a commit inserts carry numbers that no job has had.            *)
(***************************************************************************)
LEMMA CommitKeepsJobs ==
  ASSUME TypeOK, LocksHeld, NumbersReserved, JobsOnce,
         NEW s \in Sessions, CommitMessage(s)
  PROVE  JobsOnce'
<1> DEFINE R == Recipients(s)
           seqs == session[s].seqs
           rcpts == session[s].rcpts
           new == {NewJob(rcpts[n], seqs[n]) :
                     n \in IF Parsers = {} THEN {} ELSE DOMAIN rcpts}
<1>1. /\ R \subseteq Identities
      /\ deliverySeq' = [i \in Identities |-> IF i \in R
                           THEN deliverySeq[i] + 1 ELSE deliverySeq[i]]
  BY CommitNumbers DEF CommitWrites, CommitMessage
<1>2. session[s] \in SessionState /\ Len(seqs) = Len(rcpts)
      /\ deliverySeq \in [Identities -> Nat] /\ queue \subseteq Job
      /\ \A p \in Parsers : parser[p].job \subseteq Job
  BY DEF CommitMessage, Commit, TypeOK, IngestTypeOK, RowsTypeOK, ParseTypeOK, ParserState
<1>3. DOMAIN seqs = DOMAIN rcpts
  BY <1>2 DEF SessionState
<1>4. queue' = queue \cup new /\ UNCHANGED parser
  BY DEF CommitMessage, Enqueue
<1>5. ASSUME NEW n \in DOMAIN rcpts
      PROVE  /\ rcpts[n] \in R /\ rcpts[n] \in Identities
             /\ seqs[n] = deliverySeq[rcpts[n]] + 1
             /\ Key(NewJob(rcpts[n], seqs[n])) = <<rcpts[n], seqs[n]>>
  BY <1>1, <1>3 DEF NumbersReserved, Recipients, NewJob, Key
<1>6. \A m, n \in DOMAIN rcpts : rcpts[m] = rcpts[n] => m = n
  BY DEF NumbersReserved
<1>7. ASSUME NEW x \in new
      PROVE  \E n \in DOMAIN rcpts : x = NewJob(rcpts[n], seqs[n])
  OBVIOUS
<1> HIDE DEF new, R, seqs, rcpts
<1>8. ASSUME NEW x \in new
      PROVE  /\ x.identity \in R /\ x.identity \in Identities
             /\ x.seq = deliverySeq[x.identity] + 1
             /\ Key(x) = <<x.identity, x.seq>>
  BY <1>5, <1>7 DEF NewJob, Key
<1>9. \A x, y \in new : Key(x) = Key(y) => x = y
  <2> SUFFICES ASSUME NEW x \in new, NEW y \in new, Key(x) = Key(y) PROVE x = y
    OBVIOUS
  <2>1. PICK m \in DOMAIN rcpts : x = NewJob(rcpts[m], seqs[m])
    BY <1>7
  <2>2. PICK n \in DOMAIN rcpts : y = NewJob(rcpts[n], seqs[n])
    BY <1>7
  <2>3. rcpts[m] = rcpts[n]
    BY <1>5, <2>1, <2>2
  <2> QED
    BY <1>6, <2>1, <2>2, <2>3
<1>10. ASSUME NEW x \in new, NEW y \in queue \cup Running PROVE Key(x) # Key(y)
  <2>1. y \in Job /\ y.seq <= deliverySeq[y.identity]
    BY <1>2 DEF JobsOnce, Running
  <2>2. x.seq # y.seq \/ x.identity # y.identity
    BY <1>2, <1>8, <2>1 DEF Job
  <2> QED
    BY <2>2 DEF Key
<1>11. \A x, y \in queue' : Key(x) = Key(y) => x = y
  BY <1>4, <1>9, <1>10 DEF JobsOnce
<1>12. ASSUME NEW q \in Parsers
      PROVE  /\ \A x, y \in parser'[q].job : x = y
             /\ \A x \in parser'[q].job :
                  /\ \A k \in queue' : Key(x) # Key(k)
                  /\ \A t \in Parsers : t # q => \A k \in parser'[t].job : Key(x) # Key(k)
  BY <1>4, <1>10 DEF JobsOnce, Running
<1>13. ASSUME NEW x \in queue' \cup Running' PROVE x.seq <= deliverySeq'[x.identity]
  <2>1. CASE x \in new
    BY <1>1, <1>2, <1>8, <2>1
  <2>2. CASE x \in queue \cup Running
    <3>1. x \in Job /\ x.seq <= deliverySeq[x.identity]
      BY <1>2, <2>2 DEF JobsOnce, Running
    <3> QED
      BY <1>1, <1>2, <3>1 DEF Job
  <2> QED
    BY <1>4, <2>1, <2>2 DEF Running
<1> QED
  BY <1>11, <1>12, <1>13 DEF JobsOnce, Key

(***************************************************************************)
(* A parser's step moves at most its own job, and gives out no number.     *)
(***************************************************************************)
LEMMA ParserMoves ==
  ASSUME TypeOK, NEW p \in Parsers, ParseStep(p)
  PROVE  /\ UNCHANGED deliverySeq
         /\ \/ Load(p)
            \/ Retry(p)
            \/ queue' \subseteq queue /\ parser' = [parser EXCEPT ![p] = IdleParser]
            \/ queue' \subseteq queue /\ \A q \in Parsers : parser'[q].job = parser[q].job
<1>1. UNCHANGED deliverySeq
  BY DEF ParseStep, ParseProgress, Load, NothingToParse, LoadFails, LookupFails, Locate,
         GiveUp, ReadBytes, BytesMissing, PutAttachment, AcquireAttachment,
         Unparseable, StoreAttachmentFails, StoreResults, DeliveryGone,
         JobDone, ParserDies, rowVars, identityVars
<1>2. parser \in [Parsers -> ParserState]
  BY DEF TypeOK, ParseTypeOK
<1>3. CASE NothingToParse(p) \/ LoadFails(p)
  BY <1>1, <1>3 DEF NothingToParse, LoadFails
<1>4. CASE Locate(p) \/ ReadBytes(p) \/ PutAttachment(p) \/ AcquireAttachment(p)
             \/ StoreResults(p)
  BY <1>1, <1>2, <1>4 DEF Locate, ReadBytes, PutAttachment, AcquireAttachment, StoreResults,
                    ParserState
<1>5. CASE GiveUp(p) \/ LookupFails(p) \/ Unparseable(p) \/ StoreAttachmentFails(p) \/ JobDone(p)
  BY <1>1, <1>5 DEF GiveUp, LookupFails, Unparseable, StoreAttachmentFails, JobDone, Drop
<1>6. CASE BytesMissing(p) \/ DeliveryGone(p) \/ ParserDies(p)
  BY <1>1, <1>6 DEF BytesMissing, DeliveryGone, ParserDies
<1> QED
  BY <1>1, <1>3, <1>4, <1>5, <1>6 DEF ParseStep, ParseProgress

(***************************************************************************)
(* Numbers only go up.                                                     *)
(***************************************************************************)
LEMMA NumbersRise ==
  ASSUME IInv, NumbersReserved, [Next]_vars
  PROVE  \A i \in Identities : deliverySeq[i] <= deliverySeq'[i]
<1>0. TypeOK /\ deliverySeq \in [Identities -> Nat]
  BY DEF IInv, TypeOK, RowsTypeOK
<1>1. UNCHANGED deliverySeq => \A i \in Identities : deliverySeq[i] <= deliverySeq'[i]
  BY <1>0
<1>3. ASSUME NEW s \in Sessions, Commit(s)
      PROVE  \A i \in Identities : deliverySeq[i] <= deliverySeq'[i]
  <2>1. deliverySeq' = [i \in Identities |-> IF i \in Recipients(s)
                          THEN deliverySeq[i] + 1 ELSE deliverySeq[i]]
    BY <1>0, <1>3, CommitNumbers DEF CommitWrites
  <2> QED
    BY <1>0, <2>1
<1> QED
  BY <1>1, <1>3, OnlyCommitsNumber

(***************************************************************************)
(* Every step of every process leaves each message at most one job.        *)
(***************************************************************************)
LEMMA JobsKept ==
  ASSUME IInv, NumbersReserved, JobsOnce, [Next]_vars
  PROVE  JobsOnce'
<1>0. TypeOK /\ TypeOK' /\ LocksHeld
  BY StepSafe DEF IInv
<1>1. \A i \in Identities : deliverySeq[i] <= deliverySeq'[i]
  BY NumbersRise
<1>2. CASE UNCHANGED parseVars
  <2>1. JobsShrink
    BY <1>1, <1>2 DEF JobsShrink, parseVars
  <2> QED
    BY <1>0, <2>1, ShrinkingJobs
<1>3. ASSUME NEW s \in Sessions, CommitMessage(s) PROVE JobsOnce'
  BY <1>0, <1>3, CommitKeepsJobs
<1>4. ASSUME NEW p \in Parsers, ParseStep(p) PROVE JobsOnce'
  <2>1. CASE Load(p)
    BY <1>0, <2>1, LoadKeepsJobs
  <2>2. CASE Retry(p)
    BY <1>0, <1>4, <2>2, ParserMoves, RetryKeepsJobs
  <2>3. CASE queue' \subseteq queue /\ \A q \in Parsers : parser'[q].job \subseteq parser[q].job
    BY <1>0, <1>1, <2>3, ShrinkingJobs DEF JobsShrink
  <2>4. parser \in [Parsers -> ParserState] /\ IdleParser.job = {}
    BY <1>0 DEF TypeOK, ParseTypeOK, IdleParser
  <2> QED
    BY <1>0, <1>4, <2>1, <2>2, <2>3, <2>4, ParserMoves
<1>5. CASE UNCHANGED vars
  BY <1>2, <1>5 DEF vars
<1> QED
  BY <1>2, <1>3, <1>4, <1>5
     DEF Next, OthersOfIngest, OthersOfAccounts, OthersOfLifecycle

-----------------------------------------------------------------------------
(* Messages.                                                               *)

\* One message, before and after a step.
Succeeds(d, e) ==
  /\ Key(e) = Key(d) /\ e.blob = d.blob
  /\ d.status = "parsed" => e.status = "parsed"

AttachmentsAt(k) == {a \in attachments : Key(a) = k}

StoredBy(p, e) ==
  /\ parser[p].pc = "extracting" /\ parser'[p].pc = "parsed"
  /\ \E j \in parser[p].job : Key(j) = Key(e)

(***************************************************************************)
(* What a step does to messages: one that stays keeps its number, its blob *)
(* and, once parsed, its attachments; a new one has a new number; only the *)
(* worker that has a message's job makes it parsed.                        *)
(***************************************************************************)
MailKept ==
  /\ \A i \in Identities : deliverySeq[i] <= deliverySeq'[i]
  /\ \A e \in deliveries' :
       \/ \E d \in deliveries : Succeeds(d, e)
       \/ e.seq > deliverySeq[e.identity] /\ e.status # "parsed"
  /\ \A e \in deliveries' : e.status = "parsed" =>
       \/ \E d \in deliveries : Key(d) = Key(e) /\ d.status = "parsed"
       \/ \E p \in Parsers : StoredBy(p, e)
  /\ \A a \in attachments' \ attachments :
       \A e \in deliveries' : Key(e) = Key(a) => e.status = "parsed"
  /\ \A d \in deliveries : \A e \in deliveries' :
       d.status = "parsed" /\ Key(e) = Key(d) =>
         AttachmentsAt(Key(d))' = AttachmentsAt(Key(d))

(***************************************************************************)
(* Steps that leave the rows alone, or only delete some, keep messages.    *)
(***************************************************************************)
LEMMA DeletingKeepsMail ==
  ASSUME TypeOK, NEW keys, UNCHANGED deliverySeq,
         deliveries' = {d \in deliveries : Key(d) \notin keys},
         attachments' = {a \in attachments : Key(a) \notin keys}
  PROVE  MailKept
<1>1. \A i \in Identities : deliverySeq[i] <= deliverySeq'[i]
  BY DEF TypeOK, RowsTypeOK
<1>2. \A e \in deliveries' : e \in deliveries /\ Succeeds(e, e)
  BY DEF Succeeds
<1>3. ASSUME NEW d \in deliveries, NEW e \in deliveries', Key(e) = Key(d)
      PROVE  AttachmentsAt(Key(d))' = AttachmentsAt(Key(d))
  <2>1. Key(d) \notin keys /\ Key(d)' = Key(d)
    BY <1>3 DEF Key
  <2> QED
    BY <2>1 DEF AttachmentsAt, Key
<1>4. \A a \in attachments' : a \in attachments
  OBVIOUS
<1> QED
  BY <1>1, <1>2, <1>3, <1>4 DEF MailKept, Key

(* A step that touches no row takes no mail and no parse away from a       *)
(* reader.                                                                 *)
LEMMA UntouchedMailKept ==
  ASSUME TypeOK, UNCHANGED <<deliverySeq, deliveries, attachments>>
  PROVE  MailKept
<1>1. PICK keys : keys = {}
  OBVIOUS
<1>2. /\ deliveries' = {d \in deliveries : Key(d) \notin keys}
      /\ attachments' = {a \in attachments : Key(a) \notin keys}
  BY <1>1
<1> QED
  BY <1>2, DeletingKeepsMail

(***************************************************************************)
(* Ageing a message keeps it.                                              *)
(***************************************************************************)
LEMMA AgeKeepsMail ==
  ASSUME TypeOK, NEW x \in deliveries, Age(x)
  PROVE  MailKept
<1> DEFINE aged == [x EXCEPT !.old = TRUE]
<1>1. deliveries \subseteq Delivery /\ deliverySeq \in [Identities -> Nat]
  BY DEF TypeOK, RowsTypeOK
<1>2. Key(aged) = Key(x) /\ aged.blob = x.blob /\ aged.status = x.status
  BY <1>1 DEF Delivery, Key
<1>3. /\ deliveries' = (deliveries \ {x}) \cup {aged}
      /\ UNCHANGED <<deliverySeq, attachments>>
  BY DEF Age, identityVars
<1> HIDE DEF aged
<1>4. \A e \in deliveries' : \E d \in deliveries :
        Key(d) = Key(e) /\ e.blob = d.blob /\ d.status = e.status
  BY <1>2, <1>3
<1>5. \A k : AttachmentsAt(k)' = AttachmentsAt(k)
  BY <1>3 DEF AttachmentsAt, Key
<1> QED
  BY <1>1, <1>3, <1>4, <1>5 DEF MailKept, Succeeds, Key

(***************************************************************************)
(* So does marking as failed a message that is not parsed.                 *)
(***************************************************************************)
LEMMA MarkFailedKeepsMail ==
  ASSUME TypeOK, NotYetParsed, NEW p \in Parsers, parser[p].pc = "extracting",
         MarkFailed(p), UNCHANGED <<deliverySeq, attachments>>
  PROVE  MailKept
<1> DEFINE failed(x) == [x EXCEPT !.status = "failed"]
<1>1. /\ deliveries \subseteq Delivery /\ deliverySeq \in [Identities -> Nat]
      /\ Current(p) \subseteq deliveries
  BY DEF TypeOK, RowsTypeOK, Current, DeliveryAt
<1>2. \A x \in Current(p) :
        /\ x.status # "parsed" /\ failed(x).status = "failed"
        /\ Key(failed(x)) = Key(x) /\ failed(x).blob = x.blob
  BY <1>1 DEF Delivery, Key, NotYetParsed
<1>3. deliveries' = (deliveries \ Current(p)) \cup {failed(x) : x \in Current(p)}
  BY DEF MarkFailed
<1> HIDE DEF failed
<1>4. \A e \in deliveries' : \E d \in deliveries :
        /\ Key(d) = Key(e) /\ e.blob = d.blob
        /\ e.status = "parsed" <=> d.status = "parsed"
  BY <1>1, <1>2, <1>3
<1>5. \A k : AttachmentsAt(k)' = AttachmentsAt(k)
  BY DEF AttachmentsAt, Key
<1> QED
  BY <1>1, <1>4, <1>5 DEF MailKept, Succeeds, Key

(***************************************************************************)
(* Storing what was parsed of a message touches no other message.          *)
(***************************************************************************)
LEMMA StoreKeepsMail ==
  ASSUME TypeOK, NumbersUnique, NotYetParsed, NEW p \in Parsers, StoreResults(p)
  PROVE  MailKept
<1>1. PICK x \in Current(p) :
        /\ deliveries'  = (deliveries \ {x}) \cup {[x EXCEPT !.status = "parsed"]}
        /\ attachments' = {a \in attachments : Key(a) # Key(x)} \cup
             {[identity |-> x.identity, seq |-> x.seq, blob |-> b] :
                b \in parser[p].stored}
  BY DEF StoreResults
<1> DEFINE stored == [x EXCEPT !.status = "parsed"]
           new == {[identity |-> x.identity, seq |-> x.seq, blob |-> b] :
                     b \in parser[p].stored}
<1>2. /\ deliveries \subseteq Delivery /\ deliverySeq \in [Identities -> Nat]
      /\ x \in deliveries /\ x.status # "parsed"
      /\ parser \in [Parsers -> ParserState] /\ UNCHANGED deliverySeq
      /\ parser[p].pc = "extracting" /\ parser' = [parser EXCEPT ![p].pc = "parsed"]
  BY DEF TypeOK, RowsTypeOK, ParseTypeOK, Current, DeliveryAt, NotYetParsed, StoreResults,
         identityVars
<1>3. /\ Key(stored) = Key(x) /\ stored.blob = x.blob /\ stored.status = "parsed"
  BY <1>2 DEF Delivery, Key
<1>4. StoredBy(p, stored)
  <2>1. PICK j \in parser[p].job : x \in DeliveryAt(Key(j))
    BY DEF Current
  <2>2. Key(j) = Key(x)
    BY <2>1 DEF DeliveryAt
  <2>3. parser'[p].pc = "parsed"
    BY <1>2 DEF ParserState
  <2> QED
    BY <1>2, <1>3, <2>2, <2>3 DEF StoredBy
<1>5. \A a \in new : Key(a) = Key(x)
  BY DEF Key
<1>6. deliveries' = (deliveries \ {x}) \cup {stored}
      /\ attachments' = {a \in attachments : Key(a) # Key(x)} \cup new
  BY <1>1
<1> HIDE DEF stored, new
<1>7. \A i \in Identities : deliverySeq[i] <= deliverySeq'[i]
  BY <1>2
<1>8. \A e \in deliveries' : \E d \in deliveries : Succeeds(d, e)
  BY <1>2, <1>3, <1>6 DEF Succeeds
<1>9. \A e \in deliveries' : e.status = "parsed" =>
        \/ \E d \in deliveries : Key(d) = Key(e) /\ d.status = "parsed"
        \/ \E q \in Parsers : StoredBy(q, e)
  BY <1>4, <1>6
<1>10. \A a \in attachments' \ attachments :
         \A e \in deliveries' : Key(e) = Key(a) => e.status = "parsed"
  BY <1>2, <1>3, <1>5, <1>6 DEF NumbersUnique
<1>11. ASSUME NEW d \in deliveries, d.status = "parsed"
       PROVE  AttachmentsAt(Key(d))' = AttachmentsAt(Key(d))
  <2>1. Key(d) # Key(x)
    BY <1>2, <1>11 DEF NumbersUnique
  <2> QED
    BY <1>5, <1>6, <2>1 DEF AttachmentsAt, Key
<1> QED
  BY <1>7, <1>8, <1>9, <1>10, <1>11 DEF MailKept

(***************************************************************************)
(* A commit delivers messages under numbers nobody has had.                *)
(***************************************************************************)
LEMMA CommitKeepsMail ==
  ASSUME TypeOK, NumbersReserved, NEW s \in Sessions, Commit(s)
  PROVE  MailKept
<1> DEFINE R == Recipients(s)
           new(i) == [identity |-> i, seq |-> deliverySeq[i] + 1,
                      blob |-> session[s].blob, size |-> session[s].size,
                      status |-> "received", old |-> FALSE]
<1>1. /\ R \subseteq Identities
      /\ deliverySeq' = [i \in Identities |-> IF i \in R
                           THEN deliverySeq[i] + 1 ELSE deliverySeq[i]]
      /\ deliveries' = deliveries \cup {new(i) : i \in R}
  BY CommitNumbers DEF CommitWrites
<1>2. deliverySeq \in [Identities -> Nat] /\ UNCHANGED attachments
  BY DEF TypeOK, RowsTypeOK, Commit
<1>3. \A i \in Identities : deliverySeq[i] <= deliverySeq'[i]
  BY <1>1, <1>2
<1>4. \A i \in R : /\ new(i).seq > deliverySeq[new(i).identity]
                   /\ new(i).status # "parsed"
  BY <1>1, <1>2
<1> HIDE DEF new
<1>5. \A e \in deliveries' :
        \/ e \in deliveries
        \/ e.seq > deliverySeq[e.identity] /\ e.status # "parsed"
  BY <1>1, <1>4
<1>6. \A k : AttachmentsAt(k)' = AttachmentsAt(k)
  BY <1>2 DEF AttachmentsAt, Key
<1> QED
  BY <1>2, <1>3, <1>5, <1>6 DEF MailKept, Succeeds, Key

(***************************************************************************)
(* Every step of every process keeps messages.                             *)
(***************************************************************************)
LEMMA StepKeepsMail ==
  ASSUME HistoryInv, NotYetParsed, [Next]_vars
  PROVE  MailKept
<1>0. TypeOK /\ NumbersReserved /\ NumbersUnique
  BY DEF HistoryInv, IInv
<1>1. ASSUME NEW s \in Sessions, IngestStep(s) PROVE MailKept
  BY <1>0, <1>1, UntouchedMailKept
     DEF IngestStep, Rcpt, Reset, StoreBody, LockRecipient, Refuse,
         DeadlockAbort, CommitFails, Rollback, rowVars, identityVars
<1>2. ASSUME NEW s \in Sessions, Commit(s) PROVE MailKept
  BY <1>0, <1>2, CommitKeepsMail
<1>3. CASE AccountsStep
  BY <1>0, <1>3, UntouchedMailKept DEF AccountsStep, AllocateRandom, OpenNamed,
     CreateIdentity, DestroyIdentity, RecordDestroyed, LoseDestroyed, identityVars
<1>4. CASE LifecycleStep
  <2>1. ASSUME NEW d \in deliveries, Age(d) PROVE MailKept
    BY <1>0, <2>1, AgeKeepsMail
  <2>2. ASSUME NEW w \in Workers, PurgeApply(w) \/ SweepApply(w) PROVE MailKept
    <3>1. UNCHANGED deliverySeq
      BY <2>2 DEF PurgeApply, SweepApply
    <3>2. PICK keys : DeleteDeliveries(keys)
      BY <2>2 DEF PurgeApply, SweepApply
    <3> QED
      BY <1>0, <3>1, <3>2, DeletingKeepsMail DEF DeleteDeliveries
  <2>3. CASE UNCHANGED <<deliverySeq, deliveries, attachments>>
    BY <1>0, <2>3, UntouchedMailKept
  <2>4. CASE Notice \/ Expire
    BY <2>3, <2>4 DEF Notice, Expire, MoveState
  <2>5. CASE UNCHANGED <<identityVars, lock, deliveries, attachments, events>>
    BY <2>3, <2>5 DEF identityVars
  <2> QED
    BY <1>4, <2>1, <2>2, <2>4, <2>5, LifecycleMoves
<1>5. ASSUME NEW p \in Parsers, ParseStep(p) PROVE MailKept
  <2>1. CASE Unparseable(p) \/ StoreAttachmentFails(p)
    BY <1>0, <2>1, MarkFailedKeepsMail DEF Unparseable, StoreAttachmentFails, identityVars
  <2>2. CASE StoreResults(p)
    BY <1>0, <2>2, StoreKeepsMail
  <2>3. CASE UNCHANGED <<deliverySeq, deliveries, attachments>>
    BY <1>0, <2>3, UntouchedMailKept
  <2> QED
    BY <1>5, <2>1, <2>2, <2>3 DEF ParseStep, ParseProgress, Load, NothingToParse,
       LoadFails, LookupFails, Locate, GiveUp, ReadBytes, BytesMissing, PutAttachment,
       AcquireAttachment, DeliveryGone, JobDone, ParserDies, rowVars, identityVars
<1>6. CASE UNCHANGED vars
  BY <1>0, <1>6, UntouchedMailKept DEF vars, rowVars, identityVars
<1> QED
  BY <1>1, <1>2, <1>3, <1>4, <1>5, <1>6 DEF Next, CommitMessage

(***************************************************************************)
(* Only a parsed message has attachments, after a step as before it.       *)
(***************************************************************************)
LEMMA AttachmentsKept ==
  ASSUME HistoryInv, AttachmentsOfParsed, MailKept
  PROVE  AttachmentsOfParsed'
<1> SUFFICES ASSUME NEW a \in attachments', NEW e \in deliveries', Key(e) = Key(a)
             PROVE  e.status = "parsed"
  BY DEF AttachmentsOfParsed, DeliveryAt, Key
<1>1. CASE a \notin attachments
  BY <1>1 DEF MailKept
<1>2. CASE a \in attachments
  <2>1. PICK d \in deliveries : Key(d) = Key(a) /\ d.seq <= deliverySeq[d.identity]
    BY <1>2 DEF HistoryInv, NumbersUnique
  <2>2. e.identity = d.identity /\ e.seq = d.seq
    BY <2>1 DEF Key
  <2>3. d.identity \in Identities /\ d.seq \in Nat /\ deliverySeq[d.identity] \in Nat
    BY DEF HistoryInv, IInv, TypeOK, RowsTypeOK, Delivery
  <2>4. ~(e.seq > deliverySeq[e.identity])
    BY <2>1, <2>2, <2>3
  <2>5. PICK x \in deliveries : Succeeds(x, e)
    BY <2>4 DEF MailKept
  <2>6. x.status = "parsed"
    BY <1>2, <2>5 DEF AttachmentsOfParsed, DeliveryAt, Succeeds
  <2> QED
    BY <2>5, <2>6 DEF Succeeds
<1> QED
  BY <1>1, <1>2

\* What a worker is about to parse: its job either is the one it had, or was
\* loaded in this step.
Holds(p) ==
  \/ /\ parser[p].pc \in {"loaded", "located", "extracting"}
     /\ parser'[p].job = parser[p].job
  \/ Load(p)

(***************************************************************************)
(* A worker that is parsing either went on or has just loaded its message. *)
(***************************************************************************)
LEMMA ParsingGoesOn ==
  ASSUME TypeOK, [Next]_vars, NEW p \in Parsers,
         parser'[p].pc \in {"loaded", "located", "extracting"}
  PROVE  Holds(p)
<1>0. parser \in [Parsers -> ParserState]
  BY DEF TypeOK, ParseTypeOK
<1>1. CASE UNCHANGED parser
  BY <1>1 DEF Holds
<1>2. ASSUME NEW q \in Parsers, ParseStep(q) PROVE Holds(p)
  <2>1. CASE NothingToParse(q) \/ LoadFails(q)
    BY <1>1, <2>1 DEF NothingToParse, LoadFails
  <2>2. CASE Load(q)
    <3>1. q # p => parser'[p] = parser[p]
      BY <1>0, <2>2 DEF Load
    <3> QED
      BY <2>2, <3>1 DEF Holds
  <2>3. CASE Locate(q) \/ ReadBytes(q) \/ PutAttachment(q)
    BY <1>0, <2>3 DEF Locate, ReadBytes, PutAttachment, ParserState, Holds
  <2>4. CASE AcquireAttachment(q)
    BY <1>0, <2>4 DEF AcquireAttachment, ParserState, Holds
  <2>5. CASE Drop(q) \/ Retry(q)
    <3>1. parser' = [parser EXCEPT ![q] = IdleParser]
      BY <2>5 DEF Drop, Retry
    <3> QED
      BY <1>0, <3>1 DEF IdleParser, Holds
  <2>6. CASE StoreResults(q)
    BY <1>0, <2>6 DEF StoreResults, ParserState, Holds
  <2> QED
    BY <1>2, <2>1, <2>2, <2>3, <2>4, <2>5, <2>6
       DEF ParseStep, ParseProgress, GiveUp, LookupFails, BytesMissing, Unparseable,
           StoreAttachmentFails, DeliveryGone, JobDone, ParserDies
<1>3. CASE UNCHANGED vars
  BY <1>1, <1>3 DEF vars, parseVars
<1> QED
  BY <1>1, <1>2, <1>3 DEF Next, CommitMessage, OthersOfIngest, OthersOfAccounts,
     OthersOfLifecycle, parseVars

(***************************************************************************)
(* No message that a worker is about to parse is parsed by another.        *)
(***************************************************************************)
LEMMA ParsingIsExclusive ==
  ASSUME HistoryInv, ParsedInv, JobsOnce', MailKept, [Next]_vars
  PROVE  NotYetParsed'
<1> SUFFICES ASSUME NEW p \in Parsers, NEW j \in parser'[p].job,
                    parser'[p].pc \in {"loaded", "located", "extracting"},
                    NEW e \in deliveries', Key(e) = Key(j), e.status = "parsed"
             PROVE  FALSE
  BY DEF NotYetParsed, Current, DeliveryAt, Key
<1>0. TypeOK /\ parser \in [Parsers -> ParserState]
  BY DEF HistoryInv, IInv, TypeOK, ParseTypeOK
<1>1. ASSUME NEW q \in Parsers, StoredBy(q, e) PROVE FALSE
  <2>1. PICK k \in parser[q].job : Key(k) = Key(e)
    BY <1>1 DEF StoredBy
  <2>2. q # p
    BY <1>1 DEF StoredBy
  <2>3. CASE parser'[p].job = parser[p].job
    BY <2>1, <2>2, <2>3 DEF ParsedInv, JobsOnce
  <2>4. CASE Load(p)
    <3>1. parser'[q] = parser[q]
      BY <1>0, <2>2, <2>4 DEF Load
    <3> QED
      BY <1>1, <3>1 DEF StoredBy
  <2> QED
    BY <1>0, <2>3, <2>4, ParsingGoesOn DEF Holds
<1>2. PICK d \in deliveries : Key(d) = Key(e) /\ d.status = "parsed"
  BY <1>1 DEF MailKept
<1>3. CASE /\ parser[p].pc \in {"loaded", "located", "extracting"}
           /\ parser'[p].job = parser[p].job
  <2>1. d \in Current(p)
    BY <1>2, <1>3 DEF Current, DeliveryAt
  <2> QED
    BY <1>2, <1>3, <2>1 DEF ParsedInv, NotYetParsed
<1>4. CASE Load(p)
  <2>1. PICK k \in queue : Unparsed(k) # {} /\ parser'[p].job = {k}
    BY <1>0, <1>4 DEF Load, ParserState
  <2>2. PICK x \in deliveries : Key(x) = Key(k) /\ x.status # "parsed"
    BY <2>1 DEF Unparsed, DeliveryAt
  <2>3. d = x
    BY <1>2, <2>1, <2>2 DEF HistoryInv, NumbersUnique
  <2> QED
    BY <1>2, <2>2, <2>3
<1> QED
  BY <1>0, <1>3, <1>4, ParsingGoesOn DEF Holds

(***************************************************************************)
(* Parsing keeps its invariant.                                            *)
(***************************************************************************)
LEMMA ParsedKept ==
  HistoryInv /\ ParsedInv /\ [Next]_vars => ParsedInv' /\ MailKept
<1> SUFFICES ASSUME HistoryInv, ParsedInv, [Next]_vars
             PROVE  ParsedInv' /\ MailKept
  OBVIOUS
<1>1. IInv /\ NumbersReserved /\ JobsOnce /\ NotYetParsed /\ AttachmentsOfParsed
  BY DEF HistoryInv, ParsedInv
<1>2. JobsOnce'
  BY <1>1, JobsKept
<1>3. MailKept
  BY <1>1, StepKeepsMail
<1>4. AttachmentsOfParsed'
  BY <1>1, <1>3, AttachmentsKept
<1>5. NotYetParsed'
  BY <1>2, <1>3, ParsingIsExclusive
<1> QED
  BY <1>2, <1>3, <1>4, <1>5 DEF ParsedInv

-----------------------------------------------------------------------------
(* Requests.                                                               *)

(***************************************************************************)
(* A message found under a number already given out was there before.      *)
(***************************************************************************)
LEMMA NumberIsNotReused ==
  ASSUME MailKept, deliverySeq \in [Identities -> Nat],
         NEW i \in Identities, NEW n \in Nat, n <= deliverySeq[i],
         NEW e \in deliveries', Key(e) = <<i, n>>
  PROVE  \E x \in deliveries : Succeeds(x, e)
<1>1. e.identity = i /\ e.seq = n
  BY DEF Key
<1>2. ~(e.seq > deliverySeq[e.identity])
  BY <1>1
<1> QED
  BY <1>2 DEF MailKept

\* What a request that has loaded d knows of the rows.
KnowsRow(d) ==
  /\ d.seq <= deliverySeq[d.identity]
  /\ \A e \in DeliveryAt(Key(d)) :
       e.blob = d.blob /\ (d.parsed => e.status = "parsed")

RowType ==
  [identity : Identities, seq : Nat \ {0}, blob : Blobs, parsed : BOOLEAN]

(***************************************************************************)
(* What a request knows of its message stays true.                         *)
(***************************************************************************)
LEMMA RowStaysKnown ==
  ASSUME HistoryInv, HistoryInv', ParsedInv, MailKept, NEW d \in RowType, KnowsRow(d)
  PROVE  /\ KnowsRow(d)'
         /\ DeliveryAt(Key(d))' # {} =>
              /\ DeliveryAt(Key(d)) # {}
              /\ \A b \in BlobsIn(ReferencesOf({Key(d)})) :
                   b \in BlobsIn(ReferencesOf({Key(d)}))'
              /\ d.parsed =>
                   AttachmentsForDelivery(Key(d))' = AttachmentsForDelivery(Key(d))
<1>1. /\ deliverySeq \in [Identities -> Nat] /\ deliverySeq' \in [Identities -> Nat]
      /\ \A x, y \in deliveries : Key(x) = Key(y) => x = y
      /\ d.identity \in Identities /\ d.seq \in Nat
  BY DEF HistoryInv, IInv, TypeOK, RowsTypeOK, NumbersUnique, RowType
<1>2. d.seq <= deliverySeq'[d.identity]
  <2>1. deliverySeq[d.identity] <= deliverySeq'[d.identity]
    BY <1>1 DEF MailKept
  <2> QED
    BY <1>1, <2>1 DEF KnowsRow
<1>3. ASSUME NEW e \in deliveries', Key(e) = Key(d)
      PROVE  \E x \in deliveries : Succeeds(x, e)
  <2>1. Key(e) = <<d.identity, d.seq>> /\ d.seq <= deliverySeq[d.identity]
    BY <1>3 DEF Key, KnowsRow
  <2> QED
    BY <1>1, <2>1, NumberIsNotReused
<1>4. ASSUME NEW e \in deliveries', Key(e) = Key(d)
      PROVE  /\ DeliveryAt(Key(d)) # {}
             /\ e.blob = d.blob /\ (d.parsed => e.status = "parsed")
  <2>1. PICK x \in deliveries : Succeeds(x, e)
    BY <1>3, <1>4
  <2>2. x \in DeliveryAt(Key(d))
    BY <1>4, <2>1 DEF Succeeds, DeliveryAt
  <2> QED
    BY <2>1, <2>2 DEF Succeeds, KnowsRow
<1>5. KnowsRow(d)'
  BY <1>2, <1>4 DEF KnowsRow, DeliveryAt, Key
<1>6. ASSUME NEW e \in deliveries', Key(e) = Key(d),
             NEW x \in deliveries, Key(x) = Key(d), x.status = "parsed"
      PROVE  AttachmentsAt(Key(d))' = AttachmentsAt(Key(d))
  BY <1>6 DEF MailKept, AttachmentsAt, Key
<1>7. ASSUME NEW e \in deliveries', Key(e) = Key(d), d.parsed
      PROVE  AttachmentsForDelivery(Key(d))' = AttachmentsForDelivery(Key(d))
  <2>1. PICK x \in deliveries : Succeeds(x, e)
    BY <1>3, <1>7
  <2>2. Key(x) = Key(d) /\ x.status = "parsed"
    BY <1>7, <2>1 DEF Succeeds, KnowsRow, DeliveryAt
  <2>3. AttachmentsAt(Key(d))' = AttachmentsAt(Key(d))
    BY <1>6, <1>7, <2>2
  <2> QED
    BY <2>3 DEF AttachmentsForDelivery, AttachmentsAt, BlobsIn, Key
<1>8. ASSUME NEW e \in deliveries', Key(e) = Key(d), NEW b \in BlobsIn(ReferencesOf({Key(d)}))
      PROVE  b \in BlobsIn(ReferencesOf({Key(d)}))'
  <2>1. PICK q \in deliveries \cup attachments : Key(q) = Key(d) /\ q.blob = b
    BY <1>8 DEF BlobsIn, ReferencesOf
  <2>2. CASE q \in deliveries
    <3>1. q.blob = e.blob
      BY <1>4, <1>8, <2>1, <2>2 DEF KnowsRow, DeliveryAt
    <3> QED
      BY <1>8, <2>1, <3>1 DEF BlobsIn, ReferencesOf, Key
  <2>3. CASE q \in attachments
    <3>1. PICK x \in deliveries : Succeeds(x, e)
      BY <1>3, <1>8
    <3>2. Key(x) = Key(d) /\ x.status = "parsed"
      BY <1>8, <2>1, <2>3, <3>1
         DEF Succeeds, ParsedInv, AttachmentsOfParsed, DeliveryAt
    <3>3. AttachmentsAt(Key(d))' = AttachmentsAt(Key(d))
      BY <1>6, <1>8, <3>2
    <3>4. q \in attachments' /\ Key(q)' = Key(d)'
      BY <2>1, <2>3, <3>3 DEF AttachmentsAt, Key
    <3> QED
      BY <2>1, <3>4 DEF BlobsIn, ReferencesOf, Key
  <2> QED
    BY <2>1, <2>2, <2>3
<1> QED
  BY <1>4, <1>5, <1>7, <1>8 DEF DeliveryAt, Key

\* The invariant of one request.
RequestOK(r) ==
  /\ reader[r].pc = "failed" => ~StillThere(r)
  /\ RowOf(r) /\ BlobOf(r) /\ ReadSoFar(r)

(***************************************************************************)
(* A step of the pipeline keeps what every request has read so far.        *)
(***************************************************************************)
LEMMA PipelineKeepsRequests ==
  ASSUME HistoryInv, HistoryInv', ParsedInv, MailKept, ReaderInv, UNCHANGED reader
  PROVE  ReaderInv'
<1>1. ReadsTypeOK'
  BY DEF ReaderInv, ReadsTypeOK
<1>2. ASSUME NEW r \in Readers PROVE RequestOK(r)'
  <2>1. RequestOK(r) /\ reader'[r] = reader[r] /\ reader[r] \in ReaderState
    BY DEF ReaderInv, FailsOnlyWhenGone, RequestOK, ReadsTypeOK
  <2>2. \A d \in reader[r].row : d \in RowType /\ KnowsRow(d)
    BY <2>1 DEF RequestOK, RowOf, KnowsRow, ReaderState, RowType
  <2>3. ASSUME NEW d \in reader[r].row
        PROVE  /\ KnowsRow(d)'
               /\ DeliveryAt(Key(d))' # {} =>
                    /\ DeliveryAt(Key(d)) # {}
                    /\ \A b \in BlobsIn(ReferencesOf({Key(d)})) :
                         b \in BlobsIn(ReferencesOf({Key(d)}))'
                    /\ d.parsed =>
                         AttachmentsForDelivery(Key(d))' = AttachmentsForDelivery(Key(d))
    BY <2>2, RowStaysKnown
  <2>4. StillThere(r)' => StillThere(r)
    BY <2>1, <2>3 DEF StillThere, Key
  <2>5. RowOf(r)'
    BY <2>1, <2>3 DEF RequestOK, RowOf, KnowsRow, Key
  <2>6. BlobOf(r)'
    <3> SUFFICES ASSUME reader[r].pc \in {"locate", "open"}, StillThere(r)',
                        NEW d \in reader[r].row
                 PROVE  reader[r].blob \in BlobsIn(ReferencesOf({Key(d)}))'
      BY <2>1 DEF BlobOf, Key
    <3>1. reader[r].blob \in BlobsIn(ReferencesOf({Key(d)}))
      BY <2>1, <2>4 DEF RequestOK, BlobOf
    <3>2. DeliveryAt(Key(d))' # {}
      BY <2>1 DEF StillThere, Key
    <3> QED
      BY <2>3, <3>1, <3>2
  <2>7. ReadSoFar(r)'
    <3> SUFFICES ASSUME StillThere(r)', NEW d \in reader[r].row, d.parsed
                 PROVE  /\ reader[r].pc \in {"counted", "bodied", "answered"} =>
                             reader[r].count = Cardinality(AttachmentsForDelivery(Key(d)))'
                        /\ reader[r].pc \in {"bodied", "answered"} => reader[r].body
                        /\ reader[r].pc = "answered" =>
                             reader[r].listed = AttachmentsForDelivery(Key(d))'
      BY <2>1 DEF ReadSoFar, Key
    <3>1. DeliveryAt(Key(d))' # {}
      BY <2>1 DEF StillThere, Key
    <3>2. AttachmentsForDelivery(Key(d))' = AttachmentsForDelivery(Key(d))
      BY <2>3, <3>1
    <3> QED
      BY <2>1, <2>4, <3>2 DEF RequestOK, ReadSoFar
  <2> QED
    BY <2>1, <2>4, <2>5, <2>6, <2>7 DEF RequestOK
<1> QED
  BY <1>1, <1>2 DEF ReaderInv, FailsOnlyWhenGone, RequestOK

(***************************************************************************)
(* The attachments a query lists are finitely many blobs.                  *)
(***************************************************************************)
LEMMA ListedAttachments ==
  ASSUME TypeOK, NEW k
  PROVE  /\ AttachmentsForDelivery(k) \subseteq Blobs
         /\ Cardinality(AttachmentsForDelivery(k)) \in Nat
<1>1. AttachmentsForDelivery(k) \subseteq Blobs
  BY DEF TypeOK, RowsTypeOK, Attachment, AttachmentsForDelivery, BlobsIn
<1> QED
  BY <1>1, BlobsAssumption, FS_Subset, FS_CardinalityType

(***************************************************************************)
(* A request knows which message it is about.                              *)
(***************************************************************************)
LEMMA RequestKey ==
  ASSUME ReaderInv, NEW r \in Readers, reader[r].pc # "idle"
  PROVE  \E d \in RowType : reader[r].row = {d} /\ KeyOf(r) = Key(d) /\ KnowsRow(d)
<1>1. RowOf(r) /\ reader[r] \in ReaderState
  BY DEF ReaderInv, ReadsTypeOK
<1>2. PICK d \in reader[r].row : reader[r].row = {d}
  BY <1>1 DEF RowOf
<1>3. d \in RowType /\ KnowsRow(d)
  BY <1>1, <1>2 DEF RowOf, KnowsRow, ReaderState, RowType
<1>4. {Key(x) : x \in reader[r].row} = {Key(d)}
  BY <1>2
<1>5. KeyOf(r) = Key(d)
  BY <1>4 DEF KeyOf
<1> QED
  BY <1>2, <1>3, <1>5

(***************************************************************************)
(* Nor does any statement of a request itself break what it has read.      *)
(***************************************************************************)
LEMMA StatementKeepsRequests ==
  ASSUME HistoryInv, ParsedInv, ReaderInv, NEW r \in Readers, ReadStep(r), UNCHANGED vars
  PROVE  ReaderInv'
<1> DEFINE new == reader'[r]
<1>0. /\ TypeOK /\ ReadableMail /\ NumbersUnique
      /\ reader \in [Readers -> ReaderState] /\ reader[r] \in ReaderState
      /\ RequestOK(r)
  BY DEF HistoryInv, IInv, ReaderInv, ReadsTypeOK, RequestOK, FailsOnlyWhenGone
<1>1. UNCHANGED <<deliverySeq, deliveries, attachments, blobRows, bytes, dataKey>>
  BY DEF vars, rowVars, identityVars, blobVars
<1>2. /\ \A k : DeliveryAt(k)' = DeliveryAt(k)
      /\ \A k : AttachmentsForDelivery(k)' = AttachmentsForDelivery(k)
      /\ \A k : ReferencesOf({k})' = ReferencesOf({k})
  BY <1>1 DEF DeliveryAt, AttachmentsForDelivery, ReferencesOf, BlobsIn, Key
<1>3. reader' = [reader EXCEPT ![r] = new]
  BY <1>0 DEF ReadStep, DeliveryByID, IdentityByID, Goto, Over, Summarize,
     CountAttachments, WriteMessage, ListAttachments, GetRawMessage, GetAttachment,
     BlobByID, OpenBytes, Answer
<1> DEFINE There(row) == \A d \in row : DeliveryAt(Key(d)) # {}
           Good(q) ==
             /\ q \in ReaderState
             /\ q.pc = "failed" => ~There(q.row)
             /\ q.pc = "idle" => q.row = {}
             /\ q.pc # "idle" => \E d \in q.row : q.row = {d}
             /\ \A d \in q.row : KnowsRow(d)
             /\ q.pc \in {"locate", "open"} /\ There(q.row) =>
                  \A d \in q.row : q.blob \in BlobsIn(ReferencesOf({Key(d)}))
             /\ There(q.row) =>
                  \A d \in q.row : d.parsed =>
                    /\ q.pc \in {"counted", "bodied", "answered"} =>
                         q.count = Cardinality(AttachmentsForDelivery(Key(d)))
                    /\ q.pc \in {"bodied", "answered"} => q.body
                    /\ q.pc = "answered" => q.listed = AttachmentsForDelivery(Key(d))
<1>4. ASSUME NEW q \in Readers PROVE Good(reader[q])
  <2>1. RequestOK(q) /\ reader[q] \in ReaderState
    BY DEF ReaderInv, FailsOnlyWhenGone, RequestOK, ReadsTypeOK
  <2> QED
    BY <2>1 DEF RequestOK, RowOf, BlobOf, ReadSoFar, StillThere, KnowsRow
<1>5. ASSUME Good(new) PROVE ReaderInv'
  <2>1. \A q \in Readers : Good(reader'[q])
    BY <1>0, <1>3, <1>4, <1>5
  <2>2. ASSUME NEW q \in Readers PROVE RequestOK(q)'
    <3>1. Good(reader'[q])
      BY <2>1
    <3> HIDE DEF new
    <3>2. StillThere(q)' <=> There(reader'[q].row)
      BY <1>2 DEF StillThere, Key
    <3>3. RowOf(q)'
      BY <1>1, <1>2, <3>1 DEF RowOf, KnowsRow, Key
    <3>4. BlobOf(q)'
      BY <1>2, <3>1, <3>2 DEF BlobOf, BlobsIn, Key
    <3>5. ReadSoFar(q)'
      BY <1>2, <3>1, <3>2 DEF ReadSoFar, Key
    <3> QED
      BY <3>1, <3>2, <3>3, <3>4, <3>5 DEF RequestOK
  <2>3. reader' \in [Readers -> ReaderState]
    BY <1>0, <1>3, <2>1
  <2> QED
    BY <2>2, <2>3 DEF ReaderInv, ReadsTypeOK, FailsOnlyWhenGone, RequestOK
<1>6. Good(NoRequest)
  BY DEF NoRequest, ReaderState
<1>7. CASE Over(r) \/ Answer(r)
  BY <1>0, <1>5, <1>6, <1>7 DEF Over, Answer
<1>8. CASE DeliveryByID(r)
  <2>1. PICK x \in deliveries :
          /\ reader[r].pc = "idle"
          /\ reader' = [reader EXCEPT ![r].pc = "loaded", ![r].row = {Loaded(x)}]
    BY <1>8 DEF DeliveryByID
  <2>2. /\ new.pc = "loaded" /\ new.row = {Loaded(x)} /\ new.blob = reader[r].blob
        /\ new.count = reader[r].count /\ new.body = reader[r].body
        /\ new.listed = reader[r].listed
        /\ new = [reader[r] EXCEPT !.pc = "loaded", !.row = {Loaded(x)}]
    BY <1>0, <2>1 DEF ReaderState
  <2>3. Loaded(x) \in RowType /\ Key(Loaded(x)) = Key(x)
    BY <1>0 DEF Loaded, RowType, TypeOK, RowsTypeOK, Delivery, Key
  <2>4. KnowsRow(Loaded(x))
    <3>1. x.seq <= deliverySeq[x.identity]
      BY <1>0 DEF NumbersUnique
    <3>2. \A e \in DeliveryAt(Key(Loaded(x))) : e = x
      BY <1>0, <2>3 DEF NumbersUnique, DeliveryAt
    <3>3. /\ Loaded(x).seq = x.seq /\ Loaded(x).identity = x.identity
          /\ Loaded(x).blob = x.blob /\ Loaded(x).parsed = (x.status = "parsed")
      BY DEF Loaded
    <3> QED
      BY <3>1, <3>2, <3>3 DEF KnowsRow
  <2>5. new \in ReaderState
    BY <1>0, <2>2, <2>3 DEF ReaderState, RowType
  <2> HIDE DEF new
  <2> QED
    BY <1>5, <2>2, <2>4, <2>5 DEF new
<1>9. CASE reader[r].pc # "idle"
  <2>1. PICK d \in RowType : reader[r].row = {d} /\ KeyOf(r) = Key(d) /\ KnowsRow(d)
    BY <1>9, RequestKey
  <2>2. PICK k : k = Key(d) /\ KeyOf(r) = k
    BY <2>1
  <2>3. AttachmentsForDelivery(k) \subseteq Blobs
        /\ Cardinality(AttachmentsForDelivery(k)) \in Nat
    BY <1>0, ListedAttachments
  <2>4. DeliveryAt(k) # {} /\ d.parsed => ParsedMessageByDelivery(k) # {}
    BY <2>1, <2>2 DEF KnowsRow, ParsedMessageByDelivery
  <2>5. \A b \in BlobsIn(ReferencesOf({k})) : b \in blobRows \cap bytes
    BY <1>0 DEF ReadableMail, BlobsIn, ReferencesOf
  <2>6. Good(reader[r])
    BY <1>4
  <2>7. ASSUME NEW pc \in {"readable", "parsed", "counted"}, Goto(r, pc),
               pc = "counted" => DeliveryAt(k) = {} \/ ~d.parsed
        PROVE  ReaderInv'
    <3>1. new = [reader[r] EXCEPT !.pc = pc]
      BY <1>0, <2>7 DEF Goto
    <3>2. /\ new \in ReaderState /\ new.pc = pc /\ new.row = {d}
      BY <1>0, <2>1, <3>1 DEF ReaderState
    <3> HIDE DEF new
    <3> QED
      BY <1>5, <2>1, <2>2, <2>7, <3>2 DEF new
  <2>8. CASE IdentityByID(r)
    BY <1>7, <2>7, <2>8 DEF IdentityByID
  <2>9. CASE Summarize(r)
    BY <2>2, <2>4, <2>7, <2>9 DEF Summarize
  <2>10. CASE CountAttachments(r)
    <3>1. new = [reader[r] EXCEPT !.pc = "counted",
                   !.count = Cardinality(AttachmentsForDelivery(k))]
      BY <1>0, <2>2, <2>10 DEF CountAttachments
    <3>2. /\ new \in ReaderState /\ new.pc = "counted" /\ new.row = {d}
          /\ new.count = Cardinality(AttachmentsForDelivery(k))
      BY <1>0, <2>1, <2>3, <3>1 DEF ReaderState
    <3> HIDE DEF new
    <3> QED
      BY <1>5, <2>1, <2>2, <3>2 DEF new
  <2>11. CASE WriteMessage(r)
    <3>1. CASE ParsedMessageByDelivery(k) = {}
      <4>1. new = [reader[r] EXCEPT !.pc = "answered"]
        BY <1>0, <2>2, <2>11, <3>1 DEF WriteMessage, Goto
      <4>2. new \in ReaderState /\ new.pc = "answered" /\ new.row = {d}
        BY <1>0, <2>1, <4>1 DEF ReaderState
      <4> HIDE DEF new
      <4> QED
        BY <1>5, <2>1, <2>2, <2>4, <3>1, <4>2 DEF new
    <3>2. CASE ParsedMessageByDelivery(k) # {}
      <4>1. reader[r].pc = "counted"
            /\ new = [reader[r] EXCEPT !.pc = "bodied", !.body = TRUE]
        BY <1>0, <2>2, <2>11, <3>2 DEF WriteMessage
      <4>2. /\ new \in ReaderState /\ new.pc = "bodied" /\ new.row = {d} /\ new.body
            /\ new.count = reader[r].count
        BY <1>0, <2>1, <4>1 DEF ReaderState
      <4> HIDE DEF new
      <4> QED
        BY <1>5, <2>1, <2>2, <2>6, <4>1, <4>2 DEF new
    <3> QED
      BY <3>1, <3>2
  <2>12. CASE ListAttachments(r)
    <3>1. reader[r].pc = "bodied"
          /\ new = [reader[r] EXCEPT !.pc = "answered",
                      !.listed = AttachmentsForDelivery(k)]
      BY <1>0, <2>2, <2>12 DEF ListAttachments
    <3>2. /\ new \in ReaderState /\ new.pc = "answered" /\ new.row = {d}
          /\ new.body = reader[r].body /\ new.count = reader[r].count
          /\ new.listed = AttachmentsForDelivery(k)
      BY <1>0, <2>1, <2>3, <3>1 DEF ReaderState
    <3> HIDE DEF new
    <3> QED
      BY <1>5, <2>1, <2>2, <2>6, <3>1, <3>2 DEF new
  <2>13. ASSUME NEW b \in Blobs,
                DeliveryAt(k) # {} => b \in BlobsIn(ReferencesOf({k})),
                reader' = [reader EXCEPT ![r].pc = "locate", ![r].blob = b]
         PROVE  ReaderInv'
    <3>1. new = [reader[r] EXCEPT !.pc = "locate", !.blob = b]
      BY <1>0, <2>13
    <3>2. new \in ReaderState /\ new.pc = "locate" /\ new.row = {d} /\ new.blob = b
      BY <1>0, <2>1, <3>1 DEF ReaderState
    <3> HIDE DEF new
    <3> QED
      BY <1>5, <2>1, <2>2, <2>13, <3>2 DEF new
  <2>14. CASE GetRawMessage(r)
    <3>1. d.blob \in Blobs
      BY DEF RowType
    <3>2. DeliveryAt(k) # {} => d.blob \in BlobsIn(ReferencesOf({k}))
      BY <2>1, <2>2 DEF KnowsRow, DeliveryAt, BlobsIn, ReferencesOf
    <3> QED
      BY <2>1, <2>13, <2>14, <3>1, <3>2 DEF GetRawMessage
  <2>15. CASE GetAttachment(r)
    <3>1. ASSUME NEW b \in AttachmentsForDelivery(k)
          PROVE  b \in Blobs /\ b \in BlobsIn(ReferencesOf({k}))
      BY <2>3, <3>1 DEF AttachmentsForDelivery, BlobsIn, ReferencesOf
    <3> QED
      BY <1>7, <2>2, <2>13, <2>15, <3>1 DEF GetAttachment
  <2>16. ASSUME Goto(r, "open"), reader[r].pc = "locate" PROVE ReaderInv'
    <3>1. new = [reader[r] EXCEPT !.pc = "open"]
      BY <1>0, <2>16 DEF Goto
    <3>2. /\ new \in ReaderState /\ new.pc = "open" /\ new.row = {d}
          /\ new.blob = reader[r].blob
      BY <1>0, <2>1, <3>1 DEF ReaderState
    <3> HIDE DEF new
    <3> QED
      BY <1>5, <2>1, <2>2, <2>6, <2>16, <3>2 DEF new
  <2>17. ASSUME Goto(r, "failed"), reader[r].pc \in {"locate", "open"},
                reader[r].blob \notin blobRows \cap bytes
         PROVE  ReaderInv'
    <3>1. new = [reader[r] EXCEPT !.pc = "failed"]
      BY <1>0, <2>17 DEF Goto
    <3>2. new \in ReaderState /\ new.pc = "failed" /\ new.row = {d}
      BY <1>0, <2>1, <3>1 DEF ReaderState
    <3>3. ~There({d})
      BY <2>1, <2>2, <2>5, <2>6, <2>17
    <3> HIDE DEF new
    <3> QED
      BY <1>5, <2>1, <2>2, <3>2, <3>3 DEF new
  <2>18. CASE BlobByID(r) \/ OpenBytes(r)
    BY <1>7, <2>16, <2>17, <2>18 DEF BlobByID, OpenBytes
  <2> QED
    BY <1>7, <1>9, <2>8, <2>9, <2>10, <2>11, <2>12, <2>14, <2>15, <2>18
       DEF ReadStep, DeliveryByID
<1> QED
  BY <1>7, <1>8, <1>9 DEF ReadStep, IdentityByID, Summarize, CountAttachments,
     WriteMessage, ListAttachments, GetRawMessage, GetAttachment, BlobByID, OpenBytes

-----------------------------------------------------------------------------
(* The theorems.                                                           *)

(***************************************************************************)
(* What the pipeline remembers, what parsing guarantees and what every     *)
(* request has read hold together in every reachable state.                *)
(***************************************************************************)
THEOREM ReadsHold == ReadSpec => []ReadsInv
<1>1. ReadInit => ReadsInv
  <2> SUFFICES ASSUME ReadInit PROVE ReadsInv
    OBVIOUS
  <2>1. HistoryInv
    BY InitHistory DEF ReadInit
  <2>2. ParsedInv
    BY DEF ReadInit, Init, RowsInit, ParseInit, IdleParser, ParsedInv, JobsOnce, Running,
           NotYetParsed, AttachmentsOfParsed
  <2>3. ReaderInv
    BY DEF ReadInit, ReadsInit, NoRequest, ReaderInv, ReadsTypeOK, ReaderState,
           FailsOnlyWhenGone, RowOf, BlobOf, ReadSoFar
  <2> QED
    BY <2>1, <2>2, <2>3 DEF ReadsInv
<1>2. ReadsInv /\ [ReadNext]_readVars => ReadsInv'
  <2> SUFFICES ASSUME ReadsInv, [ReadNext]_readVars PROVE ReadsInv'
    OBVIOUS
  <2>1. HistoryInv /\ ParsedInv /\ ReaderInv
    BY DEF ReadsInv
  <2>2. [Next]_vars
    BY DEF ReadNext, readVars
  <2>3. HistoryInv' /\ ParsedInv' /\ MailKept
    BY <2>1, <2>2, StepHistory, ParsedKept
  <2>4. ReaderInv'
    BY <2>1, <2>3, PipelineKeepsRequests, StatementKeepsRequests DEF ReadNext, readVars
  <2> QED
    BY <2>3, <2>4 DEF ReadsInv
<1> QED
  BY <1>1, <1>2, PTL DEF ReadSpec

(***************************************************************************)
(* A download fails only when its message was let go of while it ran, for  *)
(* any number of requests, jobs, crashes and re-runs beside it.            *)
(***************************************************************************)
THEOREM DownloadsSucceed == ReadSpec => []FailsOnlyWhenGone
<1>1. ReadsInv => FailsOnlyWhenGone
  BY DEF ReadsInv, ReaderInv
<1> QED
  BY ReadsHold, <1>1, PTL

(***************************************************************************)
(* An answer that calls its message parsed shows all of it, although five  *)
(* statements outside any transaction read it.                             *)
(***************************************************************************)
THEOREM AnswersAreWhole == ReadSpec => []ParsedAnswerIsWhole
<1>1. ReadsInv => ParsedAnswerIsWhole
  BY DEF ReadsInv, ReaderInv, ReadSoFar, ParsedAnswerIsWhole
<1> QED
  BY ReadsHold, <1>1, PTL
=============================================================================
