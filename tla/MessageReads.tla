---------------------------- MODULE MessageReads ----------------------------
(***************************************************************************)
(* Reading one message over HTTP: the message itself, its raw form, and    *)
(* an attachment, while the jobs let go of it and the parser fills it in.  *)
(*                                                                         *)
(* Source: internal/api/messages.go.                                       *)
(*                                                                         *)
(* A handler runs one statement after another outside any transaction, so  *)
(* every statement is a step.  What it keeps between two of them is the    *)
(* delivery and the identity as they were when it loaded them, the key     *)
(* included: a body that was read can be decrypted whatever happens next.  *)
(***************************************************************************)
EXTENDS MailRows

CONSTANT Readers   \* requests for a message that may run at the same time

VARIABLE reader

NoRequest ==
  [pc |-> "idle", row |-> {}, blob |-> NoBlob, count |-> 0, body |-> FALSE,
   listed |-> {}]

\* What a handler keeps of the delivery it loaded.
Loaded(d) == [identity |-> d.identity, seq |-> d.seq, blob |-> d.blob,
              parsed |-> d.status = "parsed"]

\* row holds at most one element, the delivery as it was loaded; count is the
\* summary's AttachmentCount, listed the attachments of the full message.
ReaderState ==
  [pc : {"idle", "loaded", "readable", "parsed", "counted", "bodied",
         "locate", "open", "answered", "failed"},
   row : SUBSET [identity : Identities, seq : Nat \ {0}, blob : Blobs,
                 parsed : BOOLEAN],
   blob : Blobs \cup {NoBlob}, count : Nat, body : BOOLEAN,
   listed : SUBSET Blobs]

ReadsInit == reader = [r \in Readers |-> NoRequest]

ReadsTypeOK == reader \in [Readers -> ReaderState]

KeyOf(r) == CHOOSE k \in {Key(d) : d \in reader[r].row} : TRUE

\* The statements about a delivery, as they would answer now.
ParsedMessageByDelivery(k) == {d \in DeliveryAt(k) : d.status = "parsed"}

AttachmentsForDelivery(k) == BlobsIn({a \in attachments : Key(a) = k})

Goto(r, pc) == reader' = [reader EXCEPT ![r].pc = pc]

\* A request that is over and left nothing to be judged by: not found, or a
\* download that was sent.
Over(r) == reader' = [reader EXCEPT ![r] = NoRequest]

-----------------------------------------------------------------------------
(* readableMessage, which all three handlers call first.  DeliveryByID     *)
(* finds a row or the answer is not found and nothing happens.             *)

DeliveryByID(r) ==
  /\ reader[r].pc = "idle"
  /\ \E d \in deliveries :
       reader' = [reader EXCEPT ![r].pc = "loaded", ![r].row = {Loaded(d)}]

\* A random identity is read by its owner's session only, a named one by
\* anybody; a purged one by nobody.
MayRead(i, owner) == dataKey[i] /\ (owner \/ i \in Named)

IdentityByID(r) ==
  /\ reader[r].pc = "loaded"
  /\ \E d \in reader[r].row, owner \in BOOLEAN :
       IF MayRead(d.identity, owner) THEN Goto(r, "readable") ELSE Over(r)

-----------------------------------------------------------------------------
(* GetMessage: summarize, then writeMessage, which asks for the parsed     *)
(* row and for the attachments a second time.                              *)

Summarize(r) ==
  /\ reader[r].pc = "readable"
  /\ Goto(r, IF ParsedMessageByDelivery(KeyOf(r)) = {} THEN "counted" ELSE "parsed")

CountAttachments(r) ==
  /\ reader[r].pc = "parsed"
  /\ reader' = [reader EXCEPT
       ![r].pc    = "counted",
       ![r].count = Cardinality(AttachmentsForDelivery(KeyOf(r)))]

WriteMessage(r) ==
  /\ reader[r].pc = "counted"
  /\ IF ParsedMessageByDelivery(KeyOf(r)) = {}
     THEN Goto(r, "answered")
     ELSE reader' = [reader EXCEPT ![r].pc = "bodied", ![r].body = TRUE]

ListAttachments(r) ==
  /\ reader[r].pc = "bodied"
  /\ reader' = [reader EXCEPT
       ![r].pc = "answered", ![r].listed = AttachmentsForDelivery(KeyOf(r))]

-----------------------------------------------------------------------------
(* GetRawMessage and GetAttachment.  An open file outlives its name, so    *)
(* nothing after openBlob depends on the store.                            *)

GetRawMessage(r) ==
  /\ reader[r].pc = "readable"
  /\ \E d \in reader[r].row :
       reader' = [reader EXCEPT ![r].pc = "locate", ![r].blob = d.blob]

\* The client names an attachment; one that is not listed any more, or was
\* too large to keep, is not found.
GetAttachment(r) ==
  /\ reader[r].pc = "readable"
  /\ \/ \E b \in AttachmentsForDelivery(KeyOf(r)) :
          reader' = [reader EXCEPT ![r].pc = "locate", ![r].blob = b]
     \/ Over(r)

BlobByID(r) ==
  /\ reader[r].pc = "locate"
  /\ Goto(r, IF reader[r].blob \in blobRows THEN "open" ELSE "failed")

OpenBytes(r) ==
  /\ reader[r].pc = "open"
  /\ IF reader[r].blob \in bytes THEN Over(r) ELSE Goto(r, "failed")

\* The answer has been written.
Answer(r) == reader[r].pc \in {"answered", "failed"} /\ Over(r)

ReadStep(r) ==
  \/ DeliveryByID(r)
  \/ IdentityByID(r)
  \/ Summarize(r)
  \/ CountAttachments(r)
  \/ WriteMessage(r)
  \/ ListAttachments(r)
  \/ GetRawMessage(r)
  \/ GetAttachment(r)
  \/ BlobByID(r)
  \/ OpenBytes(r)
  \/ Answer(r)
=============================================================================
