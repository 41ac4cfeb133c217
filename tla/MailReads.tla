----------------------------- MODULE MailReads -----------------------------
(***************************************************************************)
(* The mail pipeline and those who read from it.  Reading writes nothing,  *)
(* so a step is a step of the pipeline or of one request.                  *)
(***************************************************************************)
EXTENDS MailInvariants, MessageReads

readVars == <<vars, reader>>

ReadInit == Init /\ ReadsInit

ReadNext ==
  \/ Next /\ UNCHANGED reader
  \/ \E r \in Readers : ReadStep(r) /\ UNCHANGED vars

ReadSpec == ReadInit /\ [][ReadNext]_readVars

-----------------------------------------------------------------------------
StillThere(r) == \A d \in reader[r].row : DeliveryAt(Key(d)) # {}

(***************************************************************************)
(* A download that fails, fails because its message was let go of while it *)
(* ran: between loading the delivery and opening the bytes nothing else    *)
(* may take away the row or the bytes (messages.go:264, :301).             *)
(***************************************************************************)
FailsOnlyWhenGone ==
  \A r \in Readers : reader[r].pc = "failed" => ~StillThere(r)

(***************************************************************************)
(* An answer that calls its message parsed shows all of it: the body, and  *)
(* the same attachments in the count and in the list as the database has,  *)
(* although five statements read them one after another.  Only a message   *)
(* that has meanwhile gone may be answered in part.                        *)
(***************************************************************************)
ParsedAnswerIsWhole ==
  \A r \in Readers :
    reader[r].pc = "answered" /\ StillThere(r) =>
      \A d \in reader[r].row : d.parsed =>
        /\ reader[r].body
        /\ reader[r].listed = AttachmentsForDelivery(Key(d))
        /\ reader[r].count = Cardinality(reader[r].listed)

-----------------------------------------------------------------------------
(* The inductive invariant of the requests: what a handler keeps between   *)
(* two statements stays true of its message until the message has gone,    *)
(* and a message that has gone does not come back under its number.        *)

RowOf(r) ==
  /\ reader[r].pc = "idle" => reader[r].row = {}
  /\ reader[r].pc # "idle" => \E d \in reader[r].row : reader[r].row = {d}
  /\ \A d \in reader[r].row :
       /\ d.seq <= deliverySeq[d.identity]
       /\ \A e \in DeliveryAt(Key(d)) :
            e.blob = d.blob /\ (d.parsed => e.status = "parsed")

\* The download names a blob of its message.
BlobOf(r) ==
  reader[r].pc \in {"locate", "open"} /\ StillThere(r) =>
    \A d \in reader[r].row : reader[r].blob \in BlobsIn(ReferencesOf({Key(d)}))

\* What has been read of a parsed message so far is what is there.
ReadSoFar(r) ==
  StillThere(r) =>
    \A d \in reader[r].row : d.parsed =>
      /\ reader[r].pc \in {"counted", "bodied", "answered"} =>
           reader[r].count = Cardinality(AttachmentsForDelivery(Key(d)))
      /\ reader[r].pc \in {"bodied", "answered"} => reader[r].body
      /\ reader[r].pc = "answered" =>
           reader[r].listed = AttachmentsForDelivery(Key(d))

ReaderInv ==
  /\ ReadsTypeOK
  /\ FailsOnlyWhenGone
  /\ \A r \in Readers : RowOf(r) /\ BlobOf(r) /\ ReadSoFar(r)

ReadsInv == HistoryInv /\ ParsedInv /\ ReaderInv
=============================================================================
