------------------------------ MODULE MimeWalk ------------------------------
(***************************************************************************)
(* The MIME walk: a raw message, part by part, into bodies, attachments    *)
(* and warnings.                                                           *)
(*                                                                         *)
(* Source: internal/mimeparse/mimeparse.go (Parse, readPart,               *)
(* readAttachment), internal/worker/parse/parse.go (parse,                 *)
(* storeAttachment).                                                       *)
(*                                                                         *)
(* The MIME reader (go-message) is external: it yields the parts of a      *)
(* message one by one, may be unable to decode one (an unknown charset or  *)
(* encoding), to find the next one at all, or to read the body of one.     *)
(***************************************************************************)
EXTENDS Integers, Sequences, FiniteSets, SequencesExt

CONSTANTS
  MaxBodyBytes,         \* Options.MaxBodyBytes, in lines
  MaxAttachmentBytes,   \* maxAttachmentBytes, in lines
  MaxParts,             \* Options.MaxParts
  Word                  \* what a line of a part may hold

ASSUME WalkAssumption ==
  MaxBodyBytes \in Nat /\ MaxAttachmentBytes \in Nat /\ MaxParts \in Nat

VARIABLE walk

Line == Seq(Word)

\* "other" is an inline part that is not text; broken is what the MIME reader
\* cannot do with the part; a body is a sequence of lines.
Part == [kind   : {"text", "html", "other", "file"},
         broken : {"nothing", "charset", "structure", "body"},
         body   : Seq(Line)]

\* part is the position of the part in the message.
Stored == [part : Nat, kept : Nat, blob : BOOLEAN]

NotWalked ==
  [pc |-> "idle", raw |-> << >>, at |-> 0, parts |-> 0, Text |-> << >>,
   HTML |-> << >>, shown |-> {}, Attachments |-> << >>, Warnings |-> {}]

WalkInit == walk = NotWalked

WalkTypeOK ==
  /\ walk.pc \in {"idle", "walking", "parsed", "failed"}
  /\ walk.at \in 0..Len(walk.raw) /\ walk.parts \in 0..(MaxParts + 1)
  /\ walk.shown \subseteq 1..walk.at /\ walk.Warnings \subseteq 1..walk.at
  /\ \A k \in DOMAIN walk.Attachments : walk.Attachments[k] \in Stored

Min2(m, n) == IF m < n THEN m ELSE n

Cut(body) == SubSeq(body, 1, Min2(Len(body), MaxBodyBytes))

-----------------------------------------------------------------------------
\* Bodies are appended as they come: the last line of one runs into the first
\* of the next.
Appended(text, body) ==
  IF text = << >> \/ body = << >> THEN text \o body
  ELSE Front(text) \o <<Last(text) \o Head(body)>> \o Tail(body)

\* An empty message is not a message.
Parse(raw) ==
  /\ walk.pc = "idle"
  /\ walk' = [NotWalked EXCEPT
       !.pc = IF raw = << >> THEN "failed" ELSE "walking", !.raw = raw]

Here    == walk.at + 1
Current == walk.raw[Here]

\* NextPart yields a part, or an error of this kind.
Yields(broken) ==
  walk.pc = "walking" /\ walk.at < Len(walk.raw) /\ Current.broken \in broken

EndOfParts ==
  /\ walk.pc = "walking"
  /\ walk.at = Len(walk.raw)
  /\ walk' = [walk EXCEPT !.pc = "parsed"]

\* Deviation: what cannot be decoded ends the walk in silence.
UndecodableEnds ==
  /\ Yields({"charset"})
  /\ walk' = [walk EXCEPT !.at = Here, !.pc = "parsed"]

\* The part is warned about and not counted, and the walk goes on.
Undecodable ==
  /\ Yields({"charset"})
  /\ walk' = [walk EXCEPT !.at = Here, !.Warnings = @ \cup {Here}]

Unreadable ==
  /\ Yields({"structure"})
  /\ walk' = [walk EXCEPT !.at = Here, !.Warnings = @ \cup {Here},
                          !.pc = "parsed"]

TooManyParts ==
  /\ Yields({"nothing", "body"})
  /\ walk.parts = MaxParts
  /\ walk' = [walk EXCEPT !.at = Here, !.parts = @ + 1,
                          !.Warnings = @ \cup {Here}, !.pc = "parsed"]

-----------------------------------------------------------------------------
(* readPart.                                                               *)

ReadPart(kinds, broken) ==
  Yields({broken}) /\ walk.parts < MaxParts /\ Current.kind \in kinds

Counted == [walk EXCEPT !.at = Here, !.parts = @ + 1]

\* A body longer than the limit is cut without a word.
ReadText ==
  /\ ReadPart({"text"}, "nothing")
  /\ walk' = [Counted EXCEPT !.Text  = Appended(@, Cut(Current.body)),
                             !.shown = @ \cup {Here}]

ReadHTML ==
  /\ ReadPart({"html"}, "nothing")
  /\ walk' = [Counted EXCEPT !.HTML  = Appended(@, Cut(Current.body)),
                             !.shown = @ \cup {Here}]

BodyUnreadable ==
  /\ ReadPart({"text", "html", "other"}, "body")
  /\ walk' = [Counted EXCEPT !.Warnings = @ \cup {Here}]

\* storeAttachment, given a body of which left lines are left to read: one
\* that is too large is listed and not kept.
storeAttachment(left) ==
  [part |-> Here, blob |-> left <= MaxAttachmentBytes,
   kept |-> Min2(left, MaxAttachmentBytes)]

AttachmentOf(left) ==
  walk' = [Counted EXCEPT !.Attachments = Append(@, storeAttachment(left)),
                          !.shown = @ \cup {Here}]

ReadFile ==
  ReadPart({"file"}, "nothing") /\ AttachmentOf(Len(Current.body))

\* An inline part is read as a body before its type is looked at, and what
\* readAttachment is then given is what that reading left.
ReadInline ==
  /\ ReadPart({"other"}, "nothing")
  /\ AttachmentOf(Len(Current.body) - Len(Cut(Current.body)))

\* The error of an attachment's body is an error of storing it, and that ends
\* the parse for good.
FileUnreadable ==
  /\ ReadPart({"file"}, "body")
  /\ walk' = [Counted EXCEPT !.pc = "failed"]

WalkStep ==
  \/ EndOfParts
  \/ Undecodable
  \/ Unreadable
  \/ TooManyParts
  \/ ReadText
  \/ ReadHTML
  \/ BodyUnreadable
  \/ ReadFile
  \/ ReadInline
  \/ FileUnreadable
=============================================================================
