------------------------------ MODULE Contents ------------------------------
(***************************************************************************)
(* What becomes of the contents of one message: spooled, sealed, stored,   *)
(* perhaps damaged there, opened by the parse job, walked part by part,    *)
(* answered with its codes and links, and its images fetched.              *)
(*                                                                         *)
(* Source: internal/worker/parse/parse.go (Parse, readBlob, parse) and     *)
(* internal/api/messages.go (writeMessage, extracted) join the components. *)
(*                                                                         *)
(* The plaintext is the sequence of the message's parts, and a part is     *)
(* also the unit that the stream cuts into chunks.                         *)
(***************************************************************************)
EXTENDS SealedStream, MimeWalk, ImageProxy, Extract

CONSTANT Subject   \* the subject line

ASSUME ContentsAssumption == Plaintexts \subseteq Seq(Part) /\ Subject \in Line

VARIABLE answer    \* what GetMessage extracted

vars == <<streamVars, walk, answer, proxy>>

NoAnswer == [codes |-> << >>, links |-> << >>, given |-> FALSE]

Init ==
  /\ StreamInit
  /\ WalkInit
  /\ ProxyInit
  /\ answer = NoAnswer

\* readBlob hands the parser a message only when all of it could be opened.
ParseBlob ==
  /\ opener.pc = "opened"
  /\ Parse(opener.out)
  /\ UNCHANGED <<streamVars, answer, proxy>>

\* writeMessage decrypts the bodies and runs the detection on them.
GetMessage ==
  /\ walk.pc = "parsed" /\ ~answer.given
  /\ LET found == Message(Subject, walk.Text, walk.HTML)
     IN  answer' = [codes |-> found.codes, links |-> found.links, given |-> TRUE]
  /\ UNCHANGED <<streamVars, walk, proxy>>

\* The images of an HTML body are rewritten to the proxy before it is stored.
ShowImages ==
  /\ answer.given /\ walk.HTML # << >>
  /\ \E scheme \in Schemes : ProxyImage(scheme)
  /\ UNCHANGED <<streamVars, walk, answer>>

Next ==
  \/ StreamStep /\ UNCHANGED <<walk, answer, proxy>>
  \/ ParseBlob
  \/ WalkStep /\ UNCHANGED <<streamVars, answer, proxy>>
  \/ GetMessage
  \/ ShowImages
  \/ ProxyStep /\ UNCHANGED <<streamVars, walk, answer>>

Spec == Init /\ [][Next]_vars

-----------------------------------------------------------------------------
TypeOK == StreamTypeOK /\ WalkTypeOK /\ ProxyTypeOK

(***************************************************************************)
(* A message that is acknowledged is on disk to its last part, in frames   *)
(* that follow each other and of which only the last one is final, and its *)
(* delivery is charged with its whole size: Put, which returns first, and  *)
(* the sealer, which knows both, run side by side (receiver.go:328).       *)
(***************************************************************************)
Covers(frames, size) ==
  /\ frames # << >>
  /\ frames[1].from = 0 /\ Last(frames).upto = size
  /\ \A k \in DOMAIN frames :
       /\ frames[k].counter = k - 1
       /\ frames[k].trailer = (IF k = Len(frames) THEN Final ELSE Continues)
       /\ k > 1 => frames[k].from = frames[k - 1].upto

StoredIsWhole ==
  commit.pc = "stored" => commit.size = Len(text) /\ Covers(written, Len(text))

(***************************************************************************)
(* Whatever happens to the stored bytes, a reader never gets anything but  *)
(* a beginning of the message, and takes it for the message only when it   *)
(* is all of it ("a truncated message that decrypts cleanly would be worse *)
(* than one that fails", stream.go:105).                                   *)
(***************************************************************************)
OpenedIsWhole ==
  /\ IsPrefix(opener.out, text)
  /\ opener.pc = "opened" => opener.out = text

(***************************************************************************)
(* No part of a parsed message is passed over in silence: each is shown or *)
(* warned about, up to a part that is itself warned about and ends the     *)
(* walk, and a file that is kept is kept whole.  To be shown is not to be  *)
(* shown whole: a text is cut at MaxBodyBytes without a word, and an image *)
(* within the text keeps its name and loses its bytes.                     *)
(***************************************************************************)
PartsAccounted ==
  walk.pc = "parsed" =>
    /\ 1..walk.at = walk.shown \cup walk.Warnings
    /\ walk.at < Len(text) => walk.at \in walk.Warnings
    /\ \A k \in DOMAIN walk.Attachments :
         LET a == walk.Attachments[k] IN
         text[a.part].kind = "file" /\ a.blob => a.kept = Len(text[a.part].body)

-----------------------------------------------------------------------------
Searched == <<Subject>> \o TextFor(walk.Text, walk.HTML)

\* The shape "code: 123456", on a line that says what it is about.
StatedOutright(lines, p) == strongLead(lines, p) /\ keywords(lines[p[1]])

(***************************************************************************)
(* A code is judged by its first mention.  One that is stated outright     *)
(* there is listed before any whose first mention merely stands near a     *)
(* keyword, whatever those look like; no code that was left out beats one  *)
(* that is listed; and none is listed twice.  A code that a message states *)
(* outright only when it repeats it gets no credit for that, which is what *)
(* "seen" makes of "best first" (extract.go:119, :145).                    *)
(***************************************************************************)
CodesBestFirst ==
  answer.given =>
    LET places == Mentions(Searched)
        Of(k)  == CHOOSE p \in places : At(Searched, p).value = answer.codes[k]
        listed == {Of(k) : k \in DOMAIN answer.codes}
    IN  /\ Cardinality(listed) = Len(answer.codes)
        /\ \A k, l \in DOMAIN answer.codes :
             k < l /\ StatedOutright(Searched, Of(l)) => strongLead(Searched, Of(k))
        /\ \A p \in places \ listed, q \in listed :
             Score(Searched, p) <= Score(Searched, q)

Rank(link) ==
  CASE classify(link) = "verify" -> 0
    [] classify(link) = "other"  -> 1
    [] classify(link) = "unsubscribe" -> 2

FirstOfTheirUrl(all) ==
  {all[k] : k \in {k \in DOMAIN all : \A j \in 1..(k - 1) : all[j].url # all[k].url}}

(***************************************************************************)
(* A URL is listed as the first anchor that leads to it shows it, so that  *)
(* none is listed under two kinds, and it is judged by what that anchor    *)
(* and the URL itself say.  However many links there are in what is        *)
(* searched of a message, none judged to act on the account is left out    *)
(* for one that is not, and none judged to unsubscribe stands before       *)
(* another.  What a later anchor to the same URL says counts for nothing,  *)
(* so that a link can unsubscribe and be listed as "other": to that extent *)
(* "must never mistake one of these" (extract.go:42) is not kept.          *)
(***************************************************************************)
LinksToFollowFirst ==
  answer.given =>
    LET shown  == FirstOfTheirUrl(
                    AllLinks(clip(walk.HTML), TextFor(walk.Text, walk.HTML)))
        listed == ToSet(answer.links)
    IN  /\ listed \subseteq shown
        /\ \A k, l \in DOMAIN answer.links :
             k < l => Rank(answer.links[k]) <= Rank(answer.links[l])
        /\ \A one \in shown \ listed, other \in listed :
             UrlSays(one.url) = "unusable" \/ Rank(other) <= Rank(one)

(***************************************************************************)
(* The proxy connects only to addresses it has looked at, through every    *)
(* redirect and although a name may mean something else the next time it   *)
(* is asked (imageproxy.go:72).                                            *)
(***************************************************************************)
DialsWhatItChecked == proxy.dialed \subseteq Public
=============================================================================
