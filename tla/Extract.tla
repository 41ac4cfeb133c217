------------------------------- MODULE Extract -------------------------------
(***************************************************************************)
(* Codes and links found in a message, as operators on its text.           *)
(*                                                                         *)
(* Source: internal/extract/extract.go.                                    *)
(*                                                                         *)
(* A body is a sequence of lines and a line a sequence of words; a word is *)
(* what the regular expressions tell apart: a candidate for a code, a      *)
(* keyword, a keyword that leads up to a code ("code:"), a word that only  *)
(* ends like one ("promocode:"), a bare URL, an HTML anchor, anything      *)
(* else.  The lexing itself is left out.                                   *)
(***************************************************************************)
EXTENDS Integers, Sequences, FiniteSets, SequencesExt

CONSTANTS
  MaxCodes,    \* maxCodes
  MaxLinks,    \* maxLinks
  MaxScan,     \* maxScan, in lines
  AllDigits,   \* the codes that digitsRe matches
  SixLong,     \* the codes of six characters
  UrlSays(_)   \* what classify and cleanURL read in a URL

ASSUME ExtractAssumption == MaxCodes \in Nat /\ MaxLinks \in Nat /\ MaxScan \in Nat

\* The words.  glued: partOfSomethingLonger.  label: what an anchor's text
\* says, or "nothing" when the anchor wraps a picture.
Plain == [kind |-> "plain"]
Cue   == [kind |-> "cue"]
Lead  == [kind |-> "lead"]
Fused == [kind |-> "fused"]
Candidate(value, glued) == [kind |-> "code", value |-> value, glued |-> glued]
BareUrl(url)            == [kind |-> "url", url |-> url]
Anchor(url, label)      == [kind |-> "anchor", url |-> url, label |-> label]

FirstOf(s, n) == SubSeq(s, 1, IF Len(s) < n THEN Len(s) ELSE n)

clip(lines) == FirstOf(lines, MaxScan)

-----------------------------------------------------------------------------
(* Order.  The scans of a body, its selections and its stable sorts all    *)
(* list finitely many places in an order that is told by its pairs.        *)

InOrder(S, R) ==
  [k \in 1..Cardinality(S) |->
     CHOOSE p \in S : Cardinality({q \in S : <<q, p>> \in R}) = k - 1]

\* The places of a body's words, and their reading order.
Places(lines) ==
  UNION {{<<i, j>> : j \in DOMAIN lines[i]} : i \in DOMAIN lines}

Before(p, q) == p[1] < q[1] \/ (p[1] = q[1] /\ p[2] < q[2])

At(lines, p) == lines[p[1]][p[2]]

InReadingOrder(P) == InOrder(P, {pq \in P \X P : Before(pq[1], pq[2])})

WordsOfKind(lines, kind) ==
  LET found == InReadingOrder({p \in Places(lines) : At(lines, p).kind = kind})
  IN  [k \in DOMAIN found |-> At(lines, found[k])]

\* The elements of a sequence that stand at some of its positions.
Picked(s, J) ==
  LET order == InOrder(J, {jk \in J \X J : jk[1] < jk[2]})
  IN  [k \in DOMAIN order |-> s[order[k]]]

-----------------------------------------------------------------------------
(* readHTML: the visible text keeps what an anchor says, not where it goes. *)

LinkSaying(word, label) == word.kind = "anchor" /\ word.label = label

Visible(word) ==
  CASE word.kind # "anchor"             -> word
    [] LinkSaying(word, "verify")       -> Cue
    [] LinkSaying(word, "unsubscribe")  -> Plain

readHTML(lines) ==
  [i \in DOMAIN lines |->
     LET said == Picked(lines[i],
                   {j \in DOMAIN lines[i] : ~LinkSaying(lines[i][j], "nothing")})
     IN  [k \in DOMAIN said |-> Visible(said[k])]]

Blank(lines) == \A i \in DOMAIN lines : lines[i] = << >>

-----------------------------------------------------------------------------
(* Codes.                                                                  *)

keywords(line) == \E j \in DOMAIN line : line[j].kind \in {"cue", "lead"}

previousNonEmpty(lines, i) ==
  LET earlier == SelectSeq(SubSeq(lines, 1, i - 1), LAMBDA line : line # << >>)
  IN  IF earlier = << >> THEN << >> ELSE Last(earlier)

\* Keywords on a candidate's line, or on the line before it, let it count.
acceptCandidate(lines, p) ==
  /\ At(lines, p).kind = "code"
  /\ ~At(lines, p).glued
  /\ \/ keywords(lines[p[1]])
     \/ keywords(previousNonEmpty(lines, p[1]))

\* seen: a code counts where it stands first.
Mentions(lines) ==
  LET accepted == {p \in Places(lines) : acceptCandidate(lines, p)}
  IN  {p \in accepted :
         \A q \in accepted : Before(q, p) => At(lines, q).value # At(lines, p).value}

\* strongLead asks for no word boundary before the word, as keywords does.
strongLead(lines, p) == p[2] > 1 /\ lines[p[1]][p[2] - 1].kind \in {"lead", "fused"}

Score(lines, p) ==
  (IF keywords(lines[p[1]]) THEN 2 ELSE 1)
    + (IF strongLead(lines, p) THEN 3 ELSE 0)
    + (IF At(lines, p).value \in AllDigits THEN 1 ELSE 0)
    + (IF At(lines, p).value \in SixLong THEN 1 ELSE 0)

\* Best first, and among equals in the order they were found.
Better(lines, p, q) ==
  \/ Score(lines, p) > Score(lines, q)
  \/ (Score(lines, p) = Score(lines, q) /\ Before(p, q))

ValuesAt(lines, places) ==
  [k \in DOMAIN places |-> At(lines, places[k]).value]

BestFirst(lines, found) ==
  InOrder(found, {pq \in found \X found : Better(lines, pq[1], pq[2])})

\* Deviation: the search stops when it has found enough.
CodesFirstFound(lines) ==
  LET found == ToSet(FirstOf(InReadingOrder(Mentions(lines)), MaxCodes))
  IN  ValuesAt(lines, BestFirst(lines, found))

Codes(lines) ==
  ValuesAt(lines, FirstOf(BestFirst(lines, Mentions(lines)), MaxCodes))

-----------------------------------------------------------------------------
(* Links.                                                                  *)

\* Anchors of the HTML first, then bare URLs of the text.
AllLinks(html, text) ==
  LET bare == WordsOfKind(text, "url")
  IN  WordsOfKind(html, "anchor")
        \o [k \in DOMAIN bare |-> Anchor(bare[k].url, "nothing")]

\* seen: a URL counts where it stands first, with the text it has there.
DistinctLinks(all) ==
  Picked(all, {k \in DOMAIN all :
    /\ UrlSays(all[k].url) # "unusable"
    /\ \A j \in 1..(k - 1) : all[j].url # all[k].url})

\* A link that also unsubscribes is not the one to follow.
classify(link) ==
  LET said == {link.label, UrlSays(link.url)} IN
  CASE "unsubscribe" \in said -> "unsubscribe"
    [] "verify" \in said /\ "unsubscribe" \notin said -> "verify"
    [] said \cap {"verify", "unsubscribe"} = {} -> "other"

OfKind(found, kind) == Picked(found, {k \in DOMAIN found : classify(found[k]) = kind})

\* Deviation: the list is cut to its length before it is ordered.
LinksCutFirst(html, text) ==
  LET found == FirstOf(DistinctLinks(AllLinks(html, text)), MaxLinks)
  IN  OfKind(found, "verify") \o OfKind(found, "other")
        \o OfKind(found, "unsubscribe")

links(html, text) ==
  LET found == DistinctLinks(AllLinks(html, text))
  IN  FirstOf(OfKind(found, "verify") \o OfKind(found, "other")
                \o OfKind(found, "unsubscribe"), MaxLinks)

-----------------------------------------------------------------------------
\* Message: the text of a message that has only HTML is derived from it.
TextFor(text, html) == IF Blank(clip(text)) THEN readHTML(clip(html)) ELSE clip(text)

Message(subject, text, html) ==
  [codes |-> Codes(<<subject>> \o TextFor(text, html)),
   links |-> links(clip(html), TextFor(text, html))]
=============================================================================
