----------------------------- MODULE MCContents -----------------------------
(***************************************************************************)
(* The messages of the bounded instance: some vary in their parts, some in *)
(* the words of one text, some in the links of one HTML body.              *)
(***************************************************************************)
EXTENDS Contents, TLC

\* Codes 1 and 4 are all digits, 2 and 5 also six of them.
MCAllDigits == {1, 2, 4, 5}
MCSixLong == {2, 5}

\* URLs 1 and 2 say nothing, as those of a click-tracking service do.
MCUrlSays(url) ==
  CASE url \in {1, 2} -> "nothing"
    [] url = 3 -> "verify"
    [] url = 4 -> "unsubscribe"
    [] url = 5 -> "unusable"

Codeword(value) == Candidate(value, FALSE)

Words ==
  {Plain, Cue, Lead, Fused, Candidate(3, TRUE)} \cup {Codeword(v) : v \in 0..5}
    \cup {BareUrl(u) : u \in 1..5}
    \cup {Anchor(u, label) : u \in 1..5,
                             label \in {"nothing", "verify", "unsubscribe"}}

MCSubject == <<Cue, Codeword(3)>>

PartOf(kind, broken, body) == [kind |-> kind, broken |-> broken, body |-> body]

\* Bodies of one line, and one that is longer than any limit.
Short == <<(<<Plain>>)>>
Long  == <<(<<Plain>>), (<<Plain>>), (<<Plain>>), (<<Plain>>)>>

VariedParts ==
  SeqOf({PartOf("text", "nothing", Long)}
          \cup {PartOf("file", "nothing", b) : b \in {Short, Long}}
          \cup {PartOf("other", "nothing", b) : b \in {Short, Long}}
          \cup {PartOf("html", broken, Short) :
                  broken \in {"nothing", "charset", "structure", "body"}}
          \cup {PartOf("file", "body", Short)}, 3)
    \cup SeqOf({PartOf("html", "nothing", Short)}, 5)

\* Two lines of up to two and three words, searched for codes.
CodeLines(n) == SeqOf({Cue, Lead, Fused, Candidate(3, TRUE)}
                        \cup {Codeword(v) : v \in {3, 4, 5}}, n)

VariedCodes ==
  {<<PartOf("text", "nothing", <<one, two>>)>> :
     one \in CodeLines(2), two \in CodeLines(3)}

\* Three anchors and a bare URL.
Anchors == {Anchor(u, label) : u \in 1..5,
                               label \in {"nothing", "verify", "unsubscribe"}}

VariedLinks ==
  {<<PartOf("html", "nothing", <<line>>)>> : line \in [1..3 -> Anchors]}
    \cup {<<PartOf("html", "nothing", <<line>>),
            PartOf("text", "nothing", <<(<<BareUrl(u)>>)>>)>> :
            line \in [1..2 -> Anchors], u \in 1..5}

MCPlaintexts == VariedParts \cup VariedCodes \cup VariedLinks
=============================================================================
