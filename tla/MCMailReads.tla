---------------------------- MODULE MCMailReads ----------------------------
(* Bounded instances of MailReads; the sets are given in the .cfg files.   *)
EXTENDS MailReads, TLC

\* Content addresses are interchangeable, and so are processes of one kind.
Symmetry ==
  Permutations(Blobs) \cup Permutations(Sessions)
    \cup Permutations(Workers) \cup Permutations(Parsers)

\* Bound: there is a random inbox or a named one, never both.
OneInbox ==
  \A i, j \in Identities : state[i] # "absent" /\ state[j] # "absent" => i = j

OneInboxSpec == ReadInit /\ [][ReadNext /\ OneInbox']_readVars
=============================================================================
