---------------------------- MODULE MCMailSystem ----------------------------
(* Bounded instances of MailSystem.  The sets of identities and processes  *)
(* differ from run to run and are given in the .cfg files.                 *)
EXTENDS MailInvariants, TLC

\* Content addresses are interchangeable, and so are processes of one kind.
Symmetry ==
  Permutations(Blobs) \cup Permutations(Sessions)
    \cup Permutations(Workers) \cup Permutations(Parsers)
=============================================================================
