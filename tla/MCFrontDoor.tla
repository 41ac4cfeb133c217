----------------------------- MODULE MCFrontDoor -----------------------------
EXTENDS FrontDoor, TLC

\* Clients are interchangeable, and so are the connections of a source.
Symmetry == Permutations(Openers) \cup Permutations(Sessions)
=============================================================================
