--------------------------- MODULE MCSessionTurns ---------------------------
EXTENDS SessionTurns, TLC

\* Messages of one kind are interchangeable.
Symmetry == Permutations(Clients) \cup Permutations(Results)
              \cup Permutations(Peers)
=============================================================================
