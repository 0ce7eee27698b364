------------------------- MODULE MCAutomationEnqueue -------------------------
EXTENDS AutomationEnqueue, TLC

CONSTANTS c1, c2, c3, k1, k2, j1, j2, j3

\* Clients, keys and job identifiers are interchangeable.
Interchangeable ==
  Permutations(Clients) \cup Permutations(Keys) \cup Permutations(Jobs)
=============================================================================
