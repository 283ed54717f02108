--------------------------- MODULE MCSponsorships ---------------------------
EXTENDS Sponsorships, TLC

\* Slots and row ids are interchangeable: no definition names one of them.
Interchangeable == Permutations(Slots) \cup Permutations(Rows)
=============================================================================
