-------------------------- MODULE MCPaymentLedger --------------------------
EXTENDS PaymentLedger, TLC

\* Slots and row ids are interchangeable: no definition names one of them.
Interchangeable == Permutations(Slots) \cup Permutations(Rows)
=============================================================================
