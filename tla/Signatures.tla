----------------------------- MODULE Signatures -----------------------------
(***************************************************************************)
(* What an approval workflow promises: every item collects the signatures  *)
(* of its workflow in their order, none is skipped, none is taken back.    *)
(***************************************************************************)
EXTENDS Naturals, Sequences, FiniteSets

CONSTANTS Item,    \* the things to be signed
          Orders   \* the workflows: sequences of signatures

VARIABLES order,   \* the workflow of the items
          signed   \* the signatures each item has

Init ==
    /\ order \in Orders
    /\ signed = [i \in Item |-> {}]

Sign(i) ==
    /\ Cardinality(signed[i]) < Len(order)
    /\ signed' = [signed EXCEPT ![i] = @ \cup {order[Cardinality(@) + 1]}]
    /\ UNCHANGED order

Next == \E i \in Item : Sign(i)

Spec == Init /\ [][Next]_<<order, signed>>
=============================================================================
