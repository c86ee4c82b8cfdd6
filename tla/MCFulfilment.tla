---------------------------- MODULE MCFulfilment ----------------------------
EXTENDS Fulfilment, TLC
Symmetry == Permutations(Callers)
            \cup Permutations(AmountIds)
            \cup Permutations(AuthIds)
            \cup Permutations(PaymentIds)
            \cup Permutations(Sessions)

\* Corrections to the amount that is current when they begin are left out.
MCNext ==
  /\ Next
  /\ \A c \in Callers :
       calls[c] = Idle /\ calls'[c].op = "correct" =>
         calls'[c].amount # PayableAmount

MCSpec == Init /\ [][MCNext]_vars
=============================================================================
