--------------------------- MODULE MCOnlinePayment ---------------------------
EXTENDS OnlinePayment, TLC
Symmetry == Permutations(Callers)
            \cup Permutations(AmountIds)
            \cup Permutations(PaymentIds)

\* Amounts are only compared with each other: starting from the least of them
\* leaves out no case.
MCInit == Init /\ \A v \in Values : amounts[waybill.currentAmount].value <= v

\* The bounds leave room for one correction: one to the same amount is left out.
MCNext ==
  /\ Next
  /\ \A c \in Callers :
       calls'[c].op = "correct" => \E v \in Values : v < calls'[c].amount

MCSpec == MCInit /\ [][MCNext]_vars
=============================================================================
