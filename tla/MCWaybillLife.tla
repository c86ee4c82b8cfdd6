---------------------------- MODULE MCWaybillLife ----------------------------
EXTENDS Reports, TLC
Symmetry == Permutations(Callers)
            \cup Permutations(AmountIds)
            \cup Permutations(AuthIds)
            \cup Permutations(PaymentIds)
            \cup Permutations(Versions)
            \cup Permutations(RefundIds)
            \cup Permutations(Staff)
=============================================================================
