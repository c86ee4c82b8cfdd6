---------------------------- MODULE PaymentLedger ----------------------------
(***************************************************************************)
(* What the payment services promise about each payment, whatever calls    *)
(* overlap: it is entered once, decided at most once, and a decision is    *)
(* final.  Settlement implements this.                                     *)
(***************************************************************************)
CONSTANT PaymentIds

VARIABLE ledger   \* ledger[p]: what has become of payment p

Standing == {"NONE", "OPEN", "CREDITED", "REFUSED"}

Init == ledger = [p \in PaymentIds |-> "NONE"]

\* A manual payment waits for a decision; a gateway payment is credited at once.
Enter(p) ==
  /\ ledger[p] = "NONE"
  /\ \E s \in {"OPEN", "CREDITED"} : ledger' = [ledger EXCEPT ![p] = s]

Decide(p) ==
  /\ ledger[p] = "OPEN"
  /\ \E s \in {"CREDITED", "REFUSED"} : ledger' = [ledger EXCEPT ![p] = s]

Next == \E p \in PaymentIds : Enter(p) \/ Decide(p)

Spec == Init /\ [][Next]_ledger
=============================================================================
