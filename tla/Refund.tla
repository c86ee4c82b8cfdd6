-------------------------------- MODULE Refund --------------------------------
(***************************************************************************)
(* Money paid back by hand: recordRefund, approveRefund and rejectRefund,  *)
(* under the trigger that keeps the refunds of a waybill below what was    *)
(* approved.  The trigger takes an advisory lock on the waybill until the  *)
(* transaction ends, so it sees every refund committed before; the status  *)
(* of the refund itself was read without a lock.                           *)
(***************************************************************************)
EXTENDS Settlement

CONSTANTS
  RefundIds,    \* ids of payment_refunds rows
  Staff         \* panel users who record and decide refunds

ASSUME RefundAssumption == None \notin Staff

VARIABLE
  refunds       \* rows of payment_refunds; status "ABSENT": no such row yet

refundVars == <<refunds>>

NoRefund ==
  [status |-> "ABSENT", amount |-> 0, recordedBy |-> None, approvedBy |-> None]

InitRefund == refunds = [r \in RefundIds |-> NoRefund]

\* The refunds that count against the ceiling.
Claimed == {r \in RefundIds : refunds[r].status \in {"RECORDED", "SUPERVISOR_APPROVED"}}

ClaimedAmount(R) ==
  SumFunctionOnSet([r \in RefundIds |-> refunds[r].amount], R)

\* Faulty variant: the refunds recorded before are not counted.
BelowCeilingAlone(r, amount) == amount <= TotalOf(Approved)

\* trigger_check_refund_ceiling, before every insert and update.
BelowCeiling(r, amount) ==
  ClaimedAmount(Claimed \ {r}) + amount <= TotalOf(Approved)

-----------------------------------------------------------------------------
BeginRecordRefund(c, amount, by) ==
  /\ amount > 0
  /\ Start(c, [op |-> "recordRefund", amount |-> amount, by |-> by])
  /\ UNCHANGED <<waybill, settlementVars, refundVars>>

\* The payment axis only: the CHECK rejects it while the waybill is eligible,
\* authorized or released.
CommitRecordRefund(c, r) ==
  LET call == calls[c] IN
  /\ call.op = "recordRefund"
  /\ refunds[r] = NoRefund
  /\ BelowCeiling(r, call.amount)
  /\ VersionLeft
  /\ refunds' = [refunds EXCEPT ![r] =
       [status |-> "RECORDED", amount |-> call.amount,
        recordedBy |-> call.by, approvedBy |-> None]]
  /\ WriteWaybill(Bump([waybill EXCEPT !.payment = "REFUND_RECORDED"]))
  /\ Finish(c)
  /\ UNCHANGED settlementVars

Decidable(r) == refunds[r].status = "RECORDED"

\* Maker and checker differ.
BeginApproveRefund(c, r, by) ==
  /\ Decidable(r)
  /\ refunds[r].recordedBy # by
  /\ Start(c, [op |-> "approveRefund", refund |-> r, by |-> by])
  /\ UNCHANGED <<waybill, settlementVars, refundVars>>

\* By id, whatever the status is by now.
DecideRefund(r, status, by) ==
  /\ BelowCeiling(r, refunds[r].amount)
  /\ refunds' = [refunds EXCEPT ![r].status = status, ![r].approvedBy = by]

CommitApproveRefund(c) ==
  LET call == calls[c] IN
  /\ call.op = "approveRefund"
  /\ VersionLeft
  /\ DecideRefund(call.refund, "SUPERVISOR_APPROVED", call.by)
  /\ WriteWaybill(Bump([waybill EXCEPT !.payment = "REFUND_SETTLED"]))
  /\ Finish(c)
  /\ UNCHANGED settlementVars

\* Anyone may reject, the recorder included.
BeginRejectRefund(c, r, by) ==
  /\ Decidable(r)
  /\ Start(c, [op |-> "rejectRefund", refund |-> r, by |-> by,
               seenApproved |-> Approved # {}])
  /\ UNCHANGED <<waybill, settlementVars, refundVars>>

\* The payment axis once no recorded refund is left: APPROVED as soon as one
\* payment is, SUBMITTED otherwise.
CommitRejectRefund(c) ==
  LET call == calls[c]
      others == {r \in RefundIds \ {call.refund} : refunds[r].status = "RECORDED"}
  IN
  /\ call.op = "rejectRefund"
  /\ DecideRefund(call.refund, "REJECTED", call.by)
  /\ IF others = {}
     THEN /\ VersionLeft
          /\ WriteWaybill(Bump([waybill EXCEPT
               !.payment = IF call.seenApproved THEN "APPROVED" ELSE "SUBMITTED"]))
     ELSE UNCHANGED waybill
  /\ Finish(c)
  /\ UNCHANGED settlementVars

=============================================================================
