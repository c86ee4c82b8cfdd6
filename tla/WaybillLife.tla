----------------------------- MODULE WaybillLife -----------------------------
(***************************************************************************)
(* The whole life of a waybill: Fulfilment together with the driver's      *)
(* commitment and the refunds, over the same rows.                         *)
(***************************************************************************)
EXTENDS Fulfilment, Commitment, Refund

lifeVars == <<vars, commitmentVars, refundVars>>

LifeInit == Init /\ InitCommitment /\ InitRefund

CommitmentStep(c) ==
  /\ \/ BeginAccept(c)
     \/ CommitAccept(c)
     \/ BeginDecline(c)
     \/ CommitDecline(c)
     \/ \E v \in Versions : RetireVersions(c, v)
     \/ ActivateVersion(c)
  /\ UNCHANGED <<settlementVars, releaseVars, refundVars>>

RefundStep(c) ==
  /\ \/ \E n \in Values, by \in Staff : BeginRecordRefund(c, n, by)
     \/ \E r \in RefundIds : CommitRecordRefund(c, r)
     \/ \E r \in RefundIds, by \in Staff : BeginApproveRefund(c, r, by)
     \/ CommitApproveRefund(c)
     \/ \E r \in RefundIds, by \in Staff : BeginRejectRefund(c, r, by)
     \/ CommitRejectRefund(c)
  /\ UNCHANGED <<releaseVars, commitmentVars>>

LifeNext ==
  \/ Next /\ UNCHANGED <<commitmentVars, refundVars>>
  \/ \E c \in Callers : CommitmentStep(c) \/ RefundStep(c)

LifeSpec == LifeInit /\ [][LifeNext]_lifeVars

-----------------------------------------------------------------------------
\* I-10: the refunds recorded or approved never exceed the approved payments,
\* however recordings, decisions and reviews overlap (trigger_check_refund_ceiling).
RefundsWithinApproved == ClaimedAmount(Claimed) <= TotalOf(Approved)

\* I-13: at most one version is active, although two requests to activate one
\* interleave their statements (PUT /api/panel/commitments).
OneActiveVersion == Cardinality(ActiveVersions) <= 1

\* Whatever answers and publications overlap, a waybill whose commitment is
\* accepted carries a signature, and what was signed had been published.
AcceptedIsSigned ==
  /\ waybill.commitment = "ACCEPTED" => signed # {}
  /\ \A v \in signed : versions[v] # "DRAFT"

\* I-14 as far as it goes: under ENFORCED nobody has paid who never signed,
\* and an eligible waybill was signed for, although a decline may overlap the
\* submission (submitWaybillPayment).
PaidIsSigned ==
  (\/ Enforcement = "ENFORCED" /\ \E p \in PaymentIds : payments[p] # NoPayment
   \/ waybill.release \in {"ELIGIBLE", "AUTHORIZED", "RELEASED"})
    => signed # {}

-----------------------------------------------------------------------------
(* The following hold when the calls of a waybill do not overlap.          *)

\* Nothing but a correction of the amount leaves an authorization active whose
\* waybill is not authorized or released (correctWaybillAmount).
OnlyCorrectionsOrphan ==
  [][ActiveIsInForce /\ ~ActiveIsInForce' => amounts' # amounts]_lifeVars

\* Nothing but the rejection of a refund settles a waybill that is not paid in
\* full (reviewPayment, correctWaybillAmount, rejectRefund).
OnlyRejectionsSettle ==
  [][SettledMeansPaid /\ ~SettledMeansPaid' =>
       \E r \in RefundIds : /\ refunds[r].status = "RECORDED"
                            /\ refunds'[r].status = "REJECTED"]_lifeVars

=============================================================================
