------------------------------- MODULE Reports -------------------------------
(***************************************************************************)
(* What the panel tells its operators about a waybill: the review queue,   *)
(* the dashboard, the discrepancies report and the amounts of the detail   *)
(* page, as functions of the rows.  Every payment that waits for somebody  *)
(* has to be on one of these lists.                                        *)
(***************************************************************************)
EXTENDS WaybillLife

\* getReviewQueue with its default filter, which is the one the panel uses.
ReviewQueue ==
  {p \in PaymentIds : payments[p].status \in {"SUBMITTED", "UNDER_REVIEW"}}

\* remainingAmount, residualDue
Remaining ==
  IF PayableAmount > TotalOf(Approved) THEN PayableAmount - TotalOf(Approved) ELSE 0

\* The discrepancies report selects waybills, by their payment axis.
InDiscrepanciesReport ==
  waybill.payment \in {"DISCREPANCY_REVIEW", "RESIDUAL_DUE", "REJECTED"}

\* The counters of the dashboard, for one waybill.
Dashboard ==
  [phase          |-> Phase(waybill),
   pendingReviews |-> Cardinality(ReviewQueue),
   pendingRefunds |-> Cardinality({r \in RefundIds : refunds[r].status = "RECORDED"})]

-----------------------------------------------------------------------------
\* Whatever calls overlap, a waybill is shown as paid only after a payment of it
\* was approved: what a review, a correction or the rejection of a refund has
\* read before it writes "APPROVED" stays true (reviewPayment,
\* correctWaybillAmount, rejectRefund).
PaidWasCredited == waybill.payment = "APPROVED" => Approved # {}

-----------------------------------------------------------------------------
(* When the calls of a waybill do not overlap:                             *)

\* The dashboard never sends an operator to an empty list: a phase that waits for
\* a review has one pending, a recorded refund is counted, and a residual is
\* above zero on the page that asks for it (getDashboardSummary).
DashboardAgrees ==
  /\ Dashboard.phase = "PAYMENT_UNDER_REVIEW" => Dashboard.pendingReviews > 0
  /\ Dashboard.phase = "REFUND_RECORDED" => Dashboard.pendingRefunds > 0
  /\ Dashboard.phase = "RESIDUAL_PAYMENT" => Remaining > 0

\* A payment without a decision is in the review queue, or its waybill is in the
\* discrepancies report.
Listed(p) == p \in ReviewQueue \/ InDiscrepanciesReport

\* A payment that waits for a decision disappears from every list only when
\* something else happens to its waybill: another payment, a correction, a
\* refund.  Its own submission and review never hide it (submitWaybillPayment,
\* reviewPayment).
OnlyOthersHide ==
  [][\A p \in PaymentIds :
       /\ payments'[p].status \in Reviewable
       /\ ~Listed(p)'
       /\ payments[p] = NoPayment \/ Listed(p)
       => \/ \E q \in PaymentIds \ {p} : payments'[q] # payments[q]
          \/ amounts' # amounts
          \/ refunds' # refunds]_lifeVars

=============================================================================
