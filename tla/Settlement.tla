------------------------------ MODULE Settlement ------------------------------
(***************************************************************************)
(* What a waybill costs and who paid for it: the amounts (waybill_amounts),*)
(* the payments and their reviews, and the three services that write them: *)
(* submitWaybillPayment, reviewPayment and correctWaybillAmount.           *)
(***************************************************************************)
EXTENDS WaybillRecord, FiniteSets, FiniteSetsExt

CONSTANTS
  PaymentIds,   \* ids of payments rows
  Reviewers,    \* panel users who review payments
  Values,       \* payable amounts, in rial
  Methods,      \* how payments are made: a subset of {"MANUAL", "GATEWAY"}
  Enforcement   \* organization_settings.commitment_enforcement

ASSUME SettlementAssumption ==
  /\ None \notin Reviewers
  /\ Values \subseteq Nat \ {0}
  /\ Methods \subseteq {"MANUAL", "GATEWAY"}
  /\ Enforcement \in {"OFF", "SHADOW", "ENFORCED"}

VARIABLES
  amounts,      \* rows of waybill_amounts; value 0: no such row yet
  payments,     \* rows of payments; status "ABSENT": no such row yet
  reviews       \* number of payment_reviews rows per payment and decision

settlementVars == <<amounts, payments, reviews>>

Decisions == {"APPROVED", "REJECTED", "DISCREPANCY_REVIEW"}

Reviewable == {"SUBMITTED", "UNDER_REVIEW", "DISCREPANCY_REVIEW"}

AmountRow == [value: Nat, isCurrent: BOOLEAN]

PaymentRow ==
  [status: PaymentStatus \cup {"ABSENT"}, method: {"MANUAL", "GATEWAY"},
   amount: Nat, amountId: AmountIds \cup {None},
   reviewedBy: Reviewers \cup {None}, version: Nat]

NoPayment ==
  [status |-> "ABSENT", method |-> "MANUAL", amount |-> 0, amountId |-> None,
   reviewedBy |-> None, version |-> 0]

StoredAmounts == {a \in AmountIds : amounts[a].value > 0}

CurrentAmounts == {a \in StoredAmounts : amounts[a].isCurrent}

\* amounts: { where: { isCurrent: true }, take: 1 }
CurrentAmount == CHOOSE a \in CurrentAmounts : TRUE

PayableAmount == amounts[CurrentAmount].value

Approved == {p \in PaymentIds : payments[p].status = "APPROVED"}

TotalOf(P) == SumFunctionOnSet([p \in PaymentIds |-> payments[p].amount], P)

\* Faulty variant: settling the payment also grants the delivery.
UnblockToAuthorized(w) == IF w.release = "BLOCKED" THEN "AUTHORIZED" ELSE w.release

\* The release status once the payment is settled: a blocked waybill whose
\* document and commitment are in order becomes eligible.
UnblockIfReady(w) ==
  IF DocVerified(w) /\ CommitmentAccepted(w) /\ w.release = "BLOCKED"
  THEN "ELIGIBLE" ELSE w.release

\* A new waybill: one current amount, no payment, no call in flight.
InitSettlement ==
  /\ \E a \in AmountIds, v \in Values :
       /\ waybill \in InitialRow(a)
       /\ amounts = [b \in AmountIds |->
            IF b = a THEN [value |-> v, isCurrent |-> TRUE]
                     ELSE [value |-> 0, isCurrent |-> FALSE]]
  /\ payments = [p \in PaymentIds |-> NoPayment]
  /\ reviews = [p \in PaymentIds |-> [d \in Decisions |-> 0]]
  /\ calls = [c \in Callers |-> Idle]

-----------------------------------------------------------------------------
(***************************************************************************)
(* submitWaybillPayment.  The amount is the one its caller read beforehand *)
(* (the card-to-card route, or a gateway attempt when it was initiated):   *)
(* any amount the waybill has had.                                         *)
(***************************************************************************)
SubmitCalls ==
  [op: {"submit"}, method: {"MANUAL", "GATEWAY"}, amount: Nat,
   amountId: AmountIds, eligible: BOOLEAN]

\* Faulty variant: a shadow enforcement, whatever the setting.
MayPayUnsigned(w) == TRUE

\* COMMITMENT_NOT_ACCEPTED
MayPay(w) == Enforcement = "ENFORCED" => w.commitment = "ACCEPTED"

BeginSubmit(c, method, a) ==
  /\ Active(waybill)
  /\ MayPay(waybill)
  /\ CurrentAmounts # {}
  /\ Start(c, [op |-> "submit", method |-> method,
               amount |-> amounts[a].value, amountId |-> CurrentAmount,
               eligible |-> /\ method = "GATEWAY"
                            /\ DocVerified(waybill)
                            /\ CommitmentAccepted(waybill)])
  /\ UNCHANGED <<waybill, settlementVars>>

CommitSubmit(c, p) ==
  LET call == calls[c]
      status == IF call.method = "GATEWAY" THEN "APPROVED" ELSE "SUBMITTED"
  IN
  /\ call.op = "submit"
  /\ payments[p] = NoPayment
  /\ payments' = [payments EXCEPT ![p] =
       [status |-> status, method |-> call.method, amount |-> call.amount,
        amountId |-> call.amountId, reviewedBy |-> None, version |-> 1]]
  /\ WriteWaybill([waybill EXCEPT
       !.payment = status,
       !.release = IF call.eligible THEN "ELIGIBLE" ELSE @])
  /\ Finish(c)
  /\ UNCHANGED <<amounts, reviews>>

-----------------------------------------------------------------------------
(***************************************************************************)
(* reviewPayment.  The client sends the version it saw; the guards and the *)
(* new statuses come from the transaction's first read.                    *)
(***************************************************************************)
ReviewCalls ==
  [op: {"review"}, payment: PaymentIds, decision: Decisions,
   reviewer: Reviewers, expectedVersion: Nat, seenStatus: Reviewable,
   newPayment: PaymentStatus, newRelease: ReleaseStatus]

\* Faulty variant: without the overpayment guard.
MayApproveAnyAmount(p) == payments[p].amountId = CurrentAmount

\* Guards 1 (AMOUNT_CHANGED) and 2 (OVERPAYMENT_REQUIRES_DISCREPANCY).
\* payment.amount <= max(target - others, 0), for a positive payment
MayApprove(p) ==
  /\ payments[p].amountId = CurrentAmount
  /\ payments[p].amount + TotalOf(Approved \ {p}) <= PayableAmount

\* Faulty variants: the decision code of payment_reviews is written to the
\* status column; an approval settles the waybill whatever was paid; any decision
\* but a rejection counts as an approval.
ReviewedWithDecisionCode(p, decision) ==
  IF decision = "DISCREPANCY_REVIEW" THEN "DISCREPANCY" ELSE decision

ReviewedWithoutResidual(p, decision) == decision

ReviewedUnlessRejected(p, decision) ==
  IF decision = "REJECTED" THEN decision
  ELSE IF TotalOf(Approved \ {p}) + payments[p].amount >= PayableAmount
       THEN "APPROVED" ELSE "RESIDUAL_DUE"

ReviewedPaymentStatus(p, decision) ==
  IF decision # "APPROVED" THEN decision
  ELSE IF TotalOf(Approved \ {p}) + payments[p].amount >= PayableAmount
       THEN "APPROVED" ELSE "RESIDUAL_DUE"

ReviewedReleaseStatus(p, decision) ==
  IF decision = "APPROVED" /\ ReviewedPaymentStatus(p, decision) = "APPROVED"
  THEN UnblockIfReady(waybill) ELSE waybill.release

BeginReview(c, p, decision, reviewer, expectedVersion) ==
  /\ payments[p].status \in Reviewable
  /\ ~(payments[p].status = decision /\ payments[p].reviewedBy = reviewer)
  /\ decision = "APPROVED" => MayApprove(p)
  /\ Start(c, [op |-> "review", payment |-> p, decision |-> decision,
               reviewer |-> reviewer, expectedVersion |-> expectedVersion,
               seenStatus |-> payments[p].status,
               newPayment |-> ReviewedPaymentStatus(p, decision),
               newRelease |-> ReviewedReleaseStatus(p, decision)])
  /\ UNCHANGED <<waybill, settlementVars>>

\* Faulty variant: the payment is updated by id only.
NotReviewedUnchecked(call) == TRUE

\* where: { version: expectedVersion, status: payment.status }
NotReviewedSince(call) ==
  /\ payments[call.payment].version = call.expectedVersion
  /\ payments[call.payment].status = call.seenStatus

CommitReview(c) ==
  LET call == calls[c] IN
  /\ call.op = "review"
  /\ NotReviewedSince(call)
  /\ call.expectedVersion < MaxVersion
  /\ payments' = [payments EXCEPT
       ![call.payment].status = call.decision,
       ![call.payment].version = @ + 1,
       ![call.payment].reviewedBy = call.reviewer]
  /\ reviews' = [reviews EXCEPT ![call.payment][call.decision] = @ + 1]
  /\ WriteWaybill([waybill EXCEPT !.payment = call.newPayment,
                                  !.release = call.newRelease])
  /\ Finish(c)
  /\ UNCHANGED amounts

-----------------------------------------------------------------------------
(***************************************************************************)
(* correctWaybillAmount.  The residual is exact: no rounding is involved.  *)
(***************************************************************************)
CorrectCalls ==
  [op: {"correct"}, amount: Nat, oldAmount: AmountIds \cup {None},
   newPayment: PaymentStatus, newRelease: ReleaseStatus]

\* Faulty variant: an amount that is just covered leaves a residual.
CorrectedAtLeast(amount) ==
  IF amount >= TotalOf(Approved) THEN "RESIDUAL_DUE" ELSE "DISCREPANCY_REVIEW"

CorrectedPaymentStatus(amount) ==
  IF amount > TotalOf(Approved) THEN "RESIDUAL_DUE"
  ELSE IF amount < TotalOf(Approved) THEN "DISCREPANCY_REVIEW"
  ELSE "APPROVED"

CorrectedReleaseStatus(amount) ==
  CASE CorrectedPaymentStatus(amount) = "RESIDUAL_DUE" ->
         IF waybill.release \in {"ELIGIBLE", "AUTHORIZED"}
         THEN "BLOCKED" ELSE waybill.release
    [] CorrectedPaymentStatus(amount) = "DISCREPANCY_REVIEW" ->
         waybill.release
    [] OTHER -> UnblockIfReady(waybill)

BeginCorrect(c, amount) ==
  /\ Active(waybill)
  /\ Start(c, [op |-> "correct", amount |-> amount,
               oldAmount |-> IF CurrentAmounts = {} THEN None
                             ELSE CurrentAmount,
               newPayment |-> CorrectedPaymentStatus(amount),
               newRelease |-> CorrectedReleaseStatus(amount)])
  /\ UNCHANGED <<waybill, settlementVars>>

\* Faulty variant: no partial unique index.
UniqueCurrentUnchecked(oldAmount) == TRUE

\* idx_waybill_amounts_current: inserting a second current row is rejected.
UniqueCurrent(oldAmount) == CurrentAmounts \ {oldAmount} = {}

CommitCorrect(c, new) ==
  LET call == calls[c] IN
  /\ call.op = "correct"
  /\ new \notin StoredAmounts
  /\ UniqueCurrent(call.oldAmount)
  /\ VersionLeft
  /\ amounts' = [a \in AmountIds |->
       IF a = new THEN [value |-> call.amount, isCurrent |-> TRUE]
       ELSE IF a = call.oldAmount THEN [amounts[a] EXCEPT !.isCurrent = FALSE]
       ELSE amounts[a]]
  /\ WriteWaybill(Bump([waybill EXCEPT !.currentAmount = new,
                                       !.payment = call.newPayment,
                                       !.release = call.newRelease]))
  /\ Finish(c)
  /\ UNCHANGED <<payments, reviews>>

=============================================================================
