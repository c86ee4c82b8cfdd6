----------------------------- MODULE Fulfilment -----------------------------
(***************************************************************************)
(* One waybill from import to delivery: the settlement, release and        *)
(* shipment services running concurrently over the same rows.              *)
(***************************************************************************)
EXTENDS Settlement, Release, Shipment, Phase

vars == <<waybill, calls, settlementVars, releaseVars>>

Init ==
  /\ InitSettlement
  /\ authorizations = [a \in AuthIds |-> "ABSENT"]
  /\ sessions = [s \in Sessions |-> "VALID"]
  /\ accessEvents = {}

SettlementStep(c) ==
  /\ \/ \E m \in Methods, a \in StoredAmounts : BeginSubmit(c, m, a)
     \/ \E p \in PaymentIds : CommitSubmit(c, p)
     \/ \E p \in PaymentIds, d \in Decisions, r \in Reviewers :
          \E v \in 1 .. payments[p].version : BeginReview(c, p, d, r, v)
     \/ CommitReview(c)
     \/ \E v \in Values : BeginCorrect(c, v)
     \/ \E a \in AmountIds : CommitCorrect(c, a)
  /\ UNCHANGED releaseVars

ReleaseStep(c) ==
  /\ \/ BeginAuthorize(c)
     \/ \E a \in AuthIds : CommitAuthorize(c, a)
     \/ BeginRevoke(c)
     \/ CommitRevoke(c)
     \/ \E s \in Sessions \cup {None} : BeginGrant(c, s)
     \/ CommitGrant(c)
  /\ UNCHANGED settlementVars

ShipmentStep(c) ==
  /\ \/ \E t \in Targets, v \in 1 .. waybill.version : BeginShipment(c, t, v)
     \/ CommitShipment(c)
     \/ \E t \in Targets, v \in 1 .. waybill.version : BeginDocument(c, t, v)
     \/ CommitDocument(c)
  /\ UNCHANGED <<settlementVars, releaseVars>>

RollbackStep(c) == Rollback(c) /\ UNCHANGED <<settlementVars, releaseVars>>

SessionStep(s) == EndSession(s) /\ UNCHANGED settlementVars

Next ==
  \/ \E c \in Callers : \/ SettlementStep(c)
                        \/ ReleaseStep(c)
                        \/ ShipmentStep(c)
                        \/ RollbackStep(c)
  \/ \E s \in Sessions : SessionStep(s)

Spec == Init /\ [][Next]_vars

-----------------------------------------------------------------------------
Calls == {Idle} \cup SubmitCalls \cup ReviewCalls \cup CorrectCalls
         \cup AuthorizeCalls \cup RevokeCalls \cup GrantCalls
         \cup ShipmentCalls \cup DocumentCalls

\* Every variable stays in its column types; in-flight calls hold values their
\* handler can compute.
TypeOK ==
  /\ waybill \in WaybillRow
  /\ calls \in [Callers -> Calls]
  /\ amounts \in [AmountIds -> AmountRow]
  /\ payments \in [PaymentIds -> PaymentRow]
  /\ reviews \in [PaymentIds -> [Decisions -> Nat]]
  /\ authorizations \in [AuthIds -> {"ABSENT", "ACTIVE", "REVOKED"}]
  /\ sessions \in [Sessions -> {"VALID", "ENDED"}]
  /\ accessEvents \subseteq Sessions \cup {None}

\* I-3: whatever corrections overlap, the waybill has exactly one current
\* amount and current_amount_id points to it (correctWaybillAmount).
OneCurrentAmount == CurrentAmounts = {waybill.currentAmount}

\* I-16: concurrent or repeated reviews never decide a payment twice; the
\* status of a payment is the one of its single final review row, and a row
\* without a final review is not settled (reviewPayment).
DecidedOnce ==
  \A p \in PaymentIds :
    LET final == reviews[p]["APPROVED"] + reviews[p]["REJECTED"] IN
    /\ final <= 1
    /\ final = 1 <=> /\ payments[p].status \in {"APPROVED", "REJECTED"}
                     /\ payments[p].method = "MANUAL"
    /\ payments[p].status = "APPROVED" /\ payments[p].method = "MANUAL"
         => reviews[p]["APPROVED"] = 1

\* Concurrent or repeated reviews never enter a payment in the books twice
\* nor take a decision back: Settlement implements PaymentLedger.
Standing(p) ==
  CASE payments[p].status = "ABSENT"   -> "NONE"
    [] payments[p].status = "APPROVED" -> "CREDITED"
    [] payments[p].status = "REJECTED" -> "REFUSED"
    [] OTHER                           -> "OPEN"

Ledger == INSTANCE PaymentLedger WITH ledger <- [p \in PaymentIds |-> Standing(p)]

ImplementsLedger == Ledger!Spec

\* I-5: at most one release authorization is not revoked, although two
\* authorizeRelease calls can both find none.
OneActiveAuthorization ==
  \A a, b \in ActiveAuthorizations : a = b

\* I-1 and I-2 seen from the driver: whatever was written from stale reads, a
\* committed row is downloadable as soon as its release status says so, so
\* evaluateReleaseConditions never contradicts the release axis.
DownloadableIffReleased ==
  CanRelease(waybill, TRUE) <=> InForce(waybill)

\* What the screens promise holds of the row: one shown as ready for release can
\* be authorized, one shown as released can be downloaded, and one that waits for
\* the driver to pay or to sign is active and not yet on its way to delivery
\* (deriveWaybillPhase).
PhaseKeepsPromise ==
  /\ Phase(waybill) = "READY_FOR_RELEASE" =>
       /\ Active(waybill)
       /\ CheckRelease([waybill EXCEPT !.release = "AUTHORIZED"])
  /\ Phase(waybill) = "RELEASED" => CanRelease(waybill, TRUE)
  /\ Phase(waybill) \in {"AWAITING_PAYMENT", "AWAITING_COMMITMENT"} =>
       Active(waybill) /\ waybill.release \notin {"ELIGIBLE", "AUTHORIZED"}

\* A waybill is authorized or released, and its PDF downloaded, only if an
\* authorization row was written for it: no stale write of release_status
\* can get there without authorizeRelease.
NeverWithoutAuthorization ==
  InForce(waybill) \/ accessEvents # {}
    => \E a \in AuthIds : authorizations[a] # "ABSENT"

\* A cancelled or archived waybill stays so under every overlap of shipment,
\* document, money and release calls: an operator's stale transition is refused
\* (transitionWaybillShipmentStatus).  The driver's login and the PDF matching,
\* which write shipment_status by id, are not part of this module.
CancelledIsFinal ==
  [][/\ waybill.shipment = "CANCELLED" => waybill'.shipment = "CANCELLED"
     /\ waybill.shipment = "ARCHIVED" => waybill'.shipment = "ARCHIVED"]_vars

-----------------------------------------------------------------------------
(* The following hold when the calls of a waybill do not overlap.          *)

\* The release axis says a delivery authorization is in force only while an
\* authorization row is active (authorizeRelease, revokeRelease).
ReleasedIsAuthorized == InForce(waybill) => ActiveAuthorizations # {}

\* payment_status = APPROVED means the approved payments cover the payable
\* amount (reviewPayment, correctWaybillAmount).
SettledMeansPaid ==
  waybill.payment = "APPROVED" => TotalOf(Approved) >= PayableAmount

\* A review never approves more than the payable amount: guard
\* OVERPAYMENT_REQUIRES_DISCREPANCY of reviewPayment.
NoOverApproval ==
  [][\A p \in PaymentIds :
       /\ payments[p].status \in Reviewable
       /\ payments'[p].status = "APPROVED"
       => TotalOf(Approved)' <= PayableAmount']_vars

\* An authorization row is active only while the waybill is authorized or
\* released (I-5: the authorization in force is the row not revoked).
ActiveIsInForce == ActiveAuthorizations # {} => InForce(waybill)
=============================================================================
