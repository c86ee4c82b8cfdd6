-------------------------- MODULE WaybillLifeProofs --------------------------
(***************************************************************************)
(* Theorems about WaybillLife, its reports and its pages, for any number   *)
(* of calls, payments, amounts, versions, refunds and tabs: what is signed *)
(* and may follow only from a signature; that refunds stay within what was *)
(* approved and "paid" is said only after an approval; what holds of a     *)
(* waybill whose calls do not overlap; that the promises of Fulfilment     *)
(* outlive the services beside it; and what the pages show.                *)
(***************************************************************************)
EXTENDS Screens, FulfilmentProofs

Fields == {"shipment", "document", "payment", "commitment", "release",
           "currentAmount", "version"}

\* The rows have their columns; the values of the money columns do not matter
\* here.
Shape ==
  /\ waybill = [f \in Fields |-> waybill[f]]
  /\ waybill.commitment \in {"PENDING", "ACCEPTED", "DECLINED"}
  /\ calls = [c \in Callers |-> calls[c]]
  /\ payments = [p \in PaymentIds |-> payments[p]]
  /\ versions \in [Versions -> {"DRAFT", "ACTIVE", "RETIRED"}]
  /\ signed \subseteq Versions

\* A submission in flight has seen the signature, an acceptance in flight a
\* published version, a review in flight a payment.
CallsHonest ==
  \A c \in Callers :
    /\ calls[c].op = "submit" /\ Enforcement = "ENFORCED" => signed # {}
    /\ calls[c].op = "accept" => /\ calls[c].version \in Versions
                                 /\ versions[calls[c].version] # "DRAFT"
    /\ calls[c].op = "publish" => calls[c].version \in Versions
    /\ calls[c].op = "review" => calls[c].seenStatus # "ABSENT"

PaymentsHonest ==
  Enforcement = "ENFORCED" /\ (\E p \in PaymentIds : payments[p] # NoPayment)
    => signed # {}

SingleActive == \A u, v \in ActiveVersions : u = v

Inv ==
  /\ Shape
  /\ CallsHonest
  /\ PaymentsHonest
  /\ SingleActive
  /\ AcceptedIsSigned
  /\ CheckRelease(waybill)

LEMMA InvInit == LifeInit => Inv
  <1> SUFFICES ASSUME LifeInit PROVE Inv
    OBVIOUS
  <1>1. /\ waybill = [f \in Fields |-> waybill[f]]
        /\ waybill.commitment \in {"PENDING", "ACCEPTED", "DECLINED"}
        /\ waybill.release = "BLOCKED"
    BY DEF LifeInit, Init, InitSettlement, InitialRow, Fields
  <1>2. /\ calls = [c \in Callers |-> Idle]
        /\ payments = [p \in PaymentIds |-> NoPayment]
    BY DEF LifeInit, Init, InitSettlement
  <1>3. PICK v \in Versions :
          /\ versions = [u \in Versions |-> IF u = v THEN "ACTIVE" ELSE "DRAFT"]
          /\ signed = IF waybill.commitment = "ACCEPTED" THEN {v} ELSE {}
    BY DEF LifeInit, InitCommitment
  <1>4. Shape
    BY <1>1, <1>2, <1>3 DEF Shape
  <1>5. CallsHonest
    BY <1>2 DEF CallsHonest, Idle
  <1>6. PaymentsHonest
    BY <1>2 DEF PaymentsHonest
  <1>7. SingleActive
    BY <1>3 DEF SingleActive, ActiveVersions
  <1>8. AcceptedIsSigned
    BY <1>3 DEF AcceptedIsSigned
  <1>9. CheckRelease(waybill)
    BY <1>1 DEF CheckRelease
  <1>10. QED
    BY <1>4, <1>5, <1>6, <1>7, <1>8, <1>9 DEF Inv

-----------------------------------------------------------------------------
(* What the steps do to the rows.                                          *)

LEMMA Started ==
  ASSUME Shape, NEW c \in Callers, NEW call, Start(c, call)
  PROVE  /\ calls' = [d \in Callers |-> calls'[d]]
         /\ calls'[c] = call
         /\ \A d \in Callers \ {c} : calls'[d] = calls[d]
  BY DEF Shape, Start

LEMMA Finished ==
  ASSUME Shape, NEW c \in Callers, Finish(c)
  PROVE  /\ calls' = [d \in Callers |-> calls'[d]]
         /\ calls'[c].op = "idle"
         /\ \A d \in Callers \ {c} : calls'[d] = calls[d]
  BY DEF Shape, Finish, Idle

\* A write that leaves the commitment alone.
KeepsCommitment ==
  /\ waybill' = [f \in Fields |-> waybill'[f]]
  /\ waybill'.commitment = waybill.commitment
  /\ CheckRelease(waybill) => CheckRelease(waybill')

LEMMA Kept == ASSUME Shape, UNCHANGED waybill PROVE KeepsCommitment
  BY DEF Shape, KeepsCommitment, CheckRelease, PaymentSettled, CommitmentAccepted,
         DocVerified

LEMMA Written ==
  ASSUME Shape, NEW row, WriteWaybill(row), row = [f \in Fields |-> row[f]],
         row.commitment = waybill.commitment
  PROVE  KeepsCommitment
  BY DEF KeepsCommitment, WriteWaybill, CheckRelease, PaymentSettled,
         CommitmentAccepted, DocVerified

\* What the services of Fulfilment put in flight.
CallsKept ==
  /\ calls' = [c \in Callers |-> calls'[c]]
  /\ \A c \in Callers :
       \/ calls'[c] = calls[c]
       \/ calls'[c].op \notin {"submit", "review", "accept", "publish"}
       \/ calls'[c].op = "submit" /\ MayPay(waybill)
       \/ calls'[c].op = "review" /\ calls'[c].seenStatus # "ABSENT"

\* A payment is new only if a submission was in flight.
PaymentsKept ==
  /\ payments' = [p \in PaymentIds |-> payments'[p]]
  /\ \A p \in PaymentIds :
       payments'[p] # NoPayment =>
         \/ \E q \in PaymentIds : payments[q] # NoPayment
         \/ \E c \in Callers : calls[c].op = "submit"

LEMMA FinishKeeps == ASSUME Shape, NEW c \in Callers, Finish(c) PROVE CallsKept
  BY Finished DEF CallsKept

LEMMA StartKeeps ==
  ASSUME Shape, NEW c \in Callers, NEW call, Start(c, call),
         \/ call.op \notin {"submit", "review", "accept", "publish"}
         \/ call.op = "submit" /\ MayPay(waybill)
         \/ call.op = "review" /\ call.seenStatus # "ABSENT"
  PROVE  CallsKept
  BY Started DEF CallsKept

LEMMA PaymentsUntouched == ASSUME Shape, UNCHANGED payments PROVE PaymentsKept
  BY DEF Shape, PaymentsKept

LEMMA SettlementKeeps ==
  ASSUME Shape, CallsHonest, NEW c \in Callers, SettlementStep(c)
  PROVE  KeepsCommitment /\ CallsKept /\ PaymentsKept
  <1>1. ASSUME NEW m \in Methods, NEW a \in StoredAmounts, BeginSubmit(c, m, a)
        PROVE  KeepsCommitment /\ CallsKept /\ PaymentsKept
    <2>1. CallsKept
      BY <1>1, StartKeeps DEF BeginSubmit
    <2>2. QED
      BY <1>1, <2>1, Kept, PaymentsUntouched DEF BeginSubmit, settlementVars
  <1>2. ASSUME NEW p \in PaymentIds, CommitSubmit(c, p)
        PROVE  KeepsCommitment /\ CallsKept /\ PaymentsKept
    <2>1. PICK x, y : WriteWaybill([waybill EXCEPT !.payment = x, !.release = y])
      BY <1>2 DEF CommitSubmit
    <2>2. KeepsCommitment
      BY <2>1, Written DEF Shape, Fields
    <2>3. calls[c].op = "submit" /\ CallsKept
      BY <1>2, FinishKeeps DEF CommitSubmit
    <2>4. PaymentsKept
      BY <1>2, <2>3 DEF CommitSubmit, PaymentsKept, Shape
    <2>5. QED
      BY <2>2, <2>3, <2>4
  <1>3. ASSUME NEW p \in PaymentIds, NEW d \in Decisions, NEW r \in Reviewers, NEW v,
               BeginReview(c, p, d, r, v)
        PROVE  KeepsCommitment /\ CallsKept /\ PaymentsKept
    <2>1. CallsKept
      BY <1>3, StartKeeps DEF BeginReview, Reviewable
    <2>2. QED
      BY <1>3, <2>1, Kept, PaymentsUntouched DEF BeginReview, settlementVars
  <1>4. CASE CommitReview(c)
    <2>1. PICK x, y : WriteWaybill([waybill EXCEPT !.payment = x, !.release = y])
      BY <1>4 DEF CommitReview
    <2>2. KeepsCommitment
      BY <2>1, Written DEF Shape, Fields
    <2>3. calls[c].op = "review" /\ CallsKept
      BY <1>4, FinishKeeps DEF CommitReview
    <2>4. payments[calls[c].payment].status # "ABSENT"
      BY <1>4, <2>3 DEF CommitReview, NotReviewedSince, CallsHonest
    <2>5. PaymentsKept
      <3> DEFINE q == calls[c].payment
      <3>1. payments[q] # NoPayment
        BY <2>4 DEF NoPayment
      <3>2. PICK row : payments' = [payments EXCEPT ![q] = row]
        BY <1>4 DEF CommitReview
      <3>3. CASE q \in PaymentIds
        BY <3>1, <3>2, <3>3 DEF PaymentsKept, Shape
      <3>4. CASE q \notin PaymentIds
        BY <3>2, <3>4 DEF PaymentsKept, Shape
      <3>5. QED
        BY <3>3, <3>4
    <2>6. QED
      BY <2>2, <2>3, <2>5
  <1>5. ASSUME NEW v \in Values, BeginCorrect(c, v)
        PROVE  KeepsCommitment /\ CallsKept /\ PaymentsKept
    <2>1. CallsKept
      BY <1>5, StartKeeps DEF BeginCorrect
    <2>2. QED
      BY <1>5, <2>1, Kept, PaymentsUntouched DEF BeginCorrect, settlementVars
  <1>6. ASSUME NEW a \in AmountIds, CommitCorrect(c, a)
        PROVE  KeepsCommitment /\ CallsKept /\ PaymentsKept
    <2>1. PICK x, y, z : WriteWaybill(Bump([waybill EXCEPT !.currentAmount = z,
                                              !.payment = x, !.release = y]))
      BY <1>6 DEF CommitCorrect
    <2>2. KeepsCommitment
      BY <2>1, Written DEF Shape, Fields, Bump
    <2>3. QED
      BY <1>6, <2>2, FinishKeeps, PaymentsUntouched DEF CommitCorrect
  <1>7. QED
    BY <1>1, <1>2, <1>3, <1>4, <1>5, <1>6 DEF SettlementStep

LEMMA ReleaseKeeps ==
  ASSUME Shape, NEW c \in Callers, ReleaseStep(c)
  PROVE  KeepsCommitment /\ CallsKept /\ PaymentsKept
  <1>1. PaymentsKept
    BY PaymentsUntouched DEF ReleaseStep, settlementVars
  <1>2. CASE BeginAuthorize(c)
    BY <1>1, <1>2, Kept, StartKeeps DEF BeginAuthorize
  <1>3. CASE BeginRevoke(c)
    BY <1>1, <1>3, Kept, StartKeeps DEF BeginRevoke
  <1>4. ASSUME NEW s, BeginGrant(c, s) PROVE KeepsCommitment /\ CallsKept
    BY <1>4, Kept, StartKeeps DEF BeginGrant
  <1>5. ASSUME NEW x, WriteWaybill(Bump([waybill EXCEPT !.release = x]))
        PROVE  KeepsCommitment
    BY <1>5, Written DEF Shape, Fields, Bump
  <1>6. CASE CommitRevoke(c) \/ \E a \in AuthIds : CommitAuthorize(c, a)
    BY <1>1, <1>5, <1>6, FinishKeeps DEF CommitAuthorize, CommitRevoke
  <1>7. CASE CommitGrant(c)
    BY <1>1, <1>5, <1>7, Kept, FinishKeeps DEF CommitGrant
  <1>8. QED
    BY <1>1, <1>2, <1>3, <1>4, <1>6, <1>7 DEF ReleaseStep

LEMMA ShipmentKeeps ==
  ASSUME Shape, NEW c \in Callers, ShipmentStep(c)
  PROVE  KeepsCommitment /\ CallsKept /\ PaymentsKept
  <1>1. PaymentsKept
    BY PaymentsUntouched DEF ShipmentStep, settlementVars
  <1>2. ASSUME NEW t, NEW v, BeginShipment(c, t, v) PROVE KeepsCommitment /\ CallsKept
    BY <1>2, Kept, StartKeeps DEF BeginShipment
  <1>3. ASSUME NEW t, NEW v, BeginDocument(c, t, v) PROVE KeepsCommitment /\ CallsKept
    BY <1>3, Kept, StartKeeps DEF BeginDocument
  <1>4. CASE CommitShipment(c)
    <2>1. PICK x : WriteWaybill(Bump([waybill EXCEPT !.shipment = x]))
      BY <1>4 DEF CommitShipment
    <2>2. KeepsCommitment
      BY <2>1, Written DEF Shape, Fields, Bump
    <2>3. QED
      BY <1>1, <1>4, <2>2, FinishKeeps DEF CommitShipment
  <1>5. CASE CommitDocument(c)
    <2>1. PICK x : WriteWaybill(Bump([waybill EXCEPT !.document = x]))
      BY <1>5 DEF CommitDocument
    <2>2. KeepsCommitment
      BY <2>1, Written DEF Shape, Fields, Bump
    <2>3. QED
      BY <1>1, <1>5, <2>2, FinishKeeps DEF CommitDocument
  <1>6. QED
    BY <1>1, <1>2, <1>3, <1>4, <1>5 DEF ShipmentStep

LEMMA FulfilmentKeeps ==
  ASSUME Shape, CallsHonest, Next
  PROVE  KeepsCommitment /\ CallsKept /\ PaymentsKept
  <1>1. ASSUME NEW c \in Callers, RollbackStep(c)
        PROVE  KeepsCommitment /\ CallsKept /\ PaymentsKept
    BY <1>1, Kept, FinishKeeps, PaymentsUntouched
    DEF RollbackStep, Rollback, settlementVars
  <1>2. ASSUME NEW s \in Sessions, SessionStep(s)
        PROVE  KeepsCommitment /\ CallsKept /\ PaymentsKept
    <2>1. UNCHANGED <<waybill, calls, payments>>
      BY <1>2 DEF SessionStep, EndSession, settlementVars
    <2>2. CallsKept
      BY <2>1 DEF CallsKept, Shape
    <2>3. QED
      BY <2>1, <2>2, Kept, PaymentsUntouched
  <1>3. QED
    BY <1>1, <1>2, SettlementKeeps, ReleaseKeeps, ShipmentKeeps DEF Next

LEMMA RefundKeeps ==
  ASSUME Shape, NEW c \in Callers, RefundStep(c)
  PROVE  KeepsCommitment /\ CallsKept /\ PaymentsKept
  <1>1. ASSUME NEW x, WriteWaybill(Bump([waybill EXCEPT !.payment = x]))
        PROVE  KeepsCommitment
    BY <1>1, Written DEF Shape, Fields, Bump
  <1>2. ASSUME NEW n, NEW by, BeginRecordRefund(c, n, by)
        PROVE  KeepsCommitment /\ CallsKept /\ PaymentsKept
    BY <1>2, Kept, StartKeeps, PaymentsUntouched DEF BeginRecordRefund, settlementVars
  <1>3. ASSUME NEW r, CommitRecordRefund(c, r)
        PROVE  KeepsCommitment /\ CallsKept /\ PaymentsKept
    BY <1>1, <1>3, FinishKeeps, PaymentsUntouched DEF CommitRecordRefund, settlementVars
  <1>4. ASSUME NEW r, NEW by, BeginApproveRefund(c, r, by)
        PROVE  KeepsCommitment /\ CallsKept /\ PaymentsKept
    BY <1>4, Kept, StartKeeps, PaymentsUntouched DEF BeginApproveRefund, settlementVars
  <1>5. CASE CommitApproveRefund(c)
    BY <1>1, <1>5, FinishKeeps, PaymentsUntouched DEF CommitApproveRefund, settlementVars
  <1>6. ASSUME NEW r, NEW by, BeginRejectRefund(c, r, by)
        PROVE  KeepsCommitment /\ CallsKept /\ PaymentsKept
    BY <1>6, Kept, StartKeeps, PaymentsUntouched DEF BeginRejectRefund, settlementVars
  <1>7. CASE CommitRejectRefund(c)
    <2>1. Finish(c) /\ UNCHANGED payments
      BY <1>7 DEF CommitRejectRefund, settlementVars
    <2>2. \/ UNCHANGED waybill
          \/ \E x : WriteWaybill(Bump([waybill EXCEPT !.payment = x]))
      BY <1>7 DEF CommitRejectRefund
    <2>3. QED
      BY <1>1, <2>1, <2>2, Kept, FinishKeeps, PaymentsUntouched
  <1>8. QED
    BY <1>2, <1>3, <1>4, <1>5, <1>6, <1>7 DEF RefundStep

-----------------------------------------------------------------------------
(* The steps.                                                              *)

\* A step that leaves the signatures and the versions alone.
LEMMA KeepingStep ==
  ASSUME Inv, KeepsCommitment, CallsKept, PaymentsKept, UNCHANGED commitmentVars
  PROVE  Inv'
  <1>1. UNCHANGED <<versions, signed>>
    BY DEF commitmentVars
  <1>2. Shape'
    BY <1>1 DEF Inv, Shape, KeepsCommitment, CallsKept, PaymentsKept
  <1>3. Enforcement = "ENFORCED" /\ MayPay(waybill) => signed # {}
    BY DEF MayPay, Inv, AcceptedIsSigned
  <1>4. CallsHonest'
    BY <1>1, <1>3 DEF Inv, CallsHonest, CallsKept
  <1>5. PaymentsHonest'
    BY <1>1 DEF Inv, PaymentsHonest, PaymentsKept, CallsHonest
  <1>6. SingleActive'
    BY <1>1 DEF Inv, SingleActive, ActiveVersions
  <1>7. AcceptedIsSigned'
    BY <1>1 DEF Inv, AcceptedIsSigned, KeepsCommitment
  <1>8. CheckRelease(waybill)'
    BY DEF Inv, KeepsCommitment
  <1>9. QED
    BY <1>2, <1>4, <1>5, <1>6, <1>7, <1>8 DEF Inv

LEMMA CommitmentStepKeepsInv ==
  ASSUME Inv, NEW c \in Callers, CommitmentStep(c)
  PROVE  Inv'
  <1>1. Shape /\ CallsHonest /\ UNCHANGED payments
    BY DEF Inv, CommitmentStep, settlementVars
  <1>2. PaymentsKept
    BY <1>1, PaymentsUntouched
  <1>3. CASE BeginAccept(c)
    <2>1. PICK v \in ActiveVersions : Start(c, [op |-> "accept", version |-> v])
      BY <1>3 DEF BeginAccept
    <2>2. UNCHANGED <<waybill, versions, signed>>
      BY <1>3 DEF BeginAccept, commitmentVars
    <2>3. /\ calls' = [d \in Callers |-> calls'[d]]
          /\ calls'[c] = [op |-> "accept", version |-> v]
          /\ \A d \in Callers \ {c} : calls'[d] = calls[d]
      BY <1>1, <2>1, Started
    <2>4. Shape'
      BY <1>1, <2>2, <2>3 DEF Shape
    <2>5. CallsHonest'
      BY <1>1, <2>1, <2>2, <2>3 DEF CallsHonest, ActiveVersions
    <2>6. QED
      BY <1>1, <2>2, <2>4, <2>5
      DEF Inv, PaymentsHonest, SingleActive, ActiveVersions, AcceptedIsSigned,
          CheckRelease, PaymentSettled, CommitmentAccepted, DocVerified
  <1>4. CASE CommitAccept(c)
    <2>1. /\ calls[c].op = "accept"
          /\ signed' = signed \cup {calls[c].version}
          /\ WriteWaybill(Bump([waybill EXCEPT !.commitment = "ACCEPTED"]))
          /\ Finish(c)
          /\ UNCHANGED versions
      BY <1>4 DEF CommitAccept
    <2>2. /\ waybill' = [f \in Fields |-> waybill'[f]]
          /\ waybill'.commitment = "ACCEPTED"
          /\ CheckRelease(waybill')
      BY <1>1, <2>1 DEF WriteWaybill, Bump, Shape, Fields
    <2>3. calls[c].version \in Versions /\ versions[calls[c].version] # "DRAFT"
      BY <1>1, <2>1 DEF CallsHonest
    <2>4. CallsKept
      BY <1>1, <2>1, FinishKeeps
    <2>5. Shape'
      BY <1>1, <2>1, <2>2, <2>3, <2>4 DEF Shape, CallsKept
    <2>6. signed' # {}
      BY <2>1
    <2>7. CallsHonest'
      BY <1>1, <2>1, <2>6, Finished DEF CallsHonest
    <2>8. AcceptedIsSigned'
      BY <2>1, <2>3, <2>6 DEF Inv, AcceptedIsSigned
    <2>9. QED
      BY <2>1, <2>2, <2>5, <2>6, <2>7, <2>8
      DEF Inv, PaymentsHonest, SingleActive, ActiveVersions
  <1>5. CASE BeginDecline(c)
    BY <1>1, <1>2, <1>5, Kept, StartKeeps, KeepingStep DEF BeginDecline
  <1>6. CASE CommitDecline(c)
    <2>1. /\ WriteWaybill(Bump([waybill EXCEPT !.commitment = "DECLINED"]))
          /\ Finish(c)
          /\ UNCHANGED <<versions, signed>>
      BY <1>6 DEF CommitDecline, commitmentVars
    <2>2. /\ waybill' = [f \in Fields |-> waybill'[f]]
          /\ waybill'.commitment = "DECLINED"
          /\ CheckRelease(waybill')
      BY <1>1, <2>1 DEF WriteWaybill, Bump, Shape, Fields
    <2>3. Shape'
      BY <1>1, <2>1, <2>2, Finished DEF Shape
    <2>4. CallsHonest'
      BY <1>1, <2>1, Finished DEF CallsHonest
    <2>5. QED
      BY <1>1, <2>1, <2>2, <2>3, <2>4
      DEF Inv, PaymentsHonest, SingleActive, ActiveVersions, AcceptedIsSigned
  <1>7. ASSUME NEW v \in Versions, RetireVersions(c, v) PROVE Inv'
    <2>1. /\ Start(c, [op |-> "publish", version |-> v])
          /\ versions' = [u \in Versions |-> "RETIRED"]
          /\ UNCHANGED <<waybill, signed>>
      BY <1>7 DEF RetireVersions
    <2>2. /\ calls' = [d \in Callers |-> calls'[d]]
          /\ calls'[c] = [op |-> "publish", version |-> v]
          /\ \A d \in Callers \ {c} : calls'[d] = calls[d]
      BY <1>1, <2>1, Started
    <2>3. Shape'
      BY <1>1, <2>1, <2>2 DEF Shape
    <2>4. CallsHonest'
      BY <1>1, <2>1, <2>2 DEF CallsHonest
    <2>5. AcceptedIsSigned'
      BY <1>1, <2>1 DEF Inv, AcceptedIsSigned, Shape
    <2>6. QED
      BY <1>1, <2>1, <2>3, <2>4, <2>5
      DEF Inv, PaymentsHonest, SingleActive, ActiveVersions, CheckRelease,
          PaymentSettled, CommitmentAccepted, DocVerified
  <1>8. CASE ActivateVersion(c)
    <2> DEFINE v == calls[c].version
    <2>1. /\ v \in Versions
          /\ ActiveVersions \subseteq {v}
          /\ versions' = [versions EXCEPT ![v] = "ACTIVE"]
          /\ Finish(c)
          /\ UNCHANGED <<waybill, signed>>
      BY <1>1, <1>8 DEF ActivateVersion, NoneActivated, CallsHonest
    <2>2. Shape'
      BY <1>1, <2>1, Finished DEF Shape
    <2>3. \A u \in Versions : versions'[u] = IF u = v THEN "ACTIVE" ELSE versions[u]
      BY <1>1, <2>1 DEF Shape
    <2>4. CallsHonest'
      BY <1>1, <2>1, <2>3, Finished DEF CallsHonest
    <2>5. AcceptedIsSigned'
      BY <1>1, <2>1, <2>3 DEF Inv, AcceptedIsSigned, Shape
    <2>6. SingleActive'
      BY <2>1, <2>3 DEF SingleActive, ActiveVersions
    <2>7. QED
      BY <1>1, <2>1, <2>2, <2>4, <2>5, <2>6
      DEF Inv, PaymentsHonest, CheckRelease, PaymentSettled, CommitmentAccepted,
          DocVerified
  <1>9. QED
    BY <1>3, <1>4, <1>5, <1>6, <1>7, <1>8 DEF CommitmentStep

LEMMA InvStep == Inv /\ [LifeNext]_lifeVars => Inv'
  <1>1. ASSUME Inv, Next, UNCHANGED commitmentVars PROVE Inv'
    BY <1>1, FulfilmentKeeps, KeepingStep DEF Inv
  <1>2. ASSUME Inv, NEW c \in Callers, RefundStep(c) PROVE Inv'
    BY <1>2, RefundKeeps, KeepingStep DEF Inv, RefundStep
  <1>3. ASSUME Inv, UNCHANGED lifeVars PROVE Inv'
    <2>1. UNCHANGED <<waybill, calls, payments>> /\ UNCHANGED commitmentVars
      BY <1>3 DEF lifeVars, vars, settlementVars
    <2>2. CallsKept
      BY <1>3, <2>1 DEF CallsKept, Inv, Shape
    <2>3. QED
      BY <1>3, <2>1, <2>2, Kept, PaymentsUntouched, KeepingStep DEF Inv
  <1>4. QED
    BY <1>1, <1>2, <1>3, CommitmentStepKeepsInv DEF LifeNext

LEMMA InvAlways == LifeSpec => []Inv
  BY InvInit, InvStep, PTL DEF LifeSpec

\* Two requests of PUT /api/panel/commitments that interleave their statements
\* leave at most one version active, whatever the drivers do meanwhile.
THEOREM VersionsStaySingle == LifeSpec => []OneActiveVersion
  <1>1. Inv => OneActiveVersion
    <2> SUFFICES ASSUME SingleActive PROVE Cardinality(ActiveVersions) <= 1
      BY DEF Inv, OneActiveVersion
    <2>1. CASE ActiveVersions = {}
      BY <2>1, FS_EmptySet
    <2>2. ASSUME NEW v \in ActiveVersions PROVE Cardinality(ActiveVersions) <= 1
      <3>1. ActiveVersions = {v}
        BY <2>2 DEF SingleActive
      <3>2. QED
        BY <3>1, FS_Singleton
    <2>3. QED
      BY <2>1, <2>2
  <1>2. QED
    BY <1>1, InvAlways, PTL

\* An accepted commitment is a signed one, and only published versions are
\* signed, however acceptances, declines and publications overlap
\* (acceptDriverCommitment).
THEOREM AcceptancesAreSigned == LifeSpec => []AcceptedIsSigned
  <1>1. Inv => AcceptedIsSigned
    BY DEF Inv
  <1>2. QED
    BY <1>1, InvAlways, PTL

\* Under ENFORCED a payment, and always a waybill that is eligible or further,
\* has a signature behind it, although declines, reviews, corrections and
\* refunds overlap the submission (submitWaybillPayment).
THEOREM PaymentsAreSigned == LifeSpec => []PaidIsSigned
  <1>1. Inv => PaidIsSigned
    BY DEF Inv, PaidIsSigned, PaymentsHonest, AcceptedIsSigned, CheckRelease,
           CommitmentAccepted, Shape
  <1>2. QED
    BY <1>1, InvAlways, PTL

-----------------------------------------------------------------------------
(* The money: payments and refunds.                                        *)

RefundRow ==
  [status: {"ABSENT", "RECORDED", "SUPERVISOR_APPROVED", "REJECTED"}, amount: Nat,
   recordedBy: Staff \cup {None}, approvedBy: Staff \cup {None}]

\* What a call in flight will write to the rows of amounts, payments and refunds.
CallTyped(call) ==
  /\ call.op = "submit" => /\ call.amount \in Nat
                           /\ call.amountId \in AmountIds
                           /\ call.method \in Methods
  /\ call.op = "review" => /\ call.payment \in PaymentIds
                           /\ call.decision \in Decisions
                           /\ call.reviewer \in Reviewers
                           /\ call.seenStatus \in Reviewable
  /\ call.op = "correct" => call.amount \in Values
  /\ call.op = "recordRefund" => call.amount \in Nat \ {0} /\ call.by \in Staff
  /\ call.op \in {"approveRefund", "rejectRefund"} =>
       call.refund \in RefundIds /\ call.by \in Staff

StoredPayments == {p \in PaymentIds : payments[p].status # "ABSENT"}

StoredRefunds == {r \in RefundIds : refunds[r].status # "ABSENT"}

BooksType ==
  /\ calls = [c \in Callers |-> calls[c]]
  /\ \A c \in Callers : CallTyped(calls[c])
  /\ amounts \in [AmountIds -> AmountRow]
  /\ payments \in [PaymentIds -> PaymentRow]
  /\ refunds \in [RefundIds -> RefundRow]

\* There is an amount to pay, and finitely many rows were written.
Books ==
  /\ BooksType
  /\ CurrentAmounts # {}
  /\ IsFiniteSet(StoredPayments) /\ IsFiniteSet(StoredRefunds)
  /\ RefundsWithinApproved

\* A call that starts is of the types; one that ends is idle.
CallsStayTyped ==
  /\ calls' = [c \in Callers |-> calls'[c]]
  /\ \A c \in Callers : CallTyped(calls'[c])

LEMMA StartTyped ==
  ASSUME BooksType, NEW c \in Callers, NEW call, Start(c, call), CallTyped(call)
  PROVE  CallsStayTyped
  BY DEF BooksType, Start, CallsStayTyped

LEMMA FinishTyped ==
  ASSUME BooksType, NEW c \in Callers, Finish(c)
  PROVE  CallsStayTyped
  <1>1. CallTyped(Idle)
    BY DEF CallTyped, Idle
  <1>2. QED
    BY <1>1 DEF BooksType, Finish, CallsStayTyped

\* Approved payments that stay as they are keep their credit, whatever joins them.
LEMMA CreditKept ==
  ASSUME payments \in [PaymentIds -> PaymentRow],
         payments' \in [PaymentIds -> PaymentRow],
         IsFiniteSet(StoredPayments'),
         \A p \in Approved : payments'[p] = payments[p]
  PROVE  /\ TotalOf(Approved) \in Nat
         /\ TotalOf(Approved)' \in Nat
         /\ TotalOf(Approved) <= TotalOf(Approved)'
  <1> DEFINE f == [p \in PaymentIds |-> payments[p].amount]
             g == [p \in PaymentIds |-> payments'[p].amount]
             A == Approved
             B == Approved'
  <1>1. A \in SUBSET B /\ B \in SUBSET PaymentIds
    BY DEF Approved
  <1>2. IsFiniteSet(B)
    <2>1. B \subseteq StoredPayments'
      BY DEF Approved, StoredPayments
    <2>2. QED
      BY <2>1, FS_Subset
  <1>3. IsFiniteSet(A)
    BY <1>1, <1>2, FS_Subset
  <1>4. \A p \in PaymentIds : f[p] \in Nat /\ g[p] \in Nat
    BY DEF PaymentRow
  <1>5. \A p \in A : f[p] = g[p]
    BY <1>1
  <1>6. /\ TotalOf(Approved) = SumFunctionOnSet(f, A)
        /\ TotalOf(Approved)' = SumFunctionOnSet(g, B)
    BY DEF TotalOf
  <1> HIDE DEF f, g, A, B
  <1>7. SumFunctionOnSet(f, A) = SumFunctionOnSet(g, A)
    BY <1>3, <1>5, SumSame
  <1>8. SumFunctionOnSet(g, A) <= SumFunctionOnSet(g, B)
    BY <1>1, <1>2, <1>4, SumOfPart
  <1>9. SumFunctionOnSet(f, A) \in Nat /\ SumFunctionOnSet(g, B) \in Nat
    BY <1>1, <1>2, <1>3, <1>4, SumNat
  <1>10. QED
    BY <1>6, <1>7, <1>8, <1>9

\* Writing one refund leaves the claims of the others.
LEMMA ClaimWritten ==
  ASSUME refunds \in [RefundIds -> RefundRow], refunds' \in [RefundIds -> RefundRow],
         IsFiniteSet(StoredRefunds), NEW r \in RefundIds,
         \A s \in RefundIds \ {r} : refunds'[s] = refunds[s]
  PROVE  /\ ClaimedAmount(Claimed \ {r}) \in Nat
         /\ ClaimedAmount(Claimed)' \in Nat
         /\ ClaimedAmount(Claimed)' <= ClaimedAmount(Claimed \ {r}) + refunds'[r].amount
  <1> DEFINE f == [s \in RefundIds |-> refunds[s].amount]
             g == [s \in RefundIds |-> refunds'[s].amount]
             C == Claimed \ {r}
             D == Claimed'
  <1>1. C \in SUBSET RefundIds /\ D \in SUBSET RefundIds
    BY DEF Claimed
  <1>2. IsFiniteSet(C)
    <2>1. C \subseteq StoredRefunds
      BY DEF Claimed, StoredRefunds
    <2>2. QED
      BY <2>1, FS_Subset
  <1>3. D = C \/ D = C \cup {r}
    BY DEF Claimed
  <1>4. \A s \in RefundIds : f[s] \in Nat /\ g[s] \in Nat
    BY DEF RefundRow
  <1>5. \A s \in C : f[s] = g[s]
    BY <1>1
  <1>6. /\ ClaimedAmount(Claimed \ {r}) = SumFunctionOnSet(f, C)
        /\ ClaimedAmount(Claimed)' = SumFunctionOnSet(g, D)
        /\ g[r] = refunds'[r].amount
    BY DEF ClaimedAmount
  <1>7. r \notin C
    OBVIOUS
  <1> HIDE DEF f, g, C, D
  <1>8. SumFunctionOnSet(f, C) = SumFunctionOnSet(g, C)
    BY <1>2, <1>5, SumSame
  <1>9. SumFunctionOnSet(g, C) \in Nat
    BY <1>1, <1>2, <1>4, SumNat
  <1>10. SumFunctionOnSet(g, C \cup {r}) = g[r] + SumFunctionOnSet(g, C)
    <2>1. \A s \in C \cup {r} : g[s] \in Int
      BY <1>1, <1>4
    <2>2. QED
      BY <1>2, <1>7, <2>1, SumAdd
  <1>11. \/ SumFunctionOnSet(g, D) = SumFunctionOnSet(g, C)
         \/ SumFunctionOnSet(g, D) = g[r] + SumFunctionOnSet(g, C)
    BY <1>3, <1>10, Zenon
  <1>12. g[r] \in Nat
    BY <1>4
  <1>13. QED
    BY <1>6, <1>8, <1>9, <1>11, <1>12

LEMMA BooksInit == LifeInit => Books
  <1> SUFFICES ASSUME LifeInit PROVE Books
    OBVIOUS
  <1>1. /\ calls = [c \in Callers |-> Idle]
        /\ payments = [p \in PaymentIds |-> NoPayment]
        /\ refunds = [r \in RefundIds |-> NoRefund]
    BY DEF LifeInit, Init, InitSettlement, InitRefund
  <1>2. PICK a \in AmountIds, v \in Values :
          amounts = [b \in AmountIds |-> IF b = a THEN [value |-> v, isCurrent |-> TRUE]
                                         ELSE [value |-> 0, isCurrent |-> FALSE]]
    BY DEF LifeInit, Init, InitSettlement
  <1>3. v \in Nat \ {0}
    BY SettlementAssumption
  <1>4. amounts \in [AmountIds -> AmountRow] /\ a \in CurrentAmounts
    BY <1>2, <1>3 DEF AmountRow, CurrentAmounts, StoredAmounts
  <1>5. CallTyped(Idle) /\ NoPayment \in PaymentRow /\ NoRefund \in RefundRow
    BY DEF CallTyped, Idle, NoPayment, PaymentRow, NoRefund, RefundRow
  <1>6. BooksType
    BY <1>1, <1>4, <1>5 DEF BooksType
  <1>7. StoredPayments = {} /\ StoredRefunds = {} /\ Approved = {} /\ Claimed = {}
    BY <1>1
    DEF StoredPayments, StoredRefunds, Approved, Claimed, NoPayment, NoRefund
  <1>8. ClaimedAmount(Claimed) = 0 /\ TotalOf(Approved) = 0
    BY <1>7, SumEmpty DEF ClaimedAmount, TotalOf
  <1>9. QED
    BY <1>4, <1>6, <1>7, <1>8, FS_EmptySet DEF Books, RefundsWithinApproved

LEMMA BooksUnmoved ==
  ASSUME Books, CallsStayTyped, UNCHANGED <<amounts, payments, refunds>>
  PROVE  Books'
  <1>1. BooksType'
    BY DEF Books, BooksType, CallsStayTyped
  <1>2. /\ CurrentAmounts' = CurrentAmounts
        /\ StoredPayments' = StoredPayments
        /\ StoredRefunds' = StoredRefunds
        /\ Approved' = Approved
        /\ Claimed' = Claimed
    BY DEF CurrentAmounts, StoredAmounts, StoredPayments, StoredRefunds, Approved, Claimed
  <1>3. RefundsWithinApproved'
    BY <1>2 DEF Books, RefundsWithinApproved, TotalOf, ClaimedAmount
  <1>4. QED
    BY <1>1, <1>2, <1>3 DEF Books

\* A payment that is not approved is written.
LEMMA PaymentWritten ==
  ASSUME Books, CallsStayTyped, UNCHANGED <<amounts, refunds>>,
         NEW p \in PaymentIds, NEW row \in PaymentRow, payments[p].status # "APPROVED",
         payments' = [payments EXCEPT ![p] = row]
  PROVE  Books'
  <1>1. payments \in [PaymentIds -> PaymentRow]
    BY DEF Books, BooksType
  <1>2. payments' \in [PaymentIds -> PaymentRow]
    BY <1>1
  <1>3. IsFiniteSet(StoredPayments')
    <2>1. StoredPayments' \subseteq StoredPayments \cup {p}
      BY <1>1 DEF StoredPayments
    <2>2. IsFiniteSet(StoredPayments \cup {p})
      BY FS_AddElement DEF Books
    <2>3. QED
      BY <2>1, <2>2, FS_Subset
  <1>4. \A q \in Approved : payments'[q] = payments[q]
    BY <1>1 DEF Approved
  <1>5. /\ TotalOf(Approved) \in Nat
        /\ TotalOf(Approved)' \in Nat
        /\ TotalOf(Approved) <= TotalOf(Approved)'
    BY <1>1, <1>2, <1>3, <1>4, CreditKept
  <1>6. CurrentAmounts' = CurrentAmounts /\ StoredRefunds' = StoredRefunds
    BY DEF CurrentAmounts, StoredAmounts, StoredRefunds
  <1>7. ClaimedAmount(Claimed)' = ClaimedAmount(Claimed)
    BY DEF ClaimedAmount, Claimed
  <1>8. ClaimedAmount(Claimed) <= TotalOf(Approved)
    BY DEF Books, RefundsWithinApproved
  <1>9. ClaimedAmount(Claimed) \in Nat
    <2>1. Claimed \subseteq StoredRefunds /\ Claimed \subseteq RefundIds
      BY DEF Claimed, StoredRefunds
    <2>2. IsFiniteSet(Claimed)
      BY <2>1, FS_Subset DEF Books
    <2>3. \A r \in Claimed : [x \in RefundIds |-> refunds[x].amount][r] \in Nat
      BY <2>1 DEF Books, BooksType, RefundRow
    <2>4. QED
      BY <2>2, <2>3, SumNat DEF ClaimedAmount
  <1>10. RefundsWithinApproved'
    BY <1>5, <1>7, <1>8, <1>9 DEF RefundsWithinApproved
  <1>11. BooksType'
    BY <1>2 DEF Books, BooksType, CallsStayTyped
  <1>12. QED
    BY <1>3, <1>6, <1>10, <1>11 DEF Books

\* A refund is written under the ceiling of the approved payments.
LEMMA RefundWritten ==
  ASSUME Books, CallsStayTyped, UNCHANGED <<amounts, payments>>,
         NEW r \in RefundIds, NEW row \in RefundRow,
         ClaimedAmount(Claimed \ {r}) + row.amount <= TotalOf(Approved),
         refunds' = [refunds EXCEPT ![r] = row]
  PROVE  Books'
  <1>1. refunds \in [RefundIds -> RefundRow] /\ payments \in [PaymentIds -> PaymentRow]
    BY DEF Books, BooksType
  <1>2. /\ refunds' \in [RefundIds -> RefundRow]
        /\ refunds'[r].amount = row.amount
        /\ row.amount \in Nat
        /\ \A s \in RefundIds \ {r} : refunds'[s] = refunds[s]
    BY <1>1 DEF RefundRow
  <1>3. IsFiniteSet(StoredRefunds')
    <2>1. StoredRefunds' \subseteq StoredRefunds \cup {r}
      BY <1>1 DEF StoredRefunds
    <2>2. IsFiniteSet(StoredRefunds \cup {r})
      BY FS_AddElement DEF Books
    <2>3. QED
      BY <2>1, <2>2, FS_Subset
  <1>4. StoredPayments' = StoredPayments /\ Approved' = Approved
    BY DEF StoredPayments, Approved
  <1>5. TotalOf(Approved) \in Nat /\ TotalOf(Approved)' = TotalOf(Approved)
    <2>1. IsFiniteSet(StoredPayments')
      BY <1>4 DEF Books
    <2>2. \A q \in Approved : payments'[q] = payments[q]
      OBVIOUS
    <2>3. TotalOf(Approved) \in Nat
      BY <1>1, <2>1, <2>2, CreditKept
    <2>4. QED
      BY <1>4, <2>3 DEF TotalOf
  <1>6. /\ ClaimedAmount(Claimed \ {r}) \in Nat
        /\ ClaimedAmount(Claimed)' \in Nat
        /\ ClaimedAmount(Claimed)' <= ClaimedAmount(Claimed \ {r}) + refunds'[r].amount
    BY <1>1, <1>2, ClaimWritten DEF Books
  <1>7. RefundsWithinApproved'
    BY <1>2, <1>5, <1>6 DEF RefundsWithinApproved
  <1>8. CurrentAmounts' = CurrentAmounts
    BY DEF CurrentAmounts, StoredAmounts
  <1>9. BooksType'
    BY <1>2 DEF Books, BooksType, CallsStayTyped
  <1>10. QED
    BY <1>3, <1>4, <1>7, <1>8, <1>9 DEF Books

\* A correction replaces the current amount by one that is positive.
LEMMA AmountWritten ==
  ASSUME Books, CallsStayTyped, UNCHANGED <<payments, refunds>>,
         NEW new \in AmountIds, NEW old, NEW value \in Nat \ {0},
         new \notin StoredAmounts, UniqueCurrent(old),
         amounts' = [a \in AmountIds |->
           IF a = new THEN [value |-> value, isCurrent |-> TRUE]
           ELSE IF a = old THEN [amounts[a] EXCEPT !.isCurrent = FALSE]
           ELSE amounts[a]]
  PROVE  /\ Books'
         /\ CurrentAmounts' = {new}
         /\ amounts'[new].value = value
         /\ amounts' # amounts
  <1>1. amounts \in [AmountIds -> AmountRow]
    BY DEF Books, BooksType
  <1>2. amounts' \in [AmountIds -> AmountRow]
    BY <1>1 DEF AmountRow
  <1>3. CurrentAmounts' = {new}
    <2>1. new \in CurrentAmounts'
      BY DEF CurrentAmounts, StoredAmounts
    <2>2. ASSUME NEW a \in CurrentAmounts', a # new PROVE FALSE
      <3>1. a \in AmountIds /\ amounts'[a].value > 0 /\ amounts'[a].isCurrent
        BY DEF CurrentAmounts, StoredAmounts
      <3>2. a # old
        BY <1>1, <2>2, <3>1 DEF AmountRow
      <3>3. a \in CurrentAmounts
        BY <2>2, <3>1, <3>2 DEF CurrentAmounts, StoredAmounts
      <3>4. QED
        BY <3>2, <3>3 DEF UniqueCurrent
    <2>3. QED
      BY <2>1, <2>2
  <1>4. amounts'[new].value = value /\ amounts' # amounts
    BY <1>1 DEF StoredAmounts, AmountRow
  <1>5. /\ StoredPayments' = StoredPayments /\ StoredRefunds' = StoredRefunds
        /\ Approved' = Approved /\ Claimed' = Claimed
    BY DEF StoredPayments, StoredRefunds, Approved, Claimed
  <1>6. RefundsWithinApproved'
    BY <1>5 DEF Books, RefundsWithinApproved, TotalOf, ClaimedAmount
  <1>7. BooksType'
    BY <1>2 DEF Books, BooksType, CallsStayTyped
  <1>8. QED
    BY <1>3, <1>4, <1>5, <1>6, <1>7 DEF Books

LEMMA SettlementBooks ==
  ASSUME Books, NEW c \in Callers, SettlementStep(c), UNCHANGED refunds
  PROVE  Books'
  <1>1. BooksType /\ CallTyped(calls[c])
    BY DEF Books, BooksType
  <1>2. ASSUME NEW m \in Methods, NEW a \in StoredAmounts, BeginSubmit(c, m, a)
        PROVE  Books'
    <2>1. PICK call : /\ Start(c, call)
                      /\ call.op = "submit"
                      /\ call.amount = amounts[a].value
                      /\ call.amountId = CurrentAmount
                      /\ call.method = m
      BY <1>2 DEF BeginSubmit
    <2>2. amounts[a].value \in Nat /\ CurrentAmount \in AmountIds
      BY <1>1 DEF Books, BooksType, AmountRow, CurrentAmount, CurrentAmounts, StoredAmounts
    <2>3. CallTyped(call)
      BY <2>1, <2>2 DEF CallTyped
    <2>4. CallsStayTyped
      BY <1>1, <2>1, <2>3, StartTyped
    <2>5. QED
      BY <1>2, <2>4, BooksUnmoved DEF BeginSubmit, settlementVars
  <1>3. ASSUME NEW p \in PaymentIds, CommitSubmit(c, p)
        PROVE  Books'
    <2> DEFINE row == [status |-> IF calls[c].method = "GATEWAY" THEN "APPROVED"
                                  ELSE "SUBMITTED",
                       method |-> calls[c].method, amount |-> calls[c].amount,
                       amountId |-> calls[c].amountId, reviewedBy |-> None, version |-> 1]
    <2>1. /\ calls[c].amount \in Nat /\ calls[c].amountId \in AmountIds
          /\ calls[c].method \in {"MANUAL", "GATEWAY"}
      BY <1>1, <1>3, SettlementAssumption DEF CommitSubmit, CallTyped
    <2>2. row \in PaymentRow
      BY <2>1 DEF PaymentRow, PaymentStatus
    <2>3. payments[p].status # "APPROVED"
      BY <1>3 DEF CommitSubmit, NoPayment
    <2>4. payments' = [payments EXCEPT ![p] = row] /\ UNCHANGED amounts
      BY <1>3 DEF CommitSubmit
    <2>5. CallsStayTyped
      BY <1>1, <1>3, FinishTyped DEF CommitSubmit
    <2> HIDE DEF row
    <2>6. QED
      BY <2>2, <2>3, <2>4, <2>5, PaymentWritten
  <1>4. ASSUME NEW p \in PaymentIds, NEW d \in Decisions, NEW r \in Reviewers, NEW v,
               BeginReview(c, p, d, r, v)
        PROVE  Books'
    <2>1. PICK call : /\ Start(c, call)
                      /\ call.op = "review"
                      /\ call.payment = p
                      /\ call.decision = d
                      /\ call.reviewer = r
                      /\ call.seenStatus = payments[p].status
      BY <1>4 DEF BeginReview
    <2>2. CallTyped(call)
      BY <1>4, <2>1 DEF CallTyped, BeginReview
    <2>3. CallsStayTyped
      BY <1>1, <2>1, <2>2, StartTyped
    <2>4. QED
      BY <1>4, <2>3, BooksUnmoved DEF BeginReview, settlementVars
  <1>5. CASE CommitReview(c)
    <2> DEFINE p == calls[c].payment
               row == [payments[p] EXCEPT !.status = calls[c].decision,
                                          !.version = @ + 1,
                                          !.reviewedBy = calls[c].reviewer]
    <2>1. /\ p \in PaymentIds /\ calls[c].decision \in Decisions
          /\ calls[c].reviewer \in Reviewers /\ calls[c].seenStatus \in Reviewable
      BY <1>1, <1>5 DEF CommitReview, CallTyped
    <2>2. payments[p] \in PaymentRow
      BY <1>1, <2>1 DEF BooksType
    <2>3. row \in PaymentRow
      <3>1. calls[c].decision \in PaymentStatus
        BY <2>1 DEF Decisions, PaymentStatus
      <3>2. payments[p].version + 1 \in Nat
        BY <2>2 DEF PaymentRow
      <3>3. QED
        BY <2>1, <2>2, <3>1, <3>2 DEF PaymentRow
    <2>4. payments[p].status # "APPROVED"
      BY <1>5, <2>1 DEF CommitReview, NotReviewedSince, Reviewable
    <2>5. payments' = [payments EXCEPT ![p] = row] /\ UNCHANGED amounts
      BY <1>1, <1>5 DEF CommitReview, BooksType
    <2>6. CallsStayTyped
      BY <1>1, <1>5, FinishTyped DEF CommitReview
    <2> HIDE DEF row, p
    <2>7. QED
      BY <2>1, <2>3, <2>4, <2>5, <2>6, PaymentWritten
  <1>6. ASSUME NEW v \in Values, BeginCorrect(c, v)
        PROVE  Books'
    <2>1. PICK call : Start(c, call) /\ call.op = "correct" /\ call.amount = v
      BY <1>6 DEF BeginCorrect
    <2>2. CallTyped(call)
      BY <2>1 DEF CallTyped
    <2>3. CallsStayTyped
      BY <1>1, <2>1, <2>2, StartTyped
    <2>4. QED
      BY <1>6, <2>3, BooksUnmoved DEF BeginCorrect, settlementVars
  <1>7. ASSUME NEW a \in AmountIds, CommitCorrect(c, a)
        PROVE  Books'
    <2>1. calls[c].amount \in Nat \ {0}
      BY <1>1, <1>7, SettlementAssumption DEF CommitCorrect, CallTyped
    <2>2. CallsStayTyped
      BY <1>1, <1>7, FinishTyped DEF CommitCorrect
    <2>3. QED
      BY <1>7, <2>1, <2>2, AmountWritten DEF CommitCorrect
  <1>8. QED
    BY <1>2, <1>3, <1>4, <1>5, <1>6, <1>7 DEF SettlementStep

LEMMA RefundBooks ==
  ASSUME Books, NEW c \in Callers, RefundStep(c)
  PROVE  Books'
  <1>1. BooksType /\ CallTyped(calls[c])
    BY DEF Books, BooksType
  <1>2. ASSUME NEW call, Start(c, call), CallTyped(call),
               UNCHANGED <<settlementVars, refundVars>>
        PROVE  Books'
    BY <1>1, <1>2, StartTyped, BooksUnmoved DEF settlementVars, refundVars
  <1>3. ASSUME NEW n \in Values, NEW by \in Staff, BeginRecordRefund(c, n, by)
        PROVE  Books'
    <2>1. n \in Nat \ {0}
      BY SettlementAssumption
    <2>2. QED
      BY <1>2, <1>3, <2>1 DEF BeginRecordRefund, CallTyped
  <1>4. ASSUME NEW r \in RefundIds, CommitRecordRefund(c, r)
        PROVE  Books'
    <2> DEFINE row == [status |-> "RECORDED", amount |-> calls[c].amount,
                       recordedBy |-> calls[c].by, approvedBy |-> None]
    <2>1. calls[c].amount \in Nat \ {0} /\ calls[c].by \in Staff
      BY <1>1, <1>4 DEF CommitRecordRefund, CallTyped
    <2>2. row \in RefundRow
      BY <2>1 DEF RefundRow
    <2>3. /\ refunds' = [refunds EXCEPT ![r] = row]
          /\ UNCHANGED <<amounts, payments>>
          /\ ClaimedAmount(Claimed \ {r}) + row.amount <= TotalOf(Approved)
      BY <1>4 DEF CommitRecordRefund, BelowCeiling, settlementVars
    <2>4. CallsStayTyped
      BY <1>1, <1>4, FinishTyped DEF CommitRecordRefund
    <2> HIDE DEF row
    <2>5. QED
      BY <2>2, <2>3, <2>4, RefundWritten
  <1>5. ASSUME NEW r \in RefundIds, NEW by \in Staff, NEW status,
               status \in {"SUPERVISOR_APPROVED", "REJECTED"},
               DecideRefund(r, status, by), Finish(c), UNCHANGED settlementVars
        PROVE  Books'
    <2> DEFINE row == [refunds[r] EXCEPT !.status = status, !.approvedBy = by]
    <2>1. refunds[r] \in RefundRow
      BY <1>1 DEF BooksType
    <2>2. row \in RefundRow /\ row.amount = refunds[r].amount
      BY <1>5, <2>1 DEF RefundRow
    <2>3. /\ refunds' = [refunds EXCEPT ![r] = row]
          /\ UNCHANGED <<amounts, payments>>
      BY <1>1, <1>5 DEF DecideRefund, settlementVars, BooksType
    <2>4. ClaimedAmount(Claimed \ {r}) + refunds[r].amount <= TotalOf(Approved)
      BY <1>5 DEF DecideRefund, BelowCeiling
    <2>5. CallsStayTyped
      BY <1>1, <1>5, FinishTyped
    <2> HIDE DEF row
    <2>6. QED
      BY <2>2, <2>3, <2>4, <2>5, RefundWritten
  <1>6. ASSUME NEW r \in RefundIds, NEW by \in Staff, BeginApproveRefund(c, r, by)
        PROVE  Books'
    BY <1>2, <1>6 DEF BeginApproveRefund, CallTyped
  <1>7. CASE CommitApproveRefund(c)
    <2>1. calls[c].refund \in RefundIds /\ calls[c].by \in Staff
      BY <1>1, <1>7 DEF CommitApproveRefund, CallTyped
    <2>2. QED
      BY <1>5, <1>7, <2>1 DEF CommitApproveRefund
  <1>8. ASSUME NEW r \in RefundIds, NEW by \in Staff, BeginRejectRefund(c, r, by)
        PROVE  Books'
    BY <1>2, <1>8 DEF BeginRejectRefund, CallTyped
  <1>9. CASE CommitRejectRefund(c)
    <2>1. calls[c].refund \in RefundIds /\ calls[c].by \in Staff
      BY <1>1, <1>9 DEF CommitRejectRefund, CallTyped
    <2>2. QED
      BY <1>5, <1>9, <2>1 DEF CommitRejectRefund
  <1>10. QED
    BY <1>3, <1>4, <1>6, <1>7, <1>8, <1>9 DEF RefundStep

\* The other steps leave the money as it is.
LEMMA OtherBooks ==
  ASSUME Books, NEW c \in Callers, UNCHANGED <<amounts, payments, refunds>>,
         \/ ReleaseStep(c) \/ ShipmentStep(c) \/ RollbackStep(c) \/ CommitmentStep(c)
  PROVE  CallsStayTyped
  <1>1. BooksType
    BY DEF Books
  <1>2. ASSUME NEW call, Start(c, call),
               call.op \notin {"submit", "review", "correct", "recordRefund",
                               "approveRefund", "rejectRefund"}
        PROVE  CallsStayTyped
    BY <1>1, <1>2, StartTyped DEF CallTyped
  <1>3. CASE Finish(c)
    BY <1>1, <1>3, FinishTyped
  <1>4. CASE ReleaseStep(c)
    BY <1>2, <1>3, <1>4
    DEF ReleaseStep, BeginAuthorize, CommitAuthorize, BeginRevoke, CommitRevoke,
        BeginGrant, CommitGrant
  <1>5. CASE ShipmentStep(c)
    BY <1>2, <1>3, <1>5
    DEF ShipmentStep, BeginShipment, CommitShipment, BeginDocument, CommitDocument
  <1>6. CASE RollbackStep(c)
    BY <1>3, <1>6 DEF RollbackStep, Rollback
  <1>7. CASE CommitmentStep(c)
    BY <1>2, <1>3, <1>7
    DEF CommitmentStep, BeginAccept, CommitAccept, BeginDecline, CommitDecline,
        RetireVersions, ActivateVersion
  <1>8. QED
    BY <1>4, <1>5, <1>6, <1>7

LEMMA BooksStep == Books /\ [LifeNext]_lifeVars => Books'
  <1> SUFFICES ASSUME Books, [LifeNext]_lifeVars PROVE Books'
    OBVIOUS
  <1>1. CASE UNCHANGED <<calls, amounts, payments, refunds>>
    <2>1. CallsStayTyped
      BY <1>1 DEF Books, BooksType, CallsStayTyped
    <2>2. QED
      BY <1>1, <2>1, BooksUnmoved
  <1>2. ASSUME NEW c \in Callers, UNCHANGED refunds, SettlementStep(c) PROVE Books'
    BY <1>2, SettlementBooks
  <1>3. ASSUME NEW c \in Callers, RefundStep(c) PROVE Books'
    BY <1>3, RefundBooks
  <1>4. ASSUME NEW c \in Callers, UNCHANGED <<amounts, payments, refunds>>,
               \/ ReleaseStep(c) \/ ShipmentStep(c) \/ RollbackStep(c) \/ CommitmentStep(c)
        PROVE  Books'
    BY <1>4, OtherBooks, BooksUnmoved
  <1>5. CASE UNCHANGED lifeVars
    BY <1>1, <1>5 DEF lifeVars, vars, settlementVars, refundVars
  <1>6. CASE Next /\ UNCHANGED <<commitmentVars, refundVars>>
    <2>1. ASSUME NEW s \in Sessions, SessionStep(s) PROVE Books'
      BY <1>1, <1>6, <2>1 DEF SessionStep, EndSession, settlementVars, refundVars
    <2>2. ASSUME NEW c \in Callers, ReleaseStep(c) \/ ShipmentStep(c) \/ RollbackStep(c)
          PROVE  UNCHANGED <<amounts, payments, refunds>>
      BY <1>6, <2>2
      DEF ReleaseStep, ShipmentStep, RollbackStep, settlementVars, refundVars
    <2>3. QED
      BY <1>2, <1>4, <1>6, <2>1, <2>2 DEF Next, refundVars
  <1>7. ASSUME NEW c \in Callers, CommitmentStep(c) PROVE Books'
    BY <1>4, <1>7 DEF CommitmentStep, settlementVars, refundVars
  <1>8. QED
    BY <1>3, <1>5, <1>6, <1>7 DEF LifeNext

LEMMA BooksAlways == LifeSpec => []Books
  BY BooksInit, BooksStep, PTL DEF LifeSpec

\* No more is ever paid back than the approved payments brought in, however
\* recordings, decisions, reviews and corrections overlap (I-10,
\* trigger_check_refund_ceiling).
THEOREM RefundsAreCovered == LifeSpec => []RefundsWithinApproved
  <1>1. Books => RefundsWithinApproved
    BY DEF Books
  <1>2. QED
    BY <1>1, BooksAlways, PTL

-----------------------------------------------------------------------------
(* What is shown as paid.                                                  *)

\* What a call in flight will write as "paid" has been paid.
CallCredited(call) ==
  /\ call.op = "review" /\ call.newPayment = "APPROVED" => call.decision = "APPROVED"
  /\ call.op = "correct" /\ call.newPayment = "APPROVED" => Approved # {}
  /\ call.op = "rejectRefund" /\ call.seenApproved => Approved # {}

Credited == PaidWasCredited /\ \A c \in Callers : CallCredited(calls[c])

\* An approved payment stays approved.
LEMMA CreditStays ==
  ASSUME Books, Approved # {}, NEW p, NEW row,
         payments' = [payments EXCEPT ![p] = row],
         p \notin Approved \/ row.status = "APPROVED"
  PROVE  Approved' # {}
  <1>1. payments = [q \in PaymentIds |-> payments[q]]
    BY DEF Books, BooksType
  <1>2. PICK q \in PaymentIds : payments[q].status = "APPROVED"
    BY DEF Approved
  <1>3. payments'[q].status = "APPROVED"
    BY <1>1, <1>2 DEF Approved
  <1>4. QED
    BY <1>3 DEF Approved

\* A call that begins has read what it will write; one that ends is idle.
LEMMA CreditAtStart ==
  ASSUME Books, Credited, NEW c \in Callers, NEW call, Start(c, call),
         UNCHANGED payments, waybill'.payment = waybill.payment, CallCredited(call)
  PROVE  Credited'
  <1>1. Approved' = Approved
    BY DEF Approved
  <1>2. \A d \in Callers : calls'[d] = calls[d] \/ calls'[d] = call
    BY DEF Start, Books, BooksType
  <1>3. QED
    BY <1>1, <1>2 DEF Credited, CallCredited, PaidWasCredited

LEMMA CreditAtFinish ==
  ASSUME Books, Credited, NEW c \in Callers, Finish(c),
         Approved # {} => Approved' # {},
         waybill'.payment = "APPROVED" => waybill.payment = "APPROVED" \/ Approved' # {}
  PROVE  Credited'
  <1>1. \A d \in Callers : calls'[d] = calls[d] \/ calls'[d].op = "idle"
    BY DEF Finish, Idle, Books, BooksType
  <1>2. QED
    BY <1>1 DEF Credited, CallCredited, PaidWasCredited

\* The services that write the payments.
LEMMA SettlementCredits ==
  ASSUME Inv, Books, Credited, NEW c \in Callers, SettlementStep(c)
  PROVE  Credited'
  <1>1. BooksType /\ Shape /\ CallTyped(calls[c]) /\ CallCredited(calls[c])
    BY DEF Books, BooksType, Inv, Credited
  <1>2. ASSUME NEW m \in Methods, NEW a \in StoredAmounts, BeginSubmit(c, m, a)
        PROVE  Credited'
    <2>1. PICK call : Start(c, call) /\ call.op = "submit"
      BY <1>2 DEF BeginSubmit
    <2>2. CallCredited(call)
      BY <2>1 DEF CallCredited
    <2>3. QED
      BY <1>2, <2>1, <2>2, CreditAtStart DEF BeginSubmit, settlementVars
  <1>3. ASSUME NEW p \in PaymentIds, CommitSubmit(c, p)
        PROVE  Credited'
    <2>1. PICK row : /\ payments' = [payments EXCEPT ![p] = row]
                     /\ row.status = waybill'.payment
      <3> DEFINE status == IF calls[c].method = "GATEWAY" THEN "APPROVED"
                           ELSE "SUBMITTED"
                 row == [status |-> status, method |-> calls[c].method,
                         amount |-> calls[c].amount, amountId |-> calls[c].amountId,
                         reviewedBy |-> None, version |-> 1]
      <3>1. payments' = [payments EXCEPT ![p] = row]
        BY <1>3 DEF CommitSubmit
      <3>2. PICK y : waybill' = [waybill EXCEPT !.payment = status, !.release = y]
        BY <1>3 DEF CommitSubmit, WriteWaybill
      <3>3. row.status = status
        OBVIOUS
      <3> HIDE DEF status, row
      <3>4. waybill'.payment = status
        BY <1>1, <3>2 DEF Shape, Fields
      <3>5. QED
        BY <3>1, <3>3, <3>4
    <2>2. payments[p] = NoPayment /\ Finish(c)
      BY <1>3 DEF CommitSubmit
    <2>3. p \notin Approved
      BY <2>2 DEF Approved, NoPayment
    <2>4. Approved # {} => Approved' # {}
      BY <2>1, <2>3, CreditStays
    <2>5. waybill'.payment = "APPROVED" => p \in Approved'
      BY <1>1, <2>1 DEF Approved, BooksType
    <2>6. QED
      BY <2>2, <2>4, <2>5, CreditAtFinish
  <1>4. ASSUME NEW p \in PaymentIds, NEW d \in Decisions, NEW r \in Reviewers, NEW v,
               BeginReview(c, p, d, r, v)
        PROVE  Credited'
    <2>1. PICK call : /\ Start(c, call)
                      /\ call.op = "review"
                      /\ call.decision = d
                      /\ call.newPayment = ReviewedPaymentStatus(p, d)
      BY <1>4 DEF BeginReview
    <2>2. CallCredited(call)
      BY <2>1 DEF CallCredited, ReviewedPaymentStatus
    <2>3. QED
      BY <1>4, <2>1, <2>2, CreditAtStart DEF BeginReview, settlementVars
  <1>5. CASE CommitReview(c)
    <2> DEFINE p == calls[c].payment
               row == [payments[p] EXCEPT !.status = calls[c].decision,
                                          !.version = @ + 1,
                                          !.reviewedBy = calls[c].reviewer]
    <2>1. p \in PaymentIds /\ payments[p] \in PaymentRow
      BY <1>1, <1>5 DEF CommitReview, CallTyped, BooksType
    <2>2. payments[p].status # "APPROVED"
      BY <1>1, <1>5 DEF CommitReview, NotReviewedSince, Reviewable, CallTyped
    <2>3. payments' = [payments EXCEPT ![p] = row] /\ row.status = calls[c].decision
      BY <1>1, <1>5, <2>1 DEF CommitReview, BooksType, PaymentRow
    <2>4. waybill'.payment = calls[c].newPayment
      BY <1>1, <1>5 DEF CommitReview, WriteWaybill, Shape, Fields
    <2> HIDE DEF row
    <2>5. Approved # {} => Approved' # {}
      BY <2>2, <2>3, CreditStays DEF Approved
    <2>6. waybill'.payment = "APPROVED" => p \in Approved'
      BY <1>1, <1>5, <2>1, <2>3, <2>4
      DEF CallCredited, CommitReview, Approved, BooksType
    <2>7. QED
      BY <1>5, <2>5, <2>6, CreditAtFinish DEF CommitReview
  <1>6. ASSUME NEW v \in Values, BeginCorrect(c, v)
        PROVE  Credited'
    <2>1. PICK call : /\ Start(c, call)
                      /\ call.op = "correct"
                      /\ call.newPayment = CorrectedPaymentStatus(v)
      BY <1>6 DEF BeginCorrect
    <2>2. CorrectedPaymentStatus(v) = "APPROVED" => Approved # {}
      <3>1. TotalOf({}) = 0
        BY SumEmpty DEF TotalOf
      <3>2. v \in Nat /\ v > 0
        BY SettlementAssumption
      <3>3. Approved = {} => v > TotalOf(Approved)
        BY <3>1, <3>2
      <3>4. QED
        BY <3>3 DEF CorrectedPaymentStatus
    <2>3. CallCredited(call)
      BY <2>1, <2>2 DEF CallCredited
    <2>4. QED
      BY <1>6, <2>1, <2>3, CreditAtStart DEF BeginCorrect, settlementVars
  <1>7. ASSUME NEW a \in AmountIds, CommitCorrect(c, a)
        PROVE  Credited'
    <2>1. waybill'.payment = calls[c].newPayment
      BY <1>1, <1>7 DEF CommitCorrect, WriteWaybill, Bump, Shape, Fields
    <2>2. Approved' = Approved /\ Finish(c) /\ calls[c].op = "correct"
      BY <1>7 DEF CommitCorrect, Approved
    <2>3. QED
      BY <1>1, <2>1, <2>2, CreditAtFinish DEF CallCredited
  <1>8. QED
    BY <1>2, <1>3, <1>4, <1>5, <1>6, <1>7 DEF SettlementStep

\* The refunds.
LEMMA RefundCredits ==
  ASSUME Inv, Books, Credited, NEW c \in Callers, RefundStep(c)
  PROVE  Credited'
  <1>1. Shape /\ CallCredited(calls[c])
    BY DEF Inv, Credited
  <1>2. ASSUME UNCHANGED payments PROVE Approved' = Approved
    BY <1>2 DEF Approved
  <1>3. ASSUME NEW call, Start(c, call), UNCHANGED <<waybill, payments>>,
               call.op \in {"recordRefund", "approveRefund"}
        PROVE  Credited'
    <2>1. CallCredited(call)
      BY <1>3 DEF CallCredited
    <2>2. QED
      BY <1>3, <2>1, CreditAtStart
  <1>4. ASSUME NEW x, Finish(c), UNCHANGED payments,
               WriteWaybill(Bump([waybill EXCEPT !.payment = x])),
               x = "APPROVED" => Approved # {}
        PROVE  Credited'
    <2>1. waybill'.payment = x
      BY <1>1, <1>4 DEF WriteWaybill, Bump, Shape, Fields
    <2>2. QED
      BY <1>2, <1>4, <2>1, CreditAtFinish
  <1>5. CASE \/ \E n \in Values, by \in Staff : BeginRecordRefund(c, n, by)
             \/ \E r \in RefundIds, by \in Staff : BeginApproveRefund(c, r, by)
    BY <1>3, <1>5 DEF BeginRecordRefund, BeginApproveRefund, settlementVars
  <1>6. ASSUME NEW r \in RefundIds, CommitRecordRefund(c, r) PROVE Credited'
    BY <1>4, <1>6 DEF CommitRecordRefund, settlementVars
  <1>7. CASE CommitApproveRefund(c)
    BY <1>4, <1>7 DEF CommitApproveRefund, settlementVars
  <1>8. ASSUME NEW r \in RefundIds, NEW by \in Staff, BeginRejectRefund(c, r, by)
        PROVE  Credited'
    <2> DEFINE call == [op |-> "rejectRefund", refund |-> r, by |-> by,
                        seenApproved |-> Approved # {}]
    <2>1. call.seenApproved => Approved # {}
      BY Zenon
    <2>2. call.op = "rejectRefund"
      BY Zenon
    <2>3. Start(c, call) /\ UNCHANGED <<waybill, payments>>
      BY <1>8, Zenon DEF BeginRejectRefund, settlementVars
    <2> HIDE DEF call
    <2>4. CallCredited(call)
      BY <2>1, <2>2, Zenon DEF CallCredited
    <2>5. QED
      BY <2>3, <2>4, CreditAtStart
  <1>9. CASE CommitRejectRefund(c)
    <2> DEFINE x == IF calls[c].seenApproved THEN "APPROVED" ELSE "SUBMITTED"
    <2>1. Finish(c) /\ UNCHANGED payments /\ calls[c].op = "rejectRefund"
      BY <1>9, Zenon DEF CommitRejectRefund, settlementVars
    <2>2. UNCHANGED waybill \/ WriteWaybill(Bump([waybill EXCEPT !.payment = x]))
      BY <1>9, Zenon DEF CommitRejectRefund
    <2>3. x = "APPROVED" => Approved # {}
      BY <1>1, <2>1 DEF CallCredited
    <2> HIDE DEF x
    <2>4. QED
      BY <1>2, <1>4, <2>1, <2>2, <2>3, CreditAtFinish
  <1>10. QED
    BY <1>5, <1>6, <1>7, <1>8, <1>9 DEF RefundStep

\* The others write neither payments nor the payment axis.
LEMMA OtherCredits ==
  ASSUME Inv, Books, Credited, NEW c \in Callers, UNCHANGED payments,
         ReleaseStep(c) \/ ShipmentStep(c) \/ RollbackStep(c) \/ CommitmentStep(c)
  PROVE  Credited'
  <1>1. Shape /\ Approved' = Approved
    BY DEF Inv, Approved
  <1>2. ASSUME NEW call, Start(c, call), UNCHANGED waybill,
               call.op \notin {"review", "correct", "rejectRefund"}
        PROVE  Credited'
    BY <1>2, CreditAtStart DEF CallCredited
  <1>3. ASSUME Finish(c), waybill'.payment = waybill.payment
        PROVE  Credited'
    BY <1>1, <1>3, CreditAtFinish
  <1>4. ASSUME NEW x, Finish(c),
               \/ WriteWaybill(Bump([waybill EXCEPT !.release = x]))
               \/ WriteWaybill(Bump([waybill EXCEPT !.shipment = x]))
               \/ WriteWaybill(Bump([waybill EXCEPT !.document = x]))
               \/ WriteWaybill(Bump([waybill EXCEPT !.commitment = x]))
        PROVE  Credited'
    BY <1>1, <1>3, <1>4 DEF WriteWaybill, Bump, Shape, Fields
  <1>5. CASE ReleaseStep(c)
    <2>1. CASE BeginAuthorize(c) \/ BeginRevoke(c)
               \/ \E s \in Sessions \cup {None} : BeginGrant(c, s)
      BY <1>2, <2>1 DEF BeginAuthorize, BeginRevoke, BeginGrant
    <2>2. CASE CommitRevoke(c) \/ \E a \in AuthIds : CommitAuthorize(c, a)
      BY <1>4, <2>2 DEF CommitRevoke, CommitAuthorize
    <2>3. CASE CommitGrant(c)
      BY <1>3, <1>4, <2>3 DEF CommitGrant
    <2>4. QED
      BY <1>5, <2>1, <2>2, <2>3 DEF ReleaseStep
  <1>6. CASE ShipmentStep(c)
    BY <1>2, <1>4, <1>6
    DEF ShipmentStep, BeginShipment, CommitShipment, BeginDocument, CommitDocument
  <1>7. CASE RollbackStep(c)
    BY <1>3, <1>7 DEF RollbackStep, Rollback
  <1>8. CASE CommitmentStep(c)
    <2>1. CASE BeginAccept(c) \/ BeginDecline(c) \/ \E v \in Versions : RetireVersions(c, v)
      BY <1>2, <2>1 DEF BeginAccept, BeginDecline, RetireVersions
    <2>2. CASE CommitAccept(c) \/ CommitDecline(c)
      BY <1>4, <2>2 DEF CommitAccept, CommitDecline
    <2>3. CASE ActivateVersion(c)
      BY <1>3, <2>3 DEF ActivateVersion
    <2>4. QED
      BY <1>8, <2>1, <2>2, <2>3 DEF CommitmentStep
  <1>9. QED
    BY <1>5, <1>6, <1>7, <1>8

LEMMA CreditedInit == LifeInit => Credited
  BY DEF LifeInit, Init, InitSettlement, InitialRow, Credited, PaidWasCredited,
         CallCredited, Idle

LEMMA CreditedStep == Inv /\ Books /\ Credited /\ [LifeNext]_lifeVars => Credited'
  <1> SUFFICES ASSUME Inv, Books, Credited, [LifeNext]_lifeVars PROVE Credited'
    OBVIOUS
  <1>1. CASE UNCHANGED <<waybill, calls, payments>>
    BY <1>1 DEF Credited, CallCredited, PaidWasCredited, Approved
  <1>2. CASE UNCHANGED lifeVars
    BY <1>1, <1>2 DEF lifeVars, vars, settlementVars
  <1>3. CASE Next
    <2>1. ASSUME NEW s \in Sessions, SessionStep(s) PROVE Credited'
      BY <1>1, <2>1 DEF SessionStep, EndSession, settlementVars
    <2>2. ASSUME NEW c \in Callers, ReleaseStep(c) \/ ShipmentStep(c) \/ RollbackStep(c)
          PROVE  Credited'
      <3>1. UNCHANGED payments
        BY <2>2 DEF ReleaseStep, ShipmentStep, RollbackStep, settlementVars
      <3>2. QED
        BY <2>2, <3>1, OtherCredits
    <2>3. QED
      BY <1>3, <2>1, <2>2, SettlementCredits DEF Next
  <1>4. ASSUME NEW c \in Callers, CommitmentStep(c) PROVE Credited'
    BY <1>4, OtherCredits DEF CommitmentStep, settlementVars
  <1>5. QED
    BY <1>2, <1>3, <1>4, RefundCredits DEF LifeNext

\* A waybill is shown as paid only after a payment of it was approved, whatever
\* calls overlap (reviewPayment, correctWaybillAmount, rejectRefund).
THEOREM PaidIsCredited == LifeSpec => []PaidWasCredited
  <1>1. Credited => PaidWasCredited
    BY DEF Credited
  <1>2. QED
    BY <1>1, CreditedInit, CreditedStep, InvAlways, BooksAlways, PTL DEF LifeSpec

-----------------------------------------------------------------------------
(* The calls of a waybill that do not overlap.                             *)

NoOverlap == \A c, d \in Callers : c = d

\* What a call in flight has read is still so.
Fresh(call) ==
  /\ call.op = "submit" => (call.eligible => call.method = "GATEWAY")
  /\ call.op = "review" =>
       /\ call.decision = "APPROVED" => MayApprove(call.payment)
       /\ call.newPayment = ReviewedPaymentStatus(call.payment, call.decision)
       /\ call.newRelease = ReviewedReleaseStatus(call.payment, call.decision)
  /\ call.op = "correct" =>
       /\ call.newPayment = CorrectedPaymentStatus(call.amount)
       /\ call.newRelease = CorrectedReleaseStatus(call.amount)
  /\ call.op = "revoke" =>
       call.authorization = IF NoneActive THEN None
                            ELSE CHOOSE a \in ActiveAuthorizations : TRUE
  /\ call.op = "grant" =>
       /\ call.advance => waybill.release = "AUTHORIZED"
       /\ InForce(waybill)
  /\ call.op \in {"approveRefund", "rejectRefund"} => Decidable(call.refund)
  /\ call.op = "rejectRefund" => (Approved # {} => call.seenApproved)

\* What the payment axis says of the payments, the refunds and the amount.
AxisMeans ==
  /\ waybill.payment \in {"SUBMITTED", "UNDER_REVIEW"} => ReviewQueue # {}
  /\ waybill.payment = "REFUND_RECORDED" =>
       \E r \in RefundIds : refunds[r].status = "RECORDED"
  /\ waybill.payment = "RESIDUAL_DUE" => TotalOf(Approved) < PayableAmount
  /\ StoredRefunds # {} => Approved # {}

Solo ==
  /\ \A c \in Callers : Fresh(calls[c])
  /\ authorizations = [a \in AuthIds |-> authorizations[a]]
  /\ OneActiveAuthorization
  /\ ReleasedIsAuthorized
  /\ AxisMeans

-----------------------------------------------------------------------------
(* What the steps do to the rows, by the rows they touch.                  *)

\* A call begins: it has read, and nothing is written.
Begun ==
  /\ UNCHANGED <<waybill, amounts, payments, refunds, authorizations>>
  /\ \A c \in Callers : Fresh(calls'[c])

\* Neither the money nor the release axis is written.
Elsewhere ==
  /\ UNCHANGED <<amounts, payments, refunds, authorizations>>
  /\ waybill'.payment = waybill.payment
  /\ waybill'.release = waybill.release

Submitted(p) ==
  /\ UNCHANGED <<amounts, refunds, authorizations>>
  /\ payments[p] = NoPayment
  /\ \E row : payments' = [payments EXCEPT ![p] = row]
  /\ waybill'.payment = payments'[p].status
  /\ \/ /\ waybill'.payment = "SUBMITTED"
        /\ waybill'.release = waybill.release
     \/ /\ waybill'.payment = "APPROVED"
        /\ "GATEWAY" \in Methods
        /\ waybill'.release \in {waybill.release, "ELIGIBLE"}

Reviewed(p, decision) ==
  /\ UNCHANGED <<amounts, refunds, authorizations>>
  /\ payments[p].status \in Reviewable
  /\ decision = "APPROVED" => MayApprove(p)
  /\ \E row : payments' = [payments EXCEPT ![p] = row]
  /\ payments'[p].status = decision
  /\ payments'[p].amount = payments[p].amount
  /\ payments'[p] # payments[p]
  /\ waybill'.payment = ReviewedPaymentStatus(p, decision)
  /\ waybill'.release = ReviewedReleaseStatus(p, decision)

Corrected(value) ==
  /\ UNCHANGED <<payments, refunds, authorizations>>
  /\ amounts' # amounts
  /\ PayableAmount' = value
  /\ waybill'.payment = CorrectedPaymentStatus(value)
  /\ waybill'.release = CorrectedReleaseStatus(value)

RefundMoved(r) ==
  /\ UNCHANGED <<amounts, payments, authorizations>>
  /\ \E row : refunds' = [refunds EXCEPT ![r] = row]
  /\ refunds'[r] # refunds[r]
  /\ waybill'.release = waybill.release
  /\ Approved # {}
  /\ \/ /\ refunds'[r].status = "RECORDED"
        /\ waybill'.payment = "REFUND_RECORDED"
     \/ waybill'.payment = "REFUND_SETTLED"
     \/ /\ refunds[r].status = "RECORDED"
        /\ refunds'[r].status = "REJECTED"
        /\ \/ waybill'.payment = "APPROVED"
           \/ /\ waybill'.payment = waybill.payment
              /\ \E s \in RefundIds \ {r} : refunds[s].status = "RECORDED"

Delivery ==
  /\ UNCHANGED <<amounts, payments, refunds>>
  /\ waybill'.payment = waybill.payment
  /\ authorizations' = [a \in AuthIds |-> authorizations'[a]]
  /\ \/ \E a : ActiveAuthorizations' = {a} /\ InForce(waybill')
     \/ ActiveAuthorizations' = {} /\ ~InForce(waybill')
     \/ UNCHANGED authorizations /\ InForce(waybill) /\ InForce(waybill')

Effect ==
  \/ Begun
  \/ /\ \A c \in Callers : calls'[c] = Idle
     /\ \/ Elsewhere
        \/ \E p \in PaymentIds : Submitted(p)
        \/ \E p \in PaymentIds, d \in Decisions : Reviewed(p, d)
        \/ \E v \in Nat : Corrected(v)
        \/ \E r \in RefundIds : RefundMoved(r)
        \/ Delivery

\* The only call ends.
LEMMA SoloFinish ==
  ASSUME NoOverlap, BooksType, NEW c \in Callers, Finish(c)
  PROVE  \A d \in Callers : calls'[d] = Idle
  BY DEF NoOverlap, BooksType, Finish

\* The only call begins.
LEMMA SoloStart ==
  ASSUME NoOverlap, BooksType, NEW c \in Callers, NEW call, Start(c, call)
  PROVE  \A d \in Callers : calls'[d] = call
  BY DEF NoOverlap, BooksType, Start

\* A call that begins with what it has read is one effect.
LEMMA SoloBegin ==
  ASSUME NoOverlap, BooksType, NEW c \in Callers, NEW call, Start(c, call), Fresh(call),
         UNCHANGED <<waybill, amounts, payments, refunds, authorizations>>
  PROVE  Effect
  <1>1. \A d \in Callers : calls'[d] = call
    BY SoloStart
  <1>2. Begun
    BY <1>1 DEF Begun
  <1>3. QED
    BY <1>2 DEF Effect

\* What submitWaybillPayment does.
LEMMA SubmitEffect ==
  ASSUME NoOverlap, Inv, Books, Solo, UNCHANGED <<refunds, authorizations>>,
         NEW c \in Callers,
         \/ \E m \in Methods, a \in StoredAmounts : BeginSubmit(c, m, a)
         \/ \E p \in PaymentIds : CommitSubmit(c, p)
  PROVE  Effect
  <1>1. BooksType
    BY DEF Books
  <1>2. ASSUME NEW m \in Methods, NEW a \in StoredAmounts, BeginSubmit(c, m, a)
        PROVE  Effect
    <2> DEFINE ready == m = "GATEWAY" /\ DocVerified(waybill) /\ CommitmentAccepted(waybill)
               call == [op |-> "submit", method |-> m, amount |-> amounts[a].value,
                        amountId |-> CurrentAmount, eligible |-> ready]
    <2>1. Start(c, call)
      BY <1>2 DEF BeginSubmit
    <2>2. UNCHANGED <<waybill, amounts, payments>>
      BY <1>2 DEF BeginSubmit, settlementVars
    <2>3. call.op = "submit" /\ call.method = m /\ call.eligible = ready
      OBVIOUS
    <2>4. ready => m = "GATEWAY"
      OBVIOUS
    <2> HIDE DEF call, ready
    <2>5. Fresh(call)
      BY <2>3, <2>4, Zenon DEF Fresh
    <2>6. QED
      BY <1>1, <2>1, <2>2, <2>5, SoloBegin
  <1>3. ASSUME NEW p \in PaymentIds, CommitSubmit(c, p)
        PROVE  Effect
    <2> DEFINE status == IF calls[c].method = "GATEWAY" THEN "APPROVED" ELSE "SUBMITTED"
               row == [status |-> status,
                       method |-> calls[c].method, amount |-> calls[c].amount,
                       amountId |-> calls[c].amountId, reviewedBy |-> None, version |-> 1]
               release == IF calls[c].eligible THEN "ELIGIBLE" ELSE waybill.release
    <2>1. /\ calls[c].op = "submit" /\ payments[p] = NoPayment /\ UNCHANGED amounts
          /\ payments' = [payments EXCEPT ![p] = row]
          /\ WriteWaybill([waybill EXCEPT !.payment = status, !.release = release])
          /\ Finish(c)
      BY <1>3 DEF CommitSubmit
    <2>2. \A d \in Callers : calls'[d] = Idle
      BY <1>1, <2>1, SoloFinish
    <2>3. payments'[p] = row /\ row.status = status
      BY <1>1, <2>1 DEF BooksType
    <2>4. waybill'.payment = status /\ waybill'.release = release
      BY <2>1 DEF WriteWaybill, Inv, Shape, Fields
    <2>5. calls[c].method \in Methods /\ Fresh(calls[c])
      BY <1>1, <2>1 DEF BooksType, CallTyped, Solo
    <2>6. calls[c].eligible => calls[c].method = "GATEWAY"
      BY <2>1, <2>5 DEF Fresh
    <2> HIDE DEF row
    <2>7. CASE calls[c].method = "GATEWAY"
      <3>1. status = "APPROVED" /\ "GATEWAY" \in Methods
        BY <2>5, <2>7
      <3>2. release \in {waybill.release, "ELIGIBLE"}
        OBVIOUS
      <3> HIDE DEF release, status
      <3>3. Submitted(p)
        BY <2>1, <2>3, <2>4, <3>1, <3>2, Zenon DEF Submitted
      <3>4. QED
        BY <2>2, <3>3 DEF Effect
    <2>8. CASE calls[c].method # "GATEWAY"
      <3>1. status = "SUBMITTED" /\ release = waybill.release
        BY <2>6, <2>8, Zenon
      <3> HIDE DEF release, status
      <3>2. Submitted(p)
        BY <2>1, <2>3, <2>4, <3>1, Zenon DEF Submitted
      <3>3. QED
        BY <2>2, <3>2 DEF Effect
    <2>9. QED
      BY <2>7, <2>8
  <1>4. QED
    BY <1>2, <1>3

\* What reviewPayment does.
LEMMA ReviewEffect ==
  ASSUME NoOverlap, Inv, Books, Solo, UNCHANGED <<refunds, authorizations>>,
         NEW c \in Callers,
         \/ \E p \in PaymentIds, d \in Decisions, r \in Reviewers :
              \E v \in 1 .. payments[p].version : BeginReview(c, p, d, r, v)
         \/ CommitReview(c)
  PROVE  Effect
  <1>1. BooksType
    BY DEF Books
  <1>2. ASSUME NEW p \in PaymentIds, NEW d \in Decisions, NEW r \in Reviewers, NEW v,
               BeginReview(c, p, d, r, v)
        PROVE  Effect
    <2>1. PICK call : /\ Start(c, call)
                      /\ call.op = "review" /\ call.payment = p /\ call.decision = d
                      /\ call.newPayment = ReviewedPaymentStatus(p, d)
                      /\ call.newRelease = ReviewedReleaseStatus(p, d)
      BY <1>2 DEF BeginReview
    <2>2. d = "APPROVED" => MayApprove(p)
      BY <1>2 DEF BeginReview
    <2>3. Fresh(call)
      BY <2>1, <2>2 DEF Fresh
    <2>4. UNCHANGED <<waybill, amounts, payments>>
      BY <1>2 DEF BeginReview, settlementVars
    <2>5. QED
      BY <1>1, <2>1, <2>3, <2>4, SoloBegin
  <1>3. CASE CommitReview(c)
    <2> DEFINE p == calls[c].payment
               d == calls[c].decision
               row == [payments[p] EXCEPT !.status = d, !.version = @ + 1,
                                          !.reviewedBy = calls[c].reviewer]
    <2>1. /\ calls[c].op = "review" /\ NotReviewedSince(calls[c]) /\ UNCHANGED amounts
          /\ payments' = [payments EXCEPT ![p] = row]
          /\ WriteWaybill([waybill EXCEPT !.payment = calls[c].newPayment,
                                          !.release = calls[c].newRelease])
          /\ Finish(c)
      BY <1>1, <1>3 DEF CommitReview, BooksType
    <2>2. \A e \in Callers : calls'[e] = Idle
      BY <1>1, <2>1, SoloFinish
    <2>3. /\ p \in PaymentIds /\ d \in Decisions
          /\ payments[p].status \in Reviewable
      BY <1>1, <2>1 DEF BooksType, CallTyped, NotReviewedSince
    <2>4. /\ payments'[p] = row /\ row.status = d /\ row.amount = payments[p].amount
          /\ row # payments[p]
      <3>1. payments[p] \in PaymentRow /\ payments'[p] = row
        BY <1>1, <2>1, <2>3 DEF BooksType
      <3>2. /\ row.status = d /\ row.amount = payments[p].amount
            /\ row.version = payments[p].version + 1 /\ payments[p].version \in Nat
        BY <3>1 DEF PaymentRow
      <3>3. row.version # payments[p].version
        BY <3>2
      <3>4. QED
        BY <3>1, <3>2, <3>3
    <2>5. Fresh(calls[c])
      BY DEF Solo
    <2>6. /\ d = "APPROVED" => MayApprove(p)
          /\ calls[c].newPayment = ReviewedPaymentStatus(p, d)
          /\ calls[c].newRelease = ReviewedReleaseStatus(p, d)
      BY <2>1, <2>5 DEF Fresh
    <2>7. /\ waybill'.payment = calls[c].newPayment
          /\ waybill'.release = calls[c].newRelease
      BY <2>1 DEF WriteWaybill, Inv, Shape, Fields
    <2> HIDE DEF row, d, p
    <2>8. Reviewed(p, d)
      BY <2>1, <2>3, <2>4, <2>6, <2>7 DEF Reviewed
    <2>9. QED
      BY <2>2, <2>3, <2>8 DEF Effect
  <1>4. QED
    BY <1>2, <1>3

\* What correctWaybillAmount does.
LEMMA CorrectEffect ==
  ASSUME NoOverlap, Inv, Books, Solo, UNCHANGED <<refunds, authorizations>>,
         NEW c \in Callers,
         \/ \E v \in Values : BeginCorrect(c, v)
         \/ \E a \in AmountIds : CommitCorrect(c, a)
  PROVE  Effect
  <1>1. BooksType
    BY DEF Books
  <1>2. ASSUME NEW v \in Values, BeginCorrect(c, v)
        PROVE  Effect
    <2>1. PICK call : /\ Start(c, call)
                      /\ call.op = "correct" /\ call.amount = v
                      /\ call.newPayment = CorrectedPaymentStatus(v)
                      /\ call.newRelease = CorrectedReleaseStatus(v)
      BY <1>2 DEF BeginCorrect
    <2>2. Fresh(call)
      BY <2>1 DEF Fresh
    <2>3. UNCHANGED <<waybill, amounts, payments>>
      BY <1>2 DEF BeginCorrect, settlementVars
    <2>4. QED
      BY <1>1, <2>1, <2>2, <2>3, SoloBegin
  <1>3. ASSUME NEW a \in AmountIds, CommitCorrect(c, a)
        PROVE  Effect
    <2> DEFINE value == calls[c].amount
    <2>1. /\ calls[c].op = "correct" /\ a \notin StoredAmounts
          /\ UniqueCurrent(calls[c].oldAmount) /\ UNCHANGED payments
          /\ amounts' = [b \in AmountIds |->
               IF b = a THEN [value |-> value, isCurrent |-> TRUE]
               ELSE IF b = calls[c].oldAmount THEN [amounts[b] EXCEPT !.isCurrent = FALSE]
               ELSE amounts[b]]
          /\ WriteWaybill(Bump([waybill EXCEPT !.currentAmount = a,
                                               !.payment = calls[c].newPayment,
                                               !.release = calls[c].newRelease]))
          /\ Finish(c)
      BY <1>3 DEF CommitCorrect
    <2>2. \A d \in Callers : calls'[d] = Idle
      BY <1>1, <2>1, SoloFinish
    <2>3. value \in Nat \ {0}
      BY <1>1, <2>1, SettlementAssumption DEF BooksType, CallTyped
    <2>4. CallsStayTyped
      BY <1>1, <2>1, FinishTyped
    <2>5. CurrentAmounts' = {a} /\ amounts'[a].value = value /\ amounts' # amounts
      BY <2>1, <2>3, <2>4, AmountWritten
    <2>6. PayableAmount' = value
      <3>1. CurrentAmount' = a
        BY <2>5 DEF CurrentAmount
      <3>2. QED
        BY <2>5, <3>1 DEF PayableAmount
    <2>7. Fresh(calls[c])
      BY DEF Solo
    <2>8. /\ calls[c].newPayment = CorrectedPaymentStatus(value)
          /\ calls[c].newRelease = CorrectedReleaseStatus(value)
      BY <2>1, <2>7 DEF Fresh
    <2>9. /\ waybill'.payment = calls[c].newPayment
          /\ waybill'.release = calls[c].newRelease
      BY <2>1 DEF WriteWaybill, Bump, Inv, Shape, Fields
    <2> HIDE DEF value
    <2>10. Corrected(value)
      BY <2>1, <2>5, <2>6, <2>8, <2>9 DEF Corrected
    <2>11. QED
      BY <2>2, <2>3, <2>10 DEF Effect
  <1>4. QED
    BY <1>2, <1>3

\* A refund counts only where a payment was approved.
LEMMA RefundNeedsApproval ==
  ASSUME Books, NEW r, NEW amount \in Nat \ {0}, BelowCeiling(r, amount)
  PROVE  Approved # {}
  <1>1. ClaimedAmount(Claimed \ {r}) \in Nat
    <2> DEFINE C == Claimed \ {r}
               f == [s \in RefundIds |-> refunds[s].amount]
    <2>1. C \subseteq StoredRefunds /\ C \subseteq RefundIds
      BY DEF Claimed, StoredRefunds
    <2>2. IsFiniteSet(C)
      BY <2>1, FS_Subset DEF Books
    <2>3. \A s \in C : f[s] \in Nat
      BY <2>1 DEF Books, BooksType, RefundRow
    <2>4. ClaimedAmount(C) = SumFunctionOnSet(f, C)
      BY DEF ClaimedAmount
    <2> HIDE DEF f, C
    <2>5. ClaimedAmount(C) \in Nat
      BY <2>2, <2>3, <2>4, SumNat
    <2>6. QED
      BY <2>5 DEF C
  <1>2. SUFFICES ASSUME Approved = {} PROVE FALSE
    OBVIOUS
  <1>3. TotalOf(Approved) = 0
    BY <1>2, SumEmpty DEF TotalOf
  <1>4. QED
    BY <1>1, <1>3 DEF BelowCeiling

\* What recordRefund, approveRefund and rejectRefund do.
LEMMA RefundEffect ==
  ASSUME NoOverlap, Inv, Books, Solo, NEW c \in Callers, RefundStep(c)
  PROVE  Effect
  <1>1. BooksType /\ UNCHANGED authorizations
    BY DEF Books, RefundStep, releaseVars
  <1>2. ASSUME NEW call, Start(c, call), UNCHANGED <<waybill, settlementVars, refundVars>>,
               call.op \in {"recordRefund", "approveRefund", "rejectRefund"},
               call.op \in {"approveRefund", "rejectRefund"} => Decidable(call.refund),
               call.op = "rejectRefund" => (Approved # {} => call.seenApproved)
        PROVE  Effect
    <2>1. Fresh(call)
      BY <1>2 DEF Fresh
    <2>2. QED
      BY <1>1, <1>2, <2>1, SoloBegin DEF settlementVars, refundVars
  <1>3. ASSUME NEW n, NEW by, BeginRecordRefund(c, n, by)
        PROVE  Effect
    BY <1>2, <1>3 DEF BeginRecordRefund
  <1>4. ASSUME NEW r \in RefundIds, CommitRecordRefund(c, r)
        PROVE  Effect
    <2> DEFINE row == [status |-> "RECORDED", amount |-> calls[c].amount,
                       recordedBy |-> calls[c].by, approvedBy |-> None]
    <2>1. /\ calls[c].op = "recordRefund" /\ refunds[r] = NoRefund
          /\ BelowCeiling(r, calls[c].amount)
          /\ refunds' = [refunds EXCEPT ![r] = row]
          /\ WriteWaybill(Bump([waybill EXCEPT !.payment = "REFUND_RECORDED"]))
          /\ Finish(c) /\ UNCHANGED <<amounts, payments>>
      BY <1>4 DEF CommitRecordRefund, settlementVars
    <2>2. \A d \in Callers : calls'[d] = Idle
      BY <1>1, <2>1, SoloFinish
    <2>3. calls[c].amount \in Nat \ {0}
      BY <1>1, <2>1 DEF BooksType, CallTyped
    <2>4. Approved # {}
      BY <2>1, <2>3, RefundNeedsApproval
    <2>5. refunds'[r] = row /\ row.status = "RECORDED" /\ refunds[r].status = "ABSENT"
      BY <1>1, <2>1 DEF BooksType, NoRefund
    <2>6. waybill'.payment = "REFUND_RECORDED" /\ waybill'.release = waybill.release
      BY <2>1 DEF WriteWaybill, Bump, Inv, Shape, Fields
    <2> HIDE DEF row
    <2>7. RefundMoved(r)
      BY <1>1, <2>1, <2>4, <2>5, <2>6 DEF RefundMoved
    <2>8. QED
      BY <2>2, <2>7 DEF Effect
  <1>5. ASSUME NEW r \in RefundIds, NEW status, NEW by, DecideRefund(r, status, by),
               Decidable(r)
        PROVE  /\ \E row : refunds' = [refunds EXCEPT ![r] = row]
               /\ refunds[r].status = "RECORDED" /\ refunds'[r].status = status
               /\ Approved # {}
    <2> DEFINE row == [refunds[r] EXCEPT !.status = status, !.approvedBy = by]
    <2>1. refunds[r] \in RefundRow /\ refunds[r].status = "RECORDED"
      BY <1>1, <1>5 DEF BooksType, Decidable
    <2>2. refunds' = [refunds EXCEPT ![r] = row]
      BY <1>1, <1>5 DEF DecideRefund, BooksType
    <2>3. refunds'[r] = row
      BY <1>1, <2>2 DEF BooksType
    <2>4. row.status = status
      BY <2>1 DEF RefundRow
    <2>5. Approved # {}
      <3>1. r \in StoredRefunds
        BY <2>1 DEF StoredRefunds
      <3>2. QED
        BY <3>1 DEF Solo, AxisMeans
    <2> HIDE DEF row
    <2>6. QED
      BY <2>1, <2>2, <2>3, <2>4, <2>5
  <1>6. ASSUME NEW r, NEW by, BeginApproveRefund(c, r, by)
        PROVE  Effect
    BY <1>2, <1>6 DEF BeginApproveRefund
  <1>7. CASE CommitApproveRefund(c)
    <2> DEFINE r == calls[c].refund
    <2>1. /\ calls[c].op = "approveRefund"
          /\ DecideRefund(r, "SUPERVISOR_APPROVED", calls[c].by)
          /\ WriteWaybill(Bump([waybill EXCEPT !.payment = "REFUND_SETTLED"]))
          /\ Finish(c) /\ UNCHANGED <<amounts, payments>>
      BY <1>7 DEF CommitApproveRefund, settlementVars
    <2>2. \A d \in Callers : calls'[d] = Idle
      BY <1>1, <2>1, SoloFinish
    <2>3. r \in RefundIds /\ Decidable(r)
      <3>1. Fresh(calls[c]) /\ CallTyped(calls[c])
        BY <1>1 DEF Solo, BooksType
      <3>2. QED
        BY <2>1, <3>1 DEF Fresh, CallTyped
    <2>4. /\ \E row : refunds' = [refunds EXCEPT ![r] = row]
          /\ refunds[r].status = "RECORDED" /\ refunds'[r].status = "SUPERVISOR_APPROVED"
          /\ Approved # {}
      BY <1>5, <2>1, <2>3
    <2>5. waybill'.payment = "REFUND_SETTLED" /\ waybill'.release = waybill.release
      BY <2>1 DEF WriteWaybill, Bump, Inv, Shape, Fields
    <2> HIDE DEF r
    <2>6. RefundMoved(r)
      BY <1>1, <2>1, <2>4, <2>5 DEF RefundMoved
    <2>7. QED
      BY <2>2, <2>3, <2>6 DEF Effect
  <1>8. ASSUME NEW r, NEW by, BeginRejectRefund(c, r, by)
        PROVE  Effect
    <2> DEFINE seen == Approved # {}
               call == [op |-> "rejectRefund", refund |-> r, by |-> by,
                        seenApproved |-> seen]
    <2>1. /\ Decidable(r) /\ Start(c, call)
          /\ UNCHANGED <<waybill, settlementVars, refundVars>>
      BY <1>8 DEF BeginRejectRefund
    <2>2. call.op = "rejectRefund" /\ call.refund = r /\ call.seenApproved = seen
      OBVIOUS
    <2>3. seen <=> Approved # {}
      OBVIOUS
    <2> HIDE DEF call, seen
    <2>4. Approved # {} => call.seenApproved
      BY <2>2, <2>3, Zenon
    <2>5. QED
      BY <1>2, <2>1, <2>2, <2>4, Zenon
  <1>9. CASE CommitRejectRefund(c)
    <2> DEFINE r == calls[c].refund
               others == {s \in RefundIds \ {r} : refunds[s].status = "RECORDED"}
               axis == IF calls[c].seenApproved THEN "APPROVED" ELSE "SUBMITTED"
    <2>1. /\ calls[c].op = "rejectRefund"
          /\ DecideRefund(r, "REJECTED", calls[c].by)
          /\ IF others = {} THEN WriteWaybill(Bump([waybill EXCEPT !.payment = axis]))
                            ELSE UNCHANGED waybill
          /\ Finish(c) /\ UNCHANGED <<amounts, payments>>
      BY <1>9 DEF CommitRejectRefund, settlementVars
    <2>2. \A d \in Callers : calls'[d] = Idle
      BY <1>1, <2>1, SoloFinish
    <2>3. Fresh(calls[c]) /\ CallTyped(calls[c])
      BY <1>1 DEF Solo, BooksType
    <2>4. r \in RefundIds /\ Decidable(r)
      BY <2>1, <2>3 DEF Fresh, CallTyped
    <2>5. /\ \E row : refunds' = [refunds EXCEPT ![r] = row]
          /\ refunds[r].status = "RECORDED" /\ refunds'[r].status = "REJECTED"
          /\ Approved # {}
      BY <1>5, <2>1, <2>4
    <2>6. axis = "APPROVED"
      <3>1. Approved # {} => calls[c].seenApproved
        BY <2>1, <2>3, Zenon DEF Fresh
      <3>2. QED
        BY <2>5, <3>1, Zenon
    <2>7. CASE others = {}
      <3>1. WriteWaybill(Bump([waybill EXCEPT !.payment = axis]))
        BY <2>1, <2>7
      <3> HIDE DEF axis
      <3>2. waybill'.payment = axis /\ waybill'.release = waybill.release
        BY <3>1 DEF WriteWaybill, Bump, Inv, Shape, Fields
      <3> HIDE DEF r, others
      <3>3. RefundMoved(r)
        BY <1>1, <2>1, <2>5, <2>6, <3>2 DEF RefundMoved
      <3>4. QED
        BY <2>2, <2>4, <3>3 DEF Effect
    <2>8. CASE others # {}
      <3>1. UNCHANGED waybill /\ \E s \in RefundIds \ {r} : refunds[s].status = "RECORDED"
        BY <2>1, <2>8
      <3> HIDE DEF r, others, axis
      <3>2. RefundMoved(r)
        BY <1>1, <2>1, <2>5, <3>1 DEF RefundMoved
      <3>3. QED
        BY <2>2, <2>4, <3>2 DEF Effect
    <2>9. QED
      BY <2>7, <2>8
  <1>10. QED
    BY <1>3, <1>4, <1>6, <1>7, <1>8, <1>9 DEF RefundStep

\* What authorizeRelease, revokeRelease and canReleaseAndGrantDownload do.
LEMMA ReleaseEffect ==
  ASSUME NoOverlap, Inv, Books, Solo, NEW c \in Callers, ReleaseStep(c),
         UNCHANGED refunds
  PROVE  Effect
  <1>1. BooksType /\ UNCHANGED <<amounts, payments>>
    BY DEF Books, ReleaseStep, settlementVars
  <1>2. authorizations = [a \in AuthIds |-> authorizations[a]]
    BY DEF Solo
  <1>3. CASE BeginAuthorize(c)
    <2>1. Fresh([op |-> "authorize"])
      BY DEF Fresh
    <2>2. QED
      BY <1>1, <1>3, <2>1, SoloBegin DEF BeginAuthorize, releaseVars
  <1>4. ASSUME NEW a \in AuthIds, CommitAuthorize(c, a)
        PROVE  Effect
    <2>1. /\ NoneActive /\ authorizations' = [authorizations EXCEPT ![a] = "ACTIVE"]
          /\ WriteWaybill(Bump([waybill EXCEPT !.release = "AUTHORIZED"])) /\ Finish(c)
      BY <1>4 DEF CommitAuthorize
    <2>2. \A d \in Callers : calls'[d] = Idle
      BY <1>1, <2>1, SoloFinish
    <2>3. ActiveAuthorizations' = {a}
      BY <1>2, <2>1 DEF NoneActive, ActiveAuthorizations
    <2>4. waybill'.release = "AUTHORIZED" /\ waybill'.payment = waybill.payment
      BY <2>1 DEF WriteWaybill, Bump, Inv, Shape, Fields
    <2>5. authorizations' = [b \in AuthIds |-> authorizations'[b]]
      BY <1>2, <2>1
    <2>6. Delivery
      BY <1>1, <2>3, <2>4, <2>5 DEF Delivery, InForce
    <2>7. QED
      BY <2>2, <2>6 DEF Effect
  <1>5. CASE BeginRevoke(c)
    <2> DEFINE found == IF NoneActive THEN None
                        ELSE CHOOSE a \in ActiveAuthorizations : TRUE
               call == [op |-> "revoke", authorization |-> found]
    <2>1. Start(c, call)
      BY <1>5, Zenon DEF BeginRevoke
    <2> HIDE DEF found
    <2>2. Fresh(call)
      <3>1. call.op = "revoke" /\ call.authorization = found
        OBVIOUS
      <3> HIDE DEF call
      <3>2. QED
        BY <3>1, Zenon DEF Fresh, found
    <2> HIDE DEF call
    <2>3. QED
      BY <1>1, <1>5, <2>1, <2>2, SoloBegin DEF BeginRevoke, releaseVars
  <1>6. CASE CommitRevoke(c)
    <2>1. /\ calls[c].op = "revoke"
          /\ authorizations' = [a \in AuthIds |->
               IF a = calls[c].authorization THEN "REVOKED" ELSE authorizations[a]]
          /\ WriteWaybill(Bump([waybill EXCEPT !.release = "REVOKED"])) /\ Finish(c)
      BY <1>6 DEF CommitRevoke
    <2>2. \A d \in Callers : calls'[d] = Idle
      BY <1>1, <2>1, SoloFinish
    <2>3. calls[c].authorization = IF NoneActive THEN None
                                   ELSE CHOOSE a \in ActiveAuthorizations : TRUE
      <3>1. Fresh(calls[c])
        BY DEF Solo
      <3>2. QED
        BY <2>1, <3>1 DEF Fresh
    <2>4. ActiveAuthorizations' = {}
      <3>1. ASSUME NEW a \in ActiveAuthorizations PROVE a = calls[c].authorization
        <4>1. (CHOOSE b \in ActiveAuthorizations : TRUE) \in ActiveAuthorizations
          BY <3>1
        <4>2. QED
          BY <2>3, <3>1, <4>1 DEF NoneActive, Solo, OneActiveAuthorization
      <3>2. QED
        BY <2>1, <3>1 DEF ActiveAuthorizations
    <2>5. waybill'.release = "REVOKED" /\ waybill'.payment = waybill.payment
      BY <2>1 DEF WriteWaybill, Bump, Inv, Shape, Fields
    <2>6. authorizations' = [b \in AuthIds |-> authorizations'[b]]
      BY <2>1
    <2>7. Delivery
      BY <1>1, <2>4, <2>5, <2>6 DEF Delivery, InForce
    <2>8. QED
      BY <2>2, <2>7 DEF Effect
  <1>7. ASSUME NEW s \in Sessions \cup {None}, BeginGrant(c, s)
        PROVE  Effect
    <2> DEFINE advance == waybill.release = "AUTHORIZED"
               call == [op |-> "grant", session |-> s, advance |-> advance]
    <2>1. Start(c, call) /\ UNCHANGED <<waybill, authorizations>> /\ InForce(waybill)
      BY <1>7 DEF BeginGrant, releaseVars, CanRelease
    <2>2. call.op = "grant" /\ call.advance = advance
      OBVIOUS
    <2>3. advance => waybill.release = "AUTHORIZED"
      OBVIOUS
    <2> HIDE DEF call, advance
    <2>4. Fresh(call)
      BY <2>1, <2>2, <2>3, Zenon DEF Fresh
    <2>5. QED
      BY <1>1, <2>1, <2>4, SoloBegin
  <1>8. CASE CommitGrant(c)
    <2>1. /\ calls[c].op = "grant"
          /\ IF calls[c].advance
             THEN WriteWaybill(Bump([waybill EXCEPT !.release = "RELEASED"]))
             ELSE UNCHANGED waybill
          /\ Finish(c) /\ UNCHANGED authorizations
      BY <1>8 DEF CommitGrant
    <2>2. \A d \in Callers : calls'[d] = Idle
      BY <1>1, <2>1, SoloFinish
    <2>3. InForce(waybill)
      <3>1. Fresh(calls[c])
        BY DEF Solo
      <3>2. QED
        BY <2>1, <3>1, Zenon DEF Fresh
    <2>4. InForce(waybill') /\ waybill'.payment = waybill.payment
      BY <2>1, <2>3 DEF WriteWaybill, Bump, Inv, Shape, Fields, InForce
    <2>5. Delivery
      BY <1>1, <1>2, <2>1, <2>3, <2>4 DEF Delivery
    <2>6. QED
      BY <2>2, <2>5 DEF Effect
  <1>9. QED
    BY <1>3, <1>4, <1>5, <1>6, <1>7, <1>8 DEF ReleaseStep

\* What the transitions, the commitment and a rollback do.
LEMMA OtherEffect ==
  ASSUME NoOverlap, Inv, Books, Solo, NEW c \in Callers,
         UNCHANGED <<amounts, payments, refunds, authorizations>>,
         ShipmentStep(c) \/ RollbackStep(c) \/ CommitmentStep(c)
  PROVE  Effect
  <1>1. BooksType
    BY DEF Books
  <1>2. ASSUME NEW call, Start(c, call), UNCHANGED waybill,
               call.op \in {"shipment", "document", "accept", "decline", "publish"}
        PROVE  Effect
    <2>1. Fresh(call)
      BY <1>2 DEF Fresh
    <2>2. QED
      BY <1>1, <1>2, <2>1, SoloBegin
  <1>3. ASSUME Finish(c), waybill'.payment = waybill.payment,
               waybill'.release = waybill.release
        PROVE  Effect
    <2>1. \A d \in Callers : calls'[d] = Idle
      BY <1>1, <1>3, SoloFinish
    <2>2. Elsewhere
      BY <1>3 DEF Elsewhere
    <2>3. QED
      BY <2>1, <2>2 DEF Effect
  <1>4. ASSUME NEW x, Finish(c),
               \/ WriteWaybill(Bump([waybill EXCEPT !.shipment = x]))
               \/ WriteWaybill(Bump([waybill EXCEPT !.document = x]))
               \/ WriteWaybill(Bump([waybill EXCEPT !.commitment = x]))
        PROVE  Effect
    BY <1>3, <1>4 DEF WriteWaybill, Bump, Inv, Shape, Fields
  <1>5. CASE ShipmentStep(c)
    BY <1>2, <1>4, <1>5
    DEF ShipmentStep, BeginShipment, CommitShipment, BeginDocument, CommitDocument
  <1>6. CASE RollbackStep(c)
    BY <1>3, <1>6 DEF RollbackStep, Rollback
  <1>7. CASE CommitmentStep(c)
    <2>1. CASE BeginAccept(c) \/ BeginDecline(c) \/ \E v \in Versions : RetireVersions(c, v)
      BY <1>2, <2>1 DEF BeginAccept, BeginDecline, RetireVersions
    <2>2. CASE CommitAccept(c) \/ CommitDecline(c)
      BY <1>4, <2>2 DEF CommitAccept, CommitDecline
    <2>3. CASE ActivateVersion(c)
      BY <1>3, <2>3 DEF ActivateVersion
    <2>4. QED
      BY <1>7, <2>1, <2>2, <2>3 DEF CommitmentStep
  <1>8. QED
    BY <1>5, <1>6, <1>7

\* What any step does.
LEMMA SoloEffect ==
  ASSUME NoOverlap, Inv, Books, Solo, [LifeNext]_lifeVars
  PROVE  Effect
  <1>1. CASE UNCHANGED <<waybill, calls, amounts, payments, refunds, authorizations>>
    <2>1. Begun
      BY <1>1 DEF Begun, Solo
    <2>2. QED
      BY <2>1 DEF Effect
  <1>2. CASE UNCHANGED lifeVars
    BY <1>1, <1>2 DEF lifeVars, vars, settlementVars, releaseVars, refundVars
  <1>3. CASE Next /\ UNCHANGED <<commitmentVars, refundVars>>
    <2>1. ASSUME NEW s \in Sessions, SessionStep(s) PROVE Effect
      BY <1>1, <1>3, <2>1 DEF SessionStep, EndSession, settlementVars, refundVars
    <2>2. ASSUME NEW c \in Callers, SettlementStep(c) PROVE Effect
      BY <1>3, <2>2, SubmitEffect, ReviewEffect, CorrectEffect
      DEF SettlementStep, releaseVars, refundVars
    <2>3. ASSUME NEW c \in Callers, ReleaseStep(c) PROVE Effect
      BY <1>3, <2>3, ReleaseEffect DEF refundVars
    <2>4. ASSUME NEW c \in Callers, ShipmentStep(c) \/ RollbackStep(c) PROVE Effect
      <3>1. UNCHANGED <<amounts, payments, refunds, authorizations>>
        BY <1>3, <2>4 DEF ShipmentStep, RollbackStep, settlementVars, releaseVars, refundVars
      <3>2. QED
        BY <2>4, <3>1, OtherEffect
    <2>5. QED
      BY <1>3, <2>1, <2>2, <2>3, <2>4 DEF Next
  <1>4. ASSUME NEW c \in Callers, CommitmentStep(c) PROVE Effect
    BY <1>4, OtherEffect DEF CommitmentStep, settlementVars, releaseVars, refundVars
  <1>5. QED
    BY <1>2, <1>3, <1>4, RefundEffect DEF LifeNext

\* A payment that is written and not approved leaves the total as it is; one that
\* is approved joins it.
LEMMA TotalMoves ==
  ASSUME Books, NEW p \in PaymentIds, payments[p].status # "APPROVED",
         NEW row, payments' = [payments EXCEPT ![p] = row]
  PROVE  /\ row.status # "APPROVED" =>
              /\ Approved' = Approved
              /\ TotalOf(Approved)' = TotalOf(Approved)
         /\ row.status = "APPROVED" /\ row.amount = payments[p].amount =>
              /\ Approved' = Approved \cup {p}
              /\ TotalOf(Approved)' = payments[p].amount + TotalOf(Approved)
         /\ Approved \ {p} = Approved
  <1> DEFINE f == [q \in PaymentIds |-> payments[q].amount]
             g == [q \in PaymentIds |-> payments'[q].amount]
             A == Approved
             B == Approved'
  <1>1. payments \in [PaymentIds -> PaymentRow]
    BY DEF Books, BooksType
  <1>2. payments'[p] = row /\ \A q \in PaymentIds \ {p} : payments'[q] = payments[q]
    BY <1>1
  <1>3. p \notin A /\ A \subseteq PaymentIds
    BY DEF Approved
  <1>4. IsFiniteSet(A)
    <2>1. A \subseteq StoredPayments
      BY DEF Approved, StoredPayments
    <2>2. QED
      BY <2>1, FS_Subset DEF Books
  <1>5. \A q \in A : f[q] = g[q]
    BY <1>2, <1>3
  <1>6. \A q \in PaymentIds : f[q] \in Nat
    BY <1>1 DEF PaymentRow
  <1>7. row.status # "APPROVED" => B = A
    BY <1>2 DEF Approved
  <1>8. row.status = "APPROVED" => B = A \cup {p}
    BY <1>2 DEF Approved
  <1>9. /\ TotalOf(Approved) = SumFunctionOnSet(f, A)
        /\ TotalOf(Approved)' = SumFunctionOnSet(g, B)
        /\ f[p] = payments[p].amount
        /\ row.amount = payments[p].amount => g[p] = f[p]
    BY <1>2 DEF TotalOf
  <1> HIDE DEF f, g, A, B
  <1>10. SumFunctionOnSet(f, A) = SumFunctionOnSet(g, A)
    BY <1>4, <1>5, SumSame
  <1>11. ASSUME g[p] = f[p]
         PROVE  SumFunctionOnSet(g, A \cup {p}) = f[p] + SumFunctionOnSet(g, A)
    <2>1. \A q \in A \cup {p} : g[q] \in Int
      BY <1>3, <1>5, <1>6, <1>11
    <2>2. SumFunctionOnSet(g, A \cup {p}) = g[p] + SumFunctionOnSet(g, A)
      BY <1>3, <1>4, <2>1, SumAdd
    <2>3. QED
      BY <1>11, <2>2
  <1>12. CASE row.status # "APPROVED"
    BY <1>3, <1>7, <1>9, <1>10, <1>12 DEF A, B
  <1>13. CASE row.status = "APPROVED"
    <2>1. ASSUME row.amount = payments[p].amount
          PROVE  TotalOf(Approved)' = payments[p].amount + TotalOf(Approved)
      BY <1>8, <1>9, <1>10, <1>11, <1>13, <2>1
    <2>2. QED
      BY <1>3, <1>8, <1>13, <2>1 DEF A, B
  <1>14. QED
    BY <1>12, <1>13

\* The amount to pay stays as long as the rows of amounts do.
LEMMA PayableKept ==
  ASSUME UNCHANGED amounts PROVE PayableAmount' = PayableAmount
  BY DEF PayableAmount, CurrentAmount, CurrentAmounts, StoredAmounts

\* The approved payments stay as long as the rows of payments do.
LEMMA TotalKept ==
  ASSUME UNCHANGED payments
  PROVE  /\ Approved' = Approved
         /\ TotalOf(Approved)' = TotalOf(Approved)
         /\ ReviewQueue' = ReviewQueue
  BY DEF TotalOf, Approved, ReviewQueue

\* What was approved and what is to pay are amounts.
LEMMA CreditNat ==
  ASSUME Books PROVE TotalOf(Approved) \in Nat /\ PayableAmount \in Nat
  <1> DEFINE f == [q \in PaymentIds |-> payments[q].amount]
  <1>1. Approved \subseteq StoredPayments /\ Approved \subseteq PaymentIds
    BY DEF Approved, StoredPayments
  <1>2. IsFiniteSet(Approved)
    BY <1>1, FS_Subset DEF Books
  <1>3. \A q \in Approved : f[q] \in Nat
    BY <1>1 DEF Books, BooksType, PaymentRow
  <1>4. TotalOf(Approved) = SumFunctionOnSet(f, Approved)
    BY DEF TotalOf
  <1>5. PayableAmount \in Nat
    BY DEF Books, BooksType, AmountRow, PayableAmount, CurrentAmount, CurrentAmounts,
           StoredAmounts
  <1> HIDE DEF f
  <1>6. TotalOf(Approved) \in Nat
    BY <1>2, <1>3, <1>4, SumNat
  <1>7. QED
    BY <1>5, <1>6

\* What a review does to the totals.
LEMMA ReviewedTotals ==
  ASSUME Books, NEW p \in PaymentIds, NEW d \in Decisions, Reviewed(p, d)
  PROVE  /\ PayableAmount' = PayableAmount
         /\ Approved \subseteq Approved'
         /\ d = "APPROVED" =>
              /\ TotalOf(Approved)' = payments[p].amount + TotalOf(Approved \ {p})
              /\ TotalOf(Approved \ {p}) \in Nat /\ payments[p].amount \in Nat
         /\ d # "APPROVED" => TotalOf(Approved)' = TotalOf(Approved)
  <1>1. PICK row : payments' = [payments EXCEPT ![p] = row]
    BY DEF Reviewed
  <1>2. payments \in [PaymentIds -> PaymentRow]
    BY DEF Books, BooksType
  <1>3. row.status = d /\ row.amount = payments[p].amount
    BY <1>1, <1>2 DEF Reviewed
  <1>4. payments[p].status # "APPROVED"
    BY DEF Reviewed, Reviewable
  <1>5. /\ d # "APPROVED" =>
              /\ Approved' = Approved
              /\ TotalOf(Approved)' = TotalOf(Approved)
        /\ d = "APPROVED" =>
              /\ Approved' = Approved \cup {p}
              /\ TotalOf(Approved)' = payments[p].amount + TotalOf(Approved)
        /\ Approved \ {p} = Approved
    BY <1>1, <1>3, <1>4, TotalMoves
  <1>6. PayableAmount' = PayableAmount
    BY PayableKept DEF Reviewed
  <1>7. TotalOf(Approved) \in Nat
    BY CreditNat
  <1>8. payments[p].amount \in Nat
    BY <1>2 DEF PaymentRow
  <1>9. QED
    BY <1>5, <1>6, <1>7, <1>8

\* What a submission does to the totals.
LEMMA SubmittedTotals ==
  ASSUME Books, NEW p \in PaymentIds, Submitted(p)
  PROVE  /\ PayableAmount' = PayableAmount
         /\ Approved \subseteq Approved'
         /\ payments'[p].status = "SUBMITTED" =>
              TotalOf(Approved)' = TotalOf(Approved)
  <1>1. PICK row : payments' = [payments EXCEPT ![p] = row]
    BY DEF Submitted
  <1>2. payments \in [PaymentIds -> PaymentRow]
    BY DEF Books, BooksType
  <1>3. payments[p].status # "APPROVED"
    BY DEF Submitted, NoPayment
  <1>4. payments'[p] = row
    BY <1>1, <1>2
  <1>5. row.status # "APPROVED" => TotalOf(Approved)' = TotalOf(Approved)
    BY <1>1, <1>3, TotalMoves
  <1>6. Approved \subseteq Approved'
    BY <1>1, <1>2, <1>3 DEF Approved
  <1>7. PayableAmount' = PayableAmount
    BY PayableKept DEF Submitted
  <1>8. QED
    BY <1>4, <1>5, <1>6, <1>7

\* A release status that a review or a correction computes is in force only if
\* the one before was.
LEMMA NeverIntoForce ==
  ASSUME \/ \E p, d : waybill'.release = ReviewedReleaseStatus(p, d)
         \/ \E v : waybill'.release = CorrectedReleaseStatus(v)
         \/ waybill'.release \in {waybill.release, "ELIGIBLE"}
  PROVE  InForce(waybill') => InForce(waybill)
  BY DEF ReviewedReleaseStatus, CorrectedReleaseStatus, UnblockIfReady, InForce

\* The axis keeps its meaning where neither it nor the rows move.
LEMMA AxisKept ==
  ASSUME Solo, waybill'.payment = waybill.payment, UNCHANGED <<amounts, payments, refunds>>
  PROVE  AxisMeans'
  <1>1. StoredRefunds' = StoredRefunds
    BY DEF StoredRefunds
  <1>2. QED
    BY <1>1, TotalKept, PayableKept DEF Solo, AxisMeans

\* No effect takes the payment axis away from its meaning.
LEMMA AxisStep ==
  ASSUME Books, Solo, Effect
  PROVE  AxisMeans'
  <1>1. AxisMeans
    BY DEF Solo
  <1>2. CASE Begun \/ Elsewhere \/ Delivery
    BY <1>2, AxisKept DEF Begun, Elsewhere, Delivery
  <1>3. ASSUME UNCHANGED refunds, Approved \subseteq Approved'
        PROVE  (StoredRefunds # {} => Approved # {})'
    <2>1. StoredRefunds' = StoredRefunds
      BY <1>3 DEF StoredRefunds
    <2>2. QED
      BY <1>1, <1>3, <2>1 DEF AxisMeans
  <1>4. ASSUME NEW p \in PaymentIds, Submitted(p) PROVE AxisMeans'
    <2>1. waybill'.payment = "SUBMITTED" => p \in ReviewQueue'
      BY <1>4 DEF Submitted, ReviewQueue
    <2>2. waybill'.payment \in {"SUBMITTED", "APPROVED"}
      BY <1>4 DEF Submitted
    <2>3. (StoredRefunds # {} => Approved # {})'
      BY <1>3, <1>4, SubmittedTotals DEF Submitted
    <2>4. QED
      BY <2>1, <2>2, <2>3 DEF AxisMeans
  <1>5. ASSUME NEW p \in PaymentIds, NEW d \in Decisions, Reviewed(p, d) PROVE AxisMeans'
    <2>1. waybill'.payment = ReviewedPaymentStatus(p, d)
      BY <1>5 DEF Reviewed
    <2>2. waybill'.payment \in {"APPROVED", "REJECTED", "DISCREPANCY_REVIEW", "RESIDUAL_DUE"}
      BY <2>1 DEF ReviewedPaymentStatus, Decisions
    <2>3. ASSUME waybill'.payment = "RESIDUAL_DUE"
          PROVE  (TotalOf(Approved) < PayableAmount)'
      <3>1. /\ d = "APPROVED"
            /\ ~ (TotalOf(Approved \ {p}) + payments[p].amount >= PayableAmount)
        BY <2>1, <2>3 DEF ReviewedPaymentStatus, Decisions
      <3>2. /\ PayableAmount' = PayableAmount
            /\ TotalOf(Approved)' = payments[p].amount + TotalOf(Approved \ {p})
            /\ TotalOf(Approved \ {p}) \in Nat /\ payments[p].amount \in Nat
        BY <1>5, <3>1, ReviewedTotals
      <3>3. PayableAmount \in Nat
        BY CreditNat
      <3> HIDE DEF TotalOf, Approved, PayableAmount
      <3>4. QED
        BY <3>1, <3>2, <3>3
    <2>4. (StoredRefunds # {} => Approved # {})'
      BY <1>3, <1>5, ReviewedTotals DEF Reviewed
    <2>5. QED
      BY <2>2, <2>3, <2>4 DEF AxisMeans
  <1>6. ASSUME NEW v \in Nat, Corrected(v) PROVE AxisMeans'
    <2>1. /\ waybill'.payment = CorrectedPaymentStatus(v)
          /\ PayableAmount' = v /\ UNCHANGED <<payments, refunds>>
      BY <1>6 DEF Corrected
    <2>2. Approved' = Approved /\ TotalOf(Approved)' = TotalOf(Approved)
      BY <2>1, TotalKept
    <2>3. waybill'.payment \in {"RESIDUAL_DUE", "DISCREPANCY_REVIEW", "APPROVED"}
      BY <2>1 DEF CorrectedPaymentStatus
    <2>4. waybill'.payment = "RESIDUAL_DUE" => v > TotalOf(Approved)
      BY <2>1 DEF CorrectedPaymentStatus
    <2>5. (StoredRefunds # {} => Approved # {})'
      BY <1>3, <2>1, <2>2
    <2> HIDE DEF TotalOf, Approved, PayableAmount
    <2>6. (waybill.payment = "RESIDUAL_DUE" => TotalOf(Approved) < PayableAmount)'
      BY <2>1, <2>2, <2>4
    <2>7. QED
      BY <2>3, <2>5, <2>6 DEF AxisMeans
  <1>7. ASSUME NEW r \in RefundIds, RefundMoved(r) PROVE AxisMeans'
    <2>1. UNCHANGED <<amounts, payments>> /\ Approved # {}
      BY <1>7 DEF RefundMoved
    <2>2. /\ Approved' = Approved /\ TotalOf(Approved)' = TotalOf(Approved)
          /\ ReviewQueue' = ReviewQueue /\ PayableAmount' = PayableAmount
      BY <2>1, TotalKept, PayableKept
    <2>3. refunds \in [RefundIds -> RefundRow]
      BY DEF Books, BooksType
    <2>4. \/ waybill'.payment \in {"REFUND_SETTLED", "APPROVED"}
          \/ waybill'.payment = "REFUND_RECORDED" /\ refunds'[r].status = "RECORDED"
          \/ /\ waybill'.payment = waybill.payment
             /\ \E s \in RefundIds \ {r} : refunds[s].status = "RECORDED"
      BY <1>7 DEF RefundMoved
    <2>5. \A s \in RefundIds \ {r} : refunds'[s] = refunds[s]
      BY <1>7, <2>3 DEF RefundMoved
    <2>6. (waybill.payment = "REFUND_RECORDED" =>
             \E s \in RefundIds : refunds[s].status = "RECORDED")'
      BY <2>4, <2>5
    <2>7. QED
      BY <1>1, <2>1, <2>2, <2>4, <2>6 DEF AxisMeans
  <1>8. QED
    BY <1>2, <1>4, <1>5, <1>6, <1>7 DEF Effect

\* No effect leaves a delivery in force without its authorization.
LEMMA DeliveryStep ==
  ASSUME Solo, Effect
  PROVE  /\ (authorizations = [a \in AuthIds |-> authorizations[a]])'
         /\ OneActiveAuthorization'
         /\ ReleasedIsAuthorized'
  <1>1. /\ authorizations = [a \in AuthIds |-> authorizations[a]]
        /\ OneActiveAuthorization /\ ReleasedIsAuthorized
    BY DEF Solo
  <1>2. ASSUME UNCHANGED authorizations, InForce(waybill') => InForce(waybill)
        PROVE  /\ (authorizations = [a \in AuthIds |-> authorizations[a]])'
               /\ OneActiveAuthorization'
               /\ ReleasedIsAuthorized'
    <2>1. ActiveAuthorizations' = ActiveAuthorizations
      BY <1>2 DEF ActiveAuthorizations
    <2>2. QED
      BY <1>1, <1>2, <2>1 DEF OneActiveAuthorization, ReleasedIsAuthorized
  <1>3. CASE Begun
    BY <1>2, <1>3 DEF Begun
  <1>4. CASE Elsewhere
    BY <1>2, <1>4 DEF Elsewhere, InForce
  <1>5. ASSUME NEW p, Submitted(p) PROVE InForce(waybill') => InForce(waybill)
    BY <1>5, NeverIntoForce DEF Submitted
  <1>6. ASSUME NEW p, NEW d, Reviewed(p, d) PROVE InForce(waybill') => InForce(waybill)
    BY <1>6, NeverIntoForce DEF Reviewed
  <1>7. ASSUME NEW v, Corrected(v) PROVE InForce(waybill') => InForce(waybill)
    BY <1>7, NeverIntoForce DEF Corrected
  <1>8. ASSUME NEW r, RefundMoved(r) PROVE InForce(waybill') => InForce(waybill)
    BY <1>8 DEF RefundMoved, InForce
  <1>9. CASE Delivery
    <2>1. CASE UNCHANGED authorizations /\ InForce(waybill)
      BY <1>2, <2>1
    <2>2. CASE \E a : ActiveAuthorizations' = {a}
      BY <1>9, <2>2 DEF Delivery, OneActiveAuthorization, ReleasedIsAuthorized
    <2>3. CASE ActiveAuthorizations' = {} /\ ~InForce(waybill')
      BY <1>9, <2>3 DEF Delivery, OneActiveAuthorization, ReleasedIsAuthorized
    <2>4. QED
      BY <1>9, <2>1, <2>2, <2>3 DEF Delivery
  <1>10. QED
    BY <1>2, <1>3, <1>4, <1>5, <1>6, <1>7, <1>8, <1>9
    DEF Effect, Submitted, Reviewed, Corrected, RefundMoved

\* What a call has read stays so until it writes.
LEMMA FreshStep ==
  ASSUME Effect
  PROVE  \A c \in Callers : Fresh(calls[c])'
  <1>1. CASE Begun
    <2> SUFFICES ASSUME NEW c \in Callers PROVE Fresh(calls[c])'
      OBVIOUS
    <2>1. Fresh(calls'[c])
      BY <1>1 DEF Begun
    <2>2. UNCHANGED <<waybill, amounts, payments, refunds, authorizations>>
      BY <1>1 DEF Begun
    <2>3. /\ Approved' = Approved /\ PayableAmount' = PayableAmount
          /\ CurrentAmount' = CurrentAmount
          /\ ActiveAuthorizations' = ActiveAuthorizations
      BY <2>2, TotalKept, PayableKept
      DEF CurrentAmount, CurrentAmounts, StoredAmounts, ActiveAuthorizations
    <2>4. QED
      BY <2>1, <2>2, <2>3
      DEF Fresh, MayApprove, ReviewedPaymentStatus, ReviewedReleaseStatus,
          CorrectedPaymentStatus, CorrectedReleaseStatus, UnblockIfReady, DocVerified,
          CommitmentAccepted, NoneActive, InForce, Decidable, TotalOf
  <1>2. CASE \A c \in Callers : calls'[c] = Idle
    BY <1>2 DEF Fresh, Idle
  <1>3. QED
    BY <1>1, <1>2 DEF Effect

\* Every step keeps all of it.
LEMMA SoloStep == NoOverlap /\ Inv /\ Books /\ Solo /\ [LifeNext]_lifeVars => Solo'
  BY SoloEffect, FreshStep, DeliveryStep, AxisStep DEF Solo

\* A new waybill has it.
LEMMA SoloInit == LifeInit => Solo
  <1> SUFFICES ASSUME LifeInit PROVE Solo
    OBVIOUS
  <1>1. /\ calls = [c \in Callers |-> Idle]
        /\ payments = [p \in PaymentIds |-> NoPayment]
        /\ refunds = [r \in RefundIds |-> NoRefund]
        /\ authorizations = [a \in AuthIds |-> "ABSENT"]
        /\ waybill.payment = "NOT_SUBMITTED"
        /\ waybill.release = "BLOCKED"
    BY DEF LifeInit, Init, InitSettlement, InitRefund, InitialRow
  <1>2. \A c \in Callers : Fresh(calls[c])
    BY <1>1 DEF Fresh, Idle
  <1>3. AxisMeans
    BY <1>1 DEF AxisMeans, StoredRefunds, NoRefund
  <1>4. OneActiveAuthorization /\ ReleasedIsAuthorized
    BY <1>1 DEF OneActiveAuthorization, ActiveAuthorizations, ReleasedIsAuthorized, InForce
  <1>5. QED
    BY <1>1, <1>2, <1>3, <1>4 DEF Solo

\* Where calls do not overlap, what one has read is what it writes on.
LEMMA SoloAlways == ASSUME NoOverlap PROVE LifeSpec => [](Inv /\ Books /\ Solo)
  <1>1. Solo /\ [](Inv /\ Books) /\ [][LifeNext]_lifeVars => []Solo
    <2>1. Inv /\ Books /\ Solo /\ [LifeNext]_lifeVars => Solo'
      BY SoloStep
    <2>2. QED
      BY <2>1, PTL
  <1>2. QED
    BY <1>1, SoloInit, InvAlways, BooksAlways, PTL DEF LifeSpec

-----------------------------------------------------------------------------
\* Where calls do not overlap, a waybill is authorized or released only with an
\* authorization row that is not revoked (authorizeRelease, revokeRelease,
\* canReleaseAndGrantDownload).
THEOREM DeliveriesKeepTheirRow ==
  ASSUME NoOverlap PROVE LifeSpec => []ReleasedIsAuthorized
  <1>1. Solo => ReleasedIsAuthorized
    BY DEF Solo
  <1>2. QED
    BY <1>1, SoloAlways, PTL

\* Where calls do not overlap, the dashboard sends nobody to an empty list
\* (getDashboardSummary, deriveWaybillPhase).
THEOREM DashboardIsRight ==
  ASSUME NoOverlap PROVE LifeSpec => []DashboardAgrees
  <1>1. ASSUME Books, Solo PROVE DashboardAgrees
    <2> DEFINE Recorded == {r \in RefundIds : refunds[r].status = "RECORDED"}
    <2>1. ASSUME Phase(waybill) \in {"PAYMENT_UNDER_REVIEW", "REFUND_RECORDED",
                                     "RESIDUAL_PAYMENT"}
          PROVE  /\ Phase(waybill) = "PAYMENT_UNDER_REVIEW" =>
                      waybill.payment \in {"SUBMITTED", "UNDER_REVIEW"}
                 /\ Phase(waybill) = "REFUND_RECORDED" => waybill.payment = "REFUND_RECORDED"
                 /\ Phase(waybill) = "RESIDUAL_PAYMENT" => waybill.payment = "RESIDUAL_DUE"
      <3>1. PICK i \in 1 .. 11 : /\ ProgressRules(waybill)[i].holds
                                 /\ Phase(waybill) = ProgressRules(waybill)[i].phase
        BY <2>1, PhaseMeans
      <3>2. QED
        BY <3>1, RulesOfPhase
    <2>2. AxisMeans
      BY <1>1 DEF Solo
    <2>3. IsFiniteSet(ReviewQueue) /\ IsFiniteSet(Recorded)
      <3>1. ReviewQueue \subseteq StoredPayments /\ Recorded \subseteq StoredRefunds
        BY DEF ReviewQueue, StoredPayments, StoredRefunds
      <3>2. QED
        BY <1>1, <3>1, FS_Subset DEF Books
    <2>4. ASSUME NEW S, IsFiniteSet(S), S # {} PROVE Cardinality(S) > 0
      BY <2>4, FS_CardinalityType, FS_EmptySet
    <2>5. Phase(waybill) = "PAYMENT_UNDER_REVIEW" => Cardinality(ReviewQueue) > 0
      BY <2>1, <2>2, <2>3, <2>4 DEF AxisMeans
    <2>6. Phase(waybill) = "REFUND_RECORDED" => Cardinality(Recorded) > 0
      <3>1. waybill.payment = "REFUND_RECORDED" => Recorded # {}
        BY <2>2 DEF AxisMeans
      <3> HIDE DEF Recorded
      <3>2. QED
        BY <2>1, <2>3, <2>4, <3>1
    <2>7. Phase(waybill) = "RESIDUAL_PAYMENT" => Remaining > 0
      <3>1. TotalOf(Approved) \in Nat /\ PayableAmount \in Nat
        BY <1>1, CreditNat
      <3>2. waybill.payment = "RESIDUAL_DUE" => TotalOf(Approved) < PayableAmount
        BY <2>2 DEF AxisMeans
      <3> HIDE DEF TotalOf, Approved, PayableAmount
      <3>3. QED
        BY <2>1, <3>1, <3>2 DEF Remaining
    <2>8. /\ Dashboard.phase = Phase(waybill)
          /\ Dashboard.pendingReviews = Cardinality(ReviewQueue)
          /\ Dashboard.pendingRefunds = Cardinality(Recorded)
      BY DEF Dashboard
    <2> HIDE DEF Recorded
    <2>9. QED
      BY <2>5, <2>6, <2>7, <2>8 DEF DashboardAgrees
  <1>2. QED
    BY <1>1, SoloAlways, PTL

\* Where calls do not overlap, a review never approves more than the payable
\* amount, however submissions, reviews, corrections and refunds follow each
\* other (OVERPAYMENT_REQUIRES_DISCREPANCY in reviewPayment).
THEOREM ReviewsStayCovered == ASSUME NoOverlap PROVE LifeSpec => NoOverApproval
  <1>1. ASSUME Inv, Books, Solo, [LifeNext]_lifeVars, NEW p \in PaymentIds,
               payments[p].status \in Reviewable, payments'[p].status = "APPROVED"
        PROVE  TotalOf(Approved)' <= PayableAmount'
    <2>1. Effect
      BY <1>1, SoloEffect
    <2>2. payments \in [PaymentIds -> PaymentRow]
      BY <1>1 DEF Books, BooksType
    <2>3. payments' # payments
      BY <1>1 DEF Reviewable
    <2>4. ASSUME NEW q \in PaymentIds, NEW row, payments' = [payments EXCEPT ![q] = row]
          PROVE  q = p
      BY <1>1, <2>2, <2>4 DEF Reviewable
    <2>5. ASSUME NEW q \in PaymentIds, Submitted(q) PROVE FALSE
      BY <1>1, <2>4, <2>5 DEF Submitted, NoPayment, Reviewable
    <2>6. PICK q \in PaymentIds, d \in Decisions : Reviewed(q, d)
      BY <2>1, <2>3, <2>5
      DEF Effect, Begun, Elsewhere, Corrected, RefundMoved, Delivery
    <2>7. q = p /\ d = "APPROVED"
      BY <1>1, <2>4, <2>6 DEF Reviewed
    <2>8. MayApprove(p)
      BY <2>6, <2>7 DEF Reviewed
    <2>9. /\ PayableAmount' = PayableAmount
          /\ TotalOf(Approved)' = payments[p].amount + TotalOf(Approved \ {p})
          /\ TotalOf(Approved \ {p}) \in Nat /\ payments[p].amount \in Nat
      BY <1>1, <2>6, <2>7, ReviewedTotals
    <2>10. payments[p].amount + TotalOf(Approved \ {p}) <= PayableAmount
      BY <2>8 DEF MayApprove
    <2> HIDE DEF TotalOf, Approved, PayableAmount
    <2>11. QED
      BY <2>9, <2>10
  <1>2. Inv /\ Books /\ Solo /\ [LifeNext]_lifeVars =>
          [\A p \in PaymentIds :
             /\ payments[p].status \in Reviewable
             /\ payments'[p].status = "APPROVED"
             => TotalOf(Approved)' <= PayableAmount']_vars
    BY <1>1
  <1>3. QED
    BY <1>2, SoloAlways, PTL DEF LifeSpec, NoOverApproval

\* Where calls do not overlap, a payment that waits for a decision leaves the
\* review queue and the discrepancies report only when another payment, a
\* correction or a refund writes the waybill (submitWaybillPayment,
\* reviewPayment).
THEOREM OthersAloneHide == ASSUME NoOverlap PROVE LifeSpec => OnlyOthersHide
  <1>1. ASSUME Inv, Books, Solo, [LifeNext]_lifeVars, NEW p \in PaymentIds,
               payments'[p].status \in Reviewable, ~Listed(p)',
               payments[p] = NoPayment \/ Listed(p),
               \A q \in PaymentIds \ {p} : payments'[q] = payments[q],
               amounts' = amounts, refunds' = refunds
        PROVE  FALSE
    <2>1. Effect
      BY <1>1, SoloEffect
    <2>2. /\ payments \in [PaymentIds -> PaymentRow]
          /\ refunds \in [RefundIds -> RefundRow]
      BY <1>1 DEF Books, BooksType
    <2>3. CASE payments' = payments /\ waybill'.payment = waybill.payment
      <3>1. payments[p] # NoPayment
        BY <1>1, <2>3 DEF NoPayment, Reviewable
      <3>2. Listed(p)' <=> Listed(p)
        BY <2>3 DEF Listed, ReviewQueue, InDiscrepanciesReport
      <3>3. QED
        BY <1>1, <3>1, <3>2
    <2>4. ASSUME NEW q \in PaymentIds, Submitted(q) PROVE FALSE
      <3>1. payments'[q] # payments[q]
        BY <2>4 DEF Submitted, NoPayment
      <3>2. q = p
        BY <1>1, <3>1
      <3>3. payments'[p].status = "SUBMITTED"
        BY <1>1, <2>4, <3>2 DEF Submitted, Reviewable
      <3>4. QED
        BY <1>1, <3>3 DEF Listed, ReviewQueue
    <2>5. ASSUME NEW q \in PaymentIds, NEW d \in Decisions, Reviewed(q, d) PROVE FALSE
      <3>1. q = p
        BY <1>1, <2>5 DEF Reviewed
      <3>2. d = "DISCREPANCY_REVIEW"
        BY <1>1, <2>5, <3>1 DEF Reviewed, Reviewable, Decisions
      <3>3. waybill'.payment = "DISCREPANCY_REVIEW"
        BY <2>5, <3>2 DEF Reviewed, ReviewedPaymentStatus
      <3>4. QED
        BY <1>1, <3>3 DEF Listed, InDiscrepanciesReport
    <2>6. ASSUME NEW v, Corrected(v) PROVE FALSE
      BY <1>1, <2>6 DEF Corrected
    <2>7. ASSUME NEW r, RefundMoved(r) PROVE FALSE
      BY <1>1, <2>7 DEF RefundMoved
    <2>8. QED
      BY <2>1, <2>3, <2>4, <2>5, <2>6, <2>7 DEF Effect, Begun, Elsewhere, Delivery
  <1>2. Inv /\ Books /\ Solo /\ [LifeNext]_lifeVars =>
          [\A p \in PaymentIds :
             /\ payments'[p].status \in Reviewable
             /\ ~Listed(p)'
             /\ payments[p] = NoPayment \/ Listed(p)
             => \/ \E q \in PaymentIds \ {p} : payments'[q] # payments[q]
                \/ amounts' # amounts
                \/ refunds' # refunds]_lifeVars
    BY <1>1
  <1>3. QED
    BY <1>2, SoloAlways, PTL DEF LifeSpec, OnlyOthersHide

\* Where calls do not overlap and nothing is paid online, only a correction of
\* the amount leaves an authorization active whose waybill is not in force
\* (correctWaybillAmount).
THEOREM CorrectionsAloneOrphan ==
  ASSUME NoOverlap, "GATEWAY" \notin Methods PROVE LifeSpec => OnlyCorrectionsOrphan
  <1>1. ASSUME Inv, Books, Solo, [LifeNext]_lifeVars, ActiveIsInForce, ~ActiveIsInForce',
               amounts' = amounts
        PROVE  FALSE
    <2>1. Effect
      BY <1>1, SoloEffect
    <2>2. ASSUME UNCHANGED authorizations, InForce(waybill) => InForce(waybill')
          PROVE  FALSE
      BY <1>1, <2>2 DEF ActiveIsInForce, ActiveAuthorizations
    <2>3. CASE Begun \/ Elsewhere \/ \E r \in RefundIds : RefundMoved(r)
      BY <2>2, <2>3 DEF Begun, Elsewhere, RefundMoved, InForce
    <2>4. ASSUME NEW p, Submitted(p) PROVE FALSE
      BY <2>2, <2>4 DEF Submitted, InForce
    <2>5. ASSUME NEW p, NEW d, Reviewed(p, d) PROVE FALSE
      BY <2>2, <2>5 DEF Reviewed, ReviewedReleaseStatus, UnblockIfReady, InForce
    <2>6. ASSUME NEW v, Corrected(v) PROVE FALSE
      BY <1>1, <2>6 DEF Corrected
    <2>7. CASE Delivery
      BY <1>1, <2>7 DEF Delivery, ActiveIsInForce
    <2>8. QED
      BY <2>1, <2>3, <2>4, <2>5, <2>6, <2>7 DEF Effect
  <1>2. Inv /\ Books /\ Solo /\ [LifeNext]_lifeVars =>
          [ActiveIsInForce /\ ~ActiveIsInForce' => amounts' # amounts]_lifeVars
    BY <1>1
  <1>3. QED
    BY <1>2, SoloAlways, PTL DEF LifeSpec, OnlyCorrectionsOrphan

\* Where calls do not overlap and nothing is paid online, only the rejection of a
\* refund settles a waybill whose approved payments do not cover it
\* (reviewPayment, correctWaybillAmount, rejectRefund).
THEOREM RejectionsAloneSettle ==
  ASSUME NoOverlap, "GATEWAY" \notin Methods PROVE LifeSpec => OnlyRejectionsSettle
  <1>1. ASSUME Inv, Books, Solo, [LifeNext]_lifeVars, SettledMeansPaid, ~SettledMeansPaid'
        PROVE  \E r \in RefundIds : /\ refunds[r].status = "RECORDED"
                                    /\ refunds'[r].status = "REJECTED"
    <2>1. Effect
      BY <1>1, SoloEffect
    <2>2. waybill'.payment = "APPROVED"
      BY <1>1 DEF SettledMeansPaid
    <2>3. ~ (TotalOf(Approved)' >= PayableAmount')
      BY <1>1 DEF SettledMeansPaid
    <2>4. ASSUME waybill'.payment = waybill.payment, UNCHANGED <<amounts, payments>>
          PROVE  FALSE
      BY <1>1, <2>2, <2>3, <2>4, TotalKept, PayableKept DEF SettledMeansPaid
    <2>5. CASE Begun \/ Elsewhere \/ Delivery
      BY <2>4, <2>5 DEF Begun, Elsewhere, Delivery
    <2>6. ASSUME NEW p, Submitted(p) PROVE FALSE
      BY <2>2, <2>6 DEF Submitted
    <2>7. ASSUME NEW p \in PaymentIds, NEW d \in Decisions, Reviewed(p, d) PROVE FALSE
      <3>1. waybill'.payment = ReviewedPaymentStatus(p, d)
        BY <2>7 DEF Reviewed
      <3>2. d = "APPROVED" /\ TotalOf(Approved \ {p}) + payments[p].amount >= PayableAmount
        BY <2>2, <3>1 DEF ReviewedPaymentStatus, Decisions
      <3>3. /\ PayableAmount' = PayableAmount
            /\ TotalOf(Approved)' = payments[p].amount + TotalOf(Approved \ {p})
            /\ TotalOf(Approved \ {p}) \in Nat /\ payments[p].amount \in Nat
        BY <1>1, <2>7, <3>2, ReviewedTotals
      <3> HIDE DEF TotalOf, Approved, PayableAmount
      <3>4. QED
        BY <2>3, <3>2, <3>3
    <2>8. ASSUME NEW v \in Nat, Corrected(v) PROVE FALSE
      <3>1. waybill'.payment = CorrectedPaymentStatus(v) /\ PayableAmount' = v
        BY <2>8 DEF Corrected
      <3>2. TotalOf(Approved)' = TotalOf(Approved)
        BY <2>8, TotalKept DEF Corrected
      <3>3. ~ (v > TotalOf(Approved)) /\ ~ (v < TotalOf(Approved))
        BY <2>2, <3>1 DEF CorrectedPaymentStatus
      <3>4. TotalOf(Approved) \in Nat
        BY <1>1, CreditNat
      <3> HIDE DEF TotalOf, Approved, PayableAmount
      <3>5. QED
        BY <2>3, <3>1, <3>2, <3>3, <3>4
    <2>9. ASSUME NEW r \in RefundIds, RefundMoved(r)
          PROVE  refunds[r].status = "RECORDED" /\ refunds'[r].status = "REJECTED"
      BY <2>2, <2>9 DEF RefundMoved
    <2>10. QED
      BY <2>1, <2>5, <2>6, <2>7, <2>8, <2>9 DEF Effect
  <1>2. Inv /\ Books /\ Solo /\ [LifeNext]_lifeVars =>
          [SettledMeansPaid /\ ~SettledMeansPaid' =>
             \E r \in RefundIds : /\ refunds[r].status = "RECORDED"
                                  /\ refunds'[r].status = "REJECTED"]_lifeVars
    BY <1>1
  <1>3. QED
    BY <1>2, SoloAlways, PTL DEF LifeSpec, OnlyRejectionsSettle

-----------------------------------------------------------------------------
(* What Fulfilment promises, in the whole life of the waybill.             *)

\* Of what Fulfilment promises about, the commitments and the refunds write the
\* waybill's answer, its payment axis and its version only.
OtherRow(row) ==
  /\ row \in WaybillRow
  /\ row.shipment = waybill.shipment
  /\ row.release = waybill.release
  /\ row.currentAmount = waybill.currentAmount
  /\ CheckRelease(row) /\ CheckCancelled(row)

OtherService ==
  /\ UNCHANGED <<settlementVars, releaseVars>>
  /\ UNCHANGED waybill \/ OtherRow(waybill')
  /\ calls' = [c \in Callers |-> calls'[c]]
  /\ \A c \in Callers : calls'[c] \in {calls[c], Idle} \/ calls'[c].op \notin OwnOps

LEMMA OtherRows ==
  ASSUME Typed,
         \/ \E status \in CommitmentStatus :
              WriteWaybill(Bump([waybill EXCEPT !.commitment = status]))
         \/ \E status \in PaymentStatus :
              WriteWaybill(Bump([waybill EXCEPT !.payment = status]))
  PROVE  OtherRow(waybill')
  <1>1. ASSUME NEW row \in WaybillRow, WriteWaybill(Bump(row)),
               row.shipment = waybill.shipment,
               row.release = waybill.release,
               row.currentAmount = waybill.currentAmount
        PROVE  OtherRow(waybill')
    BY <1>1, BumpRow DEF WriteWaybill, OtherRow
  <1>2. \A status \in CommitmentStatus :
          LET row == [waybill EXCEPT !.commitment = status]
          IN  /\ row \in WaybillRow
              /\ row.shipment = waybill.shipment
              /\ row.release = waybill.release
              /\ row.currentAmount = waybill.currentAmount
    BY DEF Typed, WaybillRow
  <1>3. \A status \in PaymentStatus :
          LET row == [waybill EXCEPT !.payment = status]
          IN  /\ row \in WaybillRow
              /\ row.shipment = waybill.shipment
              /\ row.release = waybill.release
              /\ row.currentAmount = waybill.currentAmount
    BY DEF Typed, WaybillRow
  <1>4. QED
    BY <1>1, <1>2, <1>3

LEMMA OtherServices ==
  ASSUME Typed, NEW c \in Callers, CommitmentStep(c) \/ RefundStep(c)
  PROVE  OtherService
  <1> DEFINE CallsMove ==
        /\ calls' = [e \in Callers |-> calls'[e]]
        /\ \A e \in Callers : calls'[e] \in {calls[e], Idle} \/ calls'[e].op \notin OwnOps
  <1>1. ASSUME NEW call, Start(c, call), call.op \notin OwnOps PROVE CallsMove
    BY <1>1 DEF Start, Typed, CallsTyped
  <1>2. ASSUME Finish(c) PROVE CallsMove
    BY <1>2 DEF Finish, Typed, CallsTyped
  <1>3. /\ {"ACCEPTED", "DECLINED"} \subseteq CommitmentStatus
        /\ {"REFUND_RECORDED", "REFUND_SETTLED", "APPROVED", "SUBMITTED"} \subseteq PaymentStatus
    BY DEF CommitmentStatus, PaymentStatus
  <1>4. {"accept", "decline", "publish", "recordRefund", "approveRefund", "rejectRefund"}
          \cap OwnOps = {}
    BY DEF OwnOps
  <1>5. CASE CommitmentStep(c)
    <2>1. UNCHANGED <<settlementVars, releaseVars>>
      BY <1>5 DEF CommitmentStep
    <2>2. UNCHANGED waybill \/ OtherRow(waybill')
      BY <1>3, <1>5, OtherRows
      DEF CommitmentStep, BeginAccept, CommitAccept, BeginDecline, CommitDecline,
          RetireVersions, ActivateVersion
    <2>3. CallsMove
      <3> HIDE DEF CallsMove
      <3>1. CASE BeginAccept(c)
        BY <1>1, <1>4, <3>1 DEF BeginAccept
      <3>2. CASE BeginDecline(c)
        BY <1>1, <1>4, <3>2 DEF BeginDecline
      <3>3. ASSUME NEW v, RetireVersions(c, v) PROVE CallsMove
        BY <1>1, <1>4, <3>3 DEF RetireVersions
      <3>4. QED
        BY <1>2, <1>5, <3>1, <3>2, <3>3
        DEF CommitmentStep, CommitAccept, CommitDecline, ActivateVersion
    <2>4. QED
      BY <2>1, <2>2, <2>3 DEF OtherService
  <1>6. CASE RefundStep(c)
    <2>1. UNCHANGED <<settlementVars, releaseVars>>
      BY <1>6
      DEF RefundStep, BeginRecordRefund, CommitRecordRefund, BeginApproveRefund,
          CommitApproveRefund, BeginRejectRefund, CommitRejectRefund
    <2>2. UNCHANGED waybill \/ OtherRow(waybill')
      <3>1. ASSUME NEW r \in RefundIds, CommitRecordRefund(c, r) PROVE OtherRow(waybill')
        BY <1>3, <3>1, OtherRows DEF CommitRecordRefund
      <3>2. ASSUME CommitApproveRefund(c) PROVE OtherRow(waybill')
        BY <1>3, <3>2, OtherRows DEF CommitApproveRefund
      <3>3. ASSUME CommitRejectRefund(c) PROVE UNCHANGED waybill \/ OtherRow(waybill')
        <4> DEFINE status == IF calls[c].seenApproved THEN "APPROVED" ELSE "SUBMITTED"
        <4>1. \/ UNCHANGED waybill
              \/ WriteWaybill(Bump([waybill EXCEPT !.payment = status]))
          BY <3>3 DEF CommitRejectRefund
        <4>2. status \in PaymentStatus
          BY <1>3
        <4> HIDE DEF status
        <4>3. QED
          BY <4>1, <4>2, OtherRows
      <3>4. QED
        BY <1>6, <3>1, <3>2, <3>3
        DEF RefundStep, BeginRecordRefund, BeginApproveRefund, BeginRejectRefund
    <2>3. CallsMove
      <3> HIDE DEF CallsMove
      <3>1. ASSUME NEW n, NEW by, BeginRecordRefund(c, n, by) PROVE CallsMove
        BY <1>1, <1>4, <3>1 DEF BeginRecordRefund
      <3>2. ASSUME NEW r, NEW by, BeginApproveRefund(c, r, by) PROVE CallsMove
        BY <1>1, <1>4, <3>2 DEF BeginApproveRefund
      <3>3. ASSUME NEW r, NEW by, BeginRejectRefund(c, r, by) PROVE CallsMove
        BY <1>1, <1>4, <3>3 DEF BeginRejectRefund
      <3>4. QED
        BY <1>2, <1>6, <3>1, <3>2, <3>3
        DEF RefundStep, CommitRecordRefund, CommitApproveRefund, CommitRejectRefund
    <2>4. QED
      BY <2>1, <2>2, <2>3 DEF OtherService
  <1>7. QED
    BY <1>5, <1>6

\* So each promise outlives their steps.
LEMMA OthersKeepPromises ==
  ASSUME Promises, OtherService
  PROVE  Promises'
  <1> USE DEF Promises
  <1>1. \A c \in Callers : \/ calls'[c] = calls[c]
                           \/ calls'[c] = Idle
                           \/ calls'[c].op \notin OwnOps
    BY DEF OtherService
  <1>2. /\ waybill' \in WaybillRow
        /\ waybill'.shipment = waybill.shipment
        /\ waybill'.release = waybill.release
        /\ waybill'.currentAmount = waybill.currentAmount
    BY DEF OtherService, OtherRow, Typed
  <1>3. UNCHANGED <<amounts, payments, reviews, authorizations, sessions, accessEvents>>
    BY DEF OtherService, settlementVars, releaseVars
  <1>4. CallsTyped'
    <2>1. Idle \in Calls
      BY DEF Calls
    <2>2. QED
      BY <1>1, <2>1 DEF OtherService, Typed, CallsTyped
  <1>5. Typed'
    BY <1>2, <1>3, <1>4 DEF Typed
  <1>6. Checked'
    <2>1. CASE UNCHANGED waybill
      BY <2>1 DEF Checked, CheckRelease, CheckCancelled, Active, InForce, PaymentSettled,
                  CommitmentAccepted, DocVerified
    <2>2. CASE OtherRow(waybill')
      <3> HIDE DEF Promises
      <3>1. QED
        BY <2>2 DEF OtherRow, Checked, CheckRelease, CheckCancelled, Active, InForce,
                    PaymentSettled, CommitmentAccepted, DocVerified
    <2>3. QED
      BY <2>1, <2>2 DEF OtherService
  <1>7. OneActiveAuthorization' /\ OneCurrentAmount' /\ DecidedOnce' /\ GatewayApproved'
    BY <1>2, <1>3
    DEF OneActiveAuthorization, ActiveAuthorizations, OneCurrentAmount, CurrentAmounts,
        StoredAmounts, DecidedOnce, GatewayApproved
  <1>8. PositiveCorrections' /\ AllowedTransitions'
    BY <1>1 DEF PositiveCorrections, AllowedTransitions, Idle, OwnOps
  <1>9. NeverWithoutAuthorization'
    BY <1>2, <1>3 DEF NeverWithoutAuthorization, InForce
  <1>10. CallsAuthorized'
    BY <1>1, <1>3 DEF CallsAuthorized, Authorized, Idle, OwnOps
  <1>11. QED
    BY <1>5, <1>6, <1>7, <1>8, <1>9, <1>10

LEMMA PromisesStep == Promises /\ [LifeNext]_lifeVars => Promises'
  <1> SUFFICES ASSUME Promises, [LifeNext]_lifeVars PROVE Promises'
    OBVIOUS
  <1>1. CASE Next \/ UNCHANGED lifeVars
    BY <1>1, NextPromises DEF lifeVars
  <1>2. CASE \E c \in Callers : CommitmentStep(c) \/ RefundStep(c)
    BY <1>2, OtherServices, OthersKeepPromises DEF Promises
  <1>3. QED
    BY <1>1, <1>2 DEF LifeNext

LEMMA PromisesInLife == LifeSpec => []Promises
  <1>1. LifeInit => Promises
    BY InitPromises DEF LifeInit
  <1>2. QED
    BY <1>1, PromisesStep, PTL DEF LifeSpec

\* What is proved of the fulfilment services alone stays true beside commitments
\* and refunds, whose services write the same row.
THEOREM PromisesOutliveOtherServices ==
  LifeSpec => [](/\ OneCurrentAmount /\ DecidedOnce /\ OneActiveAuthorization
                 /\ DownloadableIffReleased /\ NeverWithoutAuthorization
                 /\ PhaseKeepsPromise)
  BY PromisesInLife, CheckedDownload, CheckedPhase, PTL DEF Promises

\* Nor does a refund or an answer bring a cancelled or archived waybill back.
THEOREM CancelledInLife == LifeSpec => CancelledIsFinal
  <1>1. Promises /\ [LifeNext]_lifeVars
        => [/\ waybill.shipment = "CANCELLED" => waybill'.shipment = "CANCELLED"
            /\ waybill.shipment = "ARCHIVED" => waybill'.shipment = "ARCHIVED"]_vars
    <2> SUFFICES ASSUME Promises, [LifeNext]_lifeVars
                 PROVE  [/\ waybill.shipment = "CANCELLED" => waybill'.shipment = "CANCELLED"
                         /\ waybill.shipment = "ARCHIVED" => waybill'.shipment = "ARCHIVED"]_vars
      OBVIOUS
    <2>1. CASE Next \/ UNCHANGED lifeVars
      BY <2>1, CancelledStep DEF lifeVars, Promises
    <2>2. CASE \E c \in Callers : CommitmentStep(c) \/ RefundStep(c)
      BY <2>2, OtherServices DEF OtherService, OtherRow, Promises
    <2>3. QED
      BY <2>1, <2>2 DEF LifeNext
  <1>2. QED
    BY <1>1, PromisesInLife, PTL DEF LifeSpec, CancelledIsFinal

\* The whole life of a waybill implements the ledger of payments: refunds leave
\* the payments' own rows alone.
THEOREM LedgerInLife == LifeSpec => ImplementsLedger
  <1>1. LifeInit => Ledger!Init
    BY InitLedger DEF LifeInit
  <1>2. Promises /\ [LifeNext]_lifeVars => [Ledger!Next]_Standings
    <2> SUFFICES ASSUME Promises, [LifeNext]_lifeVars PROVE [Ledger!Next]_Standings
      OBVIOUS
    <2>1. CASE Next \/ UNCHANGED lifeVars
      BY <2>1, LedgerStep DEF lifeVars, Promises
    <2>2. CASE \E c \in Callers : CommitmentStep(c) \/ RefundStep(c)
      <3>1. UNCHANGED payments
        BY <2>2, OtherServices DEF OtherService, settlementVars, Promises
      <3>2. QED
        BY <3>1 DEF Standings, Standing
    <2>3. QED
      BY <2>1, <2>2 DEF LifeNext
  <1>3. QED
    BY <1>1, <1>2, PromisesInLife, PTL
    DEF LifeSpec, ImplementsLedger, Ledger!Spec, Standings

-----------------------------------------------------------------------------
(* The payments under the pages.                                           *)

\* How a step of the services changes the payments: a new one, or a review.
PaymentsMove ==
  \/ UNCHANGED payments
  \/ \E p \in PaymentIds : \E row :
       /\ payments' = [payments EXCEPT ![p] = row]
       /\ row.status \in PaymentStatus
       /\ \/ payments[p] = NoPayment /\ row.version = 1
          \/ payments[p].status \in Reviewable /\ row.version = payments[p].version + 1

LEMMA PaymentsMoved == ASSUME Books, [LifeNext]_lifeVars PROVE PaymentsMove
  <1>1. BooksType
    BY DEF Books
  <1>2. ASSUME NEW c \in Callers, NEW p \in PaymentIds, CommitSubmit(c, p)
        PROVE  PaymentsMove
    <2> DEFINE row == [status |-> IF calls[c].method = "GATEWAY" THEN "APPROVED"
                                  ELSE "SUBMITTED",
                       method |-> calls[c].method, amount |-> calls[c].amount,
                       amountId |-> calls[c].amountId, reviewedBy |-> None, version |-> 1]
    <2>1. row.status \in PaymentStatus /\ row.version = 1
      BY DEF PaymentStatus
    <2>2. payments' = [payments EXCEPT ![p] = row] /\ payments[p] = NoPayment
      BY <1>2 DEF CommitSubmit
    <2> HIDE DEF row
    <2>3. QED
      BY <2>1, <2>2 DEF PaymentsMove
  <1>3. ASSUME NEW c \in Callers, CommitReview(c)
        PROVE  PaymentsMove
    <2> DEFINE p == calls[c].payment
               row == [payments[p] EXCEPT !.status = calls[c].decision,
                                          !.version = @ + 1,
                                          !.reviewedBy = calls[c].reviewer]
    <2>1. CallTyped(calls[c])
      BY <1>1 DEF BooksType
    <2>2. /\ p \in PaymentIds /\ payments[p] \in PaymentRow
          /\ calls[c].decision \in Decisions
          /\ payments[p].status \in Reviewable
      BY <1>1, <1>3, <2>1 DEF CommitReview, CallTyped, BooksType, NotReviewedSince
    <2>3. payments' = [payments EXCEPT ![p] = row]
      BY <1>1, <1>3, <2>2 DEF CommitReview, BooksType
    <2>4. row.status \in PaymentStatus /\ row.version = payments[p].version + 1
      BY <2>2 DEF PaymentRow, Decisions, PaymentStatus
    <2> HIDE DEF row, p
    <2>5. QED
      BY <2>2, <2>3, <2>4 DEF PaymentsMove
  <1>4. ASSUME NEW c \in Callers, SettlementStep(c)
        PROVE  PaymentsMove
    BY <1>2, <1>3, <1>4
    DEF SettlementStep, BeginSubmit, BeginReview, BeginCorrect, CommitCorrect,
        settlementVars, PaymentsMove
  <1>5. ASSUME NEW c \in Callers, RefundStep(c) \/ CommitmentStep(c)
        PROVE  UNCHANGED payments
    BY <1>5
    DEF RefundStep, CommitmentStep, BeginRecordRefund, CommitRecordRefund,
        BeginApproveRefund, CommitApproveRefund, BeginRejectRefund, CommitRejectRefund,
        settlementVars
  <1>6. CASE Next
    BY <1>4, <1>6
    DEF Next, ReleaseStep, ShipmentStep, RollbackStep, SessionStep, settlementVars,
        PaymentsMove
  <1>7. CASE UNCHANGED lifeVars
    BY <1>7 DEF lifeVars, vars, settlementVars, PaymentsMove
  <1>8. QED
    BY <1>5, <1>6, <1>7 DEF LifeNext, PaymentsMove

\* A payment that is there has a version, which only grows; an approved one
\* stays approved.
Counted == \A p \in PaymentIds : payments[p].status # "ABSENT" => payments[p].version >= 1

PaymentsGrow ==
  /\ \A p \in PaymentIds : payments'[p].version >= payments[p].version
  /\ Approved # {} => Approved' # {}

LEMMA CountedGrow ==
  ASSUME Books, Counted, PaymentsMove
  PROVE  Counted' /\ PaymentsGrow
  <1>1. \A p \in PaymentIds : payments[p] \in PaymentRow /\ payments[p].version \in Nat
    BY DEF Books, BooksType, PaymentRow
  <1>2. CASE UNCHANGED payments
    BY <1>1, <1>2 DEF Counted, PaymentsGrow, Approved
  <1>3. ASSUME NEW p \in PaymentIds, NEW row,
               payments' = [payments EXCEPT ![p] = row],
               \/ payments[p] = NoPayment /\ row.version = 1
               \/ payments[p].status \in Reviewable /\ row.version = payments[p].version + 1
        PROVE  Counted' /\ PaymentsGrow
    <2>1. payments'[p] = row /\ \A q \in PaymentIds \ {p} : payments'[q] = payments[q]
      BY <1>3 DEF Books, BooksType
    <2>2. payments[p].status # "APPROVED" /\ row.version >= payments[p].version
          /\ row.version >= 1
      BY <1>1, <1>3 DEF NoPayment, Reviewable
    <2>3. Counted' /\ \A q \in PaymentIds : payments'[q].version >= payments[q].version
      BY <1>1, <2>1, <2>2 DEF Counted
    <2>4. Approved # {} => Approved' # {}
      BY <1>3, <2>2, CreditStays DEF Approved
    <2>5. QED
      BY <2>3, <2>4 DEF PaymentsGrow
  <1>4. QED
    BY <1>2, <1>3 DEF PaymentsMove

-----------------------------------------------------------------------------
(* What the tabs show.                                                     *)

IsPortalTab(tab) ==
  /\ tab = [f \in DOMAIN BlankPortal |-> tab[f]]
  /\ tab.view = [f \in DOMAIN NoView |-> tab.view[f]]
  /\ tab.waits = "bank" => tab.transfer \in Attempts

IsDeskTab(tab) == tab = [f \in DOMAIN BlankDesk |-> tab[f]]

LEMMA TabFields ==
  /\ DOMAIN BlankPortal = {"view", "url", "waits", "transfer", "reply"}
  /\ DOMAIN NoView = {"commitment", "payment", "release"}
  /\ DOMAIN BlankDesk = {"queue", "shown", "waits", "button", "seen", "reply", "told"}
  BY DEF BlankPortal, NoView, BlankDesk

\* The tab says "paid", or will at its next load.
ShowsPaid(tab) == tab.view.payment = "APPROVED" \/ tab.url = TRUE

\* What the service may have taken for "paid".
Paid == Approved # {} \/ inquired # {}

\* The tab has seen versions that the payments have had.
HasSeen(tab, rows) ==
  /\ \A p \in DOMAIN tab.queue : /\ p \in PaymentIds
                                 /\ tab.queue[p] \in 1 .. rows[p].version
  /\ tab.waits \in PaymentIds => tab.seen \in 1 .. rows[tab.waits].version

Tabs ==
  /\ portal = [c \in DriverTabs |-> portal[c]]
  /\ \A c \in DriverTabs : /\ IsPortalTab(portal[c])
                           /\ ShowsPaid(portal[c]) => Paid
  /\ desk = [c \in DeskTabs |-> desk[c]]
  /\ \A c \in DeskTabs : IsDeskTab(desk[c]) /\ HasSeen(desk[c], payments)
  /\ reported = [p \in PaymentIds |-> reported[p]]

\* An attempt is VERIFIED with its payment or by the inquiry.
Online ==
  /\ attempts = [t \in Attempts |-> attempts[t]]
  /\ \A t \in Attempts : attempts[t] = "VERIFIED" => Paid
  /\ workers = [w \in Workers |-> workers[w]]
  /\ \A w \in Workers :
       /\ workers[w] = [at |-> workers[w].at, attempt |-> workers[w].attempt]
       /\ workers[w].at # "idle" => workers[w].attempt \in Attempts

LEMMA PaidStays ==
  ASSUME PaymentsGrow, inquired \subseteq inquired', Paid
  PROVE  Paid'
  BY DEF PaymentsGrow, Paid

\* What was seen stays true.
LEMMA SeenStays ==
  ASSUME Books, Books', PaymentsGrow, NEW tab, HasSeen(tab, payments)
  PROVE  HasSeen(tab, payments')
  <1>1. ASSUME NEW p \in PaymentIds, NEW v \in 1 .. payments[p].version
        PROVE  v \in 1 .. payments'[p].version
    <2>1. payments[p].version \in Nat /\ payments'[p].version \in Nat
      BY DEF Books, BooksType, PaymentRow
    <2>2. payments'[p].version >= payments[p].version
      BY DEF PaymentsGrow
    <2>3. QED
      BY <2>1, <2>2
  <1>2. QED
    BY <1>1 DEF HasSeen

\* A step of one tab of the driver.
LEMMA PortalMoves ==
  ASSUME Books, Books', PaymentsGrow, Tabs, NEW c \in DriverTabs, NEW tab,
         portal' = [portal EXCEPT ![c] = tab], desk' = desk,
         reported' = [p \in PaymentIds |-> reported'[p]], inquired' = inquired,
         IsPortalTab(tab), ShowsPaid(tab) => Paid'
  PROVE  Tabs'
  <1>1. /\ portal' = [d \in DriverTabs |-> portal'[d]]
        /\ \A d \in DriverTabs : portal'[d] = portal[d] \/ portal'[d] = tab
    BY DEF Tabs
  <1>2. \A d \in DriverTabs : /\ IsPortalTab(portal'[d])
                             /\ ShowsPaid(portal'[d]) => Paid'
    BY <1>1, PaidStays DEF Tabs
  <1>3. \A d \in DeskTabs : IsDeskTab(desk'[d]) /\ HasSeen(desk'[d], payments')
    BY SeenStays DEF Tabs
  <1>4. QED
    BY <1>1, <1>2, <1>3 DEF Tabs

\* A step of one tab of the desk.
LEMMA DeskMoves ==
  ASSUME Books, Books', PaymentsGrow, Tabs, NEW c \in DeskTabs, NEW tab,
         desk' = [desk EXCEPT ![c] = tab],
         UNCHANGED <<portal, reported, inquired>>,
         IsDeskTab(tab), HasSeen(tab, payments')
  PROVE  Tabs'
  <1>1. /\ desk' = [d \in DeskTabs |-> desk'[d]]
        /\ \A d \in DeskTabs : desk'[d] = desk[d] \/ desk'[d] = tab
    BY DEF Tabs
  <1>2. \A d \in DeskTabs : IsDeskTab(desk'[d]) /\ HasSeen(desk'[d], payments')
    BY <1>1, SeenStays DEF Tabs
  <1>3. \A d \in DriverTabs : /\ IsPortalTab(portal'[d])
                             /\ ShowsPaid(portal'[d]) => Paid'
    BY PaidStays DEF Tabs
  <1>4. QED
    BY <1>1, <1>2, <1>3 DEF Tabs

\* A step of the inquiry: the pages only age.
LEMMA PagesStay ==
  ASSUME Books, Books', PaymentsGrow, Tabs, UNCHANGED <<portal, desk>>,
         reported' = [p \in PaymentIds |-> reported'[p]], inquired \subseteq inquired'
  PROVE  Tabs'
  <1>1. \A d \in DriverTabs : /\ IsPortalTab(portal'[d])
                             /\ ShowsPaid(portal'[d]) => Paid'
    BY PaidStays DEF Tabs
  <1>2. \A d \in DeskTabs : IsDeskTab(desk'[d]) /\ HasSeen(desk'[d], payments')
    BY SeenStays DEF Tabs
  <1>3. QED
    BY <1>1, <1>2 DEF Tabs

-----------------------------------------------------------------------------
(* The pages only call the services.                                       *)

LEMMA PortalCalls ==
  ASSUME Books, NEW c \in DriverTabs, PortalStep(c)
  PROVE  LifeNext \/ UNCHANGED lifeVars
  <1>1. c \in Callers
    BY ScreensAssumption
  <1>2. CASE ServicesIdle
    BY <1>2 DEF ServicesIdle
  <1>3. CurrentAmount \in StoredAmounts /\ {"MANUAL", "GATEWAY"} \subseteq Methods
    <2>1. CurrentAmounts # {}
      BY DEF Books
    <2>2. CurrentAmount \in CurrentAmounts
      BY <2>1 DEF CurrentAmount
    <2>3. QED
      BY <2>2, ScreensAssumption DEF CurrentAmounts
  <1>4. ASSUME SettlementStep(c) \/ ReleaseStep(c) \/ RollbackStep(c),
               UNCHANGED <<commitmentVars, refundVars>>
        PROVE  LifeNext
    BY <1>1, <1>4 DEF LifeNext, Next
  <1>5. CASE Arrive(c)
    <2>1. CASE BeginDecline(c)
      BY <1>1, <1>5, <2>1 DEF Arrive, LifeNext, CommitmentStep
    <2>2. CASE BeginSubmit(c, "MANUAL", CurrentAmount)
      <3>1. SettlementStep(c)
        BY <1>3, <1>5, <2>2 DEF Arrive, SettlementStep
      <3>2. QED
        BY <1>4, <1>5, <3>1 DEF Arrive
    <2>3. CASE BeginGrant(c, None)
      <3>1. ReleaseStep(c)
        BY <1>5, <2>3 DEF Arrive, ReleaseStep
      <3>2. QED
        BY <1>4, <1>5, <3>1 DEF Arrive
    <2>4. QED
      BY <1>5, <2>1, <2>2, <2>3 DEF Arrive
  <1>6. ASSUME NEW p \in PaymentIds, CommitReport(c, p) \/ CommitOnline(c, p)
        PROVE  LifeNext
    <2>1. /\ CommitSubmit(c, p)
          /\ UNCHANGED <<releaseVars, commitmentVars, refundVars>>
      BY <1>6 DEF CommitReport, CommitOnline
    <2>2. SettlementStep(c)
      BY <2>1 DEF SettlementStep
    <2>3. QED
      BY <1>4, <2>1, <2>2
  <1>7. CASE CommitPortalDecline(c)
    BY <1>1, <1>7 DEF CommitPortalDecline, LifeNext, CommitmentStep
  <1>8. CASE CommitDownload(c)
    <2>1. ReleaseStep(c)
      BY <1>8 DEF CommitDownload, ReleaseStep
    <2>2. QED
      BY <1>4, <1>8, <2>1 DEF CommitDownload
  <1>9. CASE Fail(c)
    <2>1. RollbackStep(c)
      BY <1>9 DEF Fail, RollbackStep
    <2>2. QED
      BY <1>4, <1>9, <2>1 DEF Fail
  <1>10. CASE Confirm(c)
    <2>1. SettlementStep(c)
      BY <1>3, <1>10 DEF Confirm, SettlementStep
    <2>2. QED
      BY <1>4, <1>10, <2>1 DEF Confirm
  <1>11. QED
    BY <1>2, <1>5, <1>6, <1>7, <1>8, <1>9, <1>10
    DEF PortalStep, PageStep, OnlineStep, Load, Sign, Decline, Send, MakeTransfer, Report,
        Download, Refuse, LoseAnswer, Deliver, PayOnline, ReturnAgain, AlreadyVerified,
        ReturnUnpaid

LEMMA InquiryCalls ==
  ASSUME Books, NEW w \in Workers, InquiryStep(w)
  PROVE  LifeNext \/ UNCHANGED lifeVars
  <1>1. w \in Callers
    BY ScreensAssumption
  <1>2. CASE ServicesIdle
    BY <1>2 DEF ServicesIdle
  <1>3. CurrentAmount \in StoredAmounts /\ "GATEWAY" \in Methods
    BY ScreensAssumption DEF Books, CurrentAmount, CurrentAmounts, StoredAmounts
  <1>4. ASSUME SettlementStep(w) \/ RollbackStep(w),
               UNCHANGED <<commitmentVars, refundVars>>
        PROVE  LifeNext
    BY <1>1, <1>4 DEF LifeNext, Next
  <1>5. CASE InquirySubmits(w)
    <2>1. SettlementStep(w)
      BY <1>3, <1>5 DEF InquirySubmits, SettlementStep
    <2>2. QED
      BY <1>4, <1>5, <2>1 DEF InquirySubmits
  <1>6. ASSUME NEW p \in PaymentIds, CommitInquired(w, p)
        PROVE  LifeNext
    <2>1. SettlementStep(w)
      BY <1>6 DEF CommitInquired, SettlementStep
    <2>2. QED
      BY <1>4, <1>6, <2>1 DEF CommitInquired
  <1>7. ASSUME Rollback(w),
               UNCHANGED <<settlementVars, releaseVars, commitmentVars, refundVars>>
        PROVE  LifeNext
    BY <1>4, <1>7 DEF RollbackStep
  <1>8. QED
    BY <1>2, <1>5, <1>6, <1>7
    DEF InquiryStep, ReadBatch, InquiryVerified, InquiryNotVerified, Swallow

LEMMA DeskCalls ==
  ASSUME Tabs, NEW c \in DeskTabs, DeskStep(c)
  PROVE  LifeNext \/ UNCHANGED lifeVars
  <1>1. c \in Callers
    BY ScreensAssumption
  <1>2. CASE ServicesIdle
    BY <1>2 DEF ServicesIdle
  <1>3. ASSUME SettlementStep(c) \/ ReleaseStep(c) \/ RollbackStep(c),
               UNCHANGED <<commitmentVars, refundVars>>
        PROVE  LifeNext
    BY <1>1, <1>3 DEF LifeNext, Next
  <1>4. CASE ArriveDesk(c)
    <2>1. CASE BeginAuthorize(c)
      <3>1. ReleaseStep(c)
        BY <1>4, <2>1 DEF ArriveDesk, ReleaseStep
      <3>2. QED
        BY <1>3, <1>4, <3>1 DEF ArriveDesk
    <2>2. ASSUME NEW p \in PaymentIds, p = desk[c].waits, NEW r \in Reviewers,
                 BeginReview(c, p, Understood(desk[c].button), r, desk[c].seen)
          PROVE  LifeNext
      <3>1. desk[c].seen \in 1 .. payments[p].version
        BY <2>2 DEF Tabs, HasSeen
      <3>2. Understood(desk[c].button) \in Decisions
        BY DEF Understood, Decisions
      <3>3. SettlementStep(c)
        BY <1>4, <2>2, <3>1, <3>2 DEF ArriveDesk, SettlementStep
      <3>4. QED
        BY <1>3, <1>4, <3>3 DEF ArriveDesk
    <2>3. QED
      BY <1>4, <2>1, <2>2 DEF ArriveDesk
  <1>5. CASE CommitDeskReview(c)
    <2>1. SettlementStep(c)
      BY <1>5 DEF CommitDeskReview, SettlementStep
    <2>2. QED
      BY <1>3, <1>5, <2>1 DEF CommitDeskReview
  <1>6. ASSUME NEW a \in AuthIds, CommitDeskAuthorize(c, a)
        PROVE  LifeNext
    <2>1. ReleaseStep(c)
      BY <1>6 DEF CommitDeskAuthorize, ReleaseStep
    <2>2. QED
      BY <1>3, <1>6, <2>1 DEF CommitDeskAuthorize
  <1>7. CASE FailDesk(c)
    <2>1. RollbackStep(c)
      BY <1>7 DEF FailDesk, RollbackStep
    <2>2. QED
      BY <1>3, <1>7, <2>1 DEF FailDesk
  <1>8. QED
    BY <1>2, <1>4, <1>5, <1>6, <1>7
    DEF DeskStep, LoadQueue, OpenPayments, OpenDetail, Decide, Press, AnswerAgain,
        RefuseDesk, LoseDeskAnswer, DeliverDesk

-----------------------------------------------------------------------------
(* What the tabs show has happened.                                        *)

\* A tab whose request goes out shows what it showed.
LEMMA SameView ==
  ASSUME NEW tab, IsPortalTab(tab), NEW waits, NEW transfer,
         waits = "bank" => transfer \in Attempts
  PROVE  LET new == [tab EXCEPT !.waits = waits, !.transfer = transfer]
         IN  IsPortalTab(new) /\ (ShowsPaid(new) => ShowsPaid(tab))
  BY TabFields DEF IsPortalTab, ShowsPaid

LEMMA BlankTab ==
  /\ IsPortalTab(BlankPortal) /\ ~ShowsPaid(BlankPortal)
  /\ IsPortalTab([BlankPortal EXCEPT !.url = TRUE])
  /\ \A t \in Attempts :
       LET new == [BlankPortal EXCEPT !.waits = "bank", !.transfer = t]
       IN  IsPortalTab(new) /\ ~ShowsPaid(new)
  BY ScreensAssumption, TabFields DEF IsPortalTab, ShowsPaid, BlankPortal, NoView, PaymentStatus

LEMMA PortalKeeps ==
  ASSUME Books, Books', Credited, PaymentsGrow, Tabs, Online, NEW c \in DriverTabs,
         PortalStep(c)
  PROVE  Tabs'
  <1> DEFINE tab == portal[c]
  <1>0. inquired' = inquired
    BY DEF PortalStep, OnlineStep, PayOnline, ReturnAgain, AlreadyVerified, Confirm,
           CommitOnline, ReturnUnpaid, onlineVars, screenVars
  <1>1. IsPortalTab(tab) /\ (ShowsPaid(tab) => Paid)
    BY DEF Tabs
  <1>2. ASSUME NEW new, portal' = [portal EXCEPT ![c] = new], UNCHANGED <<desk, reported>>,
               IsPortalTab(new), ShowsPaid(new) => Paid
        PROVE  Tabs'
    <2>1. reported' = [p \in PaymentIds |-> reported'[p]]
      BY <1>2 DEF Tabs
    <2>2. ShowsPaid(new) => Paid'
      BY <1>0, <1>2, PaidStays
    <2>3. QED
      BY <1>0, <1>2, <2>1, <2>2, PortalMoves
  <1>3. ASSUME NEW new, OnlyPortal(c, new), reported' = reported,
               IsPortalTab(new), ShowsPaid(new) => Paid
        PROVE  Tabs'
    BY <1>2, <1>3 DEF OnlyPortal
  <1>4. ASSUME NEW url \in BOOLEAN, Load(c, url)
        PROVE  Tabs'
    <2> DEFINE new == [tab EXCEPT !.view = View(url), !.url = url,
                                  !.waits = "nothing", !.reply = None]
    <2>1. OnlyPortal(c, new) /\ reported' = reported /\ (url => tab.url)
      BY <1>4 DEF Load, ServicesIdle
    <2>2. IsPortalTab(new) /\ new.view = View(url) /\ new.url = url
      BY <1>1, TabFields DEF IsPortalTab, View
    <2>3. CASE url = TRUE
      <3>1. ShowsPaid(tab)
        BY <2>1, <2>3, Zenon DEF ShowsPaid
      <3>2. QED
        BY <1>1, <1>3, <2>1, <2>2, <3>1
    <2>4. CASE url = FALSE
      <3>1. ShowsPaid(new) => waybill.payment = "APPROVED"
        BY <2>2, <2>4 DEF ShowsPaid, View
      <3>2. ShowsPaid(new) => Paid
        BY <3>1 DEF Credited, PaidWasCredited, Paid
      <3>3. QED
        BY <1>3, <2>1, <2>2, <3>2
    <2>5. QED
      BY <1>4, <2>3, <2>4
  <1>5. ASSUME NEW waits, NEW transfer, Send(c, waits, transfer),
               waits = "bank" => transfer \in Attempts
        PROVE  Tabs'
    <2>1. OnlyPortal(c, [tab EXCEPT !.waits = waits, !.transfer = transfer])
          /\ reported' = reported
      BY <1>5 DEF Send, ServicesIdle
    <2>2. QED
      BY <1>1, <1>3, <1>5, <2>1, SameView
  <1>6. CASE UNCHANGED <<portal, desk, reported>>
    <2>1. portal' = [portal EXCEPT ![c] = tab]
      BY <1>6 DEF Tabs
    <2>2. QED
      BY <1>1, <1>2, <1>6, <2>1
  <1>7. ASSUME OnlyPortal(c, WithoutAnswer(tab)), reported' = reported
        PROVE  Tabs'
    <2>1. \/ WithoutAnswer(tab) = BlankPortal
          \/ WithoutAnswer(tab) = [tab EXCEPT !.waits = "nothing", !.reply = None]
      BY DEF WithoutAnswer
    <2>2. IsPortalTab(WithoutAnswer(tab)) /\ (ShowsPaid(WithoutAnswer(tab)) => ShowsPaid(tab))
      <3>1. CASE WithoutAnswer(tab) = BlankPortal
        BY <3>1, BlankTab
      <3>2. CASE WithoutAnswer(tab) = [tab EXCEPT !.waits = "nothing", !.reply = None]
        BY <1>1, <3>2, TabFields DEF IsPortalTab, ShowsPaid
      <3>3. QED
        BY <2>1, <3>1, <3>2
    <2> HIDE DEF tab
    <2>3. QED
      BY <1>1, <1>3, <1>7, <2>2
  <1>8. ASSUME Accept(c), desk' = desk, reported' = [p \in PaymentIds |-> reported'[p]]
        PROVE  Tabs'
    <2>1. PICK reply : portal' = [portal EXCEPT ![c] = [tab EXCEPT !.reply = reply]]
      BY <1>8 DEF Accept
    <2>2. LET new == [tab EXCEPT !.reply = reply]
          IN  IsPortalTab(new) /\ (ShowsPaid(new) => Paid')
      <3>1. LET new == [tab EXCEPT !.reply = reply]
            IN  IsPortalTab(new) /\ (ShowsPaid(new) => ShowsPaid(tab))
        BY <1>1, TabFields DEF IsPortalTab, ShowsPaid
      <3> HIDE DEF tab
      <3>2. QED
        BY <1>0, <1>1, <3>1, PaidStays
    <2>3. QED
      BY <1>0, <1>8, <2>1, <2>2, PortalMoves
  <1>9. ASSUME NEW p \in PaymentIds, CommitReport(c, p)
        PROVE  Tabs'
    <2>1. Accept(c) /\ desk' = desk
      BY <1>9 DEF CommitReport
    <2>2. reported' = [q \in PaymentIds |-> reported'[q]]
      BY <1>9 DEF CommitReport, Tabs
    <2>3. QED
      BY <1>8, <2>1, <2>2
  <1>10. ASSUME NEW p \in PaymentIds, CommitOnline(c, p)
        PROVE  Tabs'
    <2>1. /\ portal' = [portal EXCEPT ![c] = [BlankPortal EXCEPT !.url = TRUE]]
          /\ desk' = desk
      BY <1>10 DEF CommitOnline, OnlyPortal
    <2>2. reported' = [q \in PaymentIds |-> reported'[q]]
      BY <1>10 DEF CommitOnline, Tabs
    <2>3. payments'[p].status = "APPROVED"
      BY <1>10 DEF CommitOnline, CommitSubmit, Books, BooksType
    <2>4. Paid'
      BY <2>3 DEF Approved, Paid
    <2>5. QED
      BY <1>0, <2>1, <2>2, <2>4, BlankTab, PortalMoves
  <1>11. CASE Deliver(c)
    <2> DEFINE new == [tab EXCEPT !.view = Answered(tab.view, tab.waits),
                                  !.waits = "nothing", !.reply = None]
    <2>1. OnlyPortal(c, new) /\ reported' = reported
      BY <1>1, <1>11, TabFields DEF Deliver, ServicesIdle, IsPortalTab
    <2>2. IsPortalTab(new) /\ (ShowsPaid(new) => ShowsPaid(tab))
      BY <1>1, TabFields DEF IsPortalTab, ShowsPaid, Answered
    <2>3. QED
      BY <1>1, <1>3, <2>1, <2>2
  <1>12. CASE CommitPortalDecline(c) \/ CommitDownload(c)
    <2>1. reported' = [p \in PaymentIds |-> reported'[p]]
      BY <1>12 DEF CommitPortalDecline, CommitDownload, Tabs
    <2>2. QED
      BY <1>8, <1>12, <2>1 DEF CommitPortalDecline, CommitDownload
  <1>13. ASSUME NEW t \in Attempts, ReturnAgain(c, t)
         PROVE  Tabs'
    BY <1>3, <1>13, BlankTab DEF ReturnAgain, ServicesIdle
  <1>14. ASSUME NEW t \in Attempts, AlreadyVerified(c, t)
         PROVE  Tabs'
    <2>1. Paid
      BY <1>14 DEF AlreadyVerified, Online
    <2>2. QED
      BY <1>3, <1>14, <2>1, BlankTab DEF AlreadyVerified, ServicesIdle
  <1>15. CASE ReturnUnpaid(c)
    BY <1>3, <1>15, BlankTab DEF ReturnUnpaid, ServicesIdle
  <1>16. CASE \E t \in Attempts : PayOnline(c, t)
    BY <1>5, <1>16 DEF PayOnline
  <1>17. CASE OnlineStep(c)
    BY <1>6, <1>10, <1>13, <1>14, <1>15, <1>16, <1>17 DEF OnlineStep, Confirm, screenVars
  <1>18. CASE PageStep(c)
    BY <1>4, <1>5, <1>6, <1>7, <1>9, <1>11, <1>12, <1>18
    DEF PageStep, Sign, Decline, MakeTransfer, Report, Download, Arrive, Refuse, Fail,
        LoseAnswer, ServicesIdle
  <1>19. QED
    BY <1>17, <1>18 DEF PortalStep

LEMMA InquiryKeeps ==
  ASSUME Books, Books', PaymentsGrow, Tabs, NEW w \in Workers, InquiryStep(w)
  PROVE  Tabs'
  <1>1. UNCHANGED <<portal, desk>> /\ inquired \subseteq inquired'
    BY DEF InquiryStep, ReadBatch, InquiryVerified, InquiryNotVerified, InquirySubmits,
           CommitInquired, Swallow, PagesIdle, onlineVars, screenVars
  <1>2. \/ reported' = reported
        \/ \E p \in PaymentIds : \E t : reported' = [reported EXCEPT ![p] = t]
    BY DEF InquiryStep, ReadBatch, InquiryVerified, InquiryNotVerified, InquirySubmits,
           CommitInquired, Swallow, ServicesIdle, screenVars
  <1>3. reported' = [p \in PaymentIds |-> reported'[p]]
    BY <1>2 DEF Tabs
  <1>4. QED
    BY <1>1, <1>3, PagesStay

\* An attempt becomes VERIFIED with a payment or in the history of the inquiry.
LEMMA OnlineKeeps ==
  ASSUME Books, Books', PaymentsGrow, Tabs, Online,
         [ScreensNext]_<<lifeVars, screenVars>>
  PROVE  Online'
  <1>1. ASSUME NEW t, NEW status, SetAttempt(t, status), status = "VERIFIED" => Paid',
               inquired \subseteq inquired'
        PROVE  /\ attempts' = [u \in Attempts |-> attempts'[u]]
               /\ \A u \in Attempts : attempts'[u] = "VERIFIED" => Paid'
    <2>1. /\ attempts' = [u \in Attempts |-> attempts'[u]]
          /\ \A u \in Attempts : attempts'[u] = attempts[u] \/ attempts'[u] = status
      BY <1>1 DEF SetAttempt, Online
    <2>2. QED
      BY <1>1, <2>1, PaidStays DEF Online
  <1>2. ASSUME UNCHANGED attempts, inquired \subseteq inquired'
        PROVE  /\ attempts' = [u \in Attempts |-> attempts'[u]]
               /\ \A u \in Attempts : attempts'[u] = "VERIFIED" => Paid'
    BY <1>2, PaidStays DEF Online
  <1>3. ASSUME UNCHANGED onlineVars PROVE Online'
    <2>1. UNCHANGED <<attempts, workers, inquired>>
      BY <1>3 DEF onlineVars
    <2>2. QED
      BY <1>2, <2>1 DEF Online
  <1>4. ASSUME NEW c \in DriverTabs, OnlineStep(c) PROVE Online'
    <2>1. UNCHANGED <<workers, inquired>>
      BY <1>4 DEF OnlineStep, PayOnline, ReturnAgain, AlreadyVerified, Confirm,
                  CommitOnline, ReturnUnpaid, onlineVars, screenVars
    <2>2. ASSUME NEW p \in PaymentIds, CommitOnline(c, p) PROVE Paid'
      <3>1. payments'[p].status = "APPROVED"
        BY <2>2 DEF CommitOnline, CommitSubmit, Books, BooksType
      <3>2. QED
        BY <3>1 DEF Approved, Paid
    <2>3. /\ attempts' = [u \in Attempts |-> attempts'[u]]
          /\ \A u \in Attempts : attempts'[u] = "VERIFIED" => Paid'
      <3>1. \/ UNCHANGED attempts
            \/ \E t : \E status \in {"OTHER", "UNKNOWN"} : SetAttempt(t, status)
            \/ Paid' /\ \E t : SetAttempt(t, "VERIFIED")
        BY <1>4, <2>2
        DEF OnlineStep, PayOnline, ReturnAgain, AlreadyVerified, Confirm, CommitOnline,
            ReturnUnpaid, onlineVars, screenVars
      <3>2. QED
        BY <1>1, <1>2, <2>1, <3>1
    <2>4. QED
      BY <2>1, <2>3 DEF Online
  <1>5. ASSUME NEW w \in Workers, InquiryStep(w) PROVE Online'
    <2>1. /\ workers' = [v \in Workers |-> workers'[v]]
          /\ \A v \in Workers :
               /\ workers'[v] = [at |-> workers'[v].at, attempt |-> workers'[v].attempt]
               /\ workers'[v].at # "idle" => workers'[v].attempt \in Attempts
      <3>1. \/ UNCHANGED workers
            \/ \E new : /\ workers' = [workers EXCEPT ![w] = new]
                        /\ new = [at |-> new.at, attempt |-> new.attempt]
                        /\ new.at # "idle" => new.attempt \in Attempts
        <4>1. CASE \E t \in Attempts : ReadBatch(w, t)
          <5>1. PICK t \in Attempts :
                  workers' = [workers EXCEPT ![w] = [at |-> "ask", attempt |-> t]]
            BY <4>1 DEF ReadBatch
          <5>2. LET new == [at |-> "ask", attempt |-> t]
                IN  /\ new = [at |-> new.at, attempt |-> new.attempt]
                    /\ new.attempt \in Attempts
            OBVIOUS
          <5>3. QED
            BY <5>1, <5>2
        <4>2. CASE InquiryVerified(w)
          <5>1. workers' = [workers EXCEPT ![w] = [workers[w] EXCEPT !.at = "submit"]]
            BY <4>2 DEF InquiryVerified, Online
          <5>2. LET new == [workers[w] EXCEPT !.at = "submit"]
                IN  /\ new = [at |-> new.at, attempt |-> new.attempt]
                    /\ new.attempt \in Attempts
            BY <4>2 DEF InquiryVerified, Online
          <5>3. QED
            BY <5>1, <5>2
        <4>3. CASE workers' = [workers EXCEPT ![w] = NoInquiry]
          <5>1. /\ NoInquiry = [at |-> NoInquiry.at, attempt |-> NoInquiry.attempt]
                /\ NoInquiry.at = "idle"
            BY DEF NoInquiry
          <5>2. QED
            BY <4>3, <5>1
        <4>4. QED
          BY <1>5, <4>1, <4>2, <4>3
          DEF InquiryStep, InquiryNotVerified, InquirySubmits, CommitInquired, Swallow,
              onlineVars, screenVars
      <3>2. QED
        BY <3>1 DEF Online
    <2>2. inquired \subseteq inquired'
      BY <1>5 DEF InquiryStep, ReadBatch, InquiryVerified, InquiryNotVerified,
                  InquirySubmits, CommitInquired, Swallow, onlineVars, screenVars
    <2>3. /\ attempts' = [u \in Attempts |-> attempts'[u]]
          /\ \A u \in Attempts : attempts'[u] = "VERIFIED" => Paid'
      <3>1. \/ UNCHANGED attempts
            \/ \E t : SetAttempt(t, "OTHER")
            \/ inquired' # {} /\ \E t : SetAttempt(t, "VERIFIED")
        BY <1>5 DEF InquiryStep, ReadBatch, InquiryVerified, InquiryNotVerified,
                    InquirySubmits, CommitInquired, Swallow, onlineVars, screenVars
      <3>2. inquired' # {} => Paid'
        BY DEF Paid
      <3>3. QED
        BY <1>1, <1>2, <2>2, <3>1, <3>2
    <2>4. QED
      BY <2>1, <2>3 DEF Online
  <1>6. QED
    BY <1>3, <1>4, <1>5 DEF ScreensNext, PortalStep, screenVars

LEMMA DeskKeeps ==
  ASSUME Books, Books', Counted, PaymentsGrow, Tabs, NEW c \in DeskTabs, DeskStep(c),
         inquired' = inquired
  PROVE  Tabs'
  <1> DEFINE tab == desk[c]
  <1>1. IsDeskTab(tab) /\ HasSeen(tab, payments)
    BY DEF Tabs
  <1>2. ASSUME NEW new, OnlyDesk(c, new), reported' = reported,
               IsDeskTab(new), HasSeen(new, payments)
        PROVE  Tabs'
    BY <1>2, SeenStays, DeskMoves DEF OnlyDesk
  <1>3. /\ \A p \in DOMAIN Queue : p \in PaymentIds /\ Queue[p] \in 1 .. payments[p].version
        /\ None \notin PaymentIds
    BY ScreensAssumption
    DEF Queue, ReviewQueue, Reviewable, Counted, Books, BooksType, PaymentRow
  <1>4. ASSUME NEW tab1 \in {tab, BlankDesk}, OnlyDesk(c, [tab1 EXCEPT !.queue = Queue]),
               reported' = reported
        PROVE  Tabs'
    <2>1. LET new == [tab1 EXCEPT !.queue = Queue]
          IN  IsDeskTab(new) /\ HasSeen(new, payments)
      BY <1>1, <1>3, <1>4, TabFields DEF IsDeskTab, HasSeen, BlankDesk
    <2>2. QED
      BY <1>2, <1>4, <2>1
  <1>5. CASE OpenDetail(c)
    <2>1. LET new == [BlankDesk EXCEPT !.shown = waybill.release]
          IN  IsDeskTab(new) /\ HasSeen(new, payments)
      BY <1>3, TabFields DEF IsDeskTab, HasSeen, BlankDesk
    <2>2. QED
      BY <1>2, <1>5, <2>1 DEF OpenDetail, ServicesIdle
  <1>6. ASSUME NEW p \in PaymentIds, NEW button, Decide(c, p, button)
        PROVE  Tabs'
    <2>1. LET new == [tab EXCEPT !.waits = p, !.button = button, !.seen = tab.queue[p]]
          IN  IsDeskTab(new) /\ HasSeen(new, payments)
      BY <1>1, <1>6, TabFields DEF IsDeskTab, HasSeen, Decide
    <2>2. QED
      BY <1>2, <1>6, <2>1 DEF Decide, ServicesIdle
  <1>7. ASSUME NEW button, Press(c, button)
        PROVE  Tabs'
    <2>1. LET new == [tab EXCEPT !.waits = "waybill", !.button = button]
          IN  IsDeskTab(new) /\ HasSeen(new, payments)
      BY <1>1, ScreensAssumption, TabFields DEF IsDeskTab, HasSeen
    <2>2. QED
      BY <1>2, <1>7, <2>1 DEF Press, ServicesIdle
  <1>8. ASSUME NEW reply, OnlyDesk(c, [tab EXCEPT !.reply = reply]), reported' = reported
        PROVE  Tabs'
    <2>1. LET new == [tab EXCEPT !.reply = reply]
          IN  IsDeskTab(new) /\ HasSeen(new, payments)
      BY <1>1, TabFields DEF IsDeskTab, HasSeen
    <2>2. QED
      BY <1>2, <1>8, <2>1
  <1>9. ASSUME NEW told, reported' = reported,
               OnlyDesk(c, [tab EXCEPT !.waits = None, !.reply = None, !.told = told])
        PROVE  Tabs'
    <2>1. LET new == [tab EXCEPT !.waits = None, !.reply = None, !.told = told]
          IN  IsDeskTab(new) /\ HasSeen(new, payments)
      BY <1>1, <1>3, TabFields DEF IsDeskTab, HasSeen
    <2>2. QED
      BY <1>2, <1>9, <2>1
  <1>10. CASE UNCHANGED <<portal, desk, reported>>
    BY <1>10, PagesStay DEF Tabs
  <1>11. CASE LoadQueue(c) \/ OpenPayments(c)
    BY <1>4, <1>11 DEF LoadQueue, OpenPayments, ServicesIdle
  <1>12. CASE AnswerAgain(c) \/ CommitDeskReview(c) \/ \E a \in AuthIds : CommitDeskAuthorize(c, a)
    BY <1>8, <1>12
    DEF AnswerAgain, CommitDeskReview, CommitDeskAuthorize, AcceptDesk, ServicesIdle
  <1>13. CASE RefuseDesk(c) \/ FailDesk(c) \/ LoseDeskAnswer(c) \/ DeliverDesk(c)
    BY <1>9, <1>13
    DEF RefuseDesk, FailDesk, LoseDeskAnswer, DeliverDesk, ShowError, ServicesIdle
  <1>14. QED
    BY <1>5, <1>6, <1>7, <1>10, <1>11, <1>12, <1>13
    DEF DeskStep, ArriveDesk, screenVars

\* Everything the pages rest on.
ScreensInv == Inv /\ Books /\ Credited /\ Counted /\ Tabs /\ Online

LEMMA ScreensInvInit == ScreensInit => ScreensInv
  <1> SUFFICES ASSUME ScreensInit PROVE ScreensInv
    OBVIOUS
  <1>1. Inv /\ Books /\ Credited
    BY InvInit, BooksInit, CreditedInit DEF ScreensInit
  <1>2. Counted /\ Approved = {}
    BY DEF ScreensInit, LifeInit, Init, InitSettlement, Counted, Approved, NoPayment
  <1>3. \A c \in DriverTabs : IsPortalTab(portal[c]) /\ ~ShowsPaid(portal[c])
    BY BlankTab DEF ScreensInit
  <1>4. \A c \in DeskTabs : IsDeskTab(desk[c]) /\ HasSeen(desk[c], payments)
    BY ScreensAssumption, TabFields DEF ScreensInit, BlankDesk, IsDeskTab, HasSeen
  <1>5. Online
    BY DEF ScreensInit, Online, NoInquiry
  <1>6. QED
    BY <1>1, <1>2, <1>3, <1>4, <1>5 DEF ScreensInit, ScreensInv, Tabs

\* Every step of a page is a step of the services or leaves them alone.
LEMMA PagesCall ==
  ScreensInv /\ [ScreensNext]_<<lifeVars, screenVars>> => [LifeNext]_lifeVars
  BY PortalCalls, DeskCalls, InquiryCalls DEF ScreensInv, ScreensNext

LEMMA ScreensInvStep ==
  ScreensInv /\ [ScreensNext]_<<lifeVars, screenVars>> => ScreensInv'
  <1> SUFFICES ASSUME ScreensInv, [ScreensNext]_<<lifeVars, screenVars>>
               PROVE  ScreensInv'
    OBVIOUS
  <1>1. [LifeNext]_lifeVars
    BY PagesCall
  <1>2. Inv' /\ Books' /\ Credited'
    BY <1>1, InvStep, BooksStep, CreditedStep DEF ScreensInv
  <1>3. Counted' /\ PaymentsGrow
    BY <1>1, PaymentsMoved, CountedGrow DEF ScreensInv
  <1>4. ASSUME UNCHANGED <<lifeVars, screenVars>> PROVE Tabs'
    <2>1. UNCHANGED <<payments, portal, desk, reported, inquired>>
      BY <1>4 DEF lifeVars, vars, settlementVars, onlineVars, screenVars
    <2>2. QED
      BY <2>1 DEF ScreensInv, Tabs, Paid, Approved
  <1>5. Tabs'
    BY <1>2, <1>3, <1>4, PortalKeeps, DeskKeeps, InquiryKeeps
    DEF ScreensInv, ScreensNext, onlineVars
  <1>6. Online'
    BY <1>2, <1>3, OnlineKeeps DEF ScreensInv
  <1>7. QED
    BY <1>2, <1>3, <1>5, <1>6 DEF ScreensInv

\* Whatever the tabs do, reload, repeat or lose, the services only see the calls
\* their own specification allows: what is proved of the services holds under the
\* pages (DriverPortalClient, the payments page, the waybill page).
THEOREM PagesOnlyCallServices == ScreensSpec => LifeSpec
  <1>1. ScreensInit => LifeInit
    BY DEF ScreensInit
  <1>2. QED
    BY <1>1, ScreensInvInit, PagesCall, ScreensInvStep, PTL DEF ScreensSpec, LifeSpec

\* So the pages, too, keep every promise: tabs that reload, repeat and lose
\* answers break none, decide no payment twice and bring no cancelled waybill back.
THEOREM PagesKeepPromises ==
  ScreensSpec => /\ [](/\ OneCurrentAmount /\ DecidedOnce /\ OneActiveAuthorization
                       /\ DownloadableIffReleased /\ NeverWithoutAuthorization
                       /\ PhaseKeepsPromise)
                 /\ CancelledIsFinal
                 /\ ImplementsLedger
  BY PagesOnlyCallServices, PromisesOutliveOtherServices, CancelledInLife, LedgerInLife

\* The portal says "paid" only of a waybill with an approved payment or an attempt
\* that an inquiry marked VERIFIED, whatever the address of the page, reloads,
\* repeated callbacks and late answers make of it (DriverPortalClient).
THEOREM ShownPaidIsCredited == ScreensSpec => []ShownPaidWasCredited
  <1>1. ScreensInv => ShownPaidWasCredited
    BY DEF ScreensInv, Tabs, ShowsPaid, Paid, ShownPaidWasCredited
  <1>2. QED
    BY <1>1, ScreensInvInit, ScreensInvStep, PTL DEF ScreensSpec

\* What a payment is for is written once it was not reported, or is no transfer.
LEMMA ReportsWritten ==
  ASSUME Tabs, Online, [ScreensNext]_<<lifeVars, screenVars>>
  PROVE  \/ reported' = reported
         \/ \E p \in PaymentIds : \E t : /\ NotReported(t)
                                        /\ reported' = [reported EXCEPT ![p] = t]
  <1>1. \A t \in Attempts : NotReported(t)
    BY ScreensAssumption DEF NotReported
  <1>2. ASSUME NEW c \in DriverTabs, NEW p \in PaymentIds, CommitOnline(c, p)
        PROVE  \E t \in Attempts : reported' = [reported EXCEPT ![p] = t]
    BY <1>2 DEF CommitOnline, Tabs, IsPortalTab
  <1>3. ASSUME NEW w \in Workers, NEW p \in PaymentIds, CommitInquired(w, p)
        PROVE  \E t \in Attempts : reported' = [reported EXCEPT ![p] = t]
    BY <1>3 DEF CommitInquired, Online
  <1>4. ASSUME NEW c \in DriverTabs, PageStep(c)
        PROVE  \/ reported' = reported
               \/ \E p \in PaymentIds : \E t : /\ NotReported(t)
                                              /\ reported' = [reported EXCEPT ![p] = t]
    BY <1>4
    DEF PageStep, Load, Send, Sign, Decline, MakeTransfer, Report, Download, Arrive,
        CommitReport, CommitPortalDecline, CommitDownload, Refuse, Fail, LoseAnswer,
        Deliver, ServicesIdle
  <1>5. ASSUME NEW c \in DriverTabs, OnlineStep(c)
        PROVE  reported' = reported \/ \E p \in PaymentIds : CommitOnline(c, p)
    BY <1>5
    DEF OnlineStep, PayOnline, Send, ReturnAgain, AlreadyVerified, Confirm, ReturnUnpaid,
        ServicesIdle, screenVars
  <1>6. ASSUME NEW w \in Workers, InquiryStep(w)
        PROVE  reported' = reported \/ \E p \in PaymentIds : CommitInquired(w, p)
    BY <1>6
    DEF InquiryStep, ReadBatch, InquiryVerified, InquiryNotVerified, InquirySubmits,
        Swallow, ServicesIdle, screenVars
  <1>7. ASSUME NEW c \in DeskTabs, DeskStep(c)
        PROVE  reported' = reported
    BY <1>7
    DEF DeskStep, LoadQueue, OpenPayments, OpenDetail, Decide, Press, ArriveDesk,
        AnswerAgain, CommitDeskReview, CommitDeskAuthorize, RefuseDesk, FailDesk,
        LoseDeskAnswer, DeliverDesk, ServicesIdle
  <1>8. QED
    BY <1>1, <1>2, <1>3, <1>4, <1>5, <1>6, <1>7 DEF ScreensNext, PortalStep, screenVars

\* A transfer reported with its tracking number is entered once, from however many
\* tabs and however often it is reported
\* (POST /api/driver/payment/card-to-card).
THEOREM TransfersEnteredOnce == ScreensSpec => []TransferEnteredOnce
  <1>1. ScreensInit => TransferEnteredOnce
    BY ScreensAssumption DEF ScreensInit, TransferEnteredOnce
  <1>2. ScreensInv /\ TransferEnteredOnce /\ [ScreensNext]_<<lifeVars, screenVars>>
        => TransferEnteredOnce'
    <2> SUFFICES ASSUME ScreensInv, TransferEnteredOnce,
                        [ScreensNext]_<<lifeVars, screenVars>>
                 PROVE  TransferEnteredOnce'
      OBVIOUS
    <2>1. CASE reported' = reported
      BY <2>1 DEF TransferEnteredOnce
    <2>2. ASSUME NEW p \in PaymentIds, NEW t, NotReported(t),
                 reported' = [reported EXCEPT ![p] = t]
          PROVE  TransferEnteredOnce'
      <3>1. reported'[p] = t /\ \A q \in PaymentIds \ {p} : reported'[q] = reported[q]
        BY <2>2 DEF ScreensInv, Tabs
      <3>2. QED
        BY <2>2, <3>1 DEF TransferEnteredOnce, NotReported
    <2>3. QED
      BY <2>1, <2>2, ReportsWritten DEF ScreensInv
  <1>3. QED
    BY <1>1, <1>2, ScreensInvInit, ScreensInvStep, PTL DEF ScreensSpec

=============================================================================
