-------------------------- MODULE FulfilmentProofs --------------------------
(***************************************************************************)
(* Theorems about Fulfilment, for every number of concurrent calls,        *)
(* amounts, payments, reviewers, authorizations and sessions.              *)
(***************************************************************************)
EXTENDS Fulfilment, SumTheorems

\* The rows hold values of their columns, and a call of these services in flight
\* holds what its handler computed; calls of other services hold what they like.
OwnOps == {"idle", "submit", "review", "correct", "authorize", "revoke", "grant",
           "shipment", "document"}

CallsTyped ==
  /\ calls = [c \in Callers |-> calls[c]]
  /\ \A c \in Callers : calls[c].op \in OwnOps => calls[c] \in Calls

Typed ==
  /\ waybill \in WaybillRow
  /\ CallsTyped
  /\ amounts \in [AmountIds -> AmountRow]
  /\ payments \in [PaymentIds -> PaymentRow]
  /\ reviews \in [PaymentIds -> [Decisions -> Nat]]
  /\ authorizations \in [AuthIds -> {"ABSENT", "ACTIVE", "REVOKED"}]
  /\ sessions \in [Sessions -> {"VALID", "ENDED"}]
  /\ accessEvents \subseteq Sessions \cup {None}

\* Every call in flight is one of these services'.
OwnCalls == \A c \in Callers : calls[c].op \in OwnOps

LEMMA OpsAreOwn ==
  ASSUME NEW x \in Calls
  PROVE  x.op \in OwnOps
  BY DEF Calls, OwnOps, Idle, SubmitCalls, ReviewCalls, CorrectCalls, AuthorizeCalls,
         RevokeCalls, GrantCalls, ShipmentCalls, DocumentCalls

LEMMA TypeMeans == TypeOK <=> Typed /\ OwnCalls
  BY OpsAreOwn DEF TypeOK, Typed, CallsTyped, OwnCalls

\* What a call in flight holds is determined by its operation.
LEMMA CallOfOp ==
  ASSUME CallsTyped, NEW c \in Callers
  PROVE  /\ calls[c].op = "submit" => calls[c] \in SubmitCalls
         /\ calls[c].op = "review" => calls[c] \in ReviewCalls
         /\ calls[c].op = "correct" => calls[c] \in CorrectCalls
         /\ calls[c].op = "authorize" => calls[c] \in AuthorizeCalls
         /\ calls[c].op = "revoke" => calls[c] \in RevokeCalls
         /\ calls[c].op = "grant" => calls[c] \in GrantCalls
         /\ calls[c].op = "shipment" => calls[c] \in ShipmentCalls
         /\ calls[c].op = "document" => calls[c] \in DocumentCalls
  <1> SUFFICES ASSUME calls[c] \in Calls, calls[c].op \in OwnOps \ {"idle"}
               PROVE  /\ calls[c].op = "submit" => calls[c] \in SubmitCalls
                      /\ calls[c].op = "review" => calls[c] \in ReviewCalls
                      /\ calls[c].op = "correct" => calls[c] \in CorrectCalls
                      /\ calls[c].op = "authorize" => calls[c] \in AuthorizeCalls
                      /\ calls[c].op = "revoke" => calls[c] \in RevokeCalls
                      /\ calls[c].op = "grant" => calls[c] \in GrantCalls
                      /\ calls[c].op = "shipment" => calls[c] \in ShipmentCalls
                      /\ calls[c].op = "document" => calls[c] \in DocumentCalls
    BY DEF CallsTyped, OwnOps
  <1>1. QED
    BY DEF Calls, Idle, SubmitCalls, ReviewCalls, CorrectCalls, AuthorizeCalls,
           RevokeCalls, GrantCalls, ShipmentCalls, DocumentCalls

\* The initial row is a row.
LEMMA InitType == Init => Typed
  <1> SUFFICES ASSUME Init PROVE Typed
    OBVIOUS
  <1> USE SettlementAssumption, RecordAssumption, ReleaseAssumption DEF Init, InitSettlement
  <1>1. waybill \in WaybillRow
    BY DEF InitialRow, WaybillRow, ShipmentStatus, DocumentStatus,
           PaymentStatus, CommitmentStatus, ReleaseStatus
  <1>2. CallsTyped
    BY DEF CallsTyped, Calls
  <1>3. amounts \in [AmountIds -> AmountRow]
    BY DEF AmountRow
  <1>4. payments \in [PaymentIds -> PaymentRow]
    BY DEF PaymentRow, NoPayment, PaymentStatus
  <1>5. reviews \in [PaymentIds -> [Decisions -> Nat]]
    OBVIOUS
  <1>6. /\ authorizations \in [AuthIds -> {"ABSENT", "ACTIVE", "REVOKED"}]
        /\ sessions \in [Sessions -> {"VALID", "ENDED"}]
        /\ accessEvents \subseteq Sessions \cup {None}
    OBVIOUS
  <1>7. QED
    BY <1>1, <1>2, <1>3, <1>4, <1>5, <1>6 DEF Typed

-----------------------------------------------------------------------------
(* Type correctness.                                                       *)

\* A handler that starts leaves a well-typed call in flight.
LEMMA StartType ==
  ASSUME CallsTyped, NEW c \in Callers, NEW call \in Calls,
         Start(c, call)
  PROVE  CallsTyped'
  BY DEF Start, CallsTyped

\* A handler that ends is idle again.
LEMMA FinishType ==
  ASSUME CallsTyped, NEW c \in Callers, Finish(c)
  PROVE  CallsTyped'
  BY DEF Finish, Calls, CallsTyped

\* The release status an approval computes is one.
LEMMA UnblockType ==
  ASSUME NEW w \in WaybillRow
  PROVE  UnblockIfReady(w) \in ReleaseStatus
  BY DEF UnblockIfReady, WaybillRow, ReleaseStatus

\* Bumping a row changes its version only.
LEMMA BumpRow ==
  ASSUME NEW w \in WaybillRow
  PROVE  /\ Bump(w) \in WaybillRow
         /\ Bump(w).shipment = w.shipment
         /\ Bump(w).document = w.document
         /\ Bump(w).payment = w.payment
         /\ Bump(w).commitment = w.commitment
         /\ Bump(w).release = w.release
         /\ Bump(w).currentAmount = w.currentAmount
  BY DEF Bump, WaybillRow

LEMMA SubmitType ==
  ASSUME Typed, NEW c \in Callers,
         \/ \E m \in Methods, a \in StoredAmounts : BeginSubmit(c, m, a)
         \/ \E p \in PaymentIds : CommitSubmit(c, p),
         UNCHANGED releaseVars
  PROVE  Typed'
  <1> USE SettlementAssumption DEF Typed, settlementVars, releaseVars
  <1>1. ASSUME NEW m \in Methods, NEW a \in StoredAmounts, BeginSubmit(c, m, a)
        PROVE  Typed'
    <2>1. CurrentAmount \in AmountIds
      BY <1>1 DEF BeginSubmit, CurrentAmount, CurrentAmounts, StoredAmounts
    <2> DEFINE call ==
          [op |-> "submit", method |-> m,
           amount |-> amounts[a].value, amountId |-> CurrentAmount,
           eligible |-> /\ m = "GATEWAY"
                        /\ DocVerified(waybill)
                        /\ CommitmentAccepted(waybill)]
    <2>2. amounts[a].value \in Nat
      BY DEF AmountRow, StoredAmounts
    <2>3. call.eligible \in BOOLEAN
      BY DEF DocVerified, CommitmentAccepted
    <2>4. call \in Calls
      BY <2>1, <2>2, <2>3 DEF Calls, SubmitCalls
    <2>5. CallsTyped'
      <3>1. Start(c, call)
        BY <1>1 DEF BeginSubmit
      <3> HIDE DEF call
      <3>2. QED
        BY <3>1, <2>4, StartType
    <2>6. QED
      BY <1>1, <2>5 DEF BeginSubmit
  <1>2. ASSUME NEW p \in PaymentIds, CommitSubmit(c, p)
        PROVE  Typed'
    <2>1. calls[c] \in SubmitCalls
      BY <1>2, CallOfOp DEF CommitSubmit
    <2>2. CallsTyped'
      BY <1>2, FinishType DEF CommitSubmit
    <2>3. payments' \in [PaymentIds -> PaymentRow]
      BY <1>2, <2>1 DEF CommitSubmit, PaymentRow, SubmitCalls, PaymentStatus
    <2>4. waybill' \in WaybillRow
      BY <1>2, <2>1 DEF CommitSubmit, WriteWaybill, WaybillRow, SubmitCalls,
                        PaymentStatus, ReleaseStatus
    <2>5. QED
      BY <1>2, <2>2, <2>3, <2>4 DEF CommitSubmit
  <1>3. QED
    BY <1>1, <1>2

LEMMA ReviewType ==
  ASSUME Typed, NEW c \in Callers,
         \/ \E p \in PaymentIds, d \in Decisions, r \in Reviewers :
              \E v \in 1 .. payments[p].version : BeginReview(c, p, d, r, v)
         \/ CommitReview(c),
         UNCHANGED releaseVars
  PROVE  Typed'
  <1> USE SettlementAssumption DEF Typed, settlementVars, releaseVars
  <1>1. ASSUME NEW p \in PaymentIds, NEW d \in Decisions, NEW r \in Reviewers,
               NEW v \in 1 .. payments[p].version, BeginReview(c, p, d, r, v)
        PROVE  Typed'
    <2> DEFINE call ==
          [op |-> "review", payment |-> p, decision |-> d, reviewer |-> r,
           expectedVersion |-> v, seenStatus |-> payments[p].status,
           newPayment |-> ReviewedPaymentStatus(p, d),
           newRelease |-> ReviewedReleaseStatus(p, d)]
    <2>1. ReviewedPaymentStatus(p, d) \in PaymentStatus
      BY DEF ReviewedPaymentStatus, Decisions, PaymentStatus
    <2>2. ReviewedReleaseStatus(p, d) \in ReleaseStatus
      BY UnblockType DEF ReviewedReleaseStatus, WaybillRow
    <2>3. payments[p].status \in Reviewable
      BY <1>1 DEF BeginReview
    <2>4. v \in Nat
      BY DEF PaymentRow
    <2>5. call \in Calls
      BY <2>1, <2>2, <2>3, <2>4 DEF Calls, ReviewCalls
    <2>6. Start(c, call)
      BY <1>1 DEF BeginReview
    <2> HIDE DEF call
    <2>7. CallsTyped'
      BY <2>5, <2>6, StartType
    <2>8. QED
      BY <1>1, <2>7 DEF BeginReview
  <1>2. ASSUME CommitReview(c)
        PROVE  Typed'
    <2>1. calls[c] \in ReviewCalls
      BY <1>2, CallOfOp DEF CommitReview
    <2>2. CallsTyped'
      BY <1>2, FinishType DEF CommitReview
    <2> DEFINE p == calls[c].payment
               old == payments[p]
               new == [old EXCEPT !.status = calls[c].decision,
                                  !.version = old.version + 1,
                                  !.reviewedBy = calls[c].reviewer]
    <2>3. payments' \in [PaymentIds -> PaymentRow]
      <3>1. p \in PaymentIds /\ old \in PaymentRow
        BY <2>1 DEF ReviewCalls
      <3>2. new \in PaymentRow
        <4>1. /\ calls[c].decision \in PaymentStatus \cup {"ABSENT"}
              /\ calls[c].reviewer \in Reviewers \cup {None}
          BY <2>1 DEF ReviewCalls, Decisions, PaymentStatus
        <4> HIDE DEF old
        <4>2. old.version + 1 \in Nat
          BY <3>1 DEF PaymentRow
        <4>3. QED
          BY <3>1, <4>1, <4>2 DEF PaymentRow
      <3>3. payments' = [payments EXCEPT ![p] = new]
        BY <1>2, <3>1 DEF CommitReview
      <3> HIDE DEF new, p
      <3>4. QED
        BY <3>1, <3>2, <3>3
    <2>4. reviews' \in [PaymentIds -> [Decisions -> Nat]]
      BY <1>2, <2>1 DEF CommitReview, ReviewCalls
    <2>5. waybill' \in WaybillRow
      BY <1>2, <2>1 DEF CommitReview, WriteWaybill, WaybillRow, ReviewCalls
    <2>6. QED
      BY <1>2, <2>2, <2>3, <2>4, <2>5 DEF CommitReview
  <1>3. QED
    BY <1>1, <1>2

LEMMA CorrectType ==
  ASSUME Typed, NEW c \in Callers,
         \/ \E v \in Values : BeginCorrect(c, v)
         \/ \E a \in AmountIds : CommitCorrect(c, a),
         UNCHANGED releaseVars
  PROVE  Typed'
  <1> USE SettlementAssumption DEF Typed, settlementVars, releaseVars
  <1>1. ASSUME NEW v \in Values, BeginCorrect(c, v)
        PROVE  Typed'
    <2> DEFINE call ==
          [op |-> "correct", amount |-> v,
           oldAmount |-> IF CurrentAmounts = {} THEN None ELSE CurrentAmount,
           newPayment |-> CorrectedPaymentStatus(v),
           newRelease |-> CorrectedReleaseStatus(v)]
    <2>1. CorrectedPaymentStatus(v) \in PaymentStatus
      BY DEF CorrectedPaymentStatus, PaymentStatus
    <2>2. CorrectedReleaseStatus(v) \in ReleaseStatus
      BY UnblockType
      DEF CorrectedReleaseStatus, WaybillRow, CorrectedPaymentStatus,
          ReleaseStatus
    <2>3. call.oldAmount \in AmountIds \cup {None}
      BY DEF CurrentAmount, CurrentAmounts, StoredAmounts
    <2>4. v \in Nat
      OBVIOUS
    <2>5. call \in Calls
      BY <2>1, <2>2, <2>3, <2>4 DEF Calls, CorrectCalls
    <2>6. Start(c, call)
      BY <1>1 DEF BeginCorrect
    <2> HIDE DEF call
    <2>7. CallsTyped'
      BY <2>5, <2>6, StartType
    <2>8. QED
      BY <1>1, <2>7 DEF BeginCorrect
  <1>2. ASSUME NEW a \in AmountIds, CommitCorrect(c, a)
        PROVE  Typed'
    <2>1. calls[c] \in CorrectCalls
      BY <1>2, CallOfOp DEF CommitCorrect
    <2>2. CallsTyped'
      BY <1>2, FinishType DEF CommitCorrect
    <2>3. amounts' \in [AmountIds -> AmountRow]
      <3>1. calls[c].amount \in Nat
        BY <2>1 DEF CorrectCalls
      <3>2. \A b \in AmountIds : [amounts[b] EXCEPT !.isCurrent = FALSE] \in AmountRow
        BY DEF AmountRow
      <3>3. [value |-> calls[c].amount, isCurrent |-> TRUE] \in AmountRow
        BY <3>1 DEF AmountRow
      <3>4. QED
        BY <1>2, <3>2, <3>3 DEF CommitCorrect
    <2> DEFINE row == [waybill EXCEPT !.currentAmount = a,
                                      !.payment = calls[c].newPayment,
                                      !.release = calls[c].newRelease]
    <2>4. waybill' \in WaybillRow
      <3>1. row \in WaybillRow
        BY <2>1 DEF WaybillRow, CorrectCalls
      <3>2. waybill' = Bump(row)
        BY <1>2 DEF CommitCorrect, WriteWaybill
      <3>3. QED
        BY <3>1, <3>2, BumpRow
    <2>5. QED
      BY <1>2, <2>2, <2>3, <2>4 DEF CommitCorrect
  <1>3. QED
    BY <1>1, <1>2

LEMMA ReleaseType ==
  ASSUME Typed, NEW c \in Callers, ReleaseStep(c)
  PROVE  Typed'
  <1> USE ReleaseAssumption DEF Typed, settlementVars, releaseVars
  <1>1. ASSUME BeginAuthorize(c) PROVE CallsTyped'
    BY <1>1, StartType DEF BeginAuthorize, Calls, AuthorizeCalls
  <1>2. ASSUME BeginRevoke(c) PROVE CallsTyped'
    <2> DEFINE call ==
          [op |-> "revoke",
           authorization |-> IF NoneActive THEN None
                             ELSE CHOOSE a \in ActiveAuthorizations : TRUE]
    <2>1. call \in Calls
      BY DEF Calls, RevokeCalls, NoneActive, ActiveAuthorizations
    <2>2. Start(c, call)
      BY <1>2 DEF BeginRevoke
    <2> HIDE DEF call
    <2>3. QED
      BY <2>1, <2>2, StartType
  <1>3. ASSUME NEW s \in Sessions \cup {None}, BeginGrant(c, s)
        PROVE  CallsTyped'
    BY <1>3, StartType DEF BeginGrant, Calls, GrantCalls
  <1>4. ASSUME NEW a \in AuthIds, CommitAuthorize(c, a) PROVE Typed'
    <2>1. CallsTyped'
      BY <1>4, FinishType DEF CommitAuthorize
    <2>2. waybill' \in WaybillRow
      <3>1. [waybill EXCEPT !.release = "AUTHORIZED"] \in WaybillRow
        BY DEF WaybillRow, ReleaseStatus
      <3>2. QED
        BY <1>4, <3>1, BumpRow DEF CommitAuthorize, WriteWaybill
    <2>3. QED
      BY <1>4, <2>1, <2>2, ReleaseStep(c) DEF CommitAuthorize, ReleaseStep
  <1>5. ASSUME CommitRevoke(c) PROVE Typed'
    <2>1. CallsTyped'
      BY <1>5, FinishType DEF CommitRevoke
    <2>2. waybill' \in WaybillRow
      <3>1. [waybill EXCEPT !.release = "REVOKED"] \in WaybillRow
        BY DEF WaybillRow, ReleaseStatus
      <3>2. QED
        BY <1>5, <3>1, BumpRow DEF CommitRevoke, WriteWaybill
    <2>3. sessions' \in [Sessions -> {"VALID", "ENDED"}]
      BY <1>5 DEF CommitRevoke, EndSessions
    <2>4. QED
      BY <1>5, <2>1, <2>2, <2>3, ReleaseStep(c) DEF CommitRevoke, ReleaseStep
  <1>6. ASSUME CommitGrant(c) PROVE Typed'
    <2>1. CallsTyped'
      BY <1>6, FinishType DEF CommitGrant
    <2>2. waybill' \in WaybillRow
      <3>1. [waybill EXCEPT !.release = "RELEASED"] \in WaybillRow
        BY DEF WaybillRow, ReleaseStatus
      <3>2. QED
        BY <1>6, <3>1, BumpRow DEF CommitGrant, WriteWaybill
    <2>3. calls[c] \in GrantCalls
      BY <1>6, CallOfOp DEF CommitGrant
    <2>4. accessEvents' \subseteq Sessions \cup {None}
      BY <1>6, <2>3 DEF CommitGrant, GrantCalls
    <2>5. QED
      BY <1>6, <2>1, <2>2, <2>4, ReleaseStep(c) DEF CommitGrant, ReleaseStep
  <1>7. QED
    BY <1>1, <1>2, <1>3, <1>4, <1>5, <1>6
    DEF ReleaseStep, BeginAuthorize, BeginRevoke, BeginGrant

LEMMA ShipmentType ==
  ASSUME Typed, NEW c \in Callers, ShipmentStep(c)
  PROVE  Typed'
  <1> USE DEF Typed, settlementVars, releaseVars
  <1>1. ASSUME NEW t \in Targets, NEW v \in 1 .. waybill.version,
               BeginShipment(c, t, v)
        PROVE  CallsTyped'
    <2>1. t \in ShipmentStatus
      BY <1>1 DEF BeginShipment, AllowedShipment, ShipmentStatus, WaybillRow
    <2>2. QED
      BY <1>1, <2>1, StartType
      DEF BeginShipment, Calls, ShipmentCalls, WaybillRow
  <1>2. ASSUME NEW t \in Targets, NEW v \in 1 .. waybill.version,
               BeginDocument(c, t, v)
        PROVE  CallsTyped'
    <2>1. t \in DocumentStatus
      BY <1>2 DEF BeginDocument, AllowedDocument, DocumentStatus, WaybillRow
    <2>2. QED
      BY <1>2, <2>1, StartType
      DEF BeginDocument, Calls, DocumentCalls, WaybillRow
  <1>3. ASSUME CommitShipment(c) PROVE Typed'
    <2>1. calls[c] \in ShipmentCalls
      BY <1>3, CallOfOp DEF CommitShipment
    <2>2. CallsTyped'
      BY <1>3, FinishType DEF CommitShipment
    <2>3. waybill' \in WaybillRow
      <3>1. [waybill EXCEPT !.shipment = calls[c].target] \in WaybillRow
        BY <2>1 DEF WaybillRow, ShipmentCalls
      <3>2. QED
        BY <1>3, <3>1, BumpRow DEF CommitShipment, WriteWaybill
    <2>4. QED
      BY <2>2, <2>3, ShipmentStep(c) DEF ShipmentStep
  <1>4. ASSUME CommitDocument(c) PROVE Typed'
    <2>1. calls[c] \in DocumentCalls
      BY <1>4, CallOfOp DEF CommitDocument
    <2>2. CallsTyped'
      BY <1>4, FinishType DEF CommitDocument
    <2>3. waybill' \in WaybillRow
      <3>1. [waybill EXCEPT !.document = calls[c].target] \in WaybillRow
        BY <2>1 DEF WaybillRow, DocumentCalls
      <3>2. QED
        BY <1>4, <3>1, BumpRow DEF CommitDocument, WriteWaybill
    <2>4. QED
      BY <2>2, <2>3, ShipmentStep(c) DEF ShipmentStep
  <1>5. QED
    BY <1>1, <1>2, <1>3, <1>4, ShipmentStep(c)
    DEF ShipmentStep, BeginShipment, BeginDocument

\* Every step of every service keeps the columns well typed.
LEMMA NextType == Typed /\ [Next]_vars => Typed'
  <1> SUFFICES ASSUME Typed, [Next]_vars PROVE Typed'
    OBVIOUS
  <1>1. CASE UNCHANGED vars
    BY <1>1 DEF Typed, CallsTyped, vars, settlementVars, releaseVars
  <1>2. ASSUME NEW c \in Callers, SettlementStep(c) PROVE Typed'
    BY <1>2, SubmitType, ReviewType, CorrectType DEF SettlementStep
  <1>3. ASSUME NEW c \in Callers, RollbackStep(c) PROVE Typed'
    BY <1>3, FinishType
    DEF RollbackStep, Rollback, Typed, settlementVars, releaseVars
  <1>4. ASSUME NEW s \in Sessions, SessionStep(s) PROVE Typed'
    BY <1>4 DEF SessionStep, EndSession, Typed, CallsTyped, settlementVars
  <1>5. QED
    BY <1>1, <1>2, <1>3, <1>4, ReleaseType, ShipmentType DEF Next

-----------------------------------------------------------------------------
(* What a step does to each part of the state.                             *)

\* What each write of the waybill leaves as it was.
LEMMA SubmitRow ==
  ASSUME Typed, NEW c \in Callers, NEW p \in PaymentIds, CommitSubmit(c, p)
  PROVE  /\ waybill'.shipment = waybill.shipment
         /\ waybill'.currentAmount = waybill.currentAmount
         /\ waybill'.release \in {waybill.release, "ELIGIBLE"}
         /\ CheckRelease(waybill') /\ CheckCancelled(waybill')
  BY DEF CommitSubmit, WriteWaybill, Typed, WaybillRow

LEMMA ReviewRow ==
  ASSUME Typed, NEW c \in Callers, CommitReview(c)
  PROVE  /\ waybill'.shipment = waybill.shipment
         /\ waybill'.currentAmount = waybill.currentAmount
         /\ waybill'.release = calls[c].newRelease
         /\ CheckRelease(waybill') /\ CheckCancelled(waybill')
  BY DEF CommitReview, WriteWaybill, Typed, WaybillRow

LEMMA CorrectRow ==
  ASSUME Typed, NEW c \in Callers, NEW a \in AmountIds, CommitCorrect(c, a)
  PROVE  /\ waybill'.shipment = waybill.shipment
         /\ waybill'.currentAmount = a
         /\ waybill'.release = calls[c].newRelease
         /\ CheckRelease(waybill') /\ CheckCancelled(waybill')
  <1> DEFINE row == [waybill EXCEPT !.currentAmount = a,
                                    !.payment = calls[c].newPayment,
                                    !.release = calls[c].newRelease]
  <1>1. calls[c] \in CorrectCalls
    BY CallOfOp DEF CommitCorrect, Typed
  <1>2. row \in WaybillRow
    BY <1>1 DEF Typed, WaybillRow, CorrectCalls
  <1>3. /\ row.shipment = waybill.shipment
        /\ row.currentAmount = a
        /\ row.release = calls[c].newRelease
    BY DEF Typed, WaybillRow
  <1>4. WriteWaybill(Bump(row))
    BY DEF CommitCorrect
  <1> HIDE DEF row
  <1>5. QED
    BY <1>2, <1>3, <1>4, BumpRow DEF WriteWaybill

LEMMA ReleaseRow ==
  ASSUME Typed, NEW r \in ReleaseStatus,
         WriteWaybill(Bump([waybill EXCEPT !.release = r]))
  PROVE  /\ waybill'.shipment = waybill.shipment
         /\ waybill'.currentAmount = waybill.currentAmount
         /\ waybill'.release = r
         /\ CheckRelease(waybill') /\ CheckCancelled(waybill')
  <1> DEFINE row == [waybill EXCEPT !.release = r]
  <1>1. /\ row \in WaybillRow
        /\ row.shipment = waybill.shipment
        /\ row.currentAmount = waybill.currentAmount
        /\ row.release = r
    BY DEF Typed, WaybillRow
  <1>2. WriteWaybill(Bump(row))
    OBVIOUS
  <1> HIDE DEF row
  <1>3. QED
    BY <1>1, <1>2, BumpRow DEF WriteWaybill

LEMMA ShipmentRow ==
  ASSUME Typed, NEW c \in Callers, CommitShipment(c)
  PROVE  /\ waybill'.shipment = calls[c].target
         /\ waybill'.currentAmount = waybill.currentAmount
         /\ waybill'.release = waybill.release
         /\ CheckRelease(waybill') /\ CheckCancelled(waybill')
  <1> DEFINE row == [waybill EXCEPT !.shipment = calls[c].target]
  <1>1. calls[c] \in ShipmentCalls
    BY CallOfOp DEF CommitShipment, Typed
  <1>2. /\ row \in WaybillRow
        /\ row.shipment = calls[c].target
        /\ row.currentAmount = waybill.currentAmount
        /\ row.release = waybill.release
    BY <1>1 DEF Typed, WaybillRow, ShipmentCalls
  <1>3. WriteWaybill(Bump(row))
    BY DEF CommitShipment
  <1> HIDE DEF row
  <1>4. QED
    BY <1>2, <1>3, BumpRow DEF WriteWaybill

LEMMA DocumentRow ==
  ASSUME Typed, NEW c \in Callers, CommitDocument(c)
  PROVE  /\ waybill'.shipment = waybill.shipment
         /\ waybill'.currentAmount = waybill.currentAmount
         /\ waybill'.release = waybill.release
         /\ CheckRelease(waybill') /\ CheckCancelled(waybill')
  <1> DEFINE row == [waybill EXCEPT !.document = calls[c].target]
  <1>1. calls[c] \in DocumentCalls
    BY CallOfOp DEF CommitDocument, Typed
  <1>2. /\ row \in WaybillRow
        /\ row.shipment = waybill.shipment
        /\ row.currentAmount = waybill.currentAmount
        /\ row.release = waybill.release
    BY <1>1 DEF Typed, WaybillRow, DocumentCalls
  <1>3. WriteWaybill(Bump(row))
    BY DEF CommitDocument
  <1> HIDE DEF row
  <1>4. QED
    BY <1>2, <1>3, BumpRow DEF WriteWaybill

\* The steps of the system, one disjunct per kind of effect on the rows.
LEMMA Steps ==
  ASSUME [Next]_vars
  PROVE  \/ /\ UNCHANGED <<waybill, settlementVars, authorizations, accessEvents>>
         \/ \E c \in Callers, p \in PaymentIds :
              CommitSubmit(c, p) /\ UNCHANGED releaseVars
         \/ \E c \in Callers : CommitReview(c) /\ UNCHANGED releaseVars
         \/ \E c \in Callers, a \in AmountIds :
              CommitCorrect(c, a) /\ UNCHANGED releaseVars
         \/ \E c \in Callers, a \in AuthIds :
              CommitAuthorize(c, a) /\ UNCHANGED settlementVars
         \/ \E c \in Callers : CommitRevoke(c) /\ UNCHANGED settlementVars
         \/ \E c \in Callers : CommitGrant(c) /\ UNCHANGED settlementVars
         \/ \E c \in Callers :
              CommitShipment(c) /\ UNCHANGED <<settlementVars, releaseVars>>
         \/ \E c \in Callers :
              CommitDocument(c) /\ UNCHANGED <<settlementVars, releaseVars>>
  <1> USE DEF settlementVars, releaseVars
  <1>1. CASE UNCHANGED vars
    BY <1>1 DEF vars
  <1>2. ASSUME NEW c \in Callers, SettlementStep(c)
        PROVE  \/ UNCHANGED <<waybill, settlementVars, releaseVars>>
               \/ \E p \in PaymentIds : CommitSubmit(c, p) /\ UNCHANGED releaseVars
               \/ CommitReview(c) /\ UNCHANGED releaseVars
               \/ \E a \in AmountIds : CommitCorrect(c, a) /\ UNCHANGED releaseVars
    BY <1>2 DEF SettlementStep, BeginSubmit, BeginReview, BeginCorrect
  <1>3. ASSUME NEW c \in Callers, ReleaseStep(c)
        PROVE  \/ UNCHANGED <<waybill, settlementVars, releaseVars>>
               \/ \E a \in AuthIds : CommitAuthorize(c, a) /\ UNCHANGED settlementVars
               \/ CommitRevoke(c) /\ UNCHANGED settlementVars
               \/ CommitGrant(c) /\ UNCHANGED settlementVars
    BY <1>3 DEF ReleaseStep, BeginAuthorize, BeginRevoke, BeginGrant
  <1>4. ASSUME NEW c \in Callers, ShipmentStep(c)
        PROVE  \/ UNCHANGED <<waybill, settlementVars, releaseVars>>
               \/ CommitShipment(c) /\ UNCHANGED <<settlementVars, releaseVars>>
               \/ CommitDocument(c) /\ UNCHANGED <<settlementVars, releaseVars>>
    BY <1>4 DEF ShipmentStep, BeginShipment, BeginDocument
  <1>5. ASSUME NEW c \in Callers, RollbackStep(c)
        PROVE  UNCHANGED <<waybill, settlementVars, releaseVars>>
    BY <1>5 DEF RollbackStep, Rollback
  <1>6. ASSUME NEW s \in Sessions, SessionStep(s)
        PROVE  UNCHANGED <<waybill, settlementVars, authorizations, accessEvents>>
    BY <1>6 DEF SessionStep, EndSession
  <1>7. CASE Next
    BY <1>7, <1>2, <1>3, <1>4, <1>5, <1>6 DEF Next
  <1>8. QED
    BY <1>1, <1>7

\* The calls: a step starts a call, ends it or leaves it as it is.
LEMMA CallSteps ==
  ASSUME Typed, [Next]_vars, NEW c \in Callers
  PROVE  \/ calls'[c] \in {calls[c], Idle}
         \/ \E m \in Methods, a \in StoredAmounts : BeginSubmit(c, m, a)
         \/ \E p \in PaymentIds, d \in Decisions, r \in Reviewers :
              \E v \in 1 .. payments[p].version : BeginReview(c, p, d, r, v)
         \/ \E v \in Values : BeginCorrect(c, v)
         \/ BeginAuthorize(c) \/ BeginRevoke(c)
         \/ \E s \in Sessions \cup {None} : BeginGrant(c, s)
         \/ \E t \in Targets, v \in 1 .. waybill.version : BeginShipment(c, t, v)
         \/ \E t \in Targets, v \in 1 .. waybill.version : BeginDocument(c, t, v)
  <1>1. ASSUME NEW e \in Callers, NEW call, Start(e, call), e # c
        PROVE  calls'[c] = calls[c]
    BY <1>1 DEF Start, Typed, CallsTyped
  <1>2. ASSUME NEW e \in Callers, Finish(e)
        PROVE  calls'[c] \in {calls[c], Idle}
    BY <1>2 DEF Finish, Typed
  <1>3. CASE UNCHANGED calls
    BY <1>3
  <1>4. ASSUME NEW e \in Callers, SettlementStep(e)
        PROVE  \/ calls'[c] \in {calls[c], Idle}
               \/ \E m \in Methods, a \in StoredAmounts : BeginSubmit(c, m, a)
               \/ \E p \in PaymentIds, d \in Decisions, r \in Reviewers :
                    \E v \in 1 .. payments[p].version : BeginReview(c, p, d, r, v)
               \/ \E v \in Values : BeginCorrect(c, v)
    <2>1. CASE e = c
      BY <1>4, <2>1, <1>2
      DEF SettlementStep, CommitSubmit, CommitReview, CommitCorrect
    <2>2. CASE e # c
      BY <1>4, <2>2, <1>1, <1>2
      DEF SettlementStep, BeginSubmit, CommitSubmit, BeginReview, CommitReview,
          BeginCorrect, CommitCorrect
    <2>3. QED
      BY <2>1, <2>2
  <1>5. ASSUME NEW e \in Callers, ReleaseStep(e)
        PROVE  \/ calls'[c] \in {calls[c], Idle}
               \/ BeginAuthorize(c) \/ BeginRevoke(c)
               \/ \E s \in Sessions \cup {None} : BeginGrant(c, s)
    <2>1. CASE e = c
      BY <1>5, <2>1, <1>2
      DEF ReleaseStep, CommitAuthorize, CommitRevoke, CommitGrant
    <2>2. CASE e # c
      BY <1>5, <2>2, <1>1, <1>2
      DEF ReleaseStep, BeginAuthorize, CommitAuthorize, BeginRevoke,
          CommitRevoke, BeginGrant, CommitGrant
    <2>3. QED
      BY <2>1, <2>2
  <1>6. ASSUME NEW e \in Callers, ShipmentStep(e)
        PROVE  \/ calls'[c] \in {calls[c], Idle}
               \/ \E t \in Targets, v \in 1 .. waybill.version : BeginShipment(c, t, v)
               \/ \E t \in Targets, v \in 1 .. waybill.version : BeginDocument(c, t, v)
    <2>1. CASE e = c
      BY <1>6, <2>1, <1>2 DEF ShipmentStep, CommitShipment, CommitDocument
    <2>2. CASE e # c
      BY <1>6, <2>2, <1>1, <1>2
      DEF ShipmentStep, BeginShipment, CommitShipment, BeginDocument,
          CommitDocument
    <2>3. QED
      BY <2>1, <2>2
  <1>7. QED
    BY <1>2, <1>3, <1>4, <1>5, <1>6
    DEF Next, vars, RollbackStep, Rollback, SessionStep, EndSession

\* Type correctness: whatever the services do, the rows hold values of their
\* columns, in particular the enum columns a handler computes.
THEOREM TypeCorrect == Spec => []TypeOK
  <1>1. Init => OwnCalls
    <2>1. Idle.op \in OwnOps
      BY DEF Idle, OwnOps
    <2>2. QED
      BY <2>1 DEF Init, InitSettlement, OwnCalls
  <1>2. Typed /\ OwnCalls /\ [Next]_vars => OwnCalls'
    <2> SUFFICES ASSUME Typed, OwnCalls, [Next]_vars, NEW c \in Callers
                 PROVE  calls'[c].op \in OwnOps
      BY DEF OwnCalls
    <2>1. CASE calls'[c] \in {calls[c], Idle}
      BY <2>1 DEF OwnCalls, OwnOps, Idle
    <2>2. ASSUME \/ \E m \in Methods, a \in StoredAmounts : BeginSubmit(c, m, a)
                 \/ \E p \in PaymentIds, d \in Decisions, r \in Reviewers :
                      \E v \in 1 .. payments[p].version : BeginReview(c, p, d, r, v)
                 \/ \E v \in Values : BeginCorrect(c, v)
          PROVE  calls'[c].op \in {"submit", "review", "correct"}
      BY <2>2 DEF BeginSubmit, BeginReview, BeginCorrect, Start, Typed, CallsTyped
    <2>3. ASSUME \/ BeginAuthorize(c) \/ BeginRevoke(c)
                 \/ \E g \in Sessions \cup {None} : BeginGrant(c, g)
          PROVE  calls'[c].op \in {"authorize", "revoke", "grant"}
      BY <2>3 DEF BeginAuthorize, BeginRevoke, BeginGrant, Start, Typed, CallsTyped
    <2>4. ASSUME \E t \in Targets, v \in 1 .. waybill.version :
                   BeginShipment(c, t, v) \/ BeginDocument(c, t, v)
          PROVE  calls'[c].op \in {"shipment", "document"}
      BY <2>4 DEF BeginShipment, BeginDocument, Start, Typed, CallsTyped
    <2>5. QED
      BY <2>1, <2>2, <2>3, <2>4, CallSteps DEF OwnOps
  <1>3. QED
    BY <1>1, <1>2, InitType, NextType, TypeMeans, PTL DEF Spec

-----------------------------------------------------------------------------
(* The release axis and the authorizations.                                *)

\* The CHECK constraints of the table hold of the committed row.
Checked == CheckRelease(waybill) /\ CheckCancelled(waybill)

LEMMA InitChecked == Init => Checked
  BY DEF Init, InitSettlement, InitialRow, Checked, CheckRelease, CheckCancelled, Active, InForce

LEMMA NextChecked == Typed /\ Checked /\ [Next]_vars => Checked'
  <1> SUFFICES ASSUME Typed, Checked, [Next]_vars PROVE Checked'
    OBVIOUS
  <1>1. CASE UNCHANGED waybill
    BY <1>1 DEF Checked, CheckRelease, CheckCancelled, Active, InForce,
                PaymentSettled, CommitmentAccepted, DocVerified
  <1>2. ASSUME NEW r \in ReleaseStatus,
               WriteWaybill(Bump([waybill EXCEPT !.release = r]))
        PROVE  CheckRelease(waybill') /\ CheckCancelled(waybill')
    BY <1>2, ReleaseRow
  <1>3. "AUTHORIZED" \in ReleaseStatus /\ "REVOKED" \in ReleaseStatus
        /\ "RELEASED" \in ReleaseStatus
    BY DEF ReleaseStatus
  <1>4. \/ UNCHANGED waybill
        \/ CheckRelease(waybill') /\ CheckCancelled(waybill')
    <2>1. CASE \E c \in Callers, a \in AuthIds : CommitAuthorize(c, a)
      BY <2>1, <1>2, <1>3 DEF CommitAuthorize
    <2>2. CASE \E c \in Callers : CommitRevoke(c)
      BY <2>2, <1>2, <1>3 DEF CommitRevoke
    <2>3. CASE \E c \in Callers : CommitGrant(c)
      BY <2>3, <1>2, <1>3 DEF CommitGrant
    <2>4. QED
      BY <2>1, <2>2, <2>3, Steps, SubmitRow, ReviewRow, CorrectRow,
         ShipmentRow, DocumentRow
  <1>5. QED
    BY <1>1, <1>4 DEF Checked, CheckRelease, CheckCancelled, Active, InForce,
                      PaymentSettled, CommitmentAccepted, DocVerified

\* The CHECKs make the release axis agree with the rule.
LEMMA CheckedDownload == Checked => DownloadableIffReleased
  BY DEF Checked, DownloadableIffReleased, CanRelease, CheckRelease,
         CheckCancelled, InForce

\* The partial unique index keeps at most one authorization active.
LEMMA NextOneActive ==
  Typed /\ OneActiveAuthorization /\ [Next]_vars => OneActiveAuthorization'
  <1> SUFFICES ASSUME Typed, OneActiveAuthorization, [Next]_vars
               PROVE  OneActiveAuthorization'
    OBVIOUS
  <1> USE DEF OneActiveAuthorization, ActiveAuthorizations
  <1>1. CASE UNCHANGED authorizations
    BY <1>1
  <1>2. ASSUME NEW c \in Callers, NEW a \in AuthIds, CommitAuthorize(c, a)
        PROVE  OneActiveAuthorization'
    BY <1>2 DEF CommitAuthorize, NoneActive, Typed
  <1>3. ASSUME NEW c \in Callers, CommitRevoke(c)
        PROVE  OneActiveAuthorization'
    BY <1>3 DEF CommitRevoke, Typed
  <1>4. QED
    BY <1>1, <1>2, <1>3, Steps DEF releaseVars, CommitGrant

-----------------------------------------------------------------------------
(* The amounts.                                                            *)

\* A correction in flight carries a positive amount.
PositiveCorrections ==
  \A c \in Callers : calls[c].op = "correct" => calls[c].amount # 0

LEMMA InitPositive == Init => PositiveCorrections
  BY DEF Init, InitSettlement, PositiveCorrections, Idle

LEMMA NextPositive ==
  Typed /\ PositiveCorrections /\ [Next]_vars => PositiveCorrections'
  <1> SUFFICES ASSUME Typed, PositiveCorrections, [Next]_vars,
                      NEW c \in Callers, calls'[c].op = "correct"
               PROVE  calls'[c].amount # 0
    BY DEF PositiveCorrections
  <1>1. CASE calls'[c] \in {calls[c], Idle}
    BY <1>1 DEF PositiveCorrections, Idle
  <1>2. ASSUME NEW v \in Values, BeginCorrect(c, v) PROVE calls'[c].amount # 0
    BY <1>2, SettlementAssumption DEF BeginCorrect, Start, Typed, CallsTyped
  <1>3. QED
    BY <1>1, <1>2, CallSteps
    DEF BeginSubmit, BeginReview, BeginAuthorize, BeginRevoke, BeginGrant,
        BeginShipment, BeginDocument, Start, Typed, CallsTyped

\* A correction replaces the amounts that are current by its own.
LEMMA NextOneCurrent ==
  Typed /\ PositiveCorrections /\ OneCurrentAmount /\ [Next]_vars => OneCurrentAmount'
  <1> SUFFICES ASSUME Typed, PositiveCorrections, OneCurrentAmount,
                      [Next]_vars
               PROVE  OneCurrentAmount'
    OBVIOUS
  <1>1. CASE UNCHANGED <<amounts, waybill.currentAmount>>
    BY <1>1 DEF OneCurrentAmount, CurrentAmounts, StoredAmounts
  <1>2. ASSUME NEW c \in Callers, NEW a \in AmountIds, CommitCorrect(c, a)
        PROVE  OneCurrentAmount'
    <2>1. waybill'.currentAmount = a
      BY <1>2, CorrectRow
    <2>2. calls[c].amount \in Nat /\ calls[c].amount # 0
      BY <1>2, CallOfOp DEF CommitCorrect, PositiveCorrections, CorrectCalls,
                            Typed
    <2>3. \A b \in CurrentAmounts : b = calls[c].oldAmount
      BY <1>2 DEF CommitCorrect, UniqueCurrent
    <2>4. CurrentAmounts' = {a}
      BY <1>2, <2>2, <2>3
      DEF CommitCorrect, CurrentAmounts, StoredAmounts, Typed, AmountRow
    <2>5. QED
      BY <2>1, <2>4 DEF OneCurrentAmount
  <1>3. ASSUME NEW c \in Callers, NEW a \in AuthIds, CommitAuthorize(c, a)
        PROVE  waybill'.currentAmount = waybill.currentAmount
    BY <1>3, ReleaseRow DEF CommitAuthorize, ReleaseStatus
  <1>4. ASSUME NEW c \in Callers, CommitRevoke(c)
        PROVE  waybill'.currentAmount = waybill.currentAmount
    BY <1>4, ReleaseRow DEF CommitRevoke, ReleaseStatus
  <1>5. ASSUME NEW c \in Callers, CommitGrant(c)
        PROVE  waybill'.currentAmount = waybill.currentAmount
    BY <1>5, ReleaseRow DEF CommitGrant, ReleaseStatus
  <1>6. QED
    BY <1>1, <1>2, <1>3, <1>4, <1>5, Steps, SubmitRow, ReviewRow,
       ShipmentRow, DocumentRow
    DEF settlementVars, CommitSubmit, CommitReview

-----------------------------------------------------------------------------
(* The decisions.                                                          *)

\* A gateway payment is approved when it is entered: no review touches it.
GatewayApproved ==
  \A p \in PaymentIds :
    payments[p].method = "GATEWAY" => payments[p].status = "APPROVED"

\* A review decides only what waits for a decision.
LEMMA NextDecided ==
  Typed /\ DecidedOnce /\ GatewayApproved /\ [Next]_vars => DecidedOnce' /\ GatewayApproved'
  <1> SUFFICES ASSUME Typed, DecidedOnce, GatewayApproved, [Next]_vars
               PROVE  DecidedOnce' /\ GatewayApproved'
    OBVIOUS
  <1>1. CASE UNCHANGED <<payments, reviews>>
    BY <1>1 DEF DecidedOnce, GatewayApproved
  <1>2. ASSUME NEW c \in Callers, NEW p \in PaymentIds, CommitSubmit(c, p)
        PROVE  DecidedOnce' /\ GatewayApproved'
    <2>1. /\ calls[c].method \in {"MANUAL", "GATEWAY"}
          /\ payments[p].status = "ABSENT"
          /\ reviews' = reviews
      BY <1>2, CallOfOp DEF CommitSubmit, SubmitCalls, Typed, NoPayment
    <2>2. /\ payments'[p].method = calls[c].method
          /\ payments'[p].status =
               IF calls[c].method = "GATEWAY" THEN "APPROVED" ELSE "SUBMITTED"
          /\ \A q \in PaymentIds : q # p => payments'[q] = payments[q]
      BY <1>2 DEF CommitSubmit, Typed
    <2>3. QED
      BY <2>1, <2>2 DEF DecidedOnce, GatewayApproved
  <1>3. ASSUME NEW c \in Callers, CommitReview(c)
        PROVE  DecidedOnce' /\ GatewayApproved'
    <2> DEFINE p == calls[c].payment
               d == calls[c].decision
    <2>1. calls[c] \in ReviewCalls
      BY <1>3, CallOfOp DEF CommitReview, Typed
    <2>2. p \in PaymentIds /\ d \in Decisions
      BY <2>1 DEF ReviewCalls
    <2>3. payments[p].status \in Reviewable
      BY <1>3, <2>1 DEF CommitReview, NotReviewedSince, ReviewCalls
    <2>4. payments[p] \in PaymentRow /\ reviews[p] \in [Decisions -> Nat]
      BY <2>2 DEF Typed
    <2>5. payments[p].method = "MANUAL"
      BY <2>2, <2>3, <2>4 DEF GatewayApproved, Reviewable, PaymentRow
    <2>6. reviews[p]["APPROVED"] = 0 /\ reviews[p]["REJECTED"] = 0
      BY <2>2, <2>3, <2>4 DEF DecidedOnce, Reviewable, Decisions
    <2>7. /\ payments'[p].method = payments[p].method
          /\ payments'[p].status = d
          /\ \A q \in PaymentIds : q # p => payments'[q] = payments[q]
      <3> DEFINE new == [payments[p] EXCEPT !.status = d,
                                            !.version = payments[p].version + 1,
                                            !.reviewedBy = calls[c].reviewer]
      <3>1. new.status = d /\ new.method = payments[p].method
        BY <2>4 DEF PaymentRow
      <3>2. payments' = [payments EXCEPT ![p] = new]
        BY <1>3, <2>2 DEF CommitReview, Typed
      <3> HIDE DEF new, p, d
      <3>3. QED
        BY <3>1, <3>2, <2>2 DEF Typed
    <2>8. /\ reviews'[p] = [reviews[p] EXCEPT ![d] = reviews[p][d] + 1]
          /\ \A q \in PaymentIds : q # p => reviews'[q] = reviews[q]
      BY <1>3, <2>2 DEF CommitReview, Typed
    <2> HIDE DEF p, d
    <2>9. /\ d = "APPROVED" => reviews'[p]["APPROVED"] = 1 /\ reviews'[p]["REJECTED"] = 0
          /\ d = "REJECTED" => reviews'[p]["APPROVED"] = 0 /\ reviews'[p]["REJECTED"] = 1
          /\ d = "DISCREPANCY_REVIEW" =>
               reviews'[p]["APPROVED"] = 0 /\ reviews'[p]["REJECTED"] = 0
      BY <2>2, <2>4, <2>6, <2>8 DEF Decisions
    <2>10. GatewayApproved'
      BY <2>5, <2>7 DEF GatewayApproved
    <2>11. ASSUME NEW q \in PaymentIds
           PROVE  LET final == reviews'[q]["APPROVED"] + reviews'[q]["REJECTED"]
                  IN  /\ final <= 1
                      /\ final = 1 <=>
                           /\ payments'[q].status \in {"APPROVED", "REJECTED"}
                           /\ payments'[q].method = "MANUAL"
                      /\ payments'[q].status = "APPROVED"
                           /\ payments'[q].method = "MANUAL"
                           => reviews'[q]["APPROVED"] = 1
      <3>1. CASE q # p
        BY <3>1, <2>7, <2>8 DEF DecidedOnce
      <3>2. CASE q = p
        BY <3>2, <2>2, <2>5, <2>7, <2>9 DEF Decisions
      <3>3. QED
        BY <3>1, <3>2
    <2>12. QED
      BY <2>10, <2>11 DEF DecidedOnce
  <1>4. QED
    BY <1>1, <1>2, <1>3, Steps DEF settlementVars, CommitCorrect

-----------------------------------------------------------------------------
(* The shipment axis.                                                      *)

\* A shipment call in flight asks for a transition the table allows from the
\* status it saw.
AllowedTransitions ==
  \A c \in Callers :
    calls[c].op = "shipment" => calls[c].target \in AllowedShipment[calls[c].seen]

LEMMA NextAllowed ==
  Typed /\ AllowedTransitions /\ [Next]_vars => AllowedTransitions'
  <1> SUFFICES ASSUME Typed, AllowedTransitions, [Next]_vars,
                      NEW c \in Callers, calls'[c].op = "shipment"
               PROVE  calls'[c].target \in AllowedShipment[calls'[c].seen]
    BY DEF AllowedTransitions
  <1>1. CASE calls'[c] \in {calls[c], Idle}
    BY <1>1 DEF AllowedTransitions, Idle
  <1>2. ASSUME NEW t \in Targets, NEW v \in 1 .. waybill.version,
               BeginShipment(c, t, v)
        PROVE  calls'[c].target \in AllowedShipment[calls'[c].seen]
    BY <1>2 DEF BeginShipment, Start, Typed, CallsTyped
  <1>3. QED
    BY <1>1, <1>2, CallSteps
    DEF BeginSubmit, BeginReview, BeginCorrect, BeginAuthorize, BeginRevoke,
        BeginGrant, BeginDocument, Start, Typed, CallsTyped

\* The conditional update finds the status that the table was asked about.
LEMMA CancelledStep ==
  Typed /\ AllowedTransitions /\ [Next]_vars
    => [/\ waybill.shipment = "CANCELLED" => waybill'.shipment = "CANCELLED"
        /\ waybill.shipment = "ARCHIVED" => waybill'.shipment = "ARCHIVED"]_vars
  <1> SUFFICES ASSUME Typed, AllowedTransitions, [Next]_vars,
                      waybill.shipment \in {"CANCELLED", "ARCHIVED"}
               PROVE  waybill'.shipment = waybill.shipment
    OBVIOUS
  <1>1. CASE UNCHANGED waybill
    BY <1>1
  <1>2. ASSUME NEW c \in Callers, CommitShipment(c) PROVE FALSE
    <2>1. /\ calls[c].seen = waybill.shipment
          /\ calls[c].target \in AllowedShipment[calls[c].seen]
      BY <1>2 DEF CommitShipment, ShipmentUnchanged, AllowedTransitions
    <2>2. AllowedShipment[waybill.shipment] = {}
      BY DEF AllowedShipment
    <2>3. QED
      BY <2>1, <2>2
  <1>3. ASSUME NEW c \in Callers, NEW a \in AuthIds, CommitAuthorize(c, a)
        PROVE  waybill'.shipment = waybill.shipment
    BY <1>3, ReleaseRow DEF CommitAuthorize, ReleaseStatus
  <1>4. ASSUME NEW c \in Callers, CommitRevoke(c)
        PROVE  waybill'.shipment = waybill.shipment
    BY <1>4, ReleaseRow DEF CommitRevoke, ReleaseStatus
  <1>5. ASSUME NEW c \in Callers, CommitGrant(c)
        PROVE  waybill'.shipment = waybill.shipment
    BY <1>5, ReleaseRow DEF CommitGrant, ReleaseStatus
  <1>6. QED
    BY <1>1, <1>2, <1>3, <1>4, <1>5, Steps, SubmitRow, ReviewRow,
       CorrectRow, DocumentRow

-----------------------------------------------------------------------------
(* No delivery without authorizeRelease.                                   *)

Authorized == \E a \in AuthIds : authorizations[a] # "ABSENT"

\* A call in flight that may put the release status in force, or record a
\* download, has seen an authorization.
CallsAuthorized ==
  \A c \in Callers :
    \/ /\ calls[c].op \in {"review", "correct"}
       /\ calls[c].newRelease \in {"AUTHORIZED", "RELEASED"}
    \/ calls[c].op = "grant"
    => Authorized

LEMMA AuthorizedStays == Typed /\ Authorized /\ [Next]_vars => Authorized'
  <1> SUFFICES ASSUME Typed, Authorized, [Next]_vars PROVE Authorized'
    OBVIOUS
  <1> USE DEF Authorized, Typed
  <1>1. CASE UNCHANGED authorizations
    BY <1>1
  <1>2. ASSUME NEW c \in Callers, NEW a \in AuthIds, CommitAuthorize(c, a)
        PROVE  Authorized'
    BY <1>2 DEF CommitAuthorize
  <1>3. ASSUME NEW c \in Callers, CommitRevoke(c) PROVE Authorized'
    BY <1>3 DEF CommitRevoke
  <1>4. QED
    BY <1>1, <1>2, <1>3, Steps DEF releaseVars, CommitGrant

LEMMA NextCallsAuthorized ==
  Typed /\ NeverWithoutAuthorization /\ CallsAuthorized /\ [Next]_vars
    => CallsAuthorized'
  <1> SUFFICES ASSUME Typed, NeverWithoutAuthorization, CallsAuthorized,
                      [Next]_vars, ~Authorized, NEW c \in Callers
               PROVE  /\ calls'[c].op \in {"review", "correct"}
                           => calls'[c].newRelease \notin {"AUTHORIZED", "RELEASED"}
                      /\ calls'[c].op # "grant"
    BY AuthorizedStays DEF CallsAuthorized
  <1>1. waybill.release \notin {"AUTHORIZED", "RELEASED"}
    BY DEF NeverWithoutAuthorization, Authorized, InForce
  <1>2. UnblockIfReady(waybill) \notin {"AUTHORIZED", "RELEASED"}
    BY <1>1 DEF UnblockIfReady
  <1>3. CASE calls'[c] \in {calls[c], Idle}
    BY <1>3 DEF CallsAuthorized, Idle
  <1>4. ASSUME NEW p \in PaymentIds, NEW d \in Decisions, NEW r \in Reviewers,
               NEW v \in 1 .. payments[p].version, BeginReview(c, p, d, r, v)
        PROVE  /\ calls'[c].op = "review"
               /\ calls'[c].newRelease \notin {"AUTHORIZED", "RELEASED"}
    <2>1. ReviewedReleaseStatus(p, d) \notin {"AUTHORIZED", "RELEASED"}
      BY <1>1, <1>2 DEF ReviewedReleaseStatus
    <2>2. QED
      BY <1>4, <2>1 DEF BeginReview, Start, Typed, CallsTyped
  <1>5. ASSUME NEW v \in Values, BeginCorrect(c, v)
        PROVE  /\ calls'[c].op = "correct"
               /\ calls'[c].newRelease \notin {"AUTHORIZED", "RELEASED"}
    <2>1. CorrectedReleaseStatus(v) \notin {"AUTHORIZED", "RELEASED"}
      BY <1>1, <1>2 DEF CorrectedReleaseStatus, CorrectedPaymentStatus
    <2>2. QED
      BY <1>5, <2>1 DEF BeginCorrect, Start, Typed, CallsTyped
  <1>6. ASSUME NEW s \in Sessions \cup {None}, BeginGrant(c, s) PROVE FALSE
    BY <1>6, <1>1 DEF BeginGrant, CanRelease, InForce
  <1>7. CASE calls'[c].op \in {"submit", "authorize", "revoke", "shipment",
                               "document"}
    BY <1>7
  <1>8. ASSUME \/ \E m \in Methods, a \in StoredAmounts : BeginSubmit(c, m, a)
               \/ BeginAuthorize(c) \/ BeginRevoke(c)
               \/ \E t \in Targets, v \in 1 .. waybill.version :
                    BeginShipment(c, t, v) \/ BeginDocument(c, t, v)
        PROVE  calls'[c].op \in {"submit", "authorize", "revoke", "shipment",
                                 "document"}
    BY <1>8
    DEF BeginSubmit, BeginAuthorize, BeginRevoke, BeginShipment, BeginDocument,
        Start, Typed, CallsTyped
  <1>9. QED
    BY <1>3, <1>4, <1>5, <1>6, <1>7, <1>8, CallSteps

\* Nothing puts the row in force, or records a download, before an authorization.
LEMMA NextDelivery ==
  Typed /\ NeverWithoutAuthorization /\ CallsAuthorized /\ [Next]_vars
    => NeverWithoutAuthorization'
  <1> SUFFICES ASSUME Typed, NeverWithoutAuthorization, CallsAuthorized,
                      [Next]_vars, ~Authorized, ~Authorized'
               PROVE  /\ waybill'.release \notin {"AUTHORIZED", "RELEASED"}
                      /\ accessEvents' = {}
    BY AuthorizedStays DEF NeverWithoutAuthorization, Authorized, InForce
  <1>1. /\ waybill.release \notin {"AUTHORIZED", "RELEASED"}
        /\ accessEvents = {}
    BY DEF NeverWithoutAuthorization, Authorized, InForce
  <1>2. CASE UNCHANGED <<waybill, accessEvents>>
    BY <1>1, <1>2
  <1>3. ASSUME NEW c \in Callers, NEW p \in PaymentIds, CommitSubmit(c, p),
               UNCHANGED releaseVars
        PROVE  /\ waybill'.release \notin {"AUTHORIZED", "RELEASED"}
               /\ accessEvents' = {}
    BY <1>1, <1>3, SubmitRow DEF releaseVars
  <1>4. ASSUME NEW c \in Callers, CommitReview(c), UNCHANGED releaseVars
        PROVE  /\ waybill'.release \notin {"AUTHORIZED", "RELEASED"}
               /\ accessEvents' = {}
    BY <1>1, <1>4, ReviewRow DEF releaseVars, CallsAuthorized, CommitReview
  <1>5. ASSUME NEW c \in Callers, NEW a \in AmountIds, CommitCorrect(c, a),
               UNCHANGED releaseVars
        PROVE  /\ waybill'.release \notin {"AUTHORIZED", "RELEASED"}
               /\ accessEvents' = {}
    BY <1>1, <1>5, CorrectRow DEF releaseVars, CallsAuthorized, CommitCorrect
  <1>6. ASSUME NEW c \in Callers, NEW a \in AuthIds, CommitAuthorize(c, a)
        PROVE  FALSE
    BY <1>6 DEF CommitAuthorize, Authorized, Typed
  <1>7. ASSUME NEW c \in Callers, CommitRevoke(c)
        PROVE  /\ waybill'.release \notin {"AUTHORIZED", "RELEASED"}
               /\ accessEvents' = {}
    BY <1>1, <1>7, ReleaseRow DEF CommitRevoke, ReleaseStatus
  <1>8. ASSUME NEW c \in Callers, CommitGrant(c) PROVE FALSE
    BY <1>8 DEF CommitGrant, CallsAuthorized
  <1>9. ASSUME NEW c \in Callers, CommitShipment(c) \/ CommitDocument(c),
               UNCHANGED releaseVars
        PROVE  /\ waybill'.release \notin {"AUTHORIZED", "RELEASED"}
               /\ accessEvents' = {}
    BY <1>1, <1>9, ShipmentRow, DocumentRow DEF releaseVars
  <1>10. QED
    BY <1>2, <1>3, <1>4, <1>5, <1>6, <1>7, <1>8, <1>9, Steps

-----------------------------------------------------------------------------
(* The services implement the ledger of payments.                          *)

Standings == [p \in PaymentIds |-> Standing(p)]

\* A submission enters a payment, a review decides one or puts it aside.
LEMMA LedgerStep == Typed /\ [Next]_vars => [Ledger!Next]_Standings
  <1> USE DEF Standings
  <1> SUFFICES ASSUME Typed, [Next]_vars PROVE [Ledger!Next]_Standings
    OBVIOUS
  <1>1. CASE UNCHANGED payments
    BY <1>1 DEF Standing
  <1>2. ASSUME NEW c \in Callers, NEW p \in PaymentIds, CommitSubmit(c, p)
        PROVE  Ledger!Enter(p)
    <2>1. /\ payments[p].status = "ABSENT"
          /\ payments'[p].status \in {"APPROVED", "SUBMITTED"}
          /\ \A q \in PaymentIds : q # p => payments'[q] = payments[q]
      BY <1>2 DEF CommitSubmit, Typed, NoPayment
    <2>2. /\ Standing(p) = "NONE"
          /\ Standing(p)' \in {"OPEN", "CREDITED"}
          /\ \A q \in PaymentIds : q # p => Standing(q)' = Standing(q)
      BY <2>1 DEF Standing
    <2>3. Standings' = [Standings EXCEPT ![p] = Standing(p)']
      BY <2>2
    <2>4. QED
      BY <2>2, <2>3 DEF Ledger!Enter
  <1>3. ASSUME NEW c \in Callers, CommitReview(c)
        PROVE  UNCHANGED Standings \/ \E p \in PaymentIds : Ledger!Decide(p)
    <2>1. calls[c] \in ReviewCalls
      BY <1>3, CallOfOp DEF CommitReview, Typed
    <2>2. PICK p \in PaymentIds : p = calls[c].payment
      BY <2>1 DEF ReviewCalls
    <2>3. payments[p].status \in Reviewable
      BY <1>3, <2>1, <2>2 DEF CommitReview, NotReviewedSince, ReviewCalls
    <2>4. /\ payments'[p].status \in Decisions
          /\ \A q \in PaymentIds : q # p => payments'[q] = payments[q]
      <3> DEFINE new == [payments[p] EXCEPT !.status = calls[c].decision,
                                            !.version = payments[p].version + 1,
                                            !.reviewedBy = calls[c].reviewer]
      <3>1. new.status \in Decisions
        BY <2>1, <2>2 DEF PaymentRow, ReviewCalls, Typed
      <3>2. payments' = [payments EXCEPT ![p] = new]
        BY <1>3, <2>2 DEF CommitReview, Typed
      <3> HIDE DEF new
      <3>3. QED
        BY <3>1, <3>2 DEF Typed
    <2>5. /\ Standing(p) = "OPEN"
          /\ Standing(p)' \in {"OPEN", "CREDITED", "REFUSED"}
          /\ \A q \in PaymentIds : q # p => Standing(q)' = Standing(q)
      BY <2>3, <2>4 DEF Standing, Reviewable, Decisions
    <2>6. CASE Standing(p)' = "OPEN"
      BY <2>5, <2>6
    <2>7. CASE Standing(p)' \in {"CREDITED", "REFUSED"}
      <3>1. Standings' = [Standings EXCEPT ![p] = Standing(p)']
        BY <2>5
      <3>2. QED
        BY <2>5, <2>7, <3>1 DEF Ledger!Decide
    <2>8. QED
      BY <2>5, <2>6, <2>7
  <1>4. QED
    BY <1>1, <1>2, <1>3, Steps DEF Ledger!Next, settlementVars, CommitCorrect

-----------------------------------------------------------------------------
(* What the phase of a row says.                                           *)

\* The first rule that holds is a rule that holds.
LEMMA FirstOfHolds ==
  ASSUME NEW rules, DOMAIN rules \subseteq Nat, NEW default
  PROVE  \/ /\ \A i \in DOMAIN rules : ~ rules[i].holds
            /\ FirstOf(rules, default) = default
         \/ \E i \in DOMAIN rules : /\ rules[i].holds
                                    /\ FirstOf(rules, default) = rules[i].phase
  <1> DEFINE holding == {i \in DOMAIN rules : rules[i].holds}
  <1>1. CASE holding = {}
    BY <1>1 DEF FirstOf
  <1>2. CASE holding # {}
    <2> DEFINE first == CHOOSE i \in holding : \A j \in holding : i <= j
    <2>1. \E i \in holding : \A j \in holding : i <= j
      BY <1>2, LeastNatural
    <2>2. first \in holding
      BY <2>1
    <2>3. FirstOf(rules, default) = rules[first].phase
      BY <1>2 DEF FirstOf
    <2>4. QED
      BY <2>2, <2>3
  <1>3. QED
    BY <1>1, <1>2

\* A rule holds if its condition does.
LEMMA RuleHolds ==
  ASSUME NEW condition \in BOOLEAN, NEW phase, NEW rule, rule = Rule(condition, phase)
  PROVE  rule.holds <=> condition
  BY DEF Rule

\* A row is in a phase of its progress only if it is not over and a rule for
\* that phase holds.
LEMMA PhaseMeans ==
  ASSUME NEW w, Phase(w) \notin {"CANCELLED", "ARCHIVED", "COMPLETED", "NEEDS_ATTENTION"}
  PROVE  /\ w.shipment \notin {"CANCELLED", "ARCHIVED", "COMPLETED"}
         /\ \E i \in 1 .. 11 : /\ ProgressRules(w)[i].holds
                               /\ Phase(w) = ProgressRules(w)[i].phase
  <1> DEFINE progress == FirstOf(ProgressRules(w), "NEEDS_ATTENTION")
  <1>1. DOMAIN TerminalRules(w) = 1 .. 3
    BY DEF TerminalRules
  <1>2. DOMAIN ProgressRules(w) = 1 .. 11
    BY DEF ProgressRules
  <1>3. /\ TerminalRules(w)[1] = Rule(w.shipment = "CANCELLED", "CANCELLED")
        /\ TerminalRules(w)[2] = Rule(w.shipment = "ARCHIVED", "ARCHIVED")
        /\ TerminalRules(w)[3] = Rule(w.shipment = "COMPLETED", "COMPLETED")
    BY DEF TerminalRules
  <1>4. \A i \in 1 .. 3 :
          TerminalRules(w)[i].phase \in {"CANCELLED", "ARCHIVED", "COMPLETED"}
    BY <1>3 DEF Rule
  <1>5. Phase(w) = FirstOf(TerminalRules(w), progress)
    BY DEF Phase
  <1> HIDE DEF progress
  <1>6. /\ \A i \in 1 .. 3 : ~ TerminalRules(w)[i].holds
        /\ Phase(w) = progress
    BY <1>1, <1>4, <1>5, FirstOfHolds
  <1>7. w.shipment \notin {"CANCELLED", "ARCHIVED", "COMPLETED"}
    <2>1. /\ TerminalRules(w)[1].holds <=> w.shipment = "CANCELLED"
          /\ TerminalRules(w)[2].holds <=> w.shipment = "ARCHIVED"
          /\ TerminalRules(w)[3].holds <=> w.shipment = "COMPLETED"
      BY <1>3, RuleHolds, Zenon
    <2>2. /\ ~ TerminalRules(w)[1].holds
          /\ ~ TerminalRules(w)[2].holds
          /\ ~ TerminalRules(w)[3].holds
      BY <1>6
    <2>3. QED
      BY <2>1, <2>2, Zenon
  <1>8. \E i \in 1 .. 11 : /\ ProgressRules(w)[i].holds
                           /\ progress = ProgressRules(w)[i].phase
    BY <1>2, <1>6, FirstOfHolds DEF progress
  <1>9. QED
    BY <1>6, <1>7, <1>8

\* The rules of the phases that promise something.
LEMMA RulesAre ==
  ASSUME NEW w
  PROVE  LET R(i) == ProgressRules(w)[i] IN
         /\ R(1).phase = "RELEASED"
         /\ R(2).phase = "READY_FOR_RELEASE"
         /\ R(3).phase = "REFUND_SETTLED"
         /\ R(4).phase = "REFUND_RECORDED"
         /\ R(5).phase = "RESIDUAL_PAYMENT"
         /\ R(6).phase = "PAYMENT_REJECTED"
         /\ R(7).phase = "PAYMENT_UNDER_REVIEW"
         /\ R(8).phase = "AWAITING_COMMITMENT"
         /\ R(9).phase = "AWAITING_PAYMENT"
         /\ R(10).phase = "PDF_ATTACHED"
         /\ R(11).phase = "IMPORTED"
         /\ R(1).holds => w.release = "RELEASED"
         /\ R(2).holds => w.commitment = "ACCEPTED" /\ w.release = "ELIGIBLE"
         /\ R(4).holds => w.payment = "REFUND_RECORDED"
         /\ R(5).holds => w.payment = "RESIDUAL_DUE"
         /\ R(7).holds => w.payment \in {"SUBMITTED", "UNDER_REVIEW"}
         /\ R(8).holds \/ R(9).holds => WithDriver(w)
  <1> DEFINE R(j) == ProgressRules(w)[j]
  <1>1. R(1) = Rule(w.release = "RELEASED", "RELEASED")
    BY DEF ProgressRules
  <1>2. R(2) = Rule(w.commitment = "ACCEPTED" /\ w.release = "ELIGIBLE",
                    "READY_FOR_RELEASE")
    BY DEF ProgressRules
  <1>3. R(3) = Rule(w.payment = "REFUND_SETTLED", "REFUND_SETTLED")
    BY DEF ProgressRules
  <1>4. R(4) = Rule(w.payment = "REFUND_RECORDED", "REFUND_RECORDED")
    BY DEF ProgressRules
  <1>5. R(5) = Rule(w.payment = "RESIDUAL_DUE", "RESIDUAL_PAYMENT")
    BY DEF ProgressRules
  <1>6. R(6) = Rule(w.payment = "REJECTED", "PAYMENT_REJECTED")
    BY DEF ProgressRules
  <1>7. R(7) = Rule(w.payment \in {"SUBMITTED", "UNDER_REVIEW"}, "PAYMENT_UNDER_REVIEW")
    BY DEF ProgressRules
  <1>8. R(8) = Rule(WithDriver(w) /\ w.commitment \in {"PENDING", "DECLINED"},
                    "AWAITING_COMMITMENT")
    BY DEF ProgressRules
  <1>9. R(9) = Rule(WithDriver(w) /\ CommitmentAccepted(w), "AWAITING_PAYMENT")
    BY DEF ProgressRules
  <1>10. R(10) = Rule(DocVerified(w) /\ w.shipment = "READY_FOR_DRIVER", "PDF_ATTACHED")
    BY DEF ProgressRules
  <1>11. R(11) = Rule(/\ w.shipment \in {"IMPORTED", "VALIDATION_FAILED"}
                      /\ w.document = "NOT_UPLOADED", "IMPORTED")
    BY DEF ProgressRules
  <1>12. /\ R(1).phase = "RELEASED"
         /\ R(2).phase = "READY_FOR_RELEASE"
         /\ R(3).phase = "REFUND_SETTLED"
         /\ R(4).phase = "REFUND_RECORDED"
         /\ R(5).phase = "RESIDUAL_PAYMENT"
         /\ R(6).phase = "PAYMENT_REJECTED"
         /\ R(7).phase = "PAYMENT_UNDER_REVIEW"
         /\ R(8).phase = "AWAITING_COMMITMENT"
         /\ R(9).phase = "AWAITING_PAYMENT"
         /\ R(10).phase = "PDF_ATTACHED"
         /\ R(11).phase = "IMPORTED"
    BY SMT DEF ProgressRules, Rule
  <1>13. R(1).holds => w.release = "RELEASED"
    BY <1>1, RuleHolds, Zenon
  <1>14. R(2).holds => w.commitment = "ACCEPTED" /\ w.release = "ELIGIBLE"
    BY <1>2, RuleHolds, Zenon
  <1>15. R(4).holds => w.payment = "REFUND_RECORDED"
    BY <1>4, RuleHolds, Zenon
  <1>16. R(5).holds => w.payment = "RESIDUAL_DUE"
    BY <1>5, RuleHolds, Zenon
  <1>17. R(7).holds => w.payment \in {"SUBMITTED", "UNDER_REVIEW"}
    <2> DEFINE waiting == w.payment \in {"SUBMITTED", "UNDER_REVIEW"}
    <2>1. waiting \in BOOLEAN
      OBVIOUS
    <2>2. R(7) = Rule(waiting, "PAYMENT_UNDER_REVIEW")
      BY <1>7
    <2> HIDE DEF waiting
    <2>3. R(7).holds => waiting
      BY <2>1, <2>2, RuleHolds, Zenon
    <2>4. QED
      BY <2>3, Zenon DEF waiting
  <1>18. R(8).holds \/ R(9).holds => WithDriver(w)
    BY <1>8, <1>9, RuleHolds, Zenon
  <1>19. QED
    BY <1>12, <1>13, <1>14, <1>15, <1>16, <1>17, <1>18, Zenon

\* What the rules of the phases that promise something require.
LEMMA RulesOfPhase ==
  ASSUME NEW w, NEW i \in 1 .. 11, ProgressRules(w)[i].holds
  PROVE  /\ ProgressRules(w)[i].phase = "RELEASED" => w.release = "RELEASED"
         /\ ProgressRules(w)[i].phase = "READY_FOR_RELEASE" =>
              w.commitment = "ACCEPTED" /\ w.release = "ELIGIBLE"
         /\ ProgressRules(w)[i].phase = "REFUND_RECORDED" => w.payment = "REFUND_RECORDED"
         /\ ProgressRules(w)[i].phase = "RESIDUAL_PAYMENT" => w.payment = "RESIDUAL_DUE"
         /\ ProgressRules(w)[i].phase = "PAYMENT_UNDER_REVIEW" =>
              w.payment \in {"SUBMITTED", "UNDER_REVIEW"}
         /\ ProgressRules(w)[i].phase \in {"AWAITING_COMMITMENT", "AWAITING_PAYMENT"} =>
              w.payment = "NOT_SUBMITTED"
  <1>1. \/ i = 1 \/ i = 2 \/ i = 3 \/ i = 4 \/ i = 5 \/ i = 6 \/ i = 7 \/ i = 8
        \/ i = 9 \/ i = 10 \/ i = 11
    OBVIOUS
  <1>2. QED
    BY <1>1, RulesAre DEF WithDriver

\* The CHECKs make what the phase says true.
LEMMA CheckedPhase == Checked => PhaseKeepsPromise
  <1> SUFFICES ASSUME Checked PROVE PhaseKeepsPromise
    OBVIOUS
  <1>1. ASSUME Phase(waybill) \notin {"CANCELLED", "ARCHIVED", "COMPLETED",
                                      "NEEDS_ATTENTION"}
        PROVE  /\ Active(waybill)
               /\ Phase(waybill) = "RELEASED" => waybill.release = "RELEASED"
               /\ Phase(waybill) = "READY_FOR_RELEASE" => waybill.release = "ELIGIBLE"
               /\ Phase(waybill) \in {"AWAITING_COMMITMENT", "AWAITING_PAYMENT"} =>
                    waybill.payment = "NOT_SUBMITTED"
    <2>1. PICK i \in 1 .. 11 : /\ ProgressRules(waybill)[i].holds
                               /\ Phase(waybill) = ProgressRules(waybill)[i].phase
      BY <1>1, PhaseMeans
    <2>2. waybill.shipment \notin {"CANCELLED", "ARCHIVED"}
      BY <1>1, PhaseMeans
    <2>3. QED
      BY <2>1, <2>2, RulesOfPhase DEF Active
  <1>2. CheckRelease(waybill)
    BY DEF Checked
  <1>3. CASE Phase(waybill) = "READY_FOR_RELEASE"
    <2>1. Active(waybill) /\ waybill.release = "ELIGIBLE"
      BY <1>1, <1>3
    <2>2. PaymentSettled(waybill) /\ CommitmentAccepted(waybill) /\ DocVerified(waybill)
      BY <1>2, <2>1 DEF CheckRelease
    <2>3. CheckRelease([waybill EXCEPT !.release = "AUTHORIZED"])
      BY <2>2 DEF CheckRelease, PaymentSettled, CommitmentAccepted, DocVerified
    <2>4. QED
      BY <1>3, <2>1, <2>3 DEF PhaseKeepsPromise
  <1>4. CASE Phase(waybill) = "RELEASED"
    <2>1. Active(waybill) /\ waybill.release = "RELEASED"
      BY <1>1, <1>4
    <2>2. CanRelease(waybill, TRUE)
      BY <1>2, <2>1 DEF CheckRelease, CanRelease, InForce
    <2>3. QED
      BY <1>4, <2>2 DEF PhaseKeepsPromise
  <1>5. CASE Phase(waybill) \in {"AWAITING_COMMITMENT", "AWAITING_PAYMENT"}
    <2>1. Active(waybill) /\ waybill.payment = "NOT_SUBMITTED"
      BY <1>1, <1>5
    <2>2. waybill.release \notin {"ELIGIBLE", "AUTHORIZED"}
      BY <1>2, <2>1 DEF CheckRelease, PaymentSettled
    <2>3. QED
      BY <1>5, <2>1, <2>2 DEF PhaseKeepsPromise
  <1>6. QED
    BY <1>3, <1>4, <1>5 DEF PhaseKeepsPromise

-----------------------------------------------------------------------------
(* What the services promise, together.                                    *)

Promises ==
  /\ Typed
  /\ Checked
  /\ OneActiveAuthorization
  /\ PositiveCorrections /\ OneCurrentAmount
  /\ DecidedOnce /\ GatewayApproved
  /\ AllowedTransitions
  /\ NeverWithoutAuthorization /\ CallsAuthorized

LEMMA InitPromises == Init => Promises
  <1> SUFFICES ASSUME Init PROVE Promises
    OBVIOUS
  <1>1. Typed /\ Checked /\ PositiveCorrections
    BY InitType, InitChecked, InitPositive
  <1>2. OneActiveAuthorization
    BY DEF Init, InitSettlement, OneActiveAuthorization, ActiveAuthorizations
  <1>3. OneCurrentAmount
    BY SettlementAssumption
    DEF Init, InitSettlement, InitialRow, OneCurrentAmount, CurrentAmounts, StoredAmounts
  <1>4. DecidedOnce /\ GatewayApproved
    BY DEF Init, InitSettlement, DecidedOnce, GatewayApproved, NoPayment, Decisions
  <1>5. AllowedTransitions
    BY DEF Init, InitSettlement, AllowedTransitions, Idle
  <1>6. NeverWithoutAuthorization /\ CallsAuthorized
    BY DEF Init, InitSettlement, InitialRow, NeverWithoutAuthorization, CallsAuthorized,
           InForce, Idle
  <1>7. QED
    BY <1>1, <1>2, <1>3, <1>4, <1>5, <1>6 DEF Promises

LEMMA NextPromises == Promises /\ [Next]_vars => Promises'
  BY NextType, NextChecked, NextOneActive, NextPositive, NextOneCurrent, NextDecided,
     NextAllowed, NextDelivery, NextCallsAuthorized
  DEF Promises

LEMMA InitLedger == Init => Ledger!Init
  BY DEF Init, InitSettlement, Ledger!Init, Standing, NoPayment

\* At most one authorization is in force, although two calls of
\* authorizeRelease may both have found none (I-5).
THEOREM AuthorizedOnce == Spec => []OneActiveAuthorization
  BY InitPromises, NextPromises, PTL DEF Spec, Promises

\* Exactly one amount is current, and the waybill points to it, however
\* corrections overlap (I-3).
THEOREM CurrentAmountIsOne == Spec => []OneCurrentAmount
  BY InitPromises, NextPromises, PTL DEF Spec, Promises

\* No payment is decided twice by concurrent or repeated reviews (I-16).
THEOREM DecidedAtMostOnce == Spec => []DecidedOnce
  BY InitPromises, NextPromises, PTL DEF Spec, Promises

\* No stale write of the release status, by any overlap of the services,
\* delivers a waybill for which authorizeRelease was never carried out.
THEOREM DeliveryIsAuthorized == Spec => []NeverWithoutAuthorization
  BY InitPromises, NextPromises, PTL DEF Spec, Promises

\* evaluateReleaseConditions never contradicts the release axis, whatever
\* stale values were written: the CHECKs of the table make the committed row
\* agree with the rule at every moment.
THEOREM DownloadableWhenReleased == Spec => []DownloadableIffReleased
  BY InitPromises, NextPromises, CheckedDownload, PTL DEF Spec, Promises

\* What the screens promise of a row holds of it.
THEOREM PhasePromisesHold == Spec => []PhaseKeepsPromise
  BY InitPromises, NextPromises, CheckedPhase, PTL DEF Spec, Promises

\* A cancelled or archived waybill is never brought back by a transition that
\* was validated against an earlier status.
THEOREM CancelledStaysCancelled == Spec => CancelledIsFinal
  BY InitPromises, NextPromises, CancelledStep, PTL DEF Spec, Promises, CancelledIsFinal

\* A step of the services enters a payment in the ledger, decides one, or
\* leaves the ledger as it was.
THEOREM LedgerImplemented == Spec => ImplementsLedger
  BY InitType, InitLedger, NextType, LedgerStep, PTL
  DEF Spec, ImplementsLedger, Ledger!Spec, Standings

=============================================================================
