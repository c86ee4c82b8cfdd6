---------------------------- MODULE WaybillRecord ----------------------------
(***************************************************************************)
(* One row of the table waybills: its five status axes, the CHECK          *)
(* constraints PostgreSQL evaluates on every write of the row, and the     *)
(* pure rule that decides whether the PDF may be downloaded.               *)
(*                                                                         *)
(* Every service call is an interactive transaction at READ COMMITTED that *)
(* reads without locking and writes later.  It is modelled as two steps: a *)
(* Begin step that reads, evaluates the guards and computes the values to  *)
(* write, kept in calls[c]; and a Commit step that writes them to the rows *)
(* as they are by then.  Each row is written last-writer-wins, as          *)
(* `update({ where: { id } })' does.  All handlers work on one waybill, so *)
(* one row is enough.                                                      *)
(***************************************************************************)
EXTENDS Naturals

CONSTANTS
  Callers,      \* the service calls that may be in flight at the same time
  Ops,          \* the services that are called in this configuration
  AmountIds,    \* ids of waybill_amounts rows
  None,         \* SQL NULL
  MaxVersion    \* bound of the version column

ASSUME RecordAssumption == MaxVersion \in Nat /\ None \notin AmountIds

VARIABLES
  waybill,      \* the committed row
  calls         \* calls[c]: what the call in flight c has read and will write

ShipmentStatus ==
  {"DRAFT", "IMPORTED", "VALIDATION_FAILED", "READY_FOR_DRIVER",
   "DRIVER_NOTIFIED", "DRIVER_VIEWED", "COMPLETED", "CANCELLED", "ARCHIVED"}

DocumentStatus ==
  {"NOT_UPLOADED", "UPLOADED", "MATCHED", "MISMATCHED", "PENDING_REVIEW",
   "VERIFIED", "REPLACEMENT_PENDING", "CORRUPTED"}

PaymentStatus ==
  {"NOT_REQUIRED", "NOT_SUBMITTED", "SUBMITTED", "UNDER_REVIEW", "APPROVED",
   "REJECTED", "DISCREPANCY_REVIEW", "RESIDUAL_DUE", "REFUND_RECORDED",
   "REFUND_SETTLED", "CANCELLED"}

CommitmentStatus ==
  {"NOT_REQUIRED", "PENDING", "ACCEPTED", "DECLINED", "RE_ACCEPT_REQUIRED"}

ReleaseStatus == {"BLOCKED", "ELIGIBLE", "AUTHORIZED", "RELEASED", "REVOKED"}

WaybillRow ==
  [shipment: ShipmentStatus, document: DocumentStatus, payment: PaymentStatus,
   commitment: CommitmentStatus, release: ReleaseStatus,
   currentAmount: AmountIds, version: Nat]

-----------------------------------------------------------------------------
Active(w) == w.shipment \notin {"CANCELLED", "ARCHIVED"}

DocVerified(w) == w.document = "VERIFIED"

PaymentSettled(w) == w.payment \in {"APPROVED", "NOT_REQUIRED"}

CommitmentAccepted(w) == w.commitment \in {"ACCEPTED", "NOT_REQUIRED"}

InForce(w) == w.release \in {"AUTHORIZED", "RELEASED"}

\* Faulty variant: the table has no such constraint.
CheckReleaseMissing(w) == TRUE

\* check_waybills_release_invariants
CheckRelease(w) ==
  w.release \in {"ELIGIBLE", "AUTHORIZED", "RELEASED"}
    => PaymentSettled(w) /\ CommitmentAccepted(w) /\ DocVerified(w)

\* check_waybills_cancelled_release
CheckCancelled(w) == Active(w) \/ ~InForce(w)

\* evaluateReleaseConditions: no unmet condition is left.
CanRelease(w, hasActiveSession) ==
  /\ Active(w)
  /\ DocVerified(w)
  /\ PaymentSettled(w)
  /\ CommitmentAccepted(w)
  /\ InForce(w)
  /\ hasActiveSession

\* The row as the import creates it, and as it is once a PDF is attached and
\* the driver has opened the link and answered the commitment.
InitialRow(a) ==
  {[shipment |-> "IMPORTED", document |-> "NOT_UPLOADED",
    payment |-> "NOT_SUBMITTED", commitment |-> "PENDING",
    release |-> "BLOCKED", currentAmount |-> a, version |-> 1]}
  \cup
  {[shipment |-> "DRIVER_VIEWED", document |-> "VERIFIED",
    payment |-> "NOT_SUBMITTED", commitment |-> answer,
    release |-> "BLOCKED", currentAmount |-> a, version |-> 1] :
      answer \in {"PENDING", "ACCEPTED", "DECLINED"}}

-----------------------------------------------------------------------------
Idle == [op |-> "idle"]

\* A write of the row: the transaction rolls back unless the CHECKs hold.
WriteWaybill(row) ==
  /\ CheckRelease(row)
  /\ CheckCancelled(row)
  /\ waybill' = row

Start(c, call) ==
  /\ calls[c] = Idle
  /\ call.op \in Ops
  /\ calls' = [calls EXCEPT ![c] = call]

Finish(c) == calls' = [calls EXCEPT ![c] = Idle]

\* The call ends without effect: it lost the race for a conditional update, a
\* constraint rejected a write, the transaction timed out, or the process died.
Rollback(c) ==
  /\ calls[c] # Idle
  /\ Finish(c)
  /\ UNCHANGED waybill

\* The row is bumped with `version: { increment: 1 }'.
Bump(row) == [row EXCEPT !.version = @ + 1]

VersionLeft == waybill.version < MaxVersion

=============================================================================
