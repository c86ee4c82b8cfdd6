------------------------------- MODULE Shipment -------------------------------
(***************************************************************************)
(* The transitions of the shipment and document axes by the state machine: *)
(* transitionWaybillShipmentStatus and transitionWaybillDocumentStatus.    *)
(* These two, unlike the money and release services, are guarded by the    *)
(* version of the row (optimistic locking).                                *)
(***************************************************************************)
EXTENDS WaybillRecord

CONSTANT Targets   \* statuses operators ask for, of either axis

AllowedShipment ==
  [DRAFT             |-> {"IMPORTED", "CANCELLED"},
   IMPORTED          |-> {"VALIDATION_FAILED", "READY_FOR_DRIVER", "CANCELLED"},
   VALIDATION_FAILED |-> {"IMPORTED", "CANCELLED"},
   READY_FOR_DRIVER  |-> {"DRIVER_NOTIFIED", "CANCELLED"},
   DRIVER_NOTIFIED   |-> {"DRIVER_VIEWED", "CANCELLED"},
   DRIVER_VIEWED     |-> {"COMPLETED", "CANCELLED"},
   COMPLETED         |-> {"ARCHIVED"},
   CANCELLED         |-> {},
   ARCHIVED          |-> {}]

AllowedDocument ==
  [NOT_UPLOADED        |-> {"UPLOADED", "MATCHED", "VERIFIED"},
   UPLOADED            |-> {"MATCHED", "MISMATCHED", "PENDING_REVIEW",
                            "CORRUPTED", "VERIFIED"},
   MATCHED             |-> {"VERIFIED", "REPLACEMENT_PENDING",
                            "PENDING_REVIEW", "NOT_UPLOADED"},
   MISMATCHED          |-> {"MATCHED", "PENDING_REVIEW", "NOT_UPLOADED"},
   PENDING_REVIEW      |-> {"MATCHED", "VERIFIED", "NOT_UPLOADED"},
   VERIFIED            |-> {"REPLACEMENT_PENDING", "NOT_UPLOADED"},
   REPLACEMENT_PENDING |-> {"VERIFIED", "NOT_UPLOADED"},
   CORRUPTED           |-> {"NOT_UPLOADED", "UPLOADED"}]

ShipmentCalls ==
  [op: {"shipment"}, target: ShipmentStatus, seen: ShipmentStatus,
   expectedVersion: Nat]

DocumentCalls ==
  [op: {"document"}, target: DocumentStatus, seen: DocumentStatus,
   expectedVersion: Nat]

BeginShipment(c, target, expectedVersion) ==
  /\ target \in AllowedShipment[waybill.shipment]
  /\ Start(c, [op |-> "shipment", target |-> target, seen |-> waybill.shipment,
               expectedVersion |-> expectedVersion])
  /\ UNCHANGED waybill

\* Faulty variant: the row is updated by id only.
ShipmentUnchecked(call) == TRUE

\* where: { version: expectedVersion, shipmentStatus: current.shipmentStatus }
ShipmentUnchanged(call) ==
  /\ waybill.version = call.expectedVersion
  /\ waybill.shipment = call.seen

CommitShipment(c) ==
  /\ calls[c].op = "shipment"
  /\ ShipmentUnchanged(calls[c])
  /\ VersionLeft
  /\ WriteWaybill(Bump([waybill EXCEPT !.shipment = calls[c].target]))
  /\ Finish(c)

BeginDocument(c, target, expectedVersion) ==
  /\ target \in AllowedDocument[waybill.document]
  /\ Start(c, [op |-> "document", target |-> target, seen |-> waybill.document,
               expectedVersion |-> expectedVersion])
  /\ UNCHANGED waybill

\* where: { version: expectedVersion, documentStatus: current.documentStatus }
DocumentUnchanged(call) ==
  /\ waybill.version = call.expectedVersion
  /\ waybill.document = call.seen

CommitDocument(c) ==
  /\ calls[c].op = "document"
  /\ DocumentUnchanged(calls[c])
  /\ VersionLeft
  /\ WriteWaybill(Bump([waybill EXCEPT !.document = calls[c].target]))
  /\ Finish(c)

=============================================================================
