-------------------------------- MODULE Phase --------------------------------
(***************************************************************************)
(* deriveWaybillPhase: the one phase that the panel and the driver's       *)
(* portal show for a row, the first of a list of rules that holds.         *)
(***************************************************************************)
EXTENDS WaybillRecord

Rule(condition, phase) == [holds |-> condition, phase |-> phase]

WithDriver(w) ==
  /\ w.shipment \in {"DRIVER_NOTIFIED", "DRIVER_VIEWED"}
  /\ w.payment = "NOT_SUBMITTED"

TerminalRules(w) ==
  <<Rule(w.shipment = "CANCELLED", "CANCELLED"),
    Rule(w.shipment = "ARCHIVED", "ARCHIVED"),
    Rule(w.shipment = "COMPLETED", "COMPLETED")>>

ProgressRules(w) ==
  <<Rule(w.release = "RELEASED", "RELEASED"),
    Rule(w.commitment = "ACCEPTED" /\ w.release = "ELIGIBLE", "READY_FOR_RELEASE"),
    Rule(w.payment = "REFUND_SETTLED", "REFUND_SETTLED"),
    Rule(w.payment = "REFUND_RECORDED", "REFUND_RECORDED"),
    Rule(w.payment = "RESIDUAL_DUE", "RESIDUAL_PAYMENT"),
    Rule(w.payment = "REJECTED", "PAYMENT_REJECTED"),
    Rule(w.payment \in {"SUBMITTED", "UNDER_REVIEW"}, "PAYMENT_UNDER_REVIEW"),
    Rule(WithDriver(w) /\ w.commitment \in {"PENDING", "DECLINED"},
         "AWAITING_COMMITMENT"),
    Rule(WithDriver(w) /\ CommitmentAccepted(w), "AWAITING_PAYMENT"),
    Rule(DocVerified(w) /\ w.shipment = "READY_FOR_DRIVER", "PDF_ATTACHED"),
    Rule(/\ w.shipment \in {"IMPORTED", "VALIDATION_FAILED"}
         /\ w.document = "NOT_UPLOADED", "IMPORTED")>>

FirstOf(rules, default) ==
  LET holding == {i \in DOMAIN rules : rules[i].holds} IN
  IF holding = {} THEN default
  ELSE rules[CHOOSE i \in holding : \A j \in holding : i <= j].phase

\* Faulty variant: how far the waybill got is asked before whether it is over.
PhaseProgressFirst(w) ==
  FirstOf(ProgressRules(w), FirstOf(TerminalRules(w), "NEEDS_ATTENTION"))

Phase(w) ==
  FirstOf(TerminalRules(w), FirstOf(ProgressRules(w), "NEEDS_ATTENTION"))

=============================================================================
