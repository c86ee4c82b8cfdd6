----------------------------- MODULE OnlinePayment -----------------------------
(***************************************************************************)
(* The gateway handlers of one waybill running concurrently with each      *)
(* other, with corrections of its amount and with its cancellation.        *)
(***************************************************************************)
EXTENDS Gateway, Shipment

vars == <<waybill, calls, settlementVars, gatewayVars>>

Init == InitSettlement /\ InitGateway

GatewayStep(c) ==
  \/ BeginInitiate(c)
  \/ ExpireOld(c)
  \/ \E t \in Attempts : CreateAttempt(c, t)
  \/ RequestAccepted(c)
  \/ RequestRefused(c)
  \/ \E t \in Attempts : BeginCallback(c, t)
  \/ MarkReturned(c)
  \/ \E t \in Attempts : BeginInquiry(c, t)
  \/ \E answer \in {"VERIFIED", "FAILED", "UNKNOWN"} : Ask(c, answer)
  \/ RecordFailed(c)
  \/ RecordUnknown(c)
  \/ RecordVerified(c)
  \/ BeginCredit(c)
  \/ \E p \in PaymentIds : Credit(c, p)
  \/ CommitVerified(c)
  \/ GiveUp(c)

PanelStep(c) ==
  /\ handlers[c] = NoHandler
  /\ \/ \E v \in Values : BeginCorrect(c, v)
     \/ \E a \in AmountIds : CommitCorrect(c, a)
     \/ /\ \/ \E t \in Targets, v \in 1 .. waybill.version : BeginShipment(c, t, v)
           \/ CommitShipment(c)
        /\ UNCHANGED settlementVars
     \/ Rollback(c) /\ UNCHANGED settlementVars
  /\ UNCHANGED gatewayVars

Next ==
  \/ \E c \in Callers : GatewayStep(c) \/ PanelStep(c)
  \/ \E t \in Attempts : Pay(t) \/ TwentyMinutesPass(t)

Spec == Init /\ [][Next]_vars

-----------------------------------------------------------------------------
GatewayCalls == {Idle} \cup SubmitCalls \cup CorrectCalls \cup ShipmentCalls

\* Every row and every handler in flight stays in its types; AttemptStatus
\* holds each status a handler writes.
TypeOK ==
  /\ waybill \in WaybillRow
  /\ calls \in [Callers -> GatewayCalls]
  /\ amounts \in [AmountIds -> AmountRow]
  /\ payments \in [PaymentIds -> PaymentRow]
  /\ attempts \in [Attempts -> [status: AttemptStatus \cup {"ABSENT"},
                                amountId: AmountIds \cup {None}, old: BOOLEAN]]
  /\ bank \in [Attempts -> {"UNKNOWN", "OFFERED", "PAID"}]
  /\ handlers \in [Callers ->
       [at: {"idle", "expire", "create", "request", "return", "ask", "fail",
             "unknown", "record", "submit", "commit"},
        job: {"initiate", "callback", "inquiry", None},
        attempt: Attempts \cup {None}, amountId: AmountIds \cup {None}]]
  /\ paidBy \in [PaymentIds -> Attempts \cup {None}]

PaymentsOf(t) == {p \in PaymentIds : paidBy[p] = t}

\* I-6: at most one attempt of the waybill is open, although initiations that
\* find none overlap and a callback may reopen an expired or failed attempt.
OneOpenAttempt == \A t, u \in OpenAttempts : t = u

\* A gateway payment is entered only for an attempt whose driver was sent to the
\* provider, for the amount of that attempt (I-9), and, unless the provider is BPM,
\* only when the driver paid it: the callback itself is not trusted, and no answer
\* is not an answer.  BPM's confirmation may be about another sale.
CreditedWasPaid ==
  \A p \in PaymentIds :
    payments[p].method = "GATEWAY" =>
      /\ paidBy[p] # None
      /\ bank[paidBy[p]] \in {"OFFERED", "PAID"}
      /\ paidBy[p] \notin BpmAttempts => bank[paidBy[p]] = "PAID"
      /\ payments[p].amount = amounts[attempts[paidBy[p]].amountId].value

\* A callback marks the attempt VERIFIED only after its payment is in the books,
\* so the early return of a repeated callback never hides a missing one: the
\* crash between the two transactions cannot lose a payment.  (The inquiry
\* marks first and submits later; it is in the configuration, the other writer
\* of the same rows.)
CallbackCreditsFirst ==
  [][\A c \in Callers, t \in Attempts :
       /\ handlers[c].job = "callback"
       /\ handlers[c].attempt = t
       /\ handlers'[c] # handlers[c]
       /\ attempts[t].status # "VERIFIED"
       /\ attempts'[t].status = "VERIFIED"
       => PaymentsOf(t) # {}]_vars

-----------------------------------------------------------------------------
(* What the comments of the code say.                                      *)

\* An attempt the driver paid once is credited at most once.
CreditedOnce == \A t \in Attempts : \A p, q \in PaymentsOf(t) : p = q
=============================================================================
