-------------------------------- MODULE Gateway --------------------------------
(***************************************************************************)
(* Online payment of a waybill: initiateGatewayPayment,                    *)
(* handleGatewayCallback and inquireUnknownTransactions, with the attempts *)
(* they share (gateway_transactions) and the bank behind the provider.     *)
(*                                                                         *)
(* Unlike the other services these are not one transaction: every          *)
(* statement commits by itself, so each is a step of handlers[c].  Only    *)
(* the end of a callback is a transaction: it marks the attempt VERIFIED   *)
(* and then calls submitWaybillPayment, which opens and commits a          *)
(* transaction of its own before the outer one commits.                    *)
(***************************************************************************)
EXTENDS Settlement

CONSTANTS
  Attempts,        \* ids of gateway_transactions rows
  BpmAttempts,     \* those made while BPM is the active gateway
  OuterCommitFails \* the callback's transaction may roll back after the inner
                   \* one committed (timeout, lost connection, crash)

ASSUME GatewayAssumption ==
  /\ None \notin Attempts
  /\ BpmAttempts \subseteq Attempts
  /\ OuterCommitFails \in BOOLEAN

VARIABLES
  attempts,   \* rows of gateway_transactions; status "ABSENT": no such row yet
  bank,       \* what the provider knows of the attempt
  handlers,   \* handlers[c]: where the gateway handler c is and what it read
  paidBy      \* payments.gateway_transaction_id

gatewayVars == <<attempts, bank, handlers, paidBy>>

Open == {"INITIATED", "RETURNED", "UNKNOWN"}

AttemptStatus ==
  Open \cup {"VERIFIED", "FAILED", "EXPIRED", "CANCELLED"}

\* old: created 20 minutes ago or more.
NoAttempt == [status |-> "ABSENT", amountId |-> None, old |-> FALSE]

OpenAttempts == {t \in Attempts : attempts[t].status \in Open}

NoHandler == [at |-> "idle", job |-> None, attempt |-> None, amountId |-> None]

InitGateway ==
  /\ attempts = [t \in Attempts |-> NoAttempt]
  /\ bank = [t \in Attempts |-> "UNKNOWN"]
  /\ handlers = [c \in Callers |-> NoHandler]
  /\ paidBy = [p \in PaymentIds |-> None]

GoTo(c, stage) == handlers' = [handlers EXCEPT ![c].at = stage]

Done(c) == handlers' = [handlers EXCEPT ![c] = NoHandler]

BeginJob(c, job, stage, t, a) ==
  /\ handlers[c] = NoHandler
  /\ calls[c] = Idle
  /\ job \in Ops
  /\ handlers' = [handlers EXCEPT ![c] =
       [at |-> stage, job |-> job, attempt |-> t, amountId |-> a]]

\* The row is locked by a callback whose transaction has updated it.
Locked(t) ==
  \E c \in Callers : /\ handlers[c].job = "callback"
                     /\ handlers[c].attempt = t
                     /\ handlers[c].at \in {"submit", "commit"}

\* Faulty variant: no partial unique index.
UniqueOpenUnchecked(t, status) == TRUE

\* idx_gateway_transactions_single_open
UniqueOpen(t, status) == status \in Open => OpenAttempts \ {t} = {}

\* gatewayTransaction.update({ where: { id } }): whatever the status was.
SetStatus(t, status) ==
  /\ ~Locked(t)
  /\ UniqueOpen(t, status)
  /\ attempts' = [attempts EXCEPT ![t].status = status]

-----------------------------------------------------------------------------
(* initiateGatewayPayment                                                  *)

\* The amount is the one current at this read; an open attempt blocks the new
\* one unless it is older than 20 minutes.
BeginInitiate(c) ==
  /\ Active(waybill)
  /\ MayPay(waybill)
  /\ CurrentAmounts # {}
  /\ \/ /\ OpenAttempts = {}
        /\ BeginJob(c, "initiate", "create", None, CurrentAmount)
     \/ \E t \in OpenAttempts :
          /\ attempts[t].old
          /\ BeginJob(c, "initiate", "expire", t, CurrentAmount)
  /\ UNCHANGED <<waybill, calls, settlementVars, attempts, bank, paidBy>>

ExpireOld(c) ==
  /\ handlers[c].at = "expire"
  /\ SetStatus(handlers[c].attempt, "EXPIRED")
  /\ GoTo(c, "create")
  /\ UNCHANGED <<waybill, calls, settlementVars, bank, paidBy>>

CreateAttempt(c, t) ==
  /\ handlers[c].at = "create"
  /\ attempts[t] = NoAttempt
  /\ UniqueOpen(t, "INITIATED")
  /\ attempts' = [attempts EXCEPT ![t] =
       [status |-> "INITIATED", amountId |-> handlers[c].amountId, old |-> FALSE]]
  /\ handlers' = [handlers EXCEPT ![c].at = "request", ![c].attempt = t]
  /\ UNCHANGED <<waybill, calls, settlementVars, bank, paidBy>>

\* The provider accepts the attempt, and the driver is sent to its page.
RequestAccepted(c) ==
  /\ handlers[c].at = "request"
  /\ bank' = [bank EXCEPT ![handlers[c].attempt] = "OFFERED"]
  /\ Done(c)
  /\ UNCHANGED <<waybill, calls, settlementVars, attempts, paidBy>>

RequestRefused(c) ==
  /\ handlers[c].at = "request"
  /\ SetStatus(handlers[c].attempt, "FAILED")
  /\ Done(c)
  /\ UNCHANGED <<waybill, calls, settlementVars, bank, paidBy>>

\* The driver pays on the provider's page, at any time.
Pay(t) ==
  /\ bank[t] = "OFFERED"
  /\ bank' = [bank EXCEPT ![t] = "PAID"]
  /\ UNCHANGED <<waybill, calls, settlementVars, attempts, handlers, paidBy>>

TwentyMinutesPass(t) ==
  /\ attempts[t].status \in Open
  /\ ~attempts[t].old
  /\ attempts' = [attempts EXCEPT ![t].old = TRUE]
  /\ UNCHANGED <<waybill, calls, settlementVars, bank, handlers, paidBy>>

-----------------------------------------------------------------------------
(* handleGatewayCallback and inquireUnknownTransactions                    *)

\* A callback may come at any time, once or repeatedly, whether or not the
\* driver has paid; one that finds the attempt VERIFIED changes nothing.
BeginCallback(c, t) ==
  /\ bank[t] # "UNKNOWN"
  /\ attempts[t].status # "VERIFIED"
  /\ BeginJob(c, "callback", "return", t, None)
  /\ UNCHANGED <<waybill, calls, settlementVars, attempts, bank, paidBy>>

MarkReturned(c) ==
  /\ handlers[c].at = "return"
  /\ SetStatus(handlers[c].attempt, "RETURNED")
  /\ GoTo(c, "ask")
  /\ UNCHANGED <<waybill, calls, settlementVars, bank, paidBy>>

\* One attempt of the batch; the batch was read before the first was handled.
BeginInquiry(c, t) ==
  /\ attempts[t].status = "UNKNOWN"
  /\ BeginJob(c, "inquiry", "ask", t, None)
  /\ UNCHANGED <<waybill, calls, settlementVars, attempts, bank, paidBy>>

\* Faulty variant: no answer is taken for a confirmation.
AfterAnswerTrusting(job, answer) == IF answer = "FAILED" THEN "fail" ELSE "record"

AfterAnswer(job, answer) ==
  CASE answer = "VERIFIED" -> "record"
    [] answer = "FAILED"   -> "fail"
    [] OTHER               -> IF job = "callback" THEN "unknown" ELSE "idle"

\* The provider confirms only what was paid; but BPM is asked about the sale that
\* the callback names, and by the inquiry about order 0, which says nothing of the
\* attempt (worked out in ProviderExchange).  FAILED also stands for an amount that
\* differs; UNKNOWN for a timeout or an unreadable answer.
Ask(c, answer) ==
  LET next == AfterAnswer(handlers[c].job, answer)
      t == handlers[c].attempt
  IN
  /\ handlers[c].at = "ask"
  /\ answer = "VERIFIED" => bank[t] = "PAID" \/ t \in BpmAttempts
  /\ IF next = "idle" THEN Done(c) ELSE GoTo(c, next)
  /\ UNCHANGED <<waybill, calls, settlementVars, attempts, bank, paidBy>>

RecordFailed(c) ==
  /\ handlers[c].at = "fail"
  /\ SetStatus(handlers[c].attempt, "FAILED")
  /\ Done(c)
  /\ UNCHANGED <<waybill, calls, settlementVars, bank, paidBy>>

RecordUnknown(c) ==
  /\ handlers[c].at = "unknown"
  /\ SetStatus(handlers[c].attempt, "UNKNOWN")
  /\ Done(c)
  /\ UNCHANGED <<waybill, calls, settlementVars, bank, paidBy>>

\* Faulty variant: the callback too commits VERIFIED before the payment.
RecordVerifiedAtOnce(c) ==
  /\ handlers[c].at = "record"
  /\ SetStatus(handlers[c].attempt, "VERIFIED")
  /\ GoTo(c, "submit")
  /\ UNCHANGED <<waybill, calls, settlementVars, bank, paidBy>>

\* A callback updates the row inside a transaction, nobody else sees it yet;
\* the inquiry's update commits at once.
RecordVerified(c) ==
  /\ handlers[c].at = "record"
  /\ IF handlers[c].job = "callback"
     THEN ~Locked(handlers[c].attempt) /\ UNCHANGED attempts
     ELSE SetStatus(handlers[c].attempt, "VERIFIED")
  /\ GoTo(c, "submit")
  /\ UNCHANGED <<waybill, calls, settlementVars, bank, paidBy>>

\* submitWaybillPayment, for the amount of the attempt.
BeginCredit(c) ==
  /\ handlers[c].at = "submit"
  /\ BeginSubmit(c, "GATEWAY", attempts[handlers[c].attempt].amountId)
  /\ UNCHANGED gatewayVars

Credit(c, p) ==
  /\ handlers[c].at = "submit"
  /\ CommitSubmit(c, p)
  /\ paidBy' = [paidBy EXCEPT ![p] = handlers[c].attempt]
  /\ IF handlers[c].job = "callback" THEN GoTo(c, "commit") ELSE Done(c)
  /\ UNCHANGED <<attempts, bank>>

CommitVerified(c) ==
  /\ handlers[c].at = "commit"
  /\ attempts' = [attempts EXCEPT ![handlers[c].attempt].status = "VERIFIED"]
  /\ Done(c)
  /\ UNCHANGED <<waybill, calls, settlementVars, bank, paidBy>>

\* The handler ends early: a statement is rejected by the index, the submission
\* throws (rolled back in a callback, swallowed in the inquiry), or the process
\* dies.  What it had committed stays.
GiveUp(c) ==
  /\ handlers[c].at # "idle"
  /\ handlers[c].at = "commit" => OuterCommitFails
  /\ Done(c)
  /\ Finish(c)
  /\ UNCHANGED <<waybill, settlementVars, attempts, bank, paidBy>>

=============================================================================
