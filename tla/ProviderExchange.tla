--------------------------- MODULE ProviderExchange ---------------------------
(***************************************************************************)
(* One online payment as a conversation with its provider: the gateways an *)
(* operator configures (POST api/panel/gateways, testGatewayConnection),   *)
(* an attempt on the active one, and overlapping callbacks and inquiries   *)
(* that confirm it through the provider's adapter.  A request or its       *)
(* answer may be lost; a handler may die between two steps.  At BPM the    *)
(* callback names the sale that is confirmed, so another sale of the       *)
(* company stands beside the attempt's.  Gateway models the same handlers  *)
(* against the waybill and takes the answers as given; here they are       *)
(* worked out.                                                             *)
(***************************************************************************)
EXTENDS ProviderAdapters

CONSTANTS
  Gateways,   \* ids of payment_gateways rows
  Handlers,   \* callbacks, inquiry runs and panel requests in flight
  Providers,  \* subset of AllProviders
  Amounts,    \* payable amounts, in rial
  None

ASSUME ExchangeAssumption ==
  /\ Providers \subseteq AllProviders
  /\ Amounts \subseteq Nat \ (0 .. 9)
  /\ None \notin Gateways \cup Providers

VARIABLES
  gateways,   \* rows of payment_gateways; provider None: no such row yet
  attempt,    \* the row of gateway_transactions
  bank,       \* bank[s]: the provider's side of a sale, where the money is and how much
  handlers,   \* where each handler is
  credits     \* the payments submitted for the attempt: by which job, for which sale

vars == <<gateways, attempt, bank, handlers, credits>>

\* The attempt's sale and another one of the company at the same provider.
Sales == {"own", "other"}

NoGateway == [provider |-> None, active |-> FALSE, health |-> None]
NoAttempt == [status |-> "ABSENT", provider |-> None, amount |-> 0]
NoSale == [money |-> "NONE", charged |-> 0]
Idle == [at |-> "idle", job |-> None, sale |-> None, deactivated |-> {}]

ActiveGateways == {g \in Gateways : gateways[g].active}

Init ==
  /\ gateways = [g \in Gateways |-> NoGateway]
  /\ attempt = NoAttempt
  /\ bank = [s \in Sales |-> NoSale]
  /\ handlers = [h \in Handlers |-> Idle]
  /\ credits = {}

GoTo(h, stage) == handlers' = [handlers EXCEPT ![h].at = stage]

Done(h) == handlers' = [handlers EXCEPT ![h] = Idle]

-----------------------------------------------------------------------------
(* The panel: POST gateways and POST gateways/[id]/test.                   *)

\* updateMany deactivates the gateways that are active when it runs.
BeginActivate(h) ==
  /\ handlers[h] = Idle
  /\ handlers' = [handlers EXCEPT ![h] =
       [Idle EXCEPT !.at = "create", !.deactivated = ActiveGateways]]
  /\ UNCHANGED <<gateways, attempt, bank, credits>>

\* Faulty variant: no partial unique index.
NoOtherActiveUnchecked(deactivated) == TRUE

\* idx_payment_gateways_active_per_org; without it the POST rolls back.
NoOtherActive(deactivated) == ActiveGateways \subseteq deactivated

CommitActivate(h, g, p) ==
  /\ handlers[h].at = "create"
  /\ gateways[g] = NoGateway
  /\ NoOtherActive(handlers[h].deactivated)
  /\ gateways' = [x \in Gateways |->
       IF x = g THEN [provider |-> p, active |-> TRUE, health |-> None]
       ELSE IF x \in handlers[h].deactivated
            THEN [gateways[x] EXCEPT !.active = FALSE]
            ELSE gateways[x]]
  /\ Done(h)
  /\ UNCHANGED <<attempt, bank, credits>>

\* isActive defaults to false: no other gateway is touched.
CreateInactive(g, p) ==
  /\ gateways[g] = NoGateway
  /\ gateways' = [gateways EXCEPT ![g].provider = p]
  /\ UNCHANGED <<attempt, bank, handlers, credits>>

\* The test sends an inquiry, which reports no error: whatever the provider's
\* state the gateway is recorded as healthy.
TestConnection(g) ==
  /\ gateways[g] # NoGateway
  /\ gateways' = [gateways EXCEPT ![g].health = "OK"]
  /\ UNCHANGED <<attempt, bank, handlers, credits>>

-----------------------------------------------------------------------------
(* initiateGatewayPayment and the driver.                                  *)

\* The attempt keeps the gateway it was started on.  A provider that refuses it
\* leaves it FAILED, with no payment page.
Initiate(g, v, accepted) ==
  LET p == gateways[g].provider IN
  /\ g \in ActiveGateways
  /\ attempt = NoAttempt
  /\ attempt' = [status |-> IF accepted THEN "INITIATED" ELSE "FAILED",
                 provider |-> p, amount |-> v]
  /\ bank' = IF accepted
             THEN [bank EXCEPT !["own"] = [money |-> "OFFERED", charged |-> Asked(p, v)]]
             ELSE bank
  /\ UNCHANGED <<gateways, handlers, credits>>

MoneyMoves(s, money) == bank' = [bank EXCEPT ![s].money = money]

DriverPays ==
  /\ bank["own"].money = "OFFERED"
  /\ MoneyMoves("own", "PAID")
  /\ UNCHANGED <<gateways, attempt, handlers, credits>>

\* Another driver pays.  Only BPM's adapter can ask about that sale, and BPM's answers
\* name no amount, so what it was charged is left out.
OtherPays ==
  /\ attempt.provider = "BPM"
  /\ bank["own"].money # "NONE"
  /\ bank["other"].money = "NONE"
  /\ MoneyMoves("other", "PAID")
  /\ UNCHANGED <<gateways, attempt, handlers, credits>>

\* The callbacks of the other sale confirm it, settle it or reverse it.
OtherMoves ==
  /\ \/ bank["other"].money = "PAID" /\ MoneyMoves("other", "CONFIRMED")
     \/ /\ bank["other"].money = "CONFIRMED"
        /\ MoneyMoves("other", "SETTLED") \/ MoneyMoves("other", "REVERSED")
  /\ UNCHANGED <<gateways, attempt, handlers, credits>>

-----------------------------------------------------------------------------
(* handleGatewayCallback: each statement commits by itself.                *)

BeginCallback(h, named) ==
  /\ handlers[h] = Idle
  /\ bank["own"].money # "NONE"
  /\ attempt.status # "VERIFIED"
  /\ handlers' = [handlers EXCEPT ![h] =
       [Idle EXCEPT !.at = "return", !.job = "callback",
                    !.sale = SaleAsked(attempt.provider, named)]]
  /\ UNCHANGED <<gateways, attempt, bank, credits>>

SetStatus(status) == attempt' = [attempt EXCEPT !.status = status]

MarkReturned(h) ==
  /\ handlers[h].at = "return"
  /\ SetStatus("RETURNED")
  /\ GoTo(h, "verify")
  /\ UNCHANGED <<gateways, bank, credits>>

\* Faulty variant: the answer is taken without comparing amounts.
AmountUnchecked(paid) == TRUE

\* GATEWAY_AMOUNT_MISMATCH
AmountMatches(paid) == paid = attempt.amount

\* What handleGatewayCallback does with a confirmed payment.
Judge(h, paid) == GoTo(h, IF AmountMatches(paid) THEN "record" ELSE "fail")

\* The provider gets the request; its answer comes back or is lost.
Verify(h, code, answered) ==
  LET p == attempt.provider
      s == handlers[h].sale
  IN
  /\ handlers[h].at = "verify"
  /\ code \in VerifyCodes(p, bank[s].money)
  /\ MoneyMoves(s, MoneyAfterVerify(bank[s].money, code))
  /\ \/ ~answered /\ GoTo(h, "unknown")
     \/ answered /\ ~Verified(p, code) /\ GoTo(h, "fail")
     \/ /\ answered /\ Verified(p, code)
        /\ IF p = "BPM" THEN GoTo(h, "settle")
           ELSE \E paid \in PaidAmounts(p, attempt.amount, bank[s].charged) :
                  Judge(h, paid)
  /\ UNCHANGED <<gateways, attempt, credits>>

\* bpSettleRequest: done ("0"), already done ("45"), or refused.
SettleSucceeds(money) == money \in Kept

Settle(h) ==
  LET s == handlers[h].sale IN
  /\ handlers[h].at = "settle"
  /\ \/ /\ SettleSucceeds(bank[s].money)
        /\ MoneyMoves(s, "SETTLED")
        /\ \/ \E paid \in BpmPaid(attempt.amount) : Judge(h, paid)
           \/ GoTo(h, "unknown")
     \/ /\ bank[s].money # "SETTLED"
        /\ UNCHANGED bank
        /\ GoTo(h, "reverse") \/ GoTo(h, "unknown")
  /\ UNCHANGED <<gateways, attempt, credits>>

\* bpReversalRequest undoes a verification that was not settled; its failure is
\* swallowed.
Reverse(h) ==
  LET s == handlers[h].sale IN
  /\ handlers[h].at = "reverse"
  /\ UNCHANGED bank \/ (bank[s].money = "CONFIRMED" /\ MoneyMoves(s, "REVERSED"))
  /\ GoTo(h, "fail")
  /\ UNCHANGED <<gateways, attempt, credits>>

\* The request does not reach the provider, or times out on the way.
RequestLost(h) ==
  /\ handlers[h].at \in {"verify", "settle"}
  /\ GoTo(h, "unknown")
  /\ UNCHANGED <<gateways, attempt, bank, credits>>

RecordFailed(h) ==
  /\ handlers[h].at = "fail"
  /\ SetStatus("FAILED")
  /\ Done(h)
  /\ UNCHANGED <<gateways, bank, credits>>

RecordUnknown(h) ==
  /\ handlers[h].at = "unknown"
  /\ SetStatus("UNKNOWN")
  /\ Done(h)
  /\ UNCHANGED <<gateways, bank, credits>>

\* VERIFIED, and submitWaybillPayment for the amount of the attempt.
RecordVerified(h) ==
  /\ handlers[h].at = "record"
  /\ SetStatus("VERIFIED")
  /\ credits' = credits \cup {[job |-> handlers[h].job, sale |-> handlers[h].sale]}
  /\ Done(h)
  /\ UNCHANGED <<gateways, bank>>

-----------------------------------------------------------------------------
(* inquireUnknownTransactions                                              *)

BeginInquiry(h) ==
  /\ handlers[h] = Idle
  /\ attempt.status = "UNKNOWN"
  /\ handlers' = [handlers EXCEPT ![h].at = "inquire", ![h].job = "inquiry"]
  /\ UNCHANGED <<gateways, attempt, bank, credits>>

\* No comparison of amounts; UNKNOWN leaves the row for the next run.
Inquire(h) ==
  /\ handlers[h].at = "inquire"
  /\ \E answer \in InquiryAnswers(attempt.provider, bank["own"].money) :
       CASE answer = "VERIFIED" -> GoTo(h, "record")
         [] answer = "FAILED"   -> GoTo(h, "fail")
         [] answer = "UNKNOWN"  -> Done(h)
  /\ UNCHANGED <<gateways, attempt, bank, credits>>

\* The process dies; what it had written stays.
Dies(h) ==
  /\ handlers[h] # Idle
  /\ Done(h)
  /\ UNCHANGED <<gateways, attempt, bank, credits>>

Configure ==
  \/ \E h \in Handlers : BeginActivate(h)
  \/ \E h \in Handlers, g \in Gateways, p \in Providers : CommitActivate(h, g, p)
  \/ \E g \in Gateways, p \in Providers : CreateInactive(g, p)
  \/ \E g \in Gateways : TestConnection(g)

Converse(h) ==
  \/ \E named \in Sales : BeginCallback(h, named)
  \/ MarkReturned(h)
  \/ \E code \in {"done", "again", "other"}, answered \in BOOLEAN :
       Verify(h, code, answered)
  \/ Settle(h)
  \/ Reverse(h)
  \/ RequestLost(h)
  \/ RecordFailed(h)
  \/ RecordUnknown(h)
  \/ RecordVerified(h)
  \/ BeginInquiry(h)
  \/ Inquire(h)
  \/ Dies(h)

Next ==
  \/ Configure
  \/ \E g \in Gateways, v \in Amounts, ok \in BOOLEAN : Initiate(g, v, ok)
  \/ DriverPays
  \/ OtherPays
  \/ OtherMoves
  \/ \E h \in Handlers : Converse(h)

Spec == Init /\ [][Next]_vars

-----------------------------------------------------------------------------
GatewayRow == [provider: Providers \cup {None}, active: BOOLEAN, health: {"OK", None}]

AttemptRow ==
  [status: {"ABSENT", "INITIATED", "RETURNED", "UNKNOWN", "VERIFIED", "FAILED"},
   provider: Providers \cup {None}, amount: Nat]

Money == {"NONE", "OFFERED", "PAID", "REVERSED"} \cup Kept

SaleRow == [money: Money, charged: Nat]

Handler ==
  [at: {"idle", "create", "return", "verify", "settle", "reverse", "record", "fail",
        "unknown", "inquire"},
   job: {"callback", "inquiry", None}, sale: Sales \cup {None},
   deactivated: SUBSET Gateways]

Credit == [job: {"callback", "inquiry", None}, sale: Sales \cup {None}]

\* Every row and handler has its type.
TypeOK ==
  /\ gateways \in [Gateways -> GatewayRow]
  /\ attempt \in AttemptRow
  /\ bank \in [Sales -> SaleRow]
  /\ handlers \in [Handlers -> Handler]
  /\ credits \subseteq Credit

\* I-8: operators who activate gateways at the same time leave at most one
\* active.
OneActiveGateway == \A g, k \in ActiveGateways : g = k

\* A payment that a callback entered rests on a sale whose money the company has
\* and will keep: confirmed, at BPM settled, and never reversed by another
\* callback, whichever attempt's it is.  The attempt's own sale brought its amount
\* to the rial; it may be another sale at BPM only, whose adapter confirms the sale
\* the callback names and repeats the attempt's amount.  (The inquiry promises
\* less: SEP's and Zibal's only look, BPM's asks about order 0.)
CreditedIsKept ==
  \A c \in credits :
    c.job = "callback" =>
      /\ bank[c.sale].money = IF attempt.provider = "BPM" THEN "SETTLED" ELSE "CONFIRMED"
      /\ c.sale = "own" => bank["own"].charged = attempt.amount
      /\ c.sale = "other" => attempt.provider = "BPM"

\* What handleGatewayCallback says of itself, "Server-to-server verification ONLY
\* (never trusts callback params)": the payment it enters is the attempt's.
CreditIsOfAttempt ==
  \A c \in credits : c.job = "callback" => bank["own"].money \in Kept

\* The ways the code has of refusing what the provider keeps: a rial amount
\* that Zarinpal cannot charge, a settlement refused with its reversal lost,
\* another verification, whose answer the adapter has no code for or which at BPM
\* names another sale, and Zarinpal's inquiry, which asks for an amount of 0.
KnownRefusals(h) ==
  \/ attempt.provider = "ZARINPAL" /\ attempt.amount % 10 # 0
  \/ attempt.provider = "ZARINPAL" /\ handlers[h].job = "inquiry"
  \/ handlers[h].at = "reverse"
  \/ attempt.provider \notin {"ZARINPAL", "ZIBAL"} /\ bank["own"].money \in Kept

\* No other decision to fail an attempt is made while the company has its money:
\* losing the provider's answer and asking again does not turn a payment into a
\* failure.
RefusedIsNotKept ==
  [][\A h \in Handlers :
       /\ handlers[h].at # "fail"
       /\ handlers'[h].at = "fail"
       /\ bank'["own"].money \in Kept
       => KnownRefusals(h)]_vars
=============================================================================
