# TLA+ model of barpay

barpay lets a freight company import waybills from Excel, send them to drivers,
collect what each driver owes (by card transfer or through an online gateway),
have the driver sign a commitment, and hand over the waybill's PDF once everything
is in order. It is a Next.js application over PostgreSQL. All coordination happens
in the database: a service function is an interactive Prisma transaction at READ
COMMITTED, or no transaction at all, that reads rows without locking them, decides,
and writes later. The rules that matter are kept by three mechanisms (conditional
updates on `version` and status, partial unique indexes, CHECK constraints and
triggers), and not every service uses every one. That is what this project is
about: which of the invariants of `docs/architecture/invariants.md` survive
overlapping, repeated and failing calls, and what is left of the others.

## 1. Inventory

| Component | State | Operations | What makes it correct | Status |
|---|---|---|---|---|
| Waybill record (`waybills`, `evaluateReleaseConditions`) | five status axes, current amount, version | CHECK I-1 and I-2 on every write; the download rule | the rule and the axes agree | modelled |
| Submission (`submitWaybillPayment`) | `payments` | driver's transfer; gateway credit | entered once, for an amount the waybill had | modelled |
| Review (`reviewPayment`) | `payments`, `payment_reviews` | approve, reject, queue as discrepancy | decided at most once; never above the payable amount; never lost from sight | modelled |
| Amount correction (`correctWaybillAmount`) | `waybill_amounts` | replace the current amount | exactly one current amount | modelled |
| Release (`release-service.ts`) | `release_authorizations`, `document_access_events` | authorize, revoke, grant a download | one authorization in force; nothing is delivered without one | modelled |
| State machine (`state-machine.ts`) | shipment and document axes | operators' transitions | optimistic locking; CANCELLED and ARCHIVED are final | partly |
| Online payment (`gateway-service.ts`) | `gateway_transactions` | initiate, callback, inquiry | one open attempt; credited only if paid (not so at BPM, section 3); not lost in a crash | modelled |
| Provider adapters | `payment_gateways`, the provider's books | request, verify, settle, reverse, inquire | credited money is kept; no answer is not a refusal | modelled |
| Driver access (`driver-auth.ts`) | `otp_challenges`, `driver_sessions`, links | request and verify a code, end a link | limits and locks; sessions end with their link; nobody is refused for ever | modelled |
| Commitments | `commitment_templates`, acceptances | publish, accept, decline | one active version; paid and released only when signed | modelled |
| Refunds | `payment_refunds` | record, approve, reject | never above what was paid; maker is not checker | modelled |
| Excel import | `import_batches`, `import_rows` | stage, commit | all or nothing; an identity is used once; rounding is accounted for | modelled |
| PDF matching | `documents` | match, attach, replace | one active PDF; nobody takes another waybill's | modelled |
| SMS (`notification-service.ts`, `sms/`) | `notification_jobs`, the breaker in memory | send, retry, fail over | the cap; every message ends SENT or FAILED | modelled, monitoring partly |
| Phase (`phase.ts`), rounding (`amount.ts`) | none | pure functions | promise no more than the rules allow | modelled |
| Reports and dashboard | none | lists and counters | a payment that waits is on some list | partly |
| Driver portal | what a tab shows and waits for | load, sign, decline, report, pay, download | a transfer is entered once; "paid" has a payment or an inquiry behind it | modelled |
| Payments page, waybill page | what a tab shows and waits for | decide, authorize, revoke, correct | the message says what was done | partly |
| Audit log, in-app notifications, bank cards, panel login and administration, other pages, utilities | | | | not modelled (section 6) |

Components interact through the rows only. The waybill's row is written by almost
all of them: submission, review, correction and refunds write the payment axis and
some of them the release axis; release services write the release axis; the state
machine, the import, the matching and the driver's login write the shipment and
document axes; commitments write theirs. The gateway calls `submitWaybillPayment`,
in the callback from inside a transaction of its own, but that function opens
another one. Pages call services through routes and keep what they were answered.

What is hard here: values computed from a first read and written by id at the end
of the transaction; checks made by a query although the unique index decides;
handlers that are no transaction; external calls between two statements; a
transaction within a transaction; repeated callbacks; a confirmation that need not be
about the attempt it is taken for; a CHECK that rejects a write
the service considers legal; a page that speaks other words than its route.
`PROJECT.json` lists each such place with its line under `hazards`.

## 2. Modules

| Module | What it models |
|---|---|
| `WaybillRecord` | the waybill's row, the two CHECKs, the release rule, and how any service call starts, finishes and rolls back |
| `Settlement` | amounts, payments, reviews; submission, review, correction |
| `Release` | authorizations and downloads; authorize, revoke, grant |
| `Shipment` | the guarded transitions of the shipment and document axes |
| `Phase` | `deriveWaybillPhase`: the ordered list of rules over a row |
| `PaymentLedger` | abstract: a payment is entered once and decided at most once |
| `Fulfilment` | Settlement, Release and Shipment over the same rows; implements `PaymentLedger` |
| `Commitment`, `Refund` | signing, declining and publishing; the refunds with their ceiling |
| `WaybillLife` | Fulfilment with Commitment and Refund over the same rows |
| `Reports` | the review queue, the discrepancies report, the dashboard, the amounts of the detail page, as functions of `WaybillLife`'s rows |
| `Screens` | the tabs of the portal and the panel as clients of `WaybillLife`'s services, and the callbacks and inquiries that end in what the portal shows |
| `Gateway` | attempts and the three gateway handlers, statement by statement |
| `OnlinePayment` | Gateway with corrections and shipment transitions |
| `ProviderAdapters` | pure: what each of six adapters asks and how it reads the answers |
| `ProviderExchange` | gateways and their activation; one attempt with its provider, over a network that loses answers, beside another sale at the same provider |
| `DriverAccess` | links, codes, locks, sessions, statement by statement, beside Shipment |
| `Imports`, `Documents`, `Intake` | files and batches; PDFs; both with cancellations and corrections, for several waybills, and the rounding report |
| `Messaging` | messages, the daily cap, the two services and the circuit breaker |
| `MC...` | symmetry sets and data for TLC |
| `SumTheorems` | lemmas: finite induction, sums over sets, multiples |
| `FulfilmentProofs`, `WaybillLifeProofs`, `OnlinePaymentProofs`, `ProviderExchangeProofs`, `DriverAccessProofs`, `IntakeProofs`, `MessagingProofs` | the theorems; `WaybillLifeProofs` covers `Reports` and `Screens` as well |

`Phase` is used by `Fulfilment` and `Reports`. `Screens` extends `Reports`, which
extends `WaybillLife`, which extends `Fulfilment`, `Commitment` and `Refund`.

### How code becomes actions

A transaction is two steps. `BeginX` reads the rows, evaluates every guard up to
the first write and computes what will be written, kept in `calls[c]`. `CommitX`
applies the writes to the rows as they are by then: `update({ where: { id } })`
overwrites whatever is there, `updateMany` with `version` and status is a guard, a
partial unique index, a trigger and the CHECKs are guards. Between the two steps
any other call may do anything. This is what READ COMMITTED allows: the reads are
one snapshot per statement, the writes of one transaction appear together, and a
writer that waited for a row lock writes over the newer version. Two look-ups
that follow each other without a write count as one read.

`Rollback` ends a call without effect, whenever it is in flight. It stands for a
lost conditional update, an index or CHECK that rejects a write, a duplicate
tracking number or idempotency key, a transaction timeout, a deadlock victim and
a crash. Guards that make a call return early appear as the absence of `BeginX`;
an idempotent return changes nothing and is not a step.

Functions that are not transactions have one step per statement, and `GiveUp`,
`Dies` or `Crash` may end them after any: the gateway handlers (`handlers[c]`), the
driver's requests and verifications, the publication of a template version
(`RetireVersions`, `ActivateVersion`), the activation of a gateway, the sending of
a message. Only the end of a gateway callback is a transaction: `RecordVerified`
takes the row lock, `Credit` is the inner transaction and commits by itself,
`CommitVerified` publishes VERIFIED. With `OuterCommitFails` the outer one may be
lost in between.

Time is kept as stages: a code is fresh, then counts against the limit of ten
minutes only, then is old; a lock lapses after both; failures leave the breaker's
window one by one. The day in which locks and messages are counted does not end.

### Abstractions

- One waybill of one organization, except in `Intake`, whose subject is several.
- Amounts are members of `Values`, rial in `ProviderExchange`; rounding happens at
  import (`Imports!Rounded`). The five manual methods are `"MANUAL"`.
- Clients send any version up to the current one (`expectedVersion`), except the
  pages of `Screens`, which send the one they loaded. `version` is unbounded in the
  code; `MaxVersion` bounds it in the runs, and the theorems hold for every value.
- Initial states of the waybill: a row as the import leaves it, and one with a
  verified PDF and any answer to the commitment, since most modules start after
  `Intake`.
- A download grant may come without a session, as the download route does when the
  cookie names none. The PDF's row is taken to exist there.
- Files: a sequence of rows and a set of defects. Column names and their aliases
  are one defect, "missing column". What a PDF's text yields is a name from a set.
- Providers: answers are done, again, other, or none; formats, signatures and
  tokens are left out. The mock provider is left out. The provider's books hold two
  sales, the attempt's and another one of the company; only BPM's adapter can ask
  about the other, whose amount no answer names. Order 0 is a sale that does not
  exist: its inquiry may be answered in any way.
- In `Gateway` the answers are a choice: VERIFIED needs a paid attempt, except for the
  attempts made at BPM (`BpmAttempts`). What an answer rests on is worked out in
  `ProviderExchange`.
- In `Intake` a correction is one step, since its overlap is the subject of
  `Settlement`; here it matters what it does to the columns of the amount row.
- Hashes, IP addresses, audit rows and texts are left out: they decide nothing.
- In `Messaging` a statement of the database succeeds or the process dies; a
  database error after a message was taken would mark it FAILED.
- In `Screens` an attempt is ABSENT, UNKNOWN, VERIFIED or anything else, and a
  callback is a few steps: it is opened, the provider confirms or not, the payment
  commits with the mark. Callbacks may be opened again by any tab as long as one
  likes. An inquiry reads its batch, marks, and submits in separate steps.
  `inquired` is history: the attempts an inquiry has marked VERIFIED. Any answer may
  come for any attempt, and `OnlinePayment` and `ProviderExchange` have the inside.

## 3. Runs

| Run | Question | Bounds |
|---|---|---|
| `fulfilment_races` | Do overlapping submissions, reviews and corrections keep one current amount, decide each payment once, and implement `PaymentLedger`? At most one authorization; is a released row downloadable and was it ever authorized; does the phase promise no more than the rule; is CANCELLED final? | 2 calls at a time, 1 payment, 3 amounts, 2 values, 2 authorizations, 1 session, 5 target statuses |
| `one_at_a_time` | What holds when calls do not overlap, and which single service breaks what holds otherwise | 1 call at a time, 2 payments, 2 amounts, 1 refund |
| `obligations` | Do signatures, versions and refunds keep their rules under overlap; is APPROVED written only after an approved payment? | 2 calls, 2 versions, 2 refunds, 2 staff |
| `gateway_races` | Is one attempt open, is only paid money credited (outside BPM), is a payment in the books before the attempt is VERIFIED? | 2 handlers, 2 attempts, one of them at BPM, 1 payment, crashes |
| `provider_exchange` | One active gateway; does each credit rest on money that is kept, and is refused money not kept, under each adapter? | 6 providers, 2 gateways, 2 handlers, 2 sales, amounts 20 and 25 rial |
| `driver_access` | Sessions, limits, locks, and the way back in | 2 handlers, 1 link, 2 codes, 1 session, an operator who cancels |
| `intake` | Batches, identities, rounding, PDFs | 2 requests, 3 files, 2 batches, 2 documents, corrections to one amount |
| `messaging` | The cap, and the end of every message | 2 senders, 3 jobs, cap 1, threshold 2 |
| `screens` | Is a tracked transfer entered once; what is behind "paid" on the portal? | 2 driver tabs, 1 desk tab, 1 run of the inquiry, 2 payments, 1 online attempt |
| `duplicate_callbacks` (violation) | "Idempotency for duplicate callbacks" | 2 handlers, 1 attempt |
| `bpm_sale` (violation) | "never trusts callback params" | BPM, 1 gateway, 1 handler |
| `approve_button` (violation) | "The payment was approved" | as `screens`, without the inquiry |

Two calls at a time are enough for the races listed because each is a read of one
call followed by a write of another and then by a write of the first; a third call
can be placed before or after, and the rows do not remember who wrote them. Two
values give a lower, an equal and a higher amount. `MaxVersion` leaves room for
every status to be reached. 20 rial is a multiple of a toman, 25 is not. The limits
of the code (3 codes, 5 attempts, 3 locks, a threshold of 3) are constants, small
in the runs so that they are reached; the theorems have them arbitrary. In
`driver_access` `MaxChallenges` is above `MaxRequests`, so that a second code is
asked for. The files of `intake` hold the boundary cases: a leap day, a serial
number and a bare year as dates, a zero price and weight, the same number in two
years and twice in one file, a file without a column.

`gateway_races` starts from the least amount only and corrects upwards (`MCSpec`):
amounts are compared with each other and nothing else, and the bounds leave room for
one correction. In `screens` the inquiry runs only while the desk shows nothing
and no transfer has been made (`MCSpec`): what these add to the rows it meets are
approved payments and releases. `fulfilment_races` leaves out corrections to the amount
that is current already (`MCSpec`). One reviewer is enough in `fulfilment_races`, as in
the panel, where every decision is made as "panel-operator": the two reviews that overlap
may be his, and another name only turns an early success into an early error.
`CHECK_DEADLOCK FALSE` is set where ids, versions or codes can be used up: the system is then idle. Symmetry is used in runs without
liveness only; callers and ids are interchangeable and the properties name none.

### What holds

The first group holds under every overlap: `OneCurrentAmount`, `DecidedOnce`,
`OneActiveAuthorization`, `OneActiveVersion`, `OneActivePdf`, `OneActiveGateway` and
`OneOpenAttempt` because an index decides in the end; `DownloadableIffReleased`
because the CHECKs do, although the values written are stale; `RefundsWithinApproved`
because the trigger does. `NeverWithoutAuthorization`, `CreditedWasPaid`, `PaidWasCredited`,
`CreditedIsKept`, `ShownPaidWasCredited`, `AcceptedIsSigned`, `PaidIsSigned`,
`IdentityUsedOnce` and `NoSessionOutlivesItsLink` need an argument about several steps, which the proofs
give.

The second group says exactly how far a rule is kept that overlap can break:
`RequestsLimited` and `SessionsPerCode` (by no more than one per overlapping
handler), `CapPassedOnlyByOverlap`, `CancelledLostOnlyToLogin`,
`PdfLostOnlyToStaleRead`, `RefusedIsNotKept` (but for the listed cases). So do three
of the above, whose plain forms the code does not keep: `CreditedWasPaid` and
`CreditedIsKept` except BPM, `ShownPaidWasCredited` the inquiry. `RoundingExplained`
claims of every period what rounding added, and that files, excess and surcharges
make up what the drivers owe only of a period without a corrected amount.

The third group holds without overlap (`one_at_a_time`), and names the one service
that breaks it: `ReleasedIsAuthorized`, `NoOverApproval`, `DashboardAgrees`;
`OnlyCorrectionsOrphan` (an authorization of a blocked waybill), `OnlyRejectionsSettle`
(APPROVED without full payment comes only from rejecting a refund),
`OnlyOthersHide` (a payment that waits and is on no list).

### Where the code departs from its documents

Three runs show it; `PROJECT.json` quotes both sides.

- `duplicate_callbacks`: two callbacks that both pass the status check enter two
  APPROVED payments for one attempt; no index covers
  `payments.gateway_transaction_id`. It also takes one callback only when the outer
  commit fails after the inner one.
- `bpm_sale`: BPM's adapter takes the sale it verifies, settles and reverses from the
  callback (`bpm.ts:110-112`) and answers with the attempt's own amount (165), so the
  comparison of amounts (`gateway-service.ts:283`) says nothing. A callback with the
  ids of another sale credits this attempt, against `gateway-service.ts:202` and
  `payment-gateways.md:90`.
- `approve_button`: the payments page sends APPROVE and REJECT; `reviewPayment`
  knows APPROVED and REJECTED and takes the rest for DISCREPANCY_REVIEW, with an
  answer of success.

The same models show more, stated here because they are not runs of their own.

Money and release.
- A correction blocks an authorized waybill and leaves the authorization active;
  authorizing again is then taken for a repeated call and changes nothing.
- Of two submitted payments the first is approved; no decision about the second
  passes the guards and the CHECK. Undecided payments leave every list when another
  payment, a correction or a refund changes the waybill's payment axis.
- A download that overlaps a revocation writes RELEASED over REVOKED; a review that
  overlaps a correction writes APPROVED for the former amount. The attempt in
  progress survives the correction of the amount.
- Rejecting the last refund writes APPROVED although an amount may be due. A refund
  of a waybill that is ELIGIBLE or later cannot be recorded: the CHECK rejects it.
  Two supervisors can both decide one refund; the later decision stays.
- A decline after an acceptance makes signing again impossible, since the
  acceptance row exists and is returned.
- A waybill AUTHORIZED and APPROVED has the phase NEEDS_ATTENTION.
- A correction copies the raw, rounded and surcharge columns of the amount it replaces
  and sets another payable amount (`amount-correction-service.ts:103-113`). The
  rounding report adds the columns up (`reporting-service.ts:366-370`), so with a
  correction in its period the payable total is not the sum of the others.

Online payment.
- The inquiry commits VERIFIED and then submits the payment; a failure is swallowed and
  never repaired (`gateway-service.ts:391-424`), against `state-transitions.md:96`. From
  then on a callback opened again is answered ALREADY_VERIFIED, which the portal shows
  as an approved payment (`DriverPortalClient.tsx:69`). `ShownPaidWasCredited` is what
  is left.
- A callback that read the waybill before its cancellation still enters the payment.
- Zarinpal charges toman, so an amount that is no multiple of ten rial never
  matches; its inquiry asks for amount 0. BPM's reversal after a refused settlement
  may be lost. Its inquiry asks about order 0 (`bpm.ts:183`), so it may mark any UNKNOWN
  attempt VERIFIED or FAILED, paid or not. Adapters without a code for "already
  verified" read a repeated verification as a failure. The inquiries of Pasargad and
  Sadad always say UNKNOWN, those of SEP and Zibal look without confirming.
  `testGatewayConnection` always reports success.

Access, intake, messages.
- Wrong codes sent together count once. One code may open a session per overlapping
  verification. A login may write DRIVER_VIEWED over a cancellation; a match or an
  attachment may write READY_FOR_DRIVER over one. Attaching one PDF to two waybills
  at once leaves one of them VERIFIED without a PDF.
- A file uploaded again while its batch is being committed leaves its waybills
  without a batch (`import-service.ts:221`, against `business-rules.md:77`). A number
  twice in one file makes the batch impossible to commit. The preview shows amounts
  without the surcharge that the commit adds (`business-rules.md:49`).
- There is no worker with backoff and five attempts (`business-rules.md`, section
  10): a message fails after one round. A crash leaves it PENDING for ever. Retries
  by an operator ignore the cap. A message that timed out at one service is sent
  through the other as well. A refusal in the body of an HTTP 200 counts as SENT.

Pages.
- The portal sends `signatureDataUrl`, the route wants `signatureBase64`: signing is
  always refused. The payment form asks for an acceptance also when enforcement is
  OFF. `payment_status=VERIFIED` or `ALREADY_VERIFIED` in the address shows APPROVED at each
  reload. The
  download is offered as soon as the payment is approved. The transfer is entered
  for the server's current amount, not for the one the driver saw.
- The waybill pages send `reason`, `newPayableAmount` and `newRawExcelAmount` where
  the routes read `revokeReason` and `newAmount`: both requests are refused.
- A transfer reported with a receipt only can be entered twice. Reports by date
  leave out gateway payments, whose `reviewedAt` is null.

### Fairness

`driver_access` assumes `WF(TimeStep)`: time passes, so codes age and locks lapse.
`RefusalEnds` needs no more: nobody has to ask, an operator may cancel, and a mobile
that was locked too often in a day is excepted as in the code. `messaging` assumes in addition
that every await ends (`WF(Progress(s))` for each request): the calls to the two
services have timeouts of ten seconds, and a request that runs does not wait for
another. Nothing obliges anybody to send or retry, and the services need not ever
accept. `MessagesEnd` excepts the messages whose request a crash has ended.
No liveness is claimed for payments: calls come from people and from the provider,
and `inquireUnknownTransactions`, which its comment calls periodic, has no caller.

## 4. Proofs

Each theorem holds for every value of the constants that meets the named
assumptions: any number of callers, payments, amounts, attempts, files, codes, and
any limits. The lemmas split the next-state relation once per module, with one case
per action.

| Module | Theorem | Property |
|---|---|---|
| `FulfilmentProofs` | `TypeCorrect` | `[]TypeOK` |
| | `CurrentAmountIsOne` | `[]OneCurrentAmount` (I-3) |
| | `DecidedAtMostOnce` | `[]DecidedOnce` (I-16) |
| | `AuthorizedOnce` | `[]OneActiveAuthorization` (I-5) |
| | `DownloadableWhenReleased` | `[]DownloadableIffReleased` (I-1, I-2) |
| | `DeliveryIsAuthorized` | `[]NeverWithoutAuthorization` |
| | `CancelledStaysCancelled` | `CancelledIsFinal` |
| | `PhasePromisesHold` | `[]PhaseKeepsPromise` |
| | `LedgerImplemented` | `ImplementsLedger`, the refinement of `PaymentLedger` |
| `WaybillLifeProofs` | `VersionsStaySingle` | `[]OneActiveVersion` (I-13) |
| | `AcceptancesAreSigned` | `[]AcceptedIsSigned` |
| | `PaymentsAreSigned` | `[]PaidIsSigned` (I-14) |
| | `RefundsAreCovered` | `[]RefundsWithinApproved` (I-10) |
| | `PaidIsCredited` | `[]PaidWasCredited` |
| | `PromisesOutliveOtherServices` | the six invariants of `FulfilmentProofs` other than `TypeOK`, of the whole life |
| | `CancelledInLife`, `LedgerInLife` | `CancelledIsFinal`, `ImplementsLedger`, of the whole life |
| the same, without overlap | `DeliveriesKeepTheirRow` | `[]ReleasedIsAuthorized` |
| | `DashboardIsRight` | `[]DashboardAgrees` |
| | `ReviewsStayCovered` | `NoOverApproval` |
| | `OthersAloneHide` | `OnlyOthersHide` |
| | `CorrectionsAloneOrphan` | `OnlyCorrectionsOrphan` |
| | `RejectionsAloneSettle` | `OnlyRejectionsSettle` |
| the same, the pages | `PagesOnlyCallServices` | `ScreensSpec => LifeSpec` |
| | `PagesKeepPromises` | what the services promise, under the pages |
| | `ShownPaidIsCredited` | `[]ShownPaidWasCredited` |
| | `TransfersEnteredOnce` | `[]TransferEnteredOnce` |
| `OnlinePaymentProofs` | `OpenAttemptsStaySingle` | `[]OneOpenAttempt` |
| | `CreditsWerePaid` | `[]CreditedWasPaid` (I-9) |
| | `CallbacksCreditFirst` | `CallbackCreditsFirst` |
| `ProviderExchangeProofs` | `TypeCorrect` | `[]TypeOK` |
| | `CreditsAreKept` | `[]CreditedIsKept` |
| | `GatewaysStaySingle` | `[]OneActiveGateway` |
| | `RefusalsAreKnown` | `RefusedIsNotKept` |
| `DriverAccessProofs` | `TypeCorrect` | `[]TypeOK` |
| | `SessionsEndWithTheirLink` | `[]NoSessionOutlivesItsLink` |
| | `RequestsAreLimited` | `[]RequestsLimited` |
| | `LocksAreKept` | `LockIsKept` |
| | `SessionsPerCodeBounded` | `[]SessionsPerCode` |
| | `OnlyLoginsOverwriteCancellation` | `CancelledLostOnlyToLogin` |
| `IntakeProofs` | `TypeCorrect` | `[]TypeOK` |
| | `IdentitiesAreKept` | `IdentityUsedOnce` (I-11) |
| | `OnePdfPerWaybill` | `[]OneActivePdf` (I-4) |
| | `OnlyStaleReadsTakePdfs` | `PdfLostOnlyToStaleRead` |
| | `ImportIsAllOrNothing` | `[]CommittedMeansImported` |
| | `RoundingIsExplained` | `[]RoundingExplained` |
| `MessagingProofs` | `CapIsPassedByOverlapOnly` | `[]CapPassedOnlyByOverlap` |

### Sums

Payments, refunds and rounding are added up over sets of any size. Induction over
data cannot be cited here, so `SumTheorems` derives what is needed from the least
element of a set of natural numbers: a set of subsets that holds the empty one and
each one whose parts it holds, holds every finite one. With it a sum is what the
model's fold computes, it is a natural number, grows with its set, changes by what
one element changes, is zero only if every term is, and is a multiple if every term
is. The sets are finite because a step writes finitely many rows: that only finitely
many were ever written is part of the invariants (`Books`, `Priced`).

### Fulfilment

The types come first. `Typed` is `TypeOK` without the claim that every call in
flight belongs to these services, so that it holds beside others; `CallOfOp` turns
the tag `op` of a call in flight into the record type of that service, so each
commit step is followed with the types of what its begin step stored. Lemmas say
what each commit does to the waybill's row. `OneActiveAuthorization` is inductive
together with the types; the others need a strengthening, and `Promises` puts all
of it together:

- `OneCurrentAmount` needs that corrections in flight carry positive amounts
  (`PositiveCorrections`): a current row of value 0 would not be stored at all.
- `DecidedOnce` needs that a gateway payment is never open to review
  (`GatewayApproved`).
- `DownloadableIffReleased` follows from the CHECKs, kept as an invariant of the
  committed row (`Checked`): they hold after every write although the values
  written were computed from stale reads.
- `NeverWithoutAuthorization` needs what calls in flight may still write: a review
  or correction that will write AUTHORIZED or RELEASED back, and any download, has
  seen an authorization (`CallsAuthorized`), and authorization rows are never
  deleted (`AuthorizedStays`).
- `CancelledIsFinal` needs that transitions in flight are in the table of allowed
  ones (`AllowedTransitions`), and uses the conditional update.
- The refinement maps the status of a payment to its standing in the ledger. A
  submission is `Enter`; a review is `Decide` or a stutter, because the
  conditional update is made only from a reviewable status; all else stutters.
- `PhaseKeepsPromise` follows from `Checked`: the phase is the first rule that
  holds, each rule is written out once (`RulesAre`), and the CHECKs turn what it
  says of the axes into what it promises.

### WaybillLife

`Inv` adds to the shape of the rows that calls in flight are honest: a submission
has seen the signature it needed, an acceptance a version that had been published
(`CallsHonest`), and signatures are never removed; so a payment that commits after
a decline still has one (`PaymentsHonest`). The CHECK makes an eligible row an
accepted one (`CheckRelease`), and ACCEPTED implies a signature. `SingleActive` is
the index.

The other services write the answer, the payment axis and the version of the same
row (`OtherService`). They leave alone every part of `Promises`, except that the
CHECKs must hold again, which they do after every write. So what `Fulfilment`
promises holds of the whole life.

`Books` holds that amounts, payments and refunds have their types, that finitely many rows
were written, that an amount is current, and `RefundsWithinApproved`: the
trigger bounds each write of a refund, and between two writes the approved total
only grows, since no step takes an approval back (`CreditKept`). `Credited` adds to
`PaidWasCredited` what calls in flight will write: whoever will write APPROVED
approves a payment or has seen an approved one.

### Without overlap

Six properties are false when calls overlap, and are proved under `NoOverlap`: any
two callers are the same one, as in `one_at_a_time`. Nothing else is assumed of
the number of payments, amounts and refunds, which the run has small. `Fresh` says
that what the call in flight has read is still so, and `AxisMeans` what the
payment axis says of the rows behind it: a recorded refund exists, a residual is
due, somebody waits in the queue. Both need each other: a review computes the axis
from the rows, and the next call reads it there. Each step is first reduced to its
effect on the rows (`SoloEffect`: submitted, reviewed, corrected, refunded,
authorized, revoked, delivered, or elsewhere), and the properties follow from the
effects. `CorrectionsAloneOrphan` and `RejectionsAloneSettle` assume in addition
that nothing is paid online, as in that run, which has manual payments only: an
online credit writes APPROVED and ELIGIBLE whatever the amount and the
authorization are.

### Pages

`Tabs` says that a tab which shows "paid", or will at its next load, follows an
approved payment or an inquiry that marked an attempt (`Paid`), and that a version a
tab has loaded was that payment's version. `Online` says the same of each VERIFIED
attempt, since a callback opened again shows what it finds there: the callback marks
it together with its payment, and nobody else but the inquiry does.
Payments only grow (`PaymentsGrow`): versions rise and approvals stay, so what was
seen stays true however late an answer is. With it every step of a page is a step
of the services or leaves them alone, hence `PagesOnlyCallServices`, and every
theorem of `LifeSpec` holds under the pages. That refinement is not a property of
the run, whose instance is too large to check it there. `ScreensAssumption` says
that ids, status values and the words of a page differ, and that both kinds of
payment are possible.

### OnlinePayment

`Known` says what a handler knows of its attempt at each stage (`Knows`): the row
exists and keeps its amount, the request is unique, a handler that asks has an attempt
whose driver was sent to the provider (`Reached`), one past the verification holds an
attempt that the bank calls PAID unless BPM confirmed it (`Backed`), and the call it
made carries the amount of that attempt (`Submits`). An UNKNOWN attempt has reached the
provider, which is what the inquiry relies on. Both only grow, so a credit made much
later rests on the same. With it `OneOpenAttempt` and `CreditedWasPaid` are
inductive, and `CallbackCreditsFirst` follows because only the stage after the credit
marks VERIFIED.

### ProviderExchange

`Exchange` ties the provider's side to the attempt: money exists for the amount
asked, another sale, SETTLED and REVERSED at BPM only. `Entered` says that a callback
about to enter a payment has made the sale it asked about `Safe`. Safe is stable: only
BPM reverses, and never what is SETTLED, whichever callback names the sale. The
comparison of amounts forces that what was charged for the attempt's own sale is the
attempt's amount, which excludes Zarinpal's rounded sums; of another sale nothing of
the kind is claimed.

### DriverAccess

`Known` has the types, that codes and links that requests refer to exist, and that a
request knows what it read. `SessionLinks`: a session that has not ended belongs to
a link that has not run out, since the end of a link ends its sessions and the
access check asks for the link again. `RequestsLimited` counts codes together with
requests about to create one, and `SessionsPerCode` sessions together with
verifications past their check, which makes both inductive. `CodesVerified` says
that whoever is past the check has marked the code or will; `ReadsAllow`
what transitions and logins in flight have read.

### Intake

`Referenced` and `BatchesKnown` say that requests in flight refer to waybills and
batches that exist, which deletion of a batch must not break. `OnePdf` is the
index. `SeenDocs`: an attachment in flight has read a document without a waybill
or a replaced one, so if it takes the PDF of another waybill, the document has
changed since. `CommittedMeansImported` needs both directions: the waybills of a
committed batch are there (`BatchImported`), and each waybill's source is a
committed batch with that row (`WaybillSourced`). `RoundingExplained` compares
totals of stored columns: `Priced` says of each waybill that its rounded price is a
multiple that exceeds the price of the file by less than one, and that its amount adds
the surcharge as long as nobody corrected it; the sums do the rest.

### Messaging

A request admits a message when it finds the day's count below the cap, and creates
it later. `WithinCap` counts the messages that were never retried together with the
requests admitted: at most `DailyCap - 1` and one for each sender. A message created
joins the first and leaves the second; a failed one that is retried leaves the
count for good, because `Carried` says that nobody else carries a message that was never
retried. The messages are finitely many, so that they can be counted.

### Only model-checked

Every safety invariant and action property of the passing runs is a theorem; the
type invariants (`TypeCorrect`) are theorems only, and no run repeats them.
Liveness (`RefusalEnds`, `MessagesEnd`) is out of the prover's reach. The three
properties that a run refutes (`CreditedOnce`, `CreditIsOfAttempt`,
`ApprovedMeansApproved`) are what the documents and pages say and the code does not do.

## 5. Properties and faults

Every property has a mutant in `PROJECT.json`: a definition of the model changed as
a bug in that code would change it (an index dropped, a guard read once, an
off-by-one, an update split in two). They stand next to the definitions they
replace, marked "Faulty variant".

## 6. Not modelled

- Audit log: no service reads it. Its hash chain (`audit-logger.ts:22-70`) reads the
  last hash and inserts later, so two entries at once fork it; this is listed as a
  hazard.
- In-app notifications: their service has no callers. `transitionPaymentStatus` and
  `acceptDriverCommitment` of `state-machine.ts` have none either; nor have
  `createDriverAccessLink`, `revokeDriverAccessLink`, `inquireUnknownTransactions`,
  `replaceWaybillPdf` and the two transitions, but these are modelled, since they are what
  other code relies on.
- Bank cards, panel login, permissions, settings, users: administration of single
  rows, whose results are constants of the models.
- Reports that only list rows: approved payments, refunds, gateway and operator
  reports. The remaining pages, each of which wraps one modelled call.
- Encryption, storage, digits, IBAN and card checks, the drawing pad, texts.

## 7. What could follow

Several waybills of one driver in `Fulfilment`; tracking numbers and receipts in
`Settlement` rather than in `Screens`; the audit chain as a module if something
comes to read it; the ledger and the current amount beside the statements of
`OnlinePayment`, as `WaybillLifeProofs` has them beside commitments and refunds.
