------------------------------- MODULE Screens -------------------------------
(***************************************************************************)
(* The pages people work with, as clients of the services: the driver's    *)
(* portal (DriverPortalClient) and the panel's payments page and detail    *)
(* page of a waybill, each open in several tabs.  A tab shows what it      *)
(* loaded last, sends one request at a time and waits for its answer,      *)
(* which may be lost; its reload does not stop the request.  Tab c makes   *)
(* the service calls of caller c; so do the runs of the inquiry about      *)
(* online payments, which write the rows a repeated callback reads.        *)
(***************************************************************************)
EXTENDS Reports

CONSTANTS
  DriverTabs,   \* tabs on the driver's link, logged in (DriverAccess)
  DeskTabs,     \* tabs on the panel
  Workers,      \* runs of inquireUnknownTransactions
  Transfers,    \* card transfers the driver makes at his bank
  Tracked,      \* those he reports with a tracking number, not only a receipt
  Attempts      \* his attempts to pay online

ASSUME ScreensAssumption ==
  /\ DriverTabs \cup DeskTabs \cup Workers = Callers
  /\ DriverTabs \cap DeskTabs = {}
  /\ (DriverTabs \cup DeskTabs) \cap Workers = {}
  /\ Tracked \subseteq Transfers
  /\ Transfers \cap Attempts = {}
  /\ None \notin Transfers \cup Attempts \cup PaymentIds \cup PaymentStatus
  /\ "waybill" \notin PaymentIds
  /\ {"MANUAL", "GATEWAY"} \subseteq Methods

VARIABLES
  portal,       \* what each tab of the driver shows and waits for
  desk,         \* what each tab of the desk shows and waits for
  made,         \* the transfers made so far
  reported,     \* the transfer or the attempt each payment is for
  attempts,     \* status of the attempts: UNKNOWN, VERIFIED, or any other
  workers,      \* the attempt each run of the inquiry is at, and where it is
  inquired      \* history: the attempts a run of the inquiry marked VERIFIED

onlineVars == <<attempts, workers, inquired>>

screenVars == <<portal, desk, made, reported, onlineVars>>

NoView == [commitment |-> None, payment |-> None, release |-> None]

\* url: the page was opened by a redirect that said VERIFIED or ALREADY_VERIFIED.
BlankPortal ==
  [view |-> NoView, url |-> FALSE, waits |-> "nothing", transfer |-> None,
   reply |-> None]

\* queue: the payments page; shown: the release status on the detail page.
BlankDesk ==
  [queue |-> <<>>, shown |-> None, waits |-> None, button |-> None, seen |-> 0,
   reply |-> None, told |-> None]

NoInquiry == [at |-> "idle", attempt |-> None]

ScreensInit ==
  /\ LifeInit
  /\ waybill.shipment = "DRIVER_VIEWED"
  /\ portal = [c \in DriverTabs |-> BlankPortal]
  /\ desk = [c \in DeskTabs |-> BlankDesk]
  /\ made = {}
  /\ reported = [p \in PaymentIds |-> None]
  /\ attempts = [t \in Attempts |-> "ABSENT"]
  /\ workers = [w \in Workers |-> NoInquiry]
  /\ inquired = {}

ServicesIdle == UNCHANGED <<lifeVars, reported>>

OnlyPortal(c, tab) ==
  /\ portal' = [portal EXCEPT ![c] = tab]
  /\ UNCHANGED <<desk, made>>

OnlyDesk(c, tab) ==
  /\ desk' = [desk EXCEPT ![c] = tab]
  /\ UNCHANGED <<portal, made>>

-----------------------------------------------------------------------------
(* The driver's portal.                                                    *)

\* The page reads the row; the address a callback leaves behind shows the payment
\* as approved, at this load and at every later one.
View(url) ==
  [commitment |-> waybill.commitment,
   payment |-> IF url THEN "APPROVED" ELSE waybill.payment,
   release |-> waybill.release]

Load(c, url) ==
  /\ portal[c].waits # "bank"
  /\ url => portal[c].url
  /\ OnlyPortal(c, [portal[c] EXCEPT !.view = View(url), !.url = url,
                                     !.waits = "nothing", !.reply = None])
  /\ ServicesIdle

\* The signature and the two buttons of step 2.
MaySign(view) == view.commitment \notin {None, "ACCEPTED", "DECLINED"}

\* Step 3: the forms stay while a payment is under review.
MayOfferPayment(view) == view.commitment = "ACCEPTED" /\ view.payment # "APPROVED"

\* Step 4.
MayOfferDownload(view) ==
  view.payment = "APPROVED" \/ view.release \in {"AUTHORIZED", "RELEASED"}

Send(c, waits, transfer) ==
  /\ portal[c].waits = "nothing"
  /\ calls[c] = Idle
  /\ OnlyPortal(c, [portal[c] EXCEPT !.waits = waits, !.transfer = transfer])
  /\ ServicesIdle

\* handleAcceptCommitment names the picture signatureDataUrl; the route asks for
\* signatureBase64 and answers SIGNATURE_REQUIRED: see Refuse.
Sign(c) == MaySign(portal[c].view) /\ Send(c, "sign", None)

Decline(c) == MaySign(portal[c].view) /\ Send(c, "decline", None)

MakeTransfer(c, t) ==
  /\ MayOfferPayment(portal[c].view)
  /\ t \notin made
  /\ made' = made \cup {t}
  /\ UNCHANGED <<portal, desk>>
  /\ ServicesIdle

\* handleSubmitCardToCard: the tracking number or the receipt of a transfer.
Report(c, t) ==
  /\ MayOfferPayment(portal[c].view)
  /\ t \in made
  /\ Send(c, "report", t)

\* A link to the download route, which needs no session.
Download(c) == MayOfferDownload(portal[c].view) /\ Send(c, "download", None)

\* The request reaches its service.
Arrive(c) ==
  /\ portal[c].reply = None
  /\ \/ portal[c].waits = "decline" /\ BeginDecline(c)
     \/ portal[c].waits = "report" /\ BeginSubmit(c, "MANUAL", CurrentAmount)
     \/ portal[c].waits = "download" /\ BeginGrant(c, None)
  /\ UNCHANGED <<waybill, settlementVars, releaseVars, commitmentVars, refundVars>>
  /\ UNCHANGED <<portal, desk, made, reported>>

\* The answer finds nobody when the page was reloaded.
Accept(c) ==
  portal' = [portal EXCEPT ![c].reply =
               IF portal[c].waits = "nothing" THEN None ELSE "ok"]

\* An error, or no answer: the buttons come back.  A callback that failed
\* redirects to the portal, which reads the row.
WithoutAnswer(tab) ==
  IF tab.waits = "bank" THEN BlankPortal
  ELSE [tab EXCEPT !.waits = "nothing", !.reply = None]

\* Faulty variant: no unique index.
NotReportedUnchecked(t) == TRUE

\* idx_payments_tracking_duplicate, whatever became of the payment.
NotReported(t) == t \in Tracked => \A p \in PaymentIds : reported[p] # t

CommitReport(c, p) ==
  /\ calls[c].op = "submit"
  /\ calls[c].method = "MANUAL"
  /\ NotReported(portal[c].transfer)
  /\ CommitSubmit(c, p)
  /\ reported' = [reported EXCEPT ![p] = portal[c].transfer]
  /\ Accept(c)
  /\ UNCHANGED <<releaseVars, commitmentVars, refundVars, desk, made>>

CommitPortalDecline(c) ==
  /\ CommitDecline(c)
  /\ Accept(c)
  /\ UNCHANGED <<settlementVars, releaseVars, refundVars, desk, made, reported>>

CommitDownload(c) ==
  /\ CommitGrant(c)
  /\ Accept(c)
  /\ UNCHANGED <<settlementVars, commitmentVars, refundVars, desk, made, reported>>

\* A guard of the route or the service refuses the request, or it never arrives.
Refuse(c) ==
  /\ portal[c].waits \notin {"nothing", "bank"}
  /\ portal[c].reply = None
  /\ calls[c] = Idle
  /\ OnlyPortal(c, WithoutAnswer(portal[c]))
  /\ ServicesIdle

Fail(c) ==
  /\ Rollback(c)
  /\ OnlyPortal(c, WithoutAnswer(portal[c]))
  /\ UNCHANGED <<settlementVars, releaseVars, commitmentVars, refundVars, reported>>

LoseAnswer(c) ==
  /\ portal[c].reply = "ok"
  /\ OnlyPortal(c, WithoutAnswer(portal[c]))
  /\ ServicesIdle

\* Faulty variant: a report counts as a payment.
AnsweredAsPaid(view, waits) ==
  IF waits = "report" THEN [view EXCEPT !.payment = "APPROVED"] ELSE view

\* What the page shows of an accepted request, without asking again.
Answered(view, waits) ==
  CASE waits = "report"  -> [view EXCEPT !.payment = "SUBMITTED"]
    [] waits = "decline" -> [view EXCEPT !.commitment = "DECLINED"]
    [] OTHER             -> view

Deliver(c) ==
  /\ portal[c].reply = "ok"
  /\ OnlyPortal(c, [portal[c] EXCEPT !.view = Answered(@, portal[c].waits),
                                     !.waits = "nothing", !.reply = None])
  /\ ServicesIdle

PageStep(c) ==
  \/ \E url \in BOOLEAN : Load(c, url)
  \/ Sign(c)
  \/ Decline(c)
  \/ \E t \in Transfers : MakeTransfer(c, t) \/ Report(c, t)
  \/ Download(c)
  \/ Arrive(c)
  \/ \E p \in PaymentIds : CommitReport(c, p)
  \/ CommitPortalDecline(c)
  \/ CommitDownload(c)
  \/ Refuse(c)
  \/ Fail(c)
  \/ LoseAnswer(c)
  \/ Deliver(c)

-----------------------------------------------------------------------------
(* Paying online: the callbacks, which end in the tab, and the inquiry.    *)
(* Their statements and crashes are told apart in Gateway.                 *)

SetAttempt(t, status) == attempts' = [attempts EXCEPT ![t] = status]

\* handleInitiateGateway: on success the browser leaves for the provider.
PayOnline(c, t) ==
  /\ MayOfferPayment(portal[c].view)
  /\ attempts[t] = "ABSENT"
  /\ SetAttempt(t, "OTHER")
  /\ Send(c, "bank", t)
  /\ UNCHANGED <<workers, inquired>>

\* The address of the callback is opened again, from the history of any tab.
ReturnAgain(c, t) ==
  /\ portal[c].waits # "bank"
  /\ calls[c] = Idle
  /\ attempts[t] \notin {"ABSENT", "VERIFIED"}
  /\ SetAttempt(t, "OTHER")
  /\ OnlyPortal(c, [BlankPortal EXCEPT !.waits = "bank", !.transfer = t])
  /\ UNCHANGED <<workers, inquired>>
  /\ ServicesIdle

\* A callback that finds the attempt VERIFIED redirects with ALREADY_VERIFIED,
\* whatever payment there is.
AlreadyVerified(c, t) ==
  /\ portal[c].waits = "bank" => portal[c].transfer = t /\ calls[c] = Idle
  /\ attempts[t] = "VERIFIED"
  /\ OnlyPortal(c, [BlankPortal EXCEPT !.url = TRUE])
  /\ UNCHANGED onlineVars
  /\ ServicesIdle

\* The provider confirmed.
Confirm(c) ==
  /\ portal[c].waits = "bank"
  /\ BeginSubmit(c, "GATEWAY", CurrentAmount)
  /\ UNCHANGED <<releaseVars, commitmentVars, refundVars, screenVars>>

CommitOnline(c, p) ==
  /\ portal[c].waits = "bank"
  /\ calls[c].op = "submit"
  /\ calls[c].method = "GATEWAY"
  /\ CommitSubmit(c, p)
  /\ reported' = [reported EXCEPT ![p] = portal[c].transfer]
  /\ SetAttempt(portal[c].transfer, "VERIFIED")
  /\ OnlyPortal(c, [BlankPortal EXCEPT !.url = TRUE])
  /\ UNCHANGED <<releaseVars, commitmentVars, refundVars, workers, inquired>>

\* No answer, a refusal, an error or the driver's own return: a page that reads
\* the row.
ReturnUnpaid(c) ==
  /\ portal[c].waits = "bank"
  /\ calls[c] = Idle
  /\ \/ \E status \in {"UNKNOWN", "OTHER"} : SetAttempt(portal[c].transfer, status)
     \/ UNCHANGED attempts
  /\ OnlyPortal(c, BlankPortal)
  /\ UNCHANGED <<workers, inquired>>
  /\ ServicesIdle

OnlineStep(c) ==
  \/ \E t \in Attempts : \/ PayOnline(c, t)
                        \/ ReturnAgain(c, t)
                        \/ AlreadyVerified(c, t)
  \/ Confirm(c)
  \/ \E p \in PaymentIds : CommitOnline(c, p)
  \/ ReturnUnpaid(c)

PortalStep(c) ==
  \/ PageStep(c) /\ UNCHANGED onlineVars
  \/ OnlineStep(c)

PagesIdle == UNCHANGED <<portal, desk, made>>

\* The batch is read first; the answers come later.
ReadBatch(w, t) ==
  /\ workers[w] = NoInquiry
  /\ attempts[t] = "UNKNOWN"
  /\ workers' = [workers EXCEPT ![w] = [at |-> "ask", attempt |-> t]]
  /\ UNCHANGED <<attempts, inquired>>
  /\ PagesIdle /\ ServicesIdle

InquiryVerified(w) ==
  /\ workers[w].at = "ask"
  /\ SetAttempt(workers[w].attempt, "VERIFIED")
  /\ inquired' = inquired \cup {workers[w].attempt}
  /\ workers' = [workers EXCEPT ![w].at = "submit"]
  /\ PagesIdle /\ ServicesIdle

InquiryNotVerified(w) ==
  /\ workers[w].at = "ask"
  /\ \/ SetAttempt(workers[w].attempt, "OTHER")
     \/ UNCHANGED attempts
  /\ workers' = [workers EXCEPT ![w] = NoInquiry]
  /\ UNCHANGED inquired
  /\ PagesIdle /\ ServicesIdle

InquirySubmits(w) ==
  /\ workers[w].at = "submit"
  /\ BeginSubmit(w, "GATEWAY", CurrentAmount)
  /\ UNCHANGED <<releaseVars, commitmentVars, refundVars, screenVars>>

CommitInquired(w, p) ==
  /\ workers[w].at = "submit"
  /\ CommitSubmit(w, p)
  /\ reported' = [reported EXCEPT ![p] = workers[w].attempt]
  /\ workers' = [workers EXCEPT ![w] = NoInquiry]
  /\ UNCHANGED <<releaseVars, commitmentVars, refundVars, attempts, inquired>>
  /\ PagesIdle

\* The submission throws and the loop goes on: the attempt stays VERIFIED.
Swallow(w) ==
  /\ workers[w].at = "submit"
  /\ workers' = [workers EXCEPT ![w] = NoInquiry]
  /\ UNCHANGED <<attempts, inquired>>
  /\ PagesIdle
  /\ \/ calls[w] = Idle /\ ServicesIdle
     \/ /\ Rollback(w)
        /\ UNCHANGED <<settlementVars, releaseVars, commitmentVars, refundVars, reported>>

InquiryStep(w) ==
  \/ \E t \in Attempts : ReadBatch(w, t)
  \/ InquiryVerified(w)
  \/ InquiryNotVerified(w)
  \/ InquirySubmits(w)
  \/ \E p \in PaymentIds : CommitInquired(w, p)
  \/ Swallow(w)

-----------------------------------------------------------------------------
(* The panel.                                                              *)

Queue == [p \in ReviewQueue |-> payments[p].version]

LoadQueue(c) ==
  /\ desk[c].shown = None
  /\ OnlyDesk(c, [desk[c] EXCEPT !.queue = Queue])
  /\ ServicesIdle

OpenPayments(c) ==
  /\ OnlyDesk(c, [BlankDesk EXCEPT !.queue = Queue])
  /\ ServicesIdle

\* handleApprove, handleRejectSubmit: with the version the row had when it was
\* listed.
Decide(c, p, button) ==
  /\ desk[c].waits = None
  /\ calls[c] = Idle
  /\ p \in DOMAIN desk[c].queue
  /\ OnlyDesk(c, [desk[c] EXCEPT !.waits = p, !.button = button,
                                 !.seen = desk[c].queue[p]])
  /\ ServicesIdle

\* The page sends APPROVE or REJECT; reviewPayment compares with APPROVED and
\* REJECTED and takes anything else for DISCREPANCY_REVIEW.
Understood(button) ==
  IF button \in {"APPROVED", "REJECTED"} THEN button ELSE "DISCREPANCY_REVIEW"

\* The detail page of the waybill.
OpenDetail(c) ==
  /\ OnlyDesk(c, [BlankDesk EXCEPT !.shown = waybill.release])
  /\ ServicesIdle

InForceShown(c) == desk[c].shown \in {"AUTHORIZED", "RELEASED"}

\* Its buttons.  Only the authorization gets past its route: handleRevokeRelease
\* sends reason for revokeReason, and handleCorrectAmount newPayableAmount for
\* newAmount; both are refused (RefuseDesk).
Press(c, button) ==
  /\ desk[c].shown # None
  /\ button = "AUTHORIZE" => ~InForceShown(c)
  /\ button = "REVOKE" => InForceShown(c)
  /\ desk[c].waits = None
  /\ calls[c] = Idle
  /\ OnlyDesk(c, [desk[c] EXCEPT !.waits = "waybill", !.button = button])
  /\ ServicesIdle

Pending(c) == desk[c].waits # None /\ desk[c].reply = None /\ calls[c] = Idle

\* Every request comes from the same reviewer, "panel-operator".
ArriveDesk(c) ==
  /\ Pending(c)
  /\ \/ desk[c].button = "AUTHORIZE" /\ BeginAuthorize(c)
     \/ /\ desk[c].waits \in PaymentIds
        /\ \E r \in Reviewers :
             BeginReview(c, desk[c].waits, Understood(desk[c].button), r, desk[c].seen)
  /\ UNCHANGED <<waybill, settlementVars, releaseVars, commitmentVars, refundVars>>
  /\ UNCHANGED <<portal, desk, made, reported>>

\* A decision repeated by its reviewer is answered with success, as is an
\* authorization that exists.
AnswerAgain(c) ==
  /\ Pending(c)
  /\ \/ /\ desk[c].button = "AUTHORIZE"
        /\ CanRelease([waybill EXCEPT !.release = "AUTHORIZED"], TRUE)
        /\ ~NoneActive
     \/ /\ desk[c].waits \in PaymentIds
        /\ payments[desk[c].waits].status = Understood(desk[c].button)
        /\ payments[desk[c].waits].reviewedBy \in Reviewers
  /\ OnlyDesk(c, [desk[c] EXCEPT !.reply = "ok"])
  /\ ServicesIdle

AcceptDesk(c) ==
  OnlyDesk(c, [desk[c] EXCEPT !.reply = IF desk[c].waits = None THEN None ELSE "ok"])

ShowError(c) ==
  OnlyDesk(c, [desk[c] EXCEPT !.waits = None, !.reply = None, !.told = None])

CommitDeskReview(c) ==
  /\ CommitReview(c)
  /\ AcceptDesk(c)
  /\ UNCHANGED <<releaseVars, commitmentVars, refundVars, reported>>

CommitDeskAuthorize(c, a) ==
  /\ CommitAuthorize(c, a)
  /\ AcceptDesk(c)
  /\ UNCHANGED <<settlementVars, commitmentVars, refundVars, reported>>

RefuseDesk(c) ==
  /\ Pending(c)
  /\ ShowError(c)
  /\ ServicesIdle

FailDesk(c) ==
  /\ Rollback(c)
  /\ ShowError(c)
  /\ UNCHANGED <<settlementVars, releaseVars, commitmentVars, refundVars, reported>>

LoseDeskAnswer(c) ==
  /\ desk[c].reply = "ok"
  /\ ShowError(c)
  /\ ServicesIdle

\* The message on the page, the one of the button that was pressed.
DeliverDesk(c) ==
  /\ desk[c].reply = "ok"
  /\ OnlyDesk(c, [desk[c] EXCEPT
       !.waits = None, !.reply = None,
       !.told = [button |-> desk[c].button, payment |-> desk[c].waits]])
  /\ ServicesIdle

DeskStep(c) ==
  \/ LoadQueue(c)
  \/ OpenPayments(c)
  \/ OpenDetail(c)
  \/ \E p \in PaymentIds, button \in {"APPROVE", "REJECT"} : Decide(c, p, button)
  \/ \E button \in {"AUTHORIZE", "REVOKE", "CORRECT"} : Press(c, button)
  \/ ArriveDesk(c)
  \/ AnswerAgain(c)
  \/ CommitDeskReview(c)
  \/ \E a \in AuthIds : CommitDeskAuthorize(c, a)
  \/ RefuseDesk(c)
  \/ FailDesk(c)
  \/ LoseDeskAnswer(c)
  \/ DeliverDesk(c)

ScreensNext ==
  \/ \E c \in DriverTabs : PortalStep(c)
  \/ \E c \in DeskTabs : DeskStep(c) /\ UNCHANGED onlineVars
  \/ \E w \in Workers : InquiryStep(w)

ScreensSpec == ScreensInit /\ [][ScreensNext]_<<lifeVars, screenVars>>

-----------------------------------------------------------------------------
\* A transfer the driver reports with its tracking number is entered once,
\* although he reports it from two tabs, or again after an answer was lost and
\* after the first report was put aside by a reviewer
\* (POST /api/driver/payment/card-to-card).
TransferEnteredOnce ==
  \A t \in Tracked : \A p, q \in PaymentIds :
    reported[p] = t /\ reported[q] = t => p = q

\* The portal says "paid" only of a waybill with an approved payment, or with an
\* attempt that an inquiry marked VERIFIED before it entered the payment, although
\* the page shows that from its address, at every reload, and goes on showing what
\* it was answered while the row moves on (DriverPortalClient).
ShownPaidWasCredited ==
  \A c \in DriverTabs :
    portal[c].view.payment = "APPROVED" => Approved # {} \/ inquired # {}

-----------------------------------------------------------------------------
(* What the desk tells its operator.                                       *)

\* "The payment was approved": then it is approved.
ApprovedMeansApproved ==
  \A c \in DeskTabs :
    desk[c].told # None =>
      (desk[c].told.button = "APPROVE" =>
         payments[desk[c].told.payment].status = "APPROVED")

=============================================================================
