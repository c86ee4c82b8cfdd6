--------------------------- MODULE ProviderAdapters ---------------------------
(***************************************************************************)
(* The six payment providers as their adapters understand them: what the   *)
(* driver is charged, which answers of the provider count as a             *)
(* confirmation, and what an inquiry reports.                              *)
(*                                                                         *)
(* The providers are external.  A transaction of theirs is "PAID" by the   *)
(* driver, "CONFIRMED" by a verification and, at BPM, "SETTLED" by a       *)
(* second request; "REVERSED" money is back with the driver.  Their answer *)
(* codes are "done", "again" (already verified) and "other".               *)
(***************************************************************************)
EXTENDS Integers

AllProviders == {"ZARINPAL", "ZIBAL", "SEP", "BPM", "SADAD", "PASARGAD"}

\* The driver's money is with the company.
Kept == {"CONFIRMED", "SETTLED"}

\* Zarinpal counts in toman, ten rial each; BigInt division rounds down.
Toman(rial) == rial \div 10

\* The amount, in rial, that the driver is asked for: the others take the figure
\* as a Number, which is exact below 2^53.  A request without the provider's code
\* of success and its token throws: there is nothing to pay.
ZarinpalAsked(rial) == 10 * Toman(rial)
SepAsked(rial) == rial
BpmAsked(rial) == rial
PasargadAsked(rial) == rial
SadadAsked(rial) == rial
ZibalAsked(rial) == rial

Asked(provider, rial) ==
  CASE provider = "ZARINPAL" -> ZarinpalAsked(rial)
    [] provider = "SEP"      -> SepAsked(rial)
    [] provider = "BPM"      -> BpmAsked(rial)
    [] provider = "PASARGAD" -> PasargadAsked(rial)
    [] provider = "SADAD"    -> SadadAsked(rial)
    [] provider = "ZIBAL"    -> ZibalAsked(rial)

\* The sale that verification, settlement and reversal ask about: "own" is the
\* attempt's, by its token, number or trace; BPM's requests take the ids that the
\* callback names, of this sale or of another (or order 0, which is no sale).
SaleAsked(provider, named) == IF provider = "BPM" THEN named ELSE "own"

\* The provider's answer to a verification.  Only Zarinpal and Zibal tell a
\* repeated one apart; what the others answer to it the adapters do not say.
VerifyCodes(provider, money) ==
  CASE money = "PAID" -> {"done", "other"}
    [] money \in Kept -> IF provider \in {"ZARINPAL", "ZIBAL"}
                         THEN {"again"} ELSE {"done", "other"}
    [] OTHER          -> {"other"}

\* A verification that succeeds is the confirmation.
MoneyAfterVerify(money, code) ==
  IF money = "PAID" /\ code = "done" THEN "CONFIRMED" ELSE money

\* Faulty variant: 101 is an error.
VerifiedFirstTimeOnly(provider, code) == code = "done"

\* 100 and 101; for the other providers one code of success.
Verified(provider, code) ==
  code = "done" \/ (provider \in {"ZARINPAL", "ZIBAL"} /\ code = "again")

\* The amount the adapter reports as paid: Zarinpal's converts its own figure
\* back, BPM's repeats the attempt's amount, the others report the provider's
\* figure or, if there is none, the attempt's.
ZarinpalPaid(rial) == {10 * Toman(rial)}
SepPaid(rial, charged) == {charged, rial}
BpmPaid(rial) == {rial}
PasargadPaid(rial, charged) == {charged, rial}
SadadPaid(rial, charged) == {charged, rial}
ZibalPaid(rial, charged) == {charged, rial}

PaidAmounts(provider, rial, charged) ==
  CASE provider = "ZARINPAL" -> ZarinpalPaid(rial)
    [] provider = "SEP"      -> SepPaid(rial, charged)
    [] provider = "BPM"      -> BpmPaid(rial)
    [] provider = "PASARGAD" -> PasargadPaid(rial, charged)
    [] provider = "SADAD"    -> SadadPaid(rial, charged)
    [] provider = "ZIBAL"    -> ZibalPaid(rial, charged)

-----------------------------------------------------------------------------
(* inquiryTransaction.  Every adapter swallows its errors into UNKNOWN.    *)

Taken == {"PAID"} \cup Kept

\* verify.json again, with amount 0: refused, with a negative code or none.
ZarinpalInquiry == {"FAILED", "UNKNOWN"}

\* CheckTxn only looks.
SepInquiry(money) ==
  IF money \in Taken THEN {"VERIFIED", "UNKNOWN"} ELSE {"UNKNOWN"}

\* bpInquiryRequest about order 0, whatever the attempt.
BpmInquiry == {"VERIFIED", "UNKNOWN"}

PasargadInquiry == {"UNKNOWN"}

SadadInquiry == {"UNKNOWN"}

ZibalInquiry(money) ==
  IF money \in Taken THEN {"VERIFIED", "UNKNOWN"} ELSE {"FAILED", "UNKNOWN"}

InquiryAnswers(provider, money) ==
  CASE provider = "ZARINPAL" -> ZarinpalInquiry
    [] provider = "SEP"      -> SepInquiry(money)
    [] provider = "BPM"      -> BpmInquiry
    [] provider = "PASARGAD" -> PasargadInquiry
    [] provider = "SADAD"    -> SadadInquiry
    [] provider = "ZIBAL"    -> ZibalInquiry(money)
=============================================================================
