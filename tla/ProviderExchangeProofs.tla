------------------------ MODULE ProviderExchangeProofs ------------------------
(***************************************************************************)
(* Theorems about ProviderExchange, for any number of gateways and         *)
(* handlers and any amounts.                                               *)
(***************************************************************************)
EXTENDS ProviderExchange, TLAPS

LEMMA AskedType ==
  ASSUME NEW p \in Providers, NEW v \in Nat
  PROVE  Asked(p, v) \in Nat /\ (p # "ZARINPAL" => Asked(p, v) = v)
  BY ExchangeAssumption
  DEF Asked, AllProviders, ZarinpalAsked, SepAsked, BpmAsked, PasargadAsked, SadadAsked,
      ZibalAsked, Toman

\* A verification confirms a payment or leaves it.
LEMMA VerifyEffect ==
  ASSUME NEW p \in Providers, NEW money \in Money,
         NEW code \in VerifyCodes(p, money)
  PROVE  /\ MoneyAfterVerify(money, code) \in {money, "CONFIRMED"}
         /\ MoneyAfterVerify(money, code) # money => money = "PAID"
         /\ MoneyAfterVerify(money, code) \in Money
         /\ Verified(p, code) => MoneyAfterVerify(money, code) \in Kept
         /\ ~Verified(p, code) /\ MoneyAfterVerify(money, code) \in Kept
              => p \notin {"ZARINPAL", "ZIBAL"} /\ money \in Kept
  BY DEF MoneyAfterVerify, VerifyCodes, Verified, Money, Kept

\* An amount that is found to be that of the attempt is what was charged; one
\* that is not is Zarinpal's, rounded.
LEMMA PaidIsCharged ==
  ASSUME NEW p \in Providers, p # "BPM", NEW v \in Nat,
         NEW paid \in PaidAmounts(p, v, Asked(p, v))
  PROVE  /\ paid = v => Asked(p, v) = v
         /\ paid # v => p = "ZARINPAL" /\ v % 10 # 0
  BY ExchangeAssumption
  DEF PaidAmounts, Asked, AllProviders, ZarinpalPaid, SepPaid, PasargadPaid, SadadPaid,
      ZibalPaid, ZarinpalAsked, SepAsked, PasargadAsked, SadadAsked, ZibalAsked, Toman

-----------------------------------------------------------------------------
(* The inductive invariant.                                                *)

Busy == {"return", "verify", "settle", "reverse", "record", "fail", "unknown", "inquire"}

\* The stages at which a handler talks to the provider about a sale.
Asking == {"return", "verify", "settle", "reverse"}

\* The provider's side and the attempt belong together; another sale comes in at
\* BPM only.
Exchange ==
  /\ \A g \in Gateways : gateways[g].active => gateways[g].provider # None
  /\ bank["own"].money # "NONE" =>
       /\ attempt.status # "ABSENT"
       /\ attempt.provider # None
       /\ bank["own"].charged = Asked(attempt.provider, attempt.amount)
  /\ bank["own"].money = "NONE" =>
       attempt.status \in {"ABSENT", "FAILED"} /\ bank["other"].money = "NONE"
  /\ bank["other"].money # "NONE" => attempt.provider = "BPM"
  /\ \A s \in Sales : bank[s].money \in {"SETTLED", "REVERSED"} => attempt.provider = "BPM"
  /\ \A h \in Handlers :
       /\ handlers[h].at \in Busy => bank["own"].money # "NONE"
       /\ handlers[h].at \in Asking =>
            /\ handlers[h].sale \in Sales
            /\ handlers[h].sale = "other" => attempt.provider = "BPM"
       /\ handlers[h].at \in {"settle", "reverse"} => attempt.provider = "BPM"
       /\ handlers[h].at = "inquire" => handlers[h].job = "inquiry"

\* The company's money for a sale, to the rial if it is the attempt's.
Safe(s) ==
  /\ s \in Sales
  /\ bank[s].money = IF attempt.provider = "BPM" THEN "SETTLED" ELSE "CONFIRMED"
  /\ s = "own" => bank["own"].charged = attempt.amount
  /\ s = "other" => attempt.provider = "BPM"

\* A callback that is about to enter a payment has made its sale safe.
Entered ==
  /\ \A h \in Handlers :
       handlers[h].at = "record" /\ handlers[h].job = "callback" => Safe(handlers[h].sale)
  /\ \A c \in credits : c.job = "callback" => Safe(c.sale)

Inv == TypeOK /\ Exchange /\ Entered

LEMMA InvInit == Init => Inv
  <1> SUFFICES ASSUME Init PROVE Inv
    OBVIOUS
  <1>1. TypeOK
    <2>1. NoSale \in SaleRow /\ Idle \in Handler
      BY DEF NoSale, SaleRow, Money, Idle, Handler
    <2>2. NoGateway \in GatewayRow /\ NoAttempt \in AttemptRow
      BY DEF NoGateway, GatewayRow, NoAttempt, AttemptRow
    <2>3. QED
      BY <2>1, <2>2 DEF Init, TypeOK
  <1>2. Exchange
    BY DEF Init, Exchange, NoGateway, NoAttempt, NoSale, Sales, Idle, Busy, Asking
  <1>3. Entered
    BY DEF Init, Entered, Idle
  <1>4. QED
    BY <1>1, <1>2, <1>3 DEF Inv

\* A handler that moves on leaves the others where they are.
LEMMA Moves ==
  ASSUME TypeOK, NEW h \in Handlers, NEW stage,
         stage \in Busy \cup {"idle", "create"}, GoTo(h, stage)
  PROVE  /\ handlers' \in [Handlers -> Handler]
         /\ handlers'[h].at = stage /\ handlers'[h].job = handlers[h].job
         /\ handlers'[h].sale = handlers[h].sale
         /\ \A k \in Handlers \ {h} : handlers'[k] = handlers[k]
  <1>1. handlers[h] \in Handler
    BY DEF TypeOK
  <1>2. [handlers[h] EXCEPT !.at = stage] \in Handler
    BY <1>1 DEF Handler, Busy
  <1>3. QED
    BY <1>1, <1>2 DEF GoTo, TypeOK, Handler

LEMMA Ends ==
  ASSUME TypeOK, NEW h \in Handlers, Done(h)
  PROVE  /\ handlers' \in [Handlers -> Handler]
         /\ handlers'[h] = Idle
         /\ \A k \in Handlers \ {h} : handlers'[k] = handlers[k]
  BY DEF TypeOK, Done, Idle, Handler

\* So does the money of one sale.
LEMMA SaleMoves ==
  ASSUME TypeOK, NEW s \in Sales, NEW money \in Money, MoneyMoves(s, money)
  PROVE  /\ bank' \in [Sales -> SaleRow]
         /\ bank'[s].money = money
         /\ \A t \in Sales : bank'[t].charged = bank[t].charged
         /\ \A t \in Sales \ {s} : bank'[t] = bank[t]
  <1>1. bank[s] \in SaleRow
    BY DEF TypeOK
  <1>2. [bank[s] EXCEPT !.money = money] \in SaleRow
    BY <1>1 DEF SaleRow
  <1>3. QED
    BY <1>1, <1>2 DEF MoneyMoves, TypeOK, SaleRow

\* Steps that leave the money and the attempt but for its status.
LEMMA Quiet ==
  ASSUME Inv, NEW h \in Handlers, UNCHANGED <<gateways, bank>>,
         attempt' \in AttemptRow, attempt'.provider = attempt.provider,
         attempt'.amount = attempt.amount,
         attempt'.status # "ABSENT" \/ UNCHANGED attempt,
         bank["own"].money = "NONE" => UNCHANGED attempt,
         handlers' \in [Handlers -> Handler],
         \A k \in Handlers \ {h} : handlers'[k] = handlers[k],
         handlers'[h].at \in Busy => bank["own"].money # "NONE",
         handlers'[h].at \in Asking =>
           /\ handlers'[h].sale \in Sales
           /\ handlers'[h].sale = "other" => attempt.provider = "BPM",
         handlers'[h].at \in {"settle", "reverse"} => attempt.provider = "BPM",
         handlers'[h].at = "inquire" => handlers'[h].job = "inquiry",
         handlers'[h].at = "record" /\ handlers'[h].job = "callback"
           => Safe(handlers'[h].sale),
         credits' \subseteq Credit,
         \A c \in credits' : c.job = "callback" => c \in credits \/ Safe(c.sale)
  PROVE  Inv'
  <1>1. TypeOK'
    BY DEF Inv, TypeOK
  <1>2. Exchange'
    BY DEF Inv, Exchange
  <1>3. ASSUME NEW s, Safe(s) PROVE Safe(s)'
    BY <1>3 DEF Safe
  <1>4. Entered'
    BY <1>3 DEF Inv, Entered
  <1>5. QED
    BY <1>1, <1>2, <1>4 DEF Inv

\* Steps that move the money on.
LEMMA MoneyStep ==
  ASSUME Inv, NEW h \in Handlers, UNCHANGED <<gateways, attempt, credits>>,
         bank["own"].money # "NONE",
         bank' \in [Sales -> SaleRow], bank'["own"].money # "NONE",
         bank'["own"].charged = bank["own"].charged,
         bank'["other"].money # "NONE" => attempt.provider = "BPM",
         \A s \in Sales :
           bank'[s].money \in {"SETTLED", "REVERSED"} => attempt.provider = "BPM",
         \A s \in Sales : Safe(s) => Safe(s)',
         handlers' \in [Handlers -> Handler],
         \A k \in Handlers \ {h} : handlers'[k] = handlers[k],
         handlers'[h].at \in Asking =>
           /\ handlers'[h].sale \in Sales
           /\ handlers'[h].sale = "other" => attempt.provider = "BPM",
         handlers'[h].at \in {"settle", "reverse"} => attempt.provider = "BPM",
         handlers'[h].at # "inquire",
         \A s : handlers'[h].at = "record" /\ handlers'[h].job = "callback"
                  /\ s = handlers'[h].sale => Safe(s)'
  PROVE  Inv'
  <1>1. TypeOK'
    BY DEF Inv, TypeOK
  <1>2. Exchange'
    BY DEF Inv, Exchange
  <1>3. ASSUME NEW s, Safe(s) PROVE Safe(s)'
    BY <1>3 DEF Safe
  <1>4. ASSUME NEW k \in Handlers, NEW s, handlers'[k].at = "record",
               handlers'[k].job = "callback", s = handlers'[k].sale
        PROVE  Safe(s)'
    BY <1>3, <1>4 DEF Inv, Entered
  <1>5. ASSUME NEW c \in credits, c.job = "callback" PROVE Safe(c.sale)'
    BY <1>3, <1>5 DEF Inv, Entered
  <1>6. Entered'
    BY <1>4, <1>5 DEF Entered
  <1>7. QED
    BY <1>1, <1>2, <1>6 DEF Inv

-----------------------------------------------------------------------------
(* The panel touches the gateways alone.                                   *)

PanelOnly ==
  /\ UNCHANGED <<attempt, bank, credits>>
  /\ gateways' \in [Gateways -> GatewayRow]
  /\ \A g \in Gateways : gateways'[g].active => gateways'[g].provider # None
  /\ handlers' \in [Handlers -> Handler]
  /\ \A h \in Handlers :
       handlers'[h] = handlers[h] \/ handlers'[h].at \in {"idle", "create"}

LEMMA ConfigureStep == Inv /\ Configure => Inv'
  <1> SUFFICES ASSUME Inv, Configure PROVE Inv'
    OBVIOUS
  <1>1. PanelOnly
    <2>1. ASSUME NEW h \in Handlers, BeginActivate(h) PROVE PanelOnly
      BY <2>1 DEF PanelOnly, BeginActivate, Inv, TypeOK, Exchange, Handler, Idle, ActiveGateways
    <2>2. ASSUME NEW h \in Handlers, NEW g \in Gateways, NEW p \in Providers,
                 CommitActivate(h, g, p)
          PROVE  PanelOnly
      <3>1. /\ handlers' \in [Handlers -> Handler]
            /\ handlers'[h] = Idle
            /\ \A k \in Handlers \ {h} : handlers'[k] = handlers[k]
        BY <2>2, Ends DEF CommitActivate, Inv
      <3>2. /\ gateways' \in [Gateways -> GatewayRow]
            /\ \A k \in Gateways : gateways'[k].active => gateways'[k].provider # None
        BY <2>2, ExchangeAssumption DEF PanelOnly, CommitActivate, Inv, TypeOK, Exchange, GatewayRow
      <3>3. UNCHANGED <<attempt, bank, credits>>
        BY <2>2 DEF CommitActivate
      <3>4. QED
        BY <3>1, <3>2, <3>3 DEF PanelOnly, Idle
    <2>3. ASSUME NEW g \in Gateways, NEW p \in Providers, CreateInactive(g, p)
          PROVE  PanelOnly
      BY <2>3, ExchangeAssumption
      DEF PanelOnly, CreateInactive, NoGateway, Inv, TypeOK, Exchange, GatewayRow
    <2>4. ASSUME NEW g \in Gateways, TestConnection(g) PROVE PanelOnly
      BY <2>4 DEF PanelOnly, TestConnection, Inv, TypeOK, Exchange, GatewayRow
    <2>5. QED
      BY <2>1, <2>2, <2>3, <2>4 DEF Configure
  <1>2. TypeOK'
    BY <1>1 DEF PanelOnly, Inv, TypeOK
  <1>3. Exchange'
    BY <1>1 DEF PanelOnly, Inv, Exchange, Busy, Asking
  <1>4. Entered'
    BY <1>1 DEF PanelOnly, Inv, Entered, Safe
  <1>5. QED
    BY <1>2, <1>3, <1>4 DEF Inv

LEMMA InitiateStep ==
  ASSUME Inv, NEW g \in Gateways, NEW v \in Amounts, NEW ok \in BOOLEAN,
         Initiate(g, v, ok)
  PROVE  Inv'
  <1> DEFINE p == gateways[g].provider
  <1>1. p \in Providers /\ p # None /\ v \in Nat
    BY ExchangeAssumption DEF Initiate, ActiveGateways, Inv, TypeOK, Exchange, GatewayRow
  <1>2. \A s \in Sales : bank[s].money = "NONE"
    BY DEF Initiate, NoAttempt, Inv, Exchange, Sales
  <1>3. attempt' \in AttemptRow /\ bank' \in [Sales -> SaleRow]
    <2>1. [money |-> "OFFERED", charged |-> Asked(p, v)] \in SaleRow
      BY <1>1, AskedType DEF SaleRow, Money
    <2>2. QED
      BY <1>1, <2>1 DEF Initiate, AttemptRow, Inv, TypeOK
  <1>4. \A h \in Handlers : handlers[h].at \notin Busy
    BY <1>2 DEF Inv, Exchange, Sales
  <1>5. \A c \in credits : c.job # "callback"
    BY <1>2 DEF Inv, Entered, Safe
  <1>6. TypeOK'
    BY <1>3 DEF Initiate, Inv, TypeOK
  <1>7. Exchange'
    <2>1. bank'["own"].money # "NONE" =>
            /\ bank'["own"].money = "OFFERED"
            /\ attempt'.status # "ABSENT"
            /\ attempt'.provider # None
            /\ bank'["own"].charged = Asked(attempt'.provider, attempt'.amount)
      BY <1>1, <1>2 DEF Initiate, Sales, Inv, TypeOK
    <2>2. \A h \in Handlers : handlers'[h].at \notin Busy
      BY <1>4 DEF Initiate
    <2>3. \A k \in Gateways : gateways'[k].active => gateways'[k].provider # None
      BY DEF Initiate, Inv, Exchange
    <2>4. bank'["other"].money = "NONE"
      BY <1>2 DEF Initiate, Sales
    <2>5. bank'["own"].money = "NONE" => attempt'.status = "FAILED"
      BY DEF Initiate, Inv, TypeOK, Sales
    <2>6. QED
      BY <2>1, <2>2, <2>3, <2>4, <2>5 DEF Exchange, Busy, Asking, Sales
  <1>8. Entered'
    BY <1>4, <1>5 DEF Initiate, Entered, Busy
  <1>9. QED
    BY <1>6, <1>7, <1>8 DEF Inv

\* The drivers and the other sale: no handler moves, and money that is safe stays.
LEMMA OutsideStep == Inv /\ (DriverPays \/ OtherPays \/ OtherMoves) => Inv'
  <1> SUFFICES ASSUME Inv, DriverPays \/ OtherPays \/ OtherMoves PROVE Inv'
    OBVIOUS
  <1>1. PICK s \in Sales, money \in Money :
          /\ MoneyMoves(s, money)
          /\ UNCHANGED <<gateways, attempt, handlers, credits>>
          /\ bank["own"].money # "NONE"
          /\ s = "other" => attempt.provider = "BPM"
          /\ bank[s].money \in {"NONE", "OFFERED", "PAID", "CONFIRMED"}
          /\ bank[s].money = "CONFIRMED" => s = "other"
          /\ money # "NONE"
          /\ money \in {"SETTLED", "REVERSED"} => s = "other"
    <2>1. CASE DriverPays
      BY <2>1 DEF DriverPays, Sales, Money
    <2>2. CASE OtherPays
      BY <2>2 DEF OtherPays, Sales, Money
    <2>3. CASE OtherMoves
      <3>1. /\ bank["other"].money \in {"PAID", "CONFIRMED"}
            /\ attempt.provider = "BPM" /\ bank["own"].money # "NONE"
            /\ UNCHANGED <<gateways, attempt, handlers, credits>>
        BY <2>3 DEF OtherMoves, Inv, Exchange
      <3>2. PICK money \in {"CONFIRMED", "SETTLED", "REVERSED"} : MoneyMoves("other", money)
        BY <2>3 DEF OtherMoves
      <3>3. money \in Money /\ "other" \in Sales
        BY DEF Money, Kept, Sales
      <3>4. QED
        BY <3>1, <3>2, <3>3
    <2>4. QED
      BY <2>1, <2>2, <2>3
  <1>2. /\ bank' \in [Sales -> SaleRow]
        /\ bank'[s].money = money
        /\ \A t \in Sales : bank'[t].charged = bank[t].charged
        /\ \A t \in Sales \ {s} : bank'[t] = bank[t]
    BY <1>1, SaleMoves DEF Inv
  <1>3. TypeOK'
    BY <1>1, <1>2 DEF Inv, TypeOK
  <1>4. Exchange'
    BY <1>1, <1>2 DEF Inv, Exchange, Sales
  <1>5. ASSUME NEW t, Safe(t) PROVE Safe(t)'
    <2>1. t # s
      BY <1>1, <1>5 DEF Safe
    <2>2. QED
      BY <1>1, <1>2, <1>5, <2>1 DEF Safe
  <1>6. Entered'
    BY <1>1, <1>5 DEF Inv, Entered
  <1>7. QED
    BY <1>3, <1>4, <1>6 DEF Inv

-----------------------------------------------------------------------------
(* The handlers that talk to the provider.                                 *)

\* A payment to confirm: what was charged for it.
LEMMA Charged ==
  ASSUME Inv, bank["own"].money # "NONE"
  PROVE  /\ attempt.provider \in Providers
         /\ attempt.amount \in Nat
         /\ bank["own"].charged = Asked(attempt.provider, attempt.amount)
  BY DEF Inv, TypeOK, AttemptRow, Exchange

\* A handler that asks does so about a sale, at BPM perhaps about another one.
LEMMA AsksAbout ==
  ASSUME Inv, NEW h \in Handlers, handlers[h].at \in Asking
  PROVE  /\ handlers[h].sale \in Sales
         /\ handlers[h].sale = "other" => attempt.provider = "BPM"
         /\ bank["own"].money # "NONE"
         /\ bank[handlers[h].sale].money \in Money
  BY DEF Inv, Exchange, TypeOK, SaleRow, Busy, Asking

LEMMA VerifyStep ==
  ASSUME Inv, NEW h \in Handlers, NEW code, NEW answered, Verify(h, code, answered)
  PROVE  Inv'
  <1> DEFINE p == attempt.provider
             v == attempt.amount
             s == handlers[h].sale
             before == bank[s].money
             after == MoneyAfterVerify(before, code)
  <1>1. handlers[h].at = "verify" /\ code \in VerifyCodes(p, before) /\ MoneyMoves(s, after)
    BY DEF Verify
  <1>2. /\ bank["own"].money # "NONE" /\ s \in Sales /\ before \in Money
        /\ s = "other" => p = "BPM"
    BY <1>1, AsksAbout DEF Asking
  <1>3. /\ p \in Providers /\ v \in Nat
        /\ bank["own"].charged = Asked(p, v)
    BY <1>2, Charged
  <1>4. UNCHANGED <<gateways, attempt, credits>>
    BY DEF Verify
  <1>5. PICK stage \in {"unknown", "fail", "settle", "record"} :
           /\ GoTo(h, stage)
           /\ stage = "settle" => p = "BPM"
           /\ stage = "record" =>
                /\ p # "BPM" /\ Verified(p, code)
                /\ v \in PaidAmounts(p, v, bank[s].charged)
    <2>1. CASE ~answered /\ GoTo(h, "unknown")
      BY <2>1
    <2>2. CASE answered /\ ~Verified(p, code) /\ GoTo(h, "fail")
      BY <2>2
    <2>3. CASE Verified(p, code) /\ p = "BPM" /\ GoTo(h, "settle")
      BY <2>3
    <2>4. CASE /\ Verified(p, code) /\ p # "BPM"
               /\ \E paid \in PaidAmounts(p, v, bank[s].charged) : Judge(h, paid)
      BY <2>4 DEF Judge, AmountMatches
    <2>5. QED
      BY <2>1, <2>2, <2>3, <2>4 DEF Verify
  <1>6. /\ handlers' \in [Handlers -> Handler]
        /\ handlers'[h].at = stage /\ handlers'[h].job = handlers[h].job
        /\ handlers'[h].sale = s
        /\ \A k \in Handlers \ {h} : handlers'[k] = handlers[k]
    BY <1>5, Moves DEF Inv, Busy
  <1> HIDE DEF p, v, s, before
  <1>7. /\ after \in {before, "CONFIRMED"} /\ after \in Money
        /\ after # before => before = "PAID"
        /\ Verified(p, code) => after \in Kept
    BY <1>1, <1>2, <1>3, VerifyEffect
  <1> HIDE DEF after
  <1>8. /\ bank' \in [Sales -> SaleRow]
        /\ bank'[s].money = after
        /\ \A t \in Sales : bank'[t].charged = bank[t].charged
        /\ \A t \in Sales \ {s} : bank'[t] = bank[t]
    BY <1>1, <1>2, <1>7, SaleMoves DEF Inv
  <1>9. \A t \in Sales : bank'[t] = bank[t] \/ bank'[t].money = "CONFIRMED"
    <2>1. after = before => bank'[s] = bank[s]
      BY <1>2, <1>8 DEF before, SaleRow, Inv, TypeOK
    <2>2. QED
      BY <1>7, <1>8, <2>1
  <1>10. ASSUME NEW t \in Sales, Safe(t) PROVE Safe(t)'
    <2>1. bank'[t].money = bank[t].money
      <3>1. bank[t].money # "PAID"
        BY <1>10 DEF Safe
      <3>2. QED
        BY <1>7, <1>8, <3>1 DEF before
    <2>2. QED
      BY <1>4, <1>8, <1>10, <2>1 DEF Safe, Sales
  <1>11. \A t \in Sales : bank'[t].money \in {"SETTLED", "REVERSED"} => p = "BPM"
    BY <1>9 DEF Inv, Exchange, p
  <1>12. /\ bank'["own"].money # "NONE"
         /\ bank'["own"].charged = bank["own"].charged
         /\ bank'["other"].money # "NONE" => p = "BPM"
    <2>1. bank["other"].money # "NONE" => p = "BPM"
      BY DEF Inv, Exchange, p
    <2>2. QED
      BY <1>2, <1>7, <1>8, <1>9, <2>1 DEF Sales
  <1>13. \A t : stage = "record" /\ t = s => Safe(t)'
    <2> SUFFICES ASSUME stage = "record" PROVE \A t : t = s => Safe(t)'
      OBVIOUS
    <2>1. p # "BPM" /\ s = "own"
      BY <1>2, <1>5 DEF Sales
    <2>2. Verified(p, code) /\ v \in PaidAmounts(p, v, Asked(p, v))
      BY <1>3, <1>5, <2>1
    <2>3. Asked(p, v) = v
      BY <1>3, <2>1, <2>2, PaidIsCharged
    <2>4. after = "CONFIRMED"
      BY <1>2, <1>7, <1>8, <1>11, <2>1, <2>2 DEF Kept
    <2>5. attempt'.provider = p /\ attempt'.amount = v
      BY <1>4 DEF p, v
    <2>6. QED
      BY <1>2, <1>3, <1>8, <2>1, <2>3, <2>4, <2>5 DEF Safe
  <1>14. stage \notin {"return", "verify", "reverse", "inquire"}
    OBVIOUS
  <1>15. QED
    BY <1>2, <1>4, <1>5, <1>6, <1>8, <1>10, <1>11, <1>12, <1>13, <1>14, MoneyStep
    DEF p, Asking

\* The two ends of a conversation with BPM: the money of the sale becomes SETTLED,
\* which it stays, or a confirmation is undone.
LEMMA SettleStep ==
  ASSUME Inv, NEW h \in Handlers, Settle(h) \/ Reverse(h)
  PROVE  Inv'
  <1> DEFINE s == handlers[h].sale
  <1>1. handlers[h].at \in {"settle", "reverse"} /\ UNCHANGED <<gateways, attempt, credits>>
    BY DEF Settle, Reverse
  <1>2. /\ bank["own"].money # "NONE" /\ s \in Sales /\ attempt.provider = "BPM"
        /\ bank[s].money \in Money
    <2>1. attempt.provider = "BPM"
      BY <1>1 DEF Inv, Exchange
    <2>2. QED
      BY <1>1, <2>1, AsksAbout DEF Asking
  <1>3. PICK stage \in {"record", "fail", "reverse", "unknown"} :
          /\ GoTo(h, stage)
          /\ \/ MoneyMoves(s, "SETTLED")
             \/ UNCHANGED bank /\ stage # "record"
             \/ MoneyMoves(s, "REVERSED") /\ stage # "record" /\ bank[s].money = "CONFIRMED"
    <2>1. CASE Settle(h)
      BY <2>1 DEF Settle, Judge
    <2>2. CASE Reverse(h)
      BY <2>2 DEF Reverse
    <2>3. QED
      BY <2>1, <2>2
  <1>4. /\ handlers' \in [Handlers -> Handler]
        /\ handlers'[h].at = stage /\ handlers'[h].job = handlers[h].job
        /\ handlers'[h].sale = s
        /\ \A k \in Handlers \ {h} : handlers'[k] = handlers[k]
    BY <1>3, Moves DEF Inv, Busy
  <1> HIDE DEF s
  <1>5. /\ bank' \in [Sales -> SaleRow]
        /\ \A t \in Sales : bank'[t].charged = bank[t].charged
        /\ \A t \in Sales \ {s} : bank'[t] = bank[t]
        /\ \/ bank'[s].money = "SETTLED"
           \/ bank' = bank /\ stage # "record"
           \/ bank'[s].money = "REVERSED" /\ stage # "record" /\ bank[s].money = "CONFIRMED"
    <2>1. TypeOK /\ {"SETTLED", "REVERSED"} \subseteq Money
      BY DEF Inv, Money, Kept
    <2>2. CASE MoneyMoves(s, "SETTLED")
      BY <1>2, <2>1, <2>2, SaleMoves
    <2>3. CASE UNCHANGED bank /\ stage # "record"
      BY <2>1, <2>3 DEF TypeOK
    <2>4. CASE MoneyMoves(s, "REVERSED") /\ stage # "record" /\ bank[s].money = "CONFIRMED"
      BY <1>2, <2>1, <2>4, SaleMoves
    <2>5. QED
      BY <1>3, <2>2, <2>3, <2>4
  <1>6. ASSUME NEW t \in Sales, Safe(t) PROVE Safe(t)'
    BY <1>1, <1>2, <1>5, <1>6 DEF Safe, Sales
  <1>7. \A t : stage = "record" /\ t = s => Safe(t)'
    <2>1. bank["own"].charged = attempt.amount
      BY <1>2, Charged DEF Asked, BpmAsked
    <2>2. QED
      BY <1>1, <1>2, <1>5, <2>1 DEF Safe, Sales
  <1>8. bank'["own"].money # "NONE" /\ bank'["own"].charged = bank["own"].charged
    BY <1>2, <1>5 DEF Sales
  <1>9. QED
    BY <1>1, <1>2, <1>3, <1>4, <1>5, <1>6, <1>7, <1>8, MoneyStep

\* Which providers' inquiries fail a payment.
LEMMA InquireEffect ==
  ASSUME Inv, NEW h \in Handlers, Inquire(h)
  PROVE  /\ handlers[h].at = "inquire" /\ UNCHANGED <<gateways, attempt, bank, credits>>
         /\ \/ GoTo(h, "record") \/ Done(h)
            \/ /\ GoTo(h, "fail")
               /\ attempt.provider = "ZARINPAL" \/ bank["own"].money \notin Kept
  <1>1. handlers[h].at = "inquire" /\ UNCHANGED <<gateways, attempt, bank, credits>>
    BY DEF Inquire
  <1>2. attempt.provider \in AllProviders
    BY <1>1, Charged, ExchangeAssumption DEF Inv, Exchange, Busy
  <1>3. PICK answer \in InquiryAnswers(attempt.provider, bank["own"].money) :
          CASE answer = "VERIFIED" -> GoTo(h, "record")
            [] answer = "FAILED"   -> GoTo(h, "fail")
            [] answer = "UNKNOWN"  -> Done(h)
    BY DEF Inquire
  <1>4. /\ answer \in {"VERIFIED", "FAILED", "UNKNOWN"}
        /\ answer = "FAILED" => attempt.provider = "ZARINPAL" \/ bank["own"].money \notin Kept
    BY <1>2
    DEF InquiryAnswers, AllProviders, ZarinpalInquiry, SepInquiry, BpmInquiry,
        PasargadInquiry, SadadInquiry, ZibalInquiry, Taken
  <1>5. \/ GoTo(h, "record") \/ Done(h)
        \/ GoTo(h, "fail") /\ answer = "FAILED"
    BY <1>3, <1>4
  <1>6. QED
    BY <1>1, <1>4, <1>5

\* What does not talk to the provider.
LEMMA QuietStep ==
  ASSUME Inv, NEW h \in Handlers,
         \/ (\E named \in Sales : BeginCallback(h, named)) \/ MarkReturned(h) \/ RequestLost(h) \/ RecordFailed(h)
         \/ RecordUnknown(h) \/ RecordVerified(h) \/ BeginInquiry(h) \/ Inquire(h)
         \/ Dies(h)
  PROVE  Inv'
  <1>1. ASSUME NEW named \in Sales, BeginCallback(h, named) PROVE Inv'
    <2>1. /\ SaleAsked(attempt.provider, named) \in Sales
          /\ SaleAsked(attempt.provider, named) = "other" => attempt.provider = "BPM"
      BY DEF SaleAsked, Sales
    <2>2. /\ handlers' \in [Handlers -> Handler]
          /\ handlers'[h].at = "return"
          /\ handlers'[h].sale = SaleAsked(attempt.provider, named)
          /\ \A k \in Handlers \ {h} : handlers'[k] = handlers[k]
      BY <1>1, <2>1 DEF BeginCallback, Inv, TypeOK, Idle, Handler
    <2>3. QED
      BY <1>1, <2>1, <2>2, Quiet DEF BeginCallback, Inv, TypeOK
  <1>2. CASE MarkReturned(h) \/ RequestLost(h)
    <2>1. PICK stage \in {"verify", "unknown"} :
            GoTo(h, stage) /\ handlers[h].at \in Asking /\ handlers[h].at \in Busy
      BY <1>2 DEF MarkReturned, RequestLost, Busy, Asking
    <2>2. /\ handlers' \in [Handlers -> Handler]
          /\ handlers'[h].at = stage /\ handlers'[h].sale = handlers[h].sale
          /\ \A k \in Handlers \ {h} : handlers'[k] = handlers[k]
      BY <2>1, Moves DEF Inv, Busy
    <2>3. /\ bank["own"].money # "NONE"
          /\ handlers[h].sale \in Sales
          /\ handlers[h].sale = "other" => attempt.provider = "BPM"
      BY <2>1, AsksAbout DEF Asking
    <2>4. /\ UNCHANGED <<gateways, bank, credits>>
          /\ attempt' \in AttemptRow
          /\ attempt'.provider = attempt.provider /\ attempt'.amount = attempt.amount
          /\ attempt'.status # "ABSENT" \/ UNCHANGED attempt
          /\ handlers[h].at \in Busy \/ UNCHANGED attempt
      BY <1>2 DEF MarkReturned, RequestLost, SetStatus, Inv, TypeOK, AttemptRow, Busy
    <2>5. QED
      BY <2>1, <2>2, <2>3, <2>4, Quiet DEF Inv, TypeOK, Asking
  <1>3. CASE RecordFailed(h) \/ RecordUnknown(h) \/ Dies(h)
    <2>1. /\ handlers' \in [Handlers -> Handler]
          /\ handlers'[h].at = "idle"
          /\ \A k \in Handlers \ {h} : handlers'[k] = handlers[k]
      BY <1>3, Ends DEF RecordFailed, RecordUnknown, Dies, Inv, Idle
    <2>2. /\ UNCHANGED <<gateways, bank, credits>>
          /\ attempt' \in AttemptRow
          /\ attempt'.provider = attempt.provider /\ attempt'.amount = attempt.amount
          /\ attempt'.status # "ABSENT" \/ UNCHANGED attempt
          /\ handlers[h].at \in Busy \/ UNCHANGED attempt
      BY <1>3
      DEF RecordFailed, RecordUnknown, Dies, SetStatus, Inv, TypeOK, AttemptRow, Busy
    <2>3. bank["own"].money = "NONE" => UNCHANGED attempt
      BY <2>2 DEF Inv, Exchange
    <2>4. QED
      BY <2>1, <2>2, <2>3, Quiet DEF Inv, TypeOK, Busy, Asking
  <1>4. CASE RecordVerified(h)
    <2>1. /\ handlers' \in [Handlers -> Handler]
          /\ handlers'[h].at = "idle"
          /\ \A k \in Handlers \ {h} : handlers'[k] = handlers[k]
      BY <1>4, Ends DEF RecordVerified, Inv, Idle
    <2>2. /\ UNCHANGED <<gateways, bank>>
          /\ attempt' \in AttemptRow
          /\ attempt'.provider = attempt.provider /\ attempt'.amount = attempt.amount
          /\ attempt'.status # "ABSENT"
      BY <1>4 DEF RecordVerified, SetStatus, Inv, TypeOK, AttemptRow
    <2>3. credits' \subseteq Credit
      BY <1>4 DEF RecordVerified, Inv, TypeOK, Handler, Credit
    <2>4. \A c \in credits' : c.job = "callback" => c \in credits \/ Safe(c.sale)
      BY <1>4 DEF RecordVerified, Inv, Entered
    <2>5. bank["own"].money # "NONE"
      BY <1>4 DEF RecordVerified, Inv, Exchange, Busy
    <2>6. QED
      BY <2>1, <2>2, <2>3, <2>4, <2>5, Quiet DEF Busy, Asking
  <1>5. CASE BeginInquiry(h)
    <2>1. /\ handlers' \in [Handlers -> Handler]
          /\ handlers'[h].at = "inquire" /\ handlers'[h].job = "inquiry"
          /\ \A k \in Handlers \ {h} : handlers'[k] = handlers[k]
      BY <1>5 DEF BeginInquiry, Inv, TypeOK, Idle, Handler
    <2>2. bank["own"].money # "NONE"
      BY <1>5 DEF BeginInquiry, Inv, Exchange
    <2>3. QED
      BY <1>5, <2>1, <2>2, Quiet DEF BeginInquiry, Inv, TypeOK, Asking
  <1>6. CASE Inquire(h)
    <2>1. /\ handlers[h].at = "inquire" /\ UNCHANGED <<gateways, attempt, bank, credits>>
          /\ GoTo(h, "record") \/ GoTo(h, "fail") \/ Done(h)
      BY <1>6, InquireEffect
    <2>2. bank["own"].money # "NONE" /\ handlers[h].job = "inquiry"
      BY <2>1 DEF Inv, Exchange, Busy
    <2>3. /\ handlers' \in [Handlers -> Handler]
          /\ handlers'[h].at \in {"record", "fail", "idle"}
          /\ handlers'[h].at = "record" => handlers'[h].job = "inquiry"
          /\ \A k \in Handlers \ {h} : handlers'[k] = handlers[k]
      BY <2>1, <2>2, Moves, Ends DEF Inv, Idle, Busy
    <2>4. QED
      BY <2>1, <2>2, <2>3, Quiet DEF Inv, TypeOK, Asking
  <1>7. QED
    BY <1>1, <1>2, <1>3, <1>4, <1>5, <1>6

LEMMA InvStep == Inv /\ [Next]_vars => Inv'
  <1>1. ASSUME Inv, UNCHANGED vars PROVE Inv'
    BY <1>1
    DEF vars, Inv, TypeOK, Exchange, Entered, Safe
  <1>2. ASSUME Inv, NEW h \in Handlers, Converse(h) PROVE Inv'
    BY <1>2, VerifyStep, SettleStep, QuietStep DEF Converse
  <1>3. QED
    BY <1>1, <1>2, ConfigureStep, InitiateStep, OutsideStep DEF Next

LEMMA InvAlways == Spec => []Inv
  BY InvInit, InvStep, PTL DEF Spec

\* Every row and handler keeps its type.
THEOREM TypeCorrect == Spec => []TypeOK
  <1>1. Inv => TypeOK
    BY DEF Inv
  <1>2. QED
    BY <1>1, InvAlways, PTL

\* What a callback of handleGatewayCallback enters as paid rests on a sale whose
\* money the company has and keeps, however many callbacks, inquiries, lost answers
\* and crashes there were: at five providers the attempt's own, to the rial, at BPM
\* the one the callback named (verifyTransaction of bpm.ts).
THEOREM CreditsAreKept == Spec => []CreditedIsKept
  <1>1. Inv => CreditedIsKept
    BY DEF Inv, Entered, Safe, CreditedIsKept
  <1>2. QED
    BY <1>1, InvAlways, PTL

\* The partial unique index and the deactivation of the others leave one active
\* gateway, however the panel's requests interleave (POST gateways).
THEOREM GatewaysStaySingle == Spec => []OneActiveGateway
  <1>1. Init => OneActiveGateway
    BY DEF Init, OneActiveGateway, ActiveGateways, NoGateway
  <1>2. OneActiveGateway /\ TypeOK /\ [Next]_vars => OneActiveGateway'
    <2> SUFFICES ASSUME OneActiveGateway, TypeOK, [Next]_vars PROVE OneActiveGateway'
      OBVIOUS
    <2>1. CASE UNCHANGED gateways
      BY <2>1 DEF OneActiveGateway, ActiveGateways
    <2>2. ASSUME NEW h \in Handlers, NEW g \in Gateways, NEW p \in Providers,
                 CommitActivate(h, g, p)
          PROVE  OneActiveGateway'
      <3>1. \A k \in Gateways \ {g} : ~gateways'[k].active
        BY <2>2 DEF CommitActivate, NoOtherActive, ActiveGateways, TypeOK, GatewayRow
      <3>2. QED
        BY <3>1 DEF OneActiveGateway, ActiveGateways
    <2>3. ASSUME NEW g \in Gateways,
                 TestConnection(g) \/ \E p \in Providers : CreateInactive(g, p)
          PROVE  OneActiveGateway'
      <3>1. \A k \in Gateways : gateways'[k].active = gateways[k].active
        BY <2>3 DEF TestConnection, CreateInactive, TypeOK, GatewayRow
      <3>2. QED
        BY <3>1 DEF OneActiveGateway, ActiveGateways
    <2>4. QED
      BY <2>1, <2>2, <2>3
      DEF Next, Configure, Converse, vars, Initiate, DriverPays, OtherPays, OtherMoves,
          BeginActivate, BeginCallback, MarkReturned, Verify, Settle, Reverse, RequestLost, RecordFailed,
          RecordUnknown, RecordVerified, BeginInquiry, Inquire, Dies
  <1>3. QED
    BY <1>1, <1>2, TypeCorrect, PTL DEF Spec

\* A payment that the provider keeps is refused in the known ways only: losing
\* an answer and asking again never turns a payment into a failure.
THEOREM RefusalsAreKnown == Spec => RefusedIsNotKept
  <1> DEFINE Step == \A h \in Handlers :
                       /\ handlers[h].at # "fail"
                       /\ handlers'[h].at = "fail"
                       /\ bank'["own"].money \in Kept
                       => KnownRefusals(h)
  <1>1. Inv /\ [Next]_vars => [Step]_vars
    <2> SUFFICES ASSUME Inv, Next, NEW h \in Handlers,
                        handlers[h].at # "fail", handlers'[h].at = "fail",
                        bank'["own"].money \in Kept
                 PROVE  KnownRefusals(h)
      OBVIOUS
    <2>1. ASSUME NEW code, NEW answered, Verify(h, code, answered) PROVE KnownRefusals(h)
      <3> DEFINE p == attempt.provider
                 v == attempt.amount
                 s == handlers[h].sale
                 before == bank[s].money
      <3>1. /\ handlers[h].at = "verify" /\ code \in VerifyCodes(p, before)
            /\ MoneyMoves(s, MoneyAfterVerify(before, code))
        BY <2>1 DEF Verify
      <3>2. /\ bank["own"].money # "NONE" /\ s \in Sales /\ before \in Money
            /\ s = "other" => p = "BPM"
        BY <3>1, AsksAbout DEF Asking
      <3>3. /\ p \in Providers /\ v \in Nat
            /\ bank["own"].charged = Asked(p, v)
        BY <3>2, Charged
      <3>4. /\ MoneyAfterVerify(before, code) \in Money
            /\ ~Verified(p, code) /\ MoneyAfterVerify(before, code) \in Kept
                 => p \notin {"ZARINPAL", "ZIBAL"} /\ before \in Kept
        <4> HIDE DEF p, before
        <4>1. QED
          BY <3>1, <3>2, <3>3, VerifyEffect
      <3>5. IF s = "own" THEN MoneyAfterVerify(before, code) \in Kept
                         ELSE p = "BPM" /\ bank["own"].money \in Kept
        BY <3>1, <3>2, <3>4, SaleMoves DEF Inv, Sales
      <3>6. CASE ~Verified(p, code)
        BY <3>4, <3>5, <3>6 DEF KnownRefusals
      <3>7. CASE /\ Verified(p, code) /\ p # "BPM"
                 /\ \E paid \in PaidAmounts(p, v, bank[s].charged) : Judge(h, paid)
        <4>1. PICK paid \in PaidAmounts(p, v, Asked(p, v)) : Judge(h, paid)
          BY <3>2, <3>3, <3>7 DEF Sales
        <4>2. handlers'[h].at = "fail" => paid # v
          BY <4>1, Moves DEF Judge, AmountMatches, Inv, Busy
        <4>3. QED
          BY <3>3, <3>7, <4>1, <4>2, PaidIsCharged DEF KnownRefusals
      <3>8. CASE GoTo(h, "unknown") \/ GoTo(h, "settle")
        BY <3>8, Moves DEF Inv, Busy
      <3>9. QED
        BY <2>1, <3>6, <3>7, <3>8 DEF Verify
    <2>2. CASE Settle(h)
      <3>1. handlers[h].at = "settle" /\ bank["own"].money # "NONE" /\ attempt.provider = "BPM"
        BY <2>2 DEF Settle, Inv, Exchange, Busy
      <3>2. \A paid \in BpmPaid(attempt.amount) : Judge(h, paid) => GoTo(h, "record")
        BY DEF BpmPaid, Judge, AmountMatches
      <3>3. GoTo(h, "record") \/ GoTo(h, "unknown") \/ GoTo(h, "reverse")
        BY <2>2, <3>2 DEF Settle
      <3>4. QED
        BY <3>3, Moves DEF Inv, Busy
    <2>3. CASE Reverse(h)
      BY <2>3 DEF Reverse, KnownRefusals
    <2>4. CASE Inquire(h)
      <3>1. handlers[h].at = "inquire" /\ UNCHANGED bank
        BY <2>4 DEF Inquire
      <3>2. handlers[h].job = "inquiry"
        BY <3>1 DEF Inv, Exchange
      <3>3. CASE GoTo(h, "record") \/ Done(h)
        BY <3>3, Moves, Ends DEF Inv, Idle, Busy
      <3>4. CASE attempt.provider = "ZARINPAL" \/ bank["own"].money \notin Kept
        BY <3>1, <3>2, <3>4 DEF KnownRefusals
      <3>5. QED
        BY <2>4, <3>3, <3>4, InquireEffect
    <2>5. ASSUME handlers'[h] = handlers[h] PROVE FALSE
      BY <2>5
    <2>6. ASSUME NEW k \in Handlers, k # h, Converse(k) PROVE FALSE
      <3>1. CASE \E code, answered : Verify(k, code, answered)
        BY <2>6, <3>1 DEF Verify, Judge, GoTo, Inv, TypeOK
      <3>2. CASE Settle(k) \/ Reverse(k)
        BY <2>6, <3>2 DEF Settle, Reverse, Judge, GoTo, Inv, TypeOK
      <3>3. CASE Inquire(k)
        BY <2>6, <3>3, InquireEffect DEF GoTo, Done, Inv, TypeOK
      <3>4. CASE \/ MarkReturned(k) \/ RequestLost(k) \/ BeginInquiry(k)
                 \/ \E named \in Sales : BeginCallback(k, named)
        BY <2>6, <3>4
        DEF MarkReturned, RequestLost, BeginCallback, BeginInquiry, GoTo, Inv, TypeOK
      <3>5. CASE RecordFailed(k) \/ RecordUnknown(k) \/ RecordVerified(k) \/ Dies(k)
        BY <2>6, <3>5
        DEF RecordFailed, RecordUnknown, RecordVerified, Dies, Done, Inv, TypeOK
      <3>6. QED
        BY <2>6, <3>1, <3>2, <3>3, <3>4, <3>5 DEF Converse
    <2>7. ASSUME Converse(h) PROVE KnownRefusals(h)
      <3>1. CASE MarkReturned(h) \/ RequestLost(h)
        <4>1. GoTo(h, "verify") \/ GoTo(h, "unknown")
          BY <3>1 DEF MarkReturned, RequestLost
        <4>2. QED
          BY <4>1, Moves DEF Inv, Busy
      <3>2. CASE RecordFailed(h) \/ RecordUnknown(h) \/ RecordVerified(h) \/ Dies(h)
        BY <3>2, Ends DEF RecordFailed, RecordUnknown, RecordVerified, Dies, Inv, Idle
      <3>3. CASE BeginInquiry(h) \/ \E named \in Sales : BeginCallback(h, named)
        BY <3>3 DEF BeginCallback, BeginInquiry, Inv, TypeOK, Idle, Handler
      <3>4. QED
        BY <2>1, <2>2, <2>3, <2>4, <2>7, <3>1, <3>2, <3>3 DEF Converse
    <2>8. ASSUME Configure PROVE FALSE
      <3>1. \/ handlers' = handlers
            \/ \E k \in Handlers : BeginActivate(k) \/ Done(k)
        BY <2>8 DEF Configure, CommitActivate, CreateInactive, TestConnection
      <3>2. ASSUME NEW k \in Handlers, BeginActivate(k)
            PROVE  handlers'[h] = handlers[h] \/ handlers'[h].at = "create"
        BY <3>2 DEF BeginActivate, Inv, TypeOK, Idle
      <3>3. ASSUME NEW k \in Handlers, Done(k)
            PROVE  handlers'[h] = handlers[h] \/ handlers'[h].at = "idle"
        BY <3>3, Ends DEF Inv, Idle
      <3>4. QED
        BY <3>1, <3>2, <3>3
    <2>9. QED
      BY <2>5, <2>6, <2>7, <2>8 DEF Next, Initiate, DriverPays, OtherPays, OtherMoves
  <1>2. QED
    BY <1>1, InvAlways, PTL DEF Spec, RefusedIsNotKept

=============================================================================
