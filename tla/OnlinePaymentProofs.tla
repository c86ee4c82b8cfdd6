------------------------- MODULE OnlinePaymentProofs -------------------------
(***************************************************************************)
(* Theorems about OnlinePayment, for any number of attempts, handlers,     *)
(* payments and amounts.                                                   *)
(***************************************************************************)
EXTENDS OnlinePayment, TLAPS

Stages == {"idle", "expire", "create", "request", "return", "ask", "fail",
           "unknown", "record", "submit", "commit"}

Handler ==
  [at: Stages, job: {"initiate", "callback", "inquiry", None},
   attempt: Attempts \cup {None}, amountId: AmountIds \cup {None}]

AttemptRow ==
  [status: AttemptStatus \cup {"ABSENT"}, amountId: AmountIds \cup {None}, old: BOOLEAN]

\* What the argument needs of the types.
Shape ==
  /\ calls = [c \in Callers |-> calls[c]]
  /\ payments = [p \in PaymentIds |-> payments[p]]
  /\ amounts = [a \in AmountIds |->
                  [value |-> amounts[a].value, isCurrent |-> amounts[a].isCurrent]]
  /\ attempts \in [Attempts -> AttemptRow]
  /\ bank \in [Attempts -> {"UNKNOWN", "OFFERED", "PAID"}]
  /\ handlers \in [Callers -> Handler]
  /\ paidBy \in [PaymentIds -> Attempts \cup {None}]

\* The driver was sent to the provider, and perhaps paid there.
Reached(t, B) == B[t] \in {"OFFERED", "PAID"}

\* What a confirmation says of the attempt; BPM's says nothing of its own money.
Backed(t, B) == Reached(t, B) /\ (t \notin BpmAttempts => B[t] = "PAID")

\* The provider knows of no attempt that has no row; a row has an amount; an answer
\* is missing only of an attempt that reached the provider.
AttemptKnown(t) ==
  /\ attempts[t].status = "ABSENT" => bank[t] = "UNKNOWN"
  /\ attempts[t].status # "ABSENT" => attempts[t].amountId \in StoredAmounts
  /\ attempts[t].status = "UNKNOWN" => Reached(t, bank)

Answering == {"return", "ask", "unknown"}

Confirmed == {"record", "submit", "commit"}

\* What a handler at its stage knows of its attempt, for the attempts A, the bank
\* B, the stored amounts S and the payments' attempts P.
Knows(h, A, B, S, P) ==
  /\ h.at \notin {"idle", "create"} =>
       h.attempt \in Attempts /\ A[h.attempt].status # "ABSENT"
  /\ h.at \in {"expire", "create"} => h.amountId \in S
  /\ h.at = "request" => B[h.attempt] = "UNKNOWN"
  /\ h.at \in Answering => Reached(h.attempt, B)
  /\ h.at \in Confirmed => Backed(h.attempt, B)
  /\ h.at = "commit" => \E p \in PaymentIds : P[p] = h.attempt

\* A submission in flight is for the amount of its attempt.
Submits(c) ==
  calls[c].op = "submit" =>
    /\ handlers[c].at = "submit"
    /\ calls[c].amount = amounts[attempts[handlers[c].attempt].amountId].value

Known ==
  /\ Shape
  /\ \A t \in Attempts : AttemptKnown(t)
  /\ \A c \in Callers : Knows(handlers[c], attempts, bank, StoredAmounts, paidBy)
  /\ \A c, d \in Callers :
       /\ handlers[c].at = "request" /\ handlers[d].at = "request"
       /\ handlers[c].attempt = handlers[d].attempt
       => c = d
  /\ \A c \in Callers : Submits(c)
  /\ \A p \in PaymentIds : paidBy[p] # None => payments[p] # NoPayment

Inv == Known /\ OneOpenAttempt /\ CreditedWasPaid

LEMMA InvInit == Init => Inv
  <1> SUFFICES ASSUME Init PROVE Inv
    OBVIOUS
  <1>1. /\ calls = [c \in Callers |-> Idle]
        /\ payments = [p \in PaymentIds |-> NoPayment]
        /\ attempts = [t \in Attempts |-> NoAttempt]
        /\ bank = [t \in Attempts |-> "UNKNOWN"]
        /\ handlers = [c \in Callers |-> NoHandler]
        /\ paidBy = [p \in PaymentIds |-> None]
    BY DEF Init, InitSettlement, InitGateway
  <1>2. amounts = [a \in AmountIds |->
                     [value |-> amounts[a].value, isCurrent |-> amounts[a].isCurrent]]
    BY DEF Init, InitSettlement
  <1>3. NoHandler \in Handler /\ NoAttempt \in AttemptRow
    BY DEF NoHandler, Handler, Stages, NoAttempt, AttemptRow
  <1>4. Shape
    BY <1>1, <1>2, <1>3 DEF Shape
  <1>5. Known
    BY <1>1, <1>4
    DEF Known, AttemptKnown, NoAttempt, Knows, Answering, Confirmed, NoHandler, Submits,
        Idle
  <1>6. OneOpenAttempt
    BY <1>1 DEF OneOpenAttempt, OpenAttempts, Open, NoAttempt
  <1>7. CreditedWasPaid
    BY <1>1 DEF CreditedWasPaid, NoPayment
  <1>8. QED
    BY <1>5, <1>6, <1>7 DEF Inv

-----------------------------------------------------------------------------
(* The rows only grow.                                                     *)

\* What every step does to the attempts, the bank, the amounts and the payments.
Grows ==
  /\ attempts' \in [Attempts -> AttemptRow]
  /\ \A t \in Attempts : attempts[t].status # "ABSENT" =>
       /\ attempts'[t].status # "ABSENT"
       /\ attempts'[t].amountId = attempts[t].amountId
  /\ bank' \in [Attempts -> {"UNKNOWN", "OFFERED", "PAID"}]
  /\ \A t \in Attempts : /\ bank[t] = "PAID" => bank'[t] = "PAID"
                         /\ Reached(t, bank) => Reached(t, bank')
  /\ amounts' = [a \in AmountIds |->
                   [value |-> amounts'[a].value, isCurrent |-> amounts'[a].isCurrent]]
  /\ \A a \in StoredAmounts : amounts'[a].value = amounts[a].value
  /\ paidBy' \in [PaymentIds -> Attempts \cup {None}]
  /\ \A p \in PaymentIds : paidBy[p] # None => paidBy'[p] = paidBy[p]

LEMMA StoredStay == ASSUME Grows PROVE StoredAmounts \subseteq StoredAmounts'
  BY DEF Grows, StoredAmounts

LEMMA KnowsStays ==
  ASSUME Grows, NEW h \in Handler,
         Knows(h, attempts, bank, StoredAmounts, paidBy),
         h.at = "request" => bank'[h.attempt] = "UNKNOWN"
  PROVE  Knows(h, attempts', bank', StoredAmounts', paidBy')
  <1>1. h.at \notin {"idle", "create"} =>
          h.attempt \in Attempts /\ attempts'[h.attempt].status # "ABSENT"
    BY DEF Knows, Grows
  <1>2. h.at \in {"expire", "create"} => h.amountId \in StoredAmounts'
    BY StoredStay DEF Knows
  <1>3. /\ h.at \in Answering => Reached(h.attempt, bank')
        /\ h.at \in Confirmed => Backed(h.attempt, bank')
    BY DEF Knows, Grows, Answering, Confirmed, Backed
  <1>4. h.at = "commit" => \E p \in PaymentIds : paidBy'[p] = h.attempt
    <2> SUFFICES ASSUME h.at = "commit" PROVE \E p \in PaymentIds : paidBy'[p] = h.attempt
      OBVIOUS
    <2>1. PICK p \in PaymentIds : paidBy[p] = h.attempt
      BY DEF Knows
    <2>2. h.attempt # None
      BY GatewayAssumption DEF Knows
    <2>3. QED
      BY <2>1, <2>2 DEF Grows
  <1>5. QED
    BY <1>1, <1>2, <1>3, <1>4 DEF Knows

\* The payments that were confirmed stay so.
LEMMA CreditsStay ==
  ASSUME Inv, Grows, NEW p \in PaymentIds, payments[p].method = "GATEWAY"
  PROVE  /\ paidBy'[p] # None
         /\ Backed(paidBy'[p], bank')
         /\ payments[p].amount = amounts'[attempts'[paidBy'[p]].amountId].value
  <1> DEFINE t == paidBy[p]
  <1>1. /\ t \in Attempts /\ t # None /\ Backed(t, bank)
        /\ payments[p].amount = amounts[attempts[t].amountId].value
    BY GatewayAssumption DEF Inv, Known, Shape, CreditedWasPaid, Backed, Reached
  <1>2. attempts[t].status # "ABSENT" /\ attempts[t].amountId \in StoredAmounts
    BY <1>1 DEF Inv, Known, AttemptKnown, Backed, Reached
  <1>3. paidBy'[p] = t
    BY <1>1 DEF Grows
  <1>4. Backed(t, bank') /\ attempts'[t].amountId = attempts[t].amountId
    BY <1>1, <1>2 DEF Grows, Backed
  <1>5. amounts'[attempts[t].amountId].value = amounts[attempts[t].amountId].value
    BY <1>2 DEF Grows
  <1>6. QED
    BY <1>1, <1>3, <1>4, <1>5

-----------------------------------------------------------------------------
(* One handler moves.                                                      *)

\* Handler c is somewhere else and the others are where they were.
Moved(c) ==
  /\ handlers' \in [Callers -> Handler]
  /\ \A d \in Callers \ {c} : handlers'[d] = handlers[d]
  /\ calls' = [d \in Callers |-> calls'[d]]
  /\ \A d \in Callers \ {c} : calls'[d] = calls[d]

LEMMA GoToMoves ==
  ASSUME Known, NEW c \in Callers, NEW stage \in Stages, GoTo(c, stage)
  PROVE  /\ handlers' \in [Callers -> Handler]
         /\ handlers'[c] = [handlers[c] EXCEPT !.at = stage]
         /\ handlers'[c].at = stage
         /\ handlers'[c].job = handlers[c].job
         /\ handlers'[c].attempt = handlers[c].attempt
         /\ handlers'[c].amountId = handlers[c].amountId
         /\ \A d \in Callers \ {c} : handlers'[d] = handlers[d]
  <1>1. handlers[c] \in Handler
    BY DEF Known, Shape
  <1>2. [handlers[c] EXCEPT !.at = stage] \in Handler
    BY <1>1 DEF Handler
  <1>3. QED
    BY <1>1, <1>2 DEF GoTo, Known, Shape, Handler

LEMMA DoneMoves ==
  ASSUME Known, NEW c \in Callers, Done(c)
  PROVE  /\ handlers' \in [Callers -> Handler]
         /\ handlers'[c] = NoHandler
         /\ \A d \in Callers \ {c} : handlers'[d] = handlers[d]
  BY DEF Known, Shape, Done, NoHandler, Handler, Stages

\* A handler that is where it was knows what it knew.
LEMMA OthersKeep ==
  ASSUME Inv, Grows, NEW d \in Callers,
         handlers'[d] = handlers[d], calls'[d] = calls[d],
         handlers[d].at = "request" => bank'[handlers[d].attempt] = "UNKNOWN"
  PROVE  /\ Knows(handlers'[d], attempts', bank', StoredAmounts', paidBy')
         /\ Submits(d)'
  <1>1. Knows(handlers'[d], attempts', bank', StoredAmounts', paidBy')
    <2>1. PICK h \in Handler : h = handlers[d]
      BY DEF Inv, Known, Shape
    <2>2. h = handlers'[d]
      BY <2>1
    <2>3. Knows(h, attempts, bank, StoredAmounts, paidBy)
      BY <2>1 DEF Inv, Known
    <2>4. Knows(h, attempts', bank', StoredAmounts', paidBy')
      BY <2>1, <2>3, KnowsStays
    <2>5. QED
      BY <2>2, <2>4
  <1>2. Submits(d)'
    <2>1. SUFFICES ASSUME calls[d].op = "submit"
                   PROVE  /\ handlers[d].at = "submit"
                          /\ calls[d].amount =
                               amounts'[attempts'[handlers[d].attempt].amountId].value
      BY DEF Submits
    <2> DEFINE t == handlers[d].attempt
    <2>2. /\ handlers[d].at = "submit"
          /\ calls[d].amount = amounts[attempts[t].amountId].value
      BY <2>1 DEF Inv, Known, Submits
    <2>3. t \in Attempts /\ attempts[t].status # "ABSENT"
      BY <2>2 DEF Inv, Known, Knows
    <2>4. attempts'[t].amountId = attempts[t].amountId
      BY <2>3 DEF Grows
    <2>5. attempts[t].amountId \in StoredAmounts
      BY <2>3 DEF Inv, Known, AttemptKnown
    <2>6. QED
      BY <2>2, <2>4, <2>5 DEF Grows
  <1>3. QED
    BY <1>1, <1>2

LEMMA StepKeepsInv ==
  ASSUME Inv, NEW c \in Callers, Moved(c), Grows, OneOpenAttempt',
         UNCHANGED <<payments, paidBy>>,
         \A t \in Attempts : AttemptKnown(t)',
         Knows(handlers'[c], attempts', bank', StoredAmounts', paidBy'),
         Submits(c)',
         \A d \in Callers \ {c} :
           handlers[d].at = "request" => /\ bank'[handlers[d].attempt] = "UNKNOWN"
                                         /\ handlers'[c].at = "request" =>
                                              handlers'[c].attempt # handlers[d].attempt
  PROVE  Inv'
  <1>1. Shape'
    BY DEF Moved, Grows, Inv, Known, Shape
  <1>2. ASSUME NEW d \in Callers
        PROVE  /\ Knows(handlers'[d], attempts', bank', StoredAmounts', paidBy')
               /\ Submits(d)'
    BY OthersKeep DEF Moved
  <1>3. \A d, e \in Callers :
          /\ handlers'[d].at = "request" /\ handlers'[e].at = "request"
          /\ handlers'[d].attempt = handlers'[e].attempt
          => d = e
    BY DEF Moved, Inv, Known
  <1>4. \A p \in PaymentIds : paidBy'[p] # None => payments'[p] # NoPayment
    BY DEF Inv, Known
  <1>5. CreditedWasPaid'
    BY CreditsStay DEF CreditedWasPaid, Backed, Reached
  <1>6. QED
    BY <1>1, <1>2, <1>3, <1>4, <1>5 DEF Inv, Known

\* Steps that touch no row at all.
LEMMA NothingGrows ==
  ASSUME Known, UNCHANGED <<attempts, bank, amounts, paidBy>>
  PROVE  Grows /\ StoredAmounts' = StoredAmounts
  BY DEF Known, Shape, Grows, StoredAmounts

LEMMA RowsUntouched ==
  ASSUME Inv, NEW c \in Callers, Moved(c),
         UNCHANGED <<attempts, bank, amounts, payments, paidBy>>,
         Knows(handlers'[c], attempts, bank, StoredAmounts, paidBy),
         handlers'[c].at # "request",
         Submits(c)'
  PROVE  Inv'
  <1>1. Grows /\ StoredAmounts' = StoredAmounts
    BY NothingGrows DEF Inv
  <1>2. OneOpenAttempt'
    BY DEF Inv, OneOpenAttempt, OpenAttempts
  <1>3. \A t \in Attempts : AttemptKnown(t)'
    BY <1>1 DEF Inv, Known, AttemptKnown
  <1>4. Knows(handlers'[c], attempts', bank', StoredAmounts', paidBy')
    BY <1>1
  <1>5. \A d \in Callers \ {c} :
          handlers[d].at = "request" => bank'[handlers[d].attempt] = "UNKNOWN"
    BY DEF Inv, Known, Knows
  <1>6. QED
    BY <1>1, <1>2, <1>3, <1>4, <1>5, StepKeepsInv

\* A status is written: SetStatus and the end of a callback.
LEMMA StatusWritten ==
  ASSUME Inv, NEW t \in Attempts, NEW status \in AttemptStatus,
         attempts[t].status # "ABSENT", UniqueOpen(t, status),
         status = "UNKNOWN" => Reached(t, bank),
         attempts' = [attempts EXCEPT ![t].status = status],
         UNCHANGED <<bank, amounts, paidBy>>
  PROVE  /\ Grows
         /\ OneOpenAttempt'
         /\ \A u \in Attempts : AttemptKnown(u)'
         /\ StoredAmounts' = StoredAmounts
         /\ \A u \in Attempts : attempts'[u].amountId = attempts[u].amountId
  <1>1. attempts' \in [Attempts -> AttemptRow]
    <2>1. attempts \in [Attempts -> AttemptRow]
      BY DEF Inv, Known, Shape
    <2>2. [attempts[t] EXCEPT !.status = status] \in AttemptRow
      BY <2>1 DEF AttemptRow
    <2>3. QED
      BY <2>1, <2>2
  <1>2. /\ attempts'[t].status = status /\ attempts'[t].amountId = attempts[t].amountId
        /\ \A u \in Attempts \ {t} : attempts'[u] = attempts[u]
    BY DEF Inv, Known, Shape, AttemptRow
  <1>3. status # "ABSENT"
    BY DEF AttemptStatus, Open
  <1>4. Grows
    BY <1>1, <1>2, <1>3 DEF Grows, Inv, Known, Shape
  <1>5. StoredAmounts' = StoredAmounts
    BY DEF StoredAmounts
  <1>6. \A u \in Attempts : AttemptKnown(u)'
    BY <1>2, <1>3, <1>5 DEF AttemptKnown, Inv, Known
  <1>7. OneOpenAttempt'
    BY <1>2 DEF UniqueOpen, OneOpenAttempt, OpenAttempts, Inv
  <1>8. QED
    BY <1>2, <1>4, <1>5, <1>6, <1>7

\* A handler that writes a status and goes on, or ends.
LEMMA MarkStep ==
  ASSUME Inv, NEW c \in Callers, NEW status \in AttemptStatus,
         handlers[c].at \in Stages \ {"idle", "create", "submit"},
         UniqueOpen(handlers[c].attempt, status),
         status = "UNKNOWN" => handlers[c].at = "unknown",
         attempts' = [attempts EXCEPT ![handlers[c].attempt].status = status],
         \/ Done(c)
         \/ GoTo(c, "ask") /\ handlers[c].at = "return"
         \/ GoTo(c, "create") /\ handlers[c].at = "expire"
         \/ GoTo(c, "submit") /\ handlers[c].at = "record",
         UNCHANGED <<waybill, calls, settlementVars, bank, paidBy>>
  PROVE  Inv'
  <1> DEFINE t == handlers[c].attempt
  <1>1. /\ t \in Attempts /\ attempts[t].status # "ABSENT"
        /\ status = "UNKNOWN" => Reached(t, bank)
    BY DEF Inv, Known, Knows, Answering
  <1>2. UNCHANGED <<amounts, payments, bank, paidBy, calls>>
    BY DEF settlementVars
  <1>3. UniqueOpen(t, status) /\ attempts' = [attempts EXCEPT ![t].status = status]
    OBVIOUS
  <1>4. /\ Grows
        /\ OneOpenAttempt'
        /\ \A u \in Attempts : AttemptKnown(u)'
        /\ StoredAmounts' = StoredAmounts
    <2> HIDE DEF t
    <2> QED
      BY <1>1, <1>2, <1>3, StatusWritten
  <1>5. calls[c].op # "submit"
    BY DEF Inv, Known, Submits
  <1>6. /\ handlers' \in [Callers -> Handler]
        /\ \A d \in Callers \ {c} : handlers'[d] = handlers[d]
        /\ handlers'[c].at # "request"
        /\ \/ handlers'[c] = NoHandler
           \/ /\ handlers'[c].at \in {"ask", "create", "submit"}
              /\ handlers'[c].at = "ask" => handlers[c].at = "return"
              /\ handlers'[c].at = "create" => handlers[c].at = "expire"
              /\ handlers'[c].at = "submit" => handlers[c].at = "record"
              /\ handlers'[c].attempt = t /\ handlers'[c].amountId = handlers[c].amountId
    <2>1. CASE Done(c)
      BY <2>1, DoneMoves DEF Inv, NoHandler
    <2>2. ASSUME NEW stage \in {"ask", "create", "submit"}, GoTo(c, stage),
                 stage = "ask" => handlers[c].at = "return",
                 stage = "create" => handlers[c].at = "expire",
                 stage = "submit" => handlers[c].at = "record"
          PROVE  /\ handlers' \in [Callers -> Handler]
                 /\ \A d \in Callers \ {c} : handlers'[d] = handlers[d]
                 /\ handlers'[c].at = stage
                 /\ handlers'[c].attempt = t
                 /\ handlers'[c].amountId = handlers[c].amountId
      BY <2>2, GoToMoves DEF Inv, Stages
    <2>3. QED
      BY <2>1, <2>2
  <1>7. Knows(handlers'[c], attempts', bank', StoredAmounts', paidBy')
    BY <1>1, <1>2, <1>4, <1>6
    DEF Knows, NoHandler, Answering, Confirmed, Inv, Known, Grows
  <1>8. Moved(c)
    BY <1>2, <1>6 DEF Moved, Inv, Known, Shape
  <1>9. Submits(c)'
    BY <1>2, <1>5 DEF Submits
  <1>10. \A d \in Callers \ {c} :
           handlers[d].at = "request" => bank'[handlers[d].attempt] = "UNKNOWN"
    BY <1>2 DEF Inv, Known, Knows
  <1>11. QED
    BY <1>2, <1>4, <1>6, <1>7, <1>8, <1>9, <1>10, StepKeepsInv

-----------------------------------------------------------------------------
(* Initiations.                                                            *)

LEMMA Begun ==
  ASSUME Inv, NEW c \in Callers, NEW job \in Ops, NEW stage \in Stages,
         NEW t \in Attempts \cup {None}, NEW a \in AmountIds \cup {None},
         job \in {"initiate", "callback", "inquiry"},
         BeginJob(c, job, stage, t, a), UNCHANGED calls
  PROVE  /\ Moved(c)
         /\ handlers'[c] = [at |-> stage, job |-> job, attempt |-> t, amountId |-> a]
         /\ Submits(c)'
  <1>1. [at |-> stage, job |-> job, attempt |-> t, amountId |-> a] \in Handler
    BY DEF Handler
  <1>2. /\ handlers' \in [Callers -> Handler]
        /\ handlers'[c] = [at |-> stage, job |-> job, attempt |-> t, amountId |-> a]
        /\ \A d \in Callers \ {c} : handlers'[d] = handlers[d]
    BY <1>1 DEF BeginJob, Inv, Known, Shape
  <1>3. calls[c].op = "idle"
    BY DEF BeginJob, Idle
  <1>4. QED
    BY <1>2, <1>3 DEF Moved, Submits, Inv, Known, Shape

LEMMA BeginInitiateStep ==
  ASSUME Inv, NEW c \in Callers, BeginInitiate(c)
  PROVE  Inv'
  <1>1. UNCHANGED <<calls, attempts, bank, amounts, payments, paidBy>>
    BY DEF BeginInitiate, settlementVars
  <1>2. CurrentAmount \in StoredAmounts /\ CurrentAmount \in AmountIds
    BY DEF BeginInitiate, CurrentAmount, CurrentAmounts, StoredAmounts
  <1>3. CASE BeginJob(c, "initiate", "create", None, CurrentAmount)
    <2>1. /\ Moved(c) /\ Submits(c)'
          /\ handlers'[c] = [at |-> "create", job |-> "initiate", attempt |-> None,
                             amountId |-> CurrentAmount]
      <3>1. PICK a \in AmountIds : a = CurrentAmount
        BY <1>2
      <3>2. BeginJob(c, "initiate", "create", None, a) /\ "initiate" \in Ops
        BY <1>3, <3>1 DEF BeginJob
      <3>3. QED
        BY <1>1, <3>1, <3>2, Begun DEF Stages
    <2>2. Knows(handlers'[c], attempts, bank, StoredAmounts, paidBy)
      BY <1>2, <2>1 DEF Knows, Answering, Confirmed
    <2>3. QED
      BY <1>1, <2>1, <2>2, RowsUntouched
  <1>4. ASSUME NEW t \in OpenAttempts,
               BeginJob(c, "initiate", "expire", t, CurrentAmount)
        PROVE  Inv'
    <2>1. /\ Moved(c) /\ Submits(c)'
          /\ handlers'[c] = [at |-> "expire", job |-> "initiate", attempt |-> t,
                             amountId |-> CurrentAmount]
      <3>1. PICK a \in AmountIds : a = CurrentAmount
        BY <1>2
      <3>2. BeginJob(c, "initiate", "expire", t, a) /\ "initiate" \in Ops
        BY <1>4, <3>1 DEF BeginJob
      <3>3. t \in Attempts
        BY DEF OpenAttempts
      <3>4. QED
        BY <1>1, <3>1, <3>2, <3>3, Begun DEF Stages
    <2>2. t \in Attempts /\ attempts[t].status # "ABSENT"
      BY DEF OpenAttempts, Open
    <2>3. Knows(handlers'[c], attempts, bank, StoredAmounts, paidBy)
      BY <1>2, <2>1, <2>2 DEF Knows, Answering, Confirmed
    <2>4. QED
      BY <1>1, <2>1, <2>3, RowsUntouched
  <1>5. QED
    BY <1>3, <1>4 DEF BeginInitiate

LEMMA CreateStep ==
  ASSUME Inv, NEW c \in Callers, NEW t \in Attempts, CreateAttempt(c, t)
  PROVE  Inv'
  <1> DEFINE a == handlers[c].amountId
             row == [status |-> "INITIATED", amountId |-> a, old |-> FALSE]
  <1>1. /\ handlers[c] \in Handler /\ handlers[c].at = "create"
        /\ a \in StoredAmounts /\ a \in AmountIds
    BY DEF CreateAttempt, Inv, Known, Shape, Knows, StoredAmounts
  <1>2. UNCHANGED <<calls, bank, amounts, payments, paidBy>>
    BY DEF CreateAttempt, settlementVars
  <1>3. attempts[t].status = "ABSENT" /\ bank[t] = "UNKNOWN"
    BY DEF CreateAttempt, NoAttempt, Inv, Known, AttemptKnown
  <1>4. row \in AttemptRow
    BY <1>1 DEF AttemptRow, AttemptStatus, Open
  <1>5. /\ attempts' \in [Attempts -> AttemptRow]
        /\ attempts'[t] = row
        /\ \A u \in Attempts \ {t} : attempts'[u] = attempts[u]
    BY <1>4 DEF CreateAttempt, Inv, Known, Shape
  <1>6. /\ handlers' \in [Callers -> Handler]
        /\ handlers'[c].at = "request" /\ handlers'[c].attempt = t
        /\ \A d \in Callers \ {c} : handlers'[d] = handlers[d]
    <2>1. [handlers[c] EXCEPT !.at = "request", !.attempt = t] \in Handler
      BY <1>1 DEF Handler, Stages
    <2>2. handlers' = [handlers EXCEPT
                         ![c] = [handlers[c] EXCEPT !.at = "request", !.attempt = t]]
      BY DEF CreateAttempt, Inv, Known, Shape
    <2>3. QED
      BY <1>1, <2>1, <2>2 DEF Inv, Known, Shape, Handler
  <1>7. Grows /\ StoredAmounts' = StoredAmounts
    BY <1>2, <1>3, <1>5 DEF Grows, StoredAmounts, Inv, Known, Shape
  <1>8. OneOpenAttempt'
    BY <1>5 DEF CreateAttempt, UniqueOpen, Open, OneOpenAttempt, OpenAttempts, Inv
  <1>9. \A u \in Attempts : AttemptKnown(u)'
    BY <1>1, <1>2, <1>5, <1>7 DEF AttemptKnown, Inv, Known
  <1>10. Knows(handlers'[c], attempts', bank', StoredAmounts', paidBy')
    BY <1>2, <1>3, <1>5, <1>6 DEF Knows, Answering, Confirmed
  <1>11. Moved(c) /\ Submits(c)'
    <2>1. calls[c].op # "submit"
      BY <1>1 DEF Inv, Known, Submits
    <2>2. QED
      BY <1>2, <1>6, <2>1 DEF Moved, Submits, Inv, Known, Shape
  <1>12. \A d \in Callers \ {c} :
           handlers[d].at = "request" => /\ bank'[handlers[d].attempt] = "UNKNOWN"
                                         /\ handlers[d].attempt # t
    BY <1>2, <1>3 DEF Inv, Known, Knows
  <1>13. QED
    BY <1>2, <1>6, <1>7, <1>8, <1>9, <1>10, <1>11, <1>12, StepKeepsInv

LEMMA AcceptedStep ==
  ASSUME Inv, NEW c \in Callers, RequestAccepted(c)
  PROVE  Inv'
  <1> DEFINE t == handlers[c].attempt
  <1>1. handlers[c].at = "request" /\ t \in Attempts
        /\ attempts[t].status # "ABSENT" /\ bank[t] = "UNKNOWN"
    BY DEF RequestAccepted, Inv, Known, Knows
  <1>2. UNCHANGED <<calls, attempts, amounts, payments, paidBy>> /\ Done(c)
        /\ bank' = [bank EXCEPT ![t] = "OFFERED"]
    BY DEF RequestAccepted, settlementVars
  <1>3. /\ handlers' \in [Callers -> Handler]
        /\ handlers'[c] = NoHandler
        /\ \A d \in Callers \ {c} : handlers'[d] = handlers[d]
    BY <1>2, DoneMoves DEF Inv
  <1>4. Grows /\ StoredAmounts' = StoredAmounts
    BY <1>1, <1>2 DEF Grows, StoredAmounts, Inv, Known, Shape, Reached
  <1>5. OneOpenAttempt'
    BY <1>2 DEF OneOpenAttempt, OpenAttempts, Inv
  <1>6. \A u \in Attempts : AttemptKnown(u)'
    BY <1>1, <1>2, <1>4 DEF AttemptKnown, Inv, Known, Shape, Reached
  <1>7. Knows(handlers'[c], attempts', bank', StoredAmounts', paidBy')
    BY <1>3 DEF Knows, Answering, Confirmed, NoHandler
  <1>8. Moved(c) /\ Submits(c)'
    <2>1. calls[c].op # "submit"
      BY <1>1 DEF Inv, Known, Submits
    <2>2. QED
      BY <1>2, <1>3, <2>1 DEF Moved, Submits, Inv, Known, Shape
  <1>9. \A d \in Callers \ {c} :
          handlers[d].at = "request" => bank'[handlers[d].attempt] = "UNKNOWN"
    <2> SUFFICES ASSUME NEW d \in Callers \ {c}, handlers[d].at = "request"
                 PROVE  bank'[handlers[d].attempt] = "UNKNOWN"
      OBVIOUS
    <2>1. handlers[d].attempt # t /\ handlers[d].attempt \in Attempts
          /\ bank[handlers[d].attempt] = "UNKNOWN"
      BY <1>1 DEF Inv, Known, Knows
    <2>2. QED
      BY <1>2, <2>1 DEF Inv, Known, Shape
  <1>10. handlers'[c].at # "request"
    BY <1>3 DEF NoHandler
  <1>11. QED
    BY <1>2, <1>4, <1>5, <1>6, <1>7, <1>8, <1>9, <1>10, StepKeepsInv

-----------------------------------------------------------------------------
(* Callbacks and inquiries.                                                *)

LEMMA BeginAnswerStep ==
  ASSUME Inv, NEW c \in Callers, NEW t \in Attempts,
         BeginCallback(c, t) \/ BeginInquiry(c, t)
  PROVE  Inv'
  <1>1. UNCHANGED <<calls, attempts, bank, amounts, payments, paidBy>>
    BY DEF BeginCallback, BeginInquiry, settlementVars
  <1>2. attempts[t].status # "ABSENT" /\ Reached(t, bank)
    BY DEF BeginCallback, BeginInquiry, Inv, Known, Shape, AttemptKnown, Reached
  <1>3. PICK job \in {"callback", "inquiry"}, stage \in {"return", "ask"} :
          BeginJob(c, job, stage, t, None)
    BY DEF BeginCallback, BeginInquiry
  <1>4. job \in Ops
    BY <1>3 DEF BeginJob
  <1>5. /\ Moved(c) /\ Submits(c)'
        /\ handlers'[c] = [at |-> stage, job |-> job, attempt |-> t, amountId |-> None]
    BY <1>1, <1>3, <1>4, Begun DEF Stages
  <1>6. Knows(handlers'[c], attempts, bank, StoredAmounts, paidBy)
    BY <1>2, <1>5 DEF Knows, Answering, Confirmed
  <1>7. QED
    BY <1>1, <1>5, <1>6, RowsUntouched

LEMMA AskStep ==
  ASSUME Inv, NEW c \in Callers, NEW answer \in {"VERIFIED", "FAILED", "UNKNOWN"},
         Ask(c, answer)
  PROVE  Inv'
  <1> DEFINE t == handlers[c].attempt
  <1>1. UNCHANGED <<calls, attempts, bank, amounts, payments, paidBy>>
    BY DEF Ask, settlementVars
  <1>2. /\ handlers[c].at = "ask" /\ t \in Attempts /\ attempts[t].status # "ABSENT"
        /\ Reached(t, bank) /\ (answer = "VERIFIED" => Backed(t, bank))
    BY DEF Ask, Inv, Known, Knows, Answering, Backed, Reached
  <1>3. calls[c].op # "submit"
    BY <1>2 DEF Inv, Known, Submits
  <1>4. \/ Done(c)
        \/ \E stage \in {"record", "fail", "unknown"} :
             GoTo(c, stage) /\ (stage = "record" => Backed(t, bank))
    BY <1>2 DEF Ask, AfterAnswer
  <1>5. CASE Done(c)
    <2>1. Moved(c) /\ handlers'[c] = NoHandler
      BY <1>1, <1>5, DoneMoves DEF Moved, Inv, Known, Shape
    <2>2. /\ Knows(handlers'[c], attempts, bank, StoredAmounts, paidBy)
          /\ handlers'[c].at # "request"
      BY <2>1 DEF Knows, Answering, Confirmed, NoHandler
    <2>3. Submits(c)'
      BY <1>1, <1>3 DEF Submits
    <2>4. QED
      BY <1>1, <2>1, <2>2, <2>3, RowsUntouched
  <1>6. ASSUME NEW stage \in {"record", "fail", "unknown"}, GoTo(c, stage),
               stage = "record" => Backed(t, bank)
        PROVE  Inv'
    <2>1. /\ handlers' \in [Callers -> Handler]
          /\ handlers'[c].at = stage /\ handlers'[c].attempt = t
          /\ \A d \in Callers \ {c} : handlers'[d] = handlers[d]
      BY <1>6, GoToMoves DEF Inv, Stages
    <2>2. Moved(c)
      BY <1>1, <2>1 DEF Moved, Inv, Known, Shape
    <2>3. /\ Knows(handlers'[c], attempts, bank, StoredAmounts, paidBy)
          /\ handlers'[c].at # "request"
      BY <1>2, <1>6, <2>1 DEF Knows, Answering, Confirmed
    <2>4. Submits(c)'
      BY <1>1, <1>3 DEF Submits
    <2>5. QED
      BY <1>1, <2>2, <2>3, <2>4, RowsUntouched
  <1>7. QED
    BY <1>4, <1>5, <1>6

LEMMA RecordVerifiedStep ==
  ASSUME Inv, NEW c \in Callers, RecordVerified(c)
  PROVE  Inv'
  <1> DEFINE t == handlers[c].attempt
  <1>1. UNCHANGED <<waybill, calls, settlementVars, bank, paidBy>>
        /\ handlers[c].at = "record" /\ GoTo(c, "submit")
    BY DEF RecordVerified
  <1>2. CASE SetStatus(t, "VERIFIED")
    BY <1>1, <1>2, MarkStep DEF SetStatus, AttemptStatus, Stages
  <1>3. CASE UNCHANGED attempts
    <2>1. t \in Attempts /\ attempts[t].status # "ABSENT" /\ Backed(t, bank)
      BY <1>1 DEF Inv, Known, Knows, Confirmed
    <2>2. /\ handlers' \in [Callers -> Handler]
          /\ handlers'[c].at = "submit" /\ handlers'[c].attempt = t
          /\ \A d \in Callers \ {c} : handlers'[d] = handlers[d]
      BY <1>1, GoToMoves DEF Inv, Stages
    <2>3. Moved(c)
      BY <1>1, <2>2 DEF Moved, Inv, Known, Shape
    <2>4. Knows(handlers'[c], attempts, bank, StoredAmounts, paidBy)
      BY <2>1, <2>2 DEF Knows, Answering, Confirmed
    <2>5. calls[c].op # "submit"
      BY <1>1 DEF Inv, Known, Submits
    <2>6. Submits(c)'
      BY <1>1, <2>5 DEF Submits
    <2>7. QED
      BY <1>1, <1>3, <2>2, <2>3, <2>4, <2>6, RowsUntouched DEF settlementVars
  <1>4. QED
    BY <1>2, <1>3 DEF RecordVerified

LEMMA BeginCreditStep ==
  ASSUME Inv, NEW c \in Callers, BeginCredit(c)
  PROVE  Inv'
  <1> DEFINE t == handlers[c].attempt
  <1>1. /\ handlers[c].at = "submit"
        /\ UNCHANGED <<attempts, bank, handlers, paidBy, amounts, payments>>
        /\ BeginSubmit(c, "GATEWAY", attempts[t].amountId)
    BY DEF BeginCredit, BeginSubmit, gatewayVars, settlementVars
  <1>2. PICK call : /\ Start(c, call)
                    /\ call.amount = amounts[attempts[t].amountId].value
    BY <1>1 DEF BeginSubmit
  <1>3. /\ calls' = [d \in Callers |-> calls'[d]]
        /\ calls'[c] = call
        /\ \A d \in Callers \ {c} : calls'[d] = calls[d]
    BY <1>2 DEF Start, Inv, Known, Shape
  <1>4. Moved(c)
    BY <1>1, <1>3 DEF Moved, Inv, Known, Shape
  <1>5. Submits(c)'
    BY <1>1, <1>2, <1>3 DEF Submits
  <1>6. Knows(handlers'[c], attempts, bank, StoredAmounts, paidBy)
    BY <1>1 DEF Inv, Known
  <1>7. QED
    BY <1>1, <1>4, <1>5, <1>6, RowsUntouched

LEMMA CreditStep ==
  ASSUME Inv, NEW c \in Callers, NEW p \in PaymentIds, Credit(c, p)
  PROVE  Inv'
  <1> DEFINE t == handlers[c].attempt
  <1>1. /\ handlers[c].at = "submit" /\ calls[c].op = "submit"
        /\ payments[p] = NoPayment
        /\ UNCHANGED <<attempts, bank, amounts>>
        /\ paidBy' = [paidBy EXCEPT ![p] = t]
        /\ calls' = [calls EXCEPT ![c] = Idle]
    BY DEF Credit, CommitSubmit, Finish
  <1>2. PICK row : /\ payments' = [payments EXCEPT ![p] = row]
                   /\ row.amount = calls[c].amount
                   /\ row.status \in {"APPROVED", "SUBMITTED"}
    <2> DEFINE call == calls[c]
               row == [status |-> IF call.method = "GATEWAY" THEN "APPROVED"
                                  ELSE "SUBMITTED",
                       method |-> call.method, amount |-> call.amount,
                       amountId |-> call.amountId, reviewedBy |-> None, version |-> 1]
    <2>1. payments' = [payments EXCEPT ![p] = row]
      BY DEF Credit, CommitSubmit
    <2>2. row.amount = calls[c].amount /\ row.status \in {"APPROVED", "SUBMITTED"}
      OBVIOUS
    <2>3. QED
      BY <2>1, <2>2
  <1>3. /\ t \in Attempts /\ t # None
        /\ attempts[t].status # "ABSENT" /\ Backed(t, bank)
        /\ calls[c].amount = amounts[attempts[t].amountId].value
    BY <1>1, GatewayAssumption DEF Inv, Known, Knows, Confirmed, Submits
  <1>4. paidBy[p] = None
    BY <1>1 DEF Inv, Known
  <1>5. /\ paidBy' \in [PaymentIds -> Attempts \cup {None}]
        /\ paidBy'[p] = t
        /\ \A q \in PaymentIds \ {p} : paidBy'[q] = paidBy[q]
    BY <1>1, <1>3 DEF Inv, Known, Shape
  <1>6. /\ payments' = [q \in PaymentIds |-> payments'[q]]
        /\ payments'[p] = row
        /\ \A q \in PaymentIds \ {p} : payments'[q] = payments[q]
    BY <1>2 DEF Inv, Known, Shape
  <1>7. Grows /\ StoredAmounts' = StoredAmounts
    BY <1>1, <1>4, <1>5 DEF Grows, StoredAmounts, Inv, Known, Shape
  <1>8. /\ handlers' \in [Callers -> Handler]
        /\ \A d \in Callers \ {c} : handlers'[d] = handlers[d]
        /\ \/ handlers'[c] = NoHandler
           \/ handlers'[c].at = "commit" /\ handlers'[c].attempt = t
    <2>1. GoTo(c, "commit") \/ Done(c)
      BY DEF Credit
    <2>2. QED
      BY <2>1, GoToMoves, DoneMoves DEF Inv, Stages
  <1>9. Shape'
    <2>1. calls' = [d \in Callers |-> calls'[d]]
      BY <1>1 DEF Inv, Known, Shape
    <2>2. QED
      BY <1>5, <1>6, <1>7, <1>8, <2>1 DEF Shape, Grows
  <1>10. /\ Knows(handlers'[c], attempts', bank', StoredAmounts', paidBy')
         /\ handlers'[c].at # "request"
    BY <1>1, <1>3, <1>5, <1>8 DEF Knows, NoHandler, Answering, Confirmed
  <1>11. Submits(c)'
    BY <1>1 DEF Submits, Idle, Inv, Known, Shape
  <1>12. ASSUME NEW d \in Callers
         PROVE  /\ Knows(handlers'[d], attempts', bank', StoredAmounts', paidBy')
                /\ Submits(d)'
    <2>1. CASE d = c
      BY <1>10, <1>11, <2>1
    <2>2. CASE d # c
      <3>1. handlers'[d] = handlers[d] /\ calls'[d] = calls[d]
        BY <1>1, <1>8, <2>2 DEF Inv, Known, Shape
      <3>2. handlers[d].at = "request" => bank'[handlers[d].attempt] = "UNKNOWN"
        BY <1>1 DEF Inv, Known, Knows
      <3>3. QED
        BY <1>7, <3>1, <3>2, OthersKeep
    <2>3. QED
      BY <2>1, <2>2
  <1>13. \A u \in Attempts : AttemptKnown(u)'
    BY <1>1, <1>7 DEF AttemptKnown, Inv, Known
  <1>14. \A d, e \in Callers :
           /\ handlers'[d].at = "request" /\ handlers'[e].at = "request"
           /\ handlers'[d].attempt = handlers'[e].attempt
           => d = e
    BY <1>8, <1>10 DEF Inv, Known
  <1>15. \A q \in PaymentIds : paidBy'[q] # None => payments'[q] # NoPayment
    BY <1>2, <1>5, <1>6 DEF Inv, Known, NoPayment
  <1>16. CreditedWasPaid'
    <2> SUFFICES ASSUME NEW q \in PaymentIds, payments'[q].method = "GATEWAY"
                 PROVE  /\ paidBy'[q] # None
                        /\ Backed(paidBy'[q], bank')
                        /\ payments'[q].amount =
                             amounts'[attempts'[paidBy'[q]].amountId].value
      BY DEF CreditedWasPaid, Backed, Reached
    <2>1. CASE q = p
      BY <1>1, <1>2, <1>3, <1>5, <1>6, <2>1
    <2>2. CASE q # p
      <3>1. payments'[q] = payments[q]
        BY <1>6, <2>2
      <3>2. payments[q].method = "GATEWAY"
        BY <3>1
      <3>3. QED
        BY <1>7, <3>1, <3>2, CreditsStay
    <2>3. QED
      BY <2>1, <2>2
  <1>17. OneOpenAttempt'
    BY <1>1 DEF Inv, OneOpenAttempt, OpenAttempts
  <1>18. QED
    BY <1>9, <1>12, <1>13, <1>14, <1>15, <1>16, <1>17 DEF Inv, Known

LEMMA GiveUpStep ==
  ASSUME Inv, NEW c \in Callers, GiveUp(c)
  PROVE  Inv'
  <1>1. /\ UNCHANGED <<attempts, bank, amounts, payments, paidBy>>
        /\ Done(c) /\ calls' = [calls EXCEPT ![c] = Idle]
    BY DEF GiveUp, Finish, settlementVars
  <1>2. /\ calls' = [d \in Callers |-> calls'[d]]
        /\ calls'[c] = Idle
        /\ \A d \in Callers \ {c} : calls'[d] = calls[d]
    BY <1>1 DEF Inv, Known, Shape
  <1>3. Moved(c) /\ handlers'[c] = NoHandler
    BY <1>1, <1>2, DoneMoves DEF Moved, Inv
  <1>4. /\ Knows(handlers'[c], attempts, bank, StoredAmounts, paidBy)
        /\ handlers'[c].at # "request"
    BY <1>3 DEF Knows, Answering, Confirmed, NoHandler
  <1>5. Submits(c)'
    BY <1>2 DEF Submits, Idle
  <1>6. QED
    BY <1>1, <1>3, <1>4, <1>5, RowsUntouched

LEMMA GatewayStepKeepsInv ==
  ASSUME Inv, NEW c \in Callers, GatewayStep(c)
  PROVE  Inv'
  <1>1. CASE ExpireOld(c)
    BY <1>1, MarkStep DEF ExpireOld, SetStatus, AttemptStatus, Stages
  <1>2. CASE RequestRefused(c)
    BY <1>2, MarkStep DEF RequestRefused, SetStatus, AttemptStatus, Stages
  <1>3. CASE MarkReturned(c)
    BY <1>3, MarkStep DEF MarkReturned, SetStatus, AttemptStatus, Open, Stages
  <1>4. CASE RecordFailed(c)
    BY <1>4, MarkStep DEF RecordFailed, SetStatus, AttemptStatus, Stages
  <1>5. CASE RecordUnknown(c)
    BY <1>5, MarkStep DEF RecordUnknown, SetStatus, AttemptStatus, Open, Stages
  <1>6. CASE CommitVerified(c)
    <2>1. UniqueOpen(handlers[c].attempt, "VERIFIED")
      BY DEF UniqueOpen, Open
    <2>2. QED
      BY <1>6, <2>1, MarkStep DEF CommitVerified, AttemptStatus, Stages
  <1>7. QED
    BY <1>1, <1>2, <1>3, <1>4, <1>5, <1>6, BeginInitiateStep, CreateStep, AcceptedStep,
       BeginAnswerStep, AskStep, RecordVerifiedStep, BeginCreditStep, CreditStep,
       GiveUpStep
    DEF GatewayStep

-----------------------------------------------------------------------------
(* The driver, the clock and the panel.                                    *)

LEMMA WorldStep ==
  ASSUME Inv, NEW t \in Attempts, Pay(t) \/ TwentyMinutesPass(t)
  PROVE  Inv'
  <1>1. UNCHANGED <<calls, handlers, amounts, payments, paidBy>>
    BY DEF Pay, TwentyMinutesPass, settlementVars
  <1>2. /\ attempts' \in [Attempts -> AttemptRow]
        /\ \A u \in Attempts : /\ attempts'[u].status = attempts[u].status
                               /\ attempts'[u].amountId = attempts[u].amountId
    <2>1. CASE Pay(t)
      BY <2>1 DEF Pay, Inv, Known, Shape
    <2>2. CASE TwentyMinutesPass(t)
      BY <2>2 DEF TwentyMinutesPass, Inv, Known, Shape, AttemptRow
    <2>3. QED
      BY <2>1, <2>2
  <1>3. /\ bank' \in [Attempts -> {"UNKNOWN", "OFFERED", "PAID"}]
        /\ \A u \in Attempts : /\ bank[u] = "PAID" => bank'[u] = "PAID"
                               /\ Reached(u, bank) => Reached(u, bank')
                               /\ bank[u] = "UNKNOWN" => bank'[u] = "UNKNOWN"
    <2>1. CASE Pay(t)
      BY <2>1 DEF Pay, Inv, Known, Shape, Reached
    <2>2. CASE TwentyMinutesPass(t)
      BY <2>2 DEF TwentyMinutesPass, Inv, Known, Shape, Reached
    <2>3. QED
      BY <2>1, <2>2
  <1>4. Grows /\ StoredAmounts' = StoredAmounts
    <2>1. StoredAmounts' = StoredAmounts
      BY <1>1 DEF StoredAmounts
    <2>2. /\ \A u \in Attempts : attempts[u].status # "ABSENT" =>
                 /\ attempts'[u].status # "ABSENT"
                 /\ attempts'[u].amountId = attempts[u].amountId
          /\ \A u \in Attempts : /\ bank[u] = "PAID" => bank'[u] = "PAID"
                                 /\ Reached(u, bank) => Reached(u, bank')
      BY <1>2, <1>3
    <2>3. /\ amounts' = [a \in AmountIds |->
                  [value |-> amounts'[a].value, isCurrent |-> amounts'[a].isCurrent]]
          /\ \A a \in StoredAmounts : amounts'[a].value = amounts[a].value
          /\ paidBy' \in [PaymentIds -> Attempts \cup {None}]
          /\ \A p \in PaymentIds : paidBy[p] # None => paidBy'[p] = paidBy[p]
      <3>1. amounts' = amounts /\ paidBy' = paidBy
        BY <1>1
      <3>2. amounts = [a \in AmountIds |->
                         [value |-> amounts[a].value, isCurrent |-> amounts[a].isCurrent]]
        BY DEF Inv, Known, Shape
      <3>3. paidBy \in [PaymentIds -> Attempts \cup {None}]
        BY DEF Inv, Known, Shape
      <3>4. amounts' = [a \in AmountIds |->
                  [value |-> amounts'[a].value, isCurrent |-> amounts'[a].isCurrent]]
        BY <3>1, <3>2, Zenon
      <3>5. QED
        BY <3>1, <3>3, <3>4
    <2>4. QED
      BY <1>2, <1>3, <2>1, <2>2, <2>3 DEF Grows
  <1>5. Shape'
    BY <1>1, <1>4 DEF Shape, Grows, Inv, Known
  <1>6. ASSUME NEW d \in Callers
        PROVE  /\ Knows(handlers'[d], attempts', bank', StoredAmounts', paidBy')
               /\ Submits(d)'
    <2>1. handlers[d].at = "request" => bank'[handlers[d].attempt] = "UNKNOWN"
      BY <1>3 DEF Inv, Known, Knows
    <2>2. QED
      BY <1>1, <1>4, <2>1, OthersKeep
  <1>7. \A u \in Attempts : AttemptKnown(u)'
    BY <1>2, <1>3, <1>4 DEF AttemptKnown, Inv, Known
  <1>8. CreditedWasPaid'
    BY <1>1, <1>4, CreditsStay DEF CreditedWasPaid, Backed, Reached
  <1>9. OneOpenAttempt'
    BY <1>2 DEF Inv, OneOpenAttempt, OpenAttempts
  <1>10. QED
    BY <1>1, <1>5, <1>6, <1>7, <1>8, <1>9 DEF Inv, Known

LEMMA PanelStepKeepsInv ==
  ASSUME Inv, NEW c \in Callers, PanelStep(c)
  PROVE  Inv'
  <1>1. UNCHANGED <<attempts, bank, handlers, paidBy>> /\ handlers[c] = NoHandler
    BY DEF PanelStep, gatewayVars
  <1>2. UNCHANGED payments
    BY DEF PanelStep, BeginCorrect, CommitCorrect, settlementVars
  <1>3. \/ UNCHANGED amounts
        \/ \E a \in AmountIds : CommitCorrect(c, a)
    BY DEF PanelStep, BeginCorrect, settlementVars
  <1>4. /\ amounts' = [a \in AmountIds |->
                         [value |-> amounts'[a].value, isCurrent |-> amounts'[a].isCurrent]]
        /\ \A a \in StoredAmounts : amounts'[a].value = amounts[a].value
    <2>1. CASE UNCHANGED amounts
      BY <2>1 DEF Inv, Known, Shape
    <2>2. ASSUME NEW n \in AmountIds, CommitCorrect(c, n)
          PROVE  /\ amounts' = [a \in AmountIds |->
                        [value |-> amounts'[a].value, isCurrent |-> amounts'[a].isCurrent]]
                 /\ \A a \in StoredAmounts : amounts'[a].value = amounts[a].value
      <3> DEFINE v == calls[c].amount
                 o == calls[c].oldAmount
      <3>1. /\ n \notin StoredAmounts
            /\ amounts' = [a \in AmountIds |->
                             IF a = n THEN [value |-> v, isCurrent |-> TRUE]
                             ELSE IF a = o THEN [amounts[a] EXCEPT !.isCurrent = FALSE]
                             ELSE amounts[a]]
        BY <2>2 DEF CommitCorrect
      <3>2. \A a \in AmountIds :
              amounts[a] = [value |-> amounts[a].value, isCurrent |-> amounts[a].isCurrent]
        BY DEF Inv, Known, Shape
      <3>3. ASSUME NEW a \in AmountIds
            PROVE  /\ amounts'[a] = [value |-> amounts'[a].value,
                                     isCurrent |-> amounts'[a].isCurrent]
                   /\ a \in StoredAmounts => amounts'[a].value = amounts[a].value
        <4>1. CASE a = n
          BY <3>1, <4>1
        <4>2. CASE a # n /\ a = o
          <5>1. amounts'[a] = [amounts[a] EXCEPT !.isCurrent = FALSE]
            BY <3>1, <4>2
          <5>2. amounts'[a] = [value |-> amounts[a].value, isCurrent |-> FALSE]
            BY <3>2, <5>1
          <5>3. QED
            BY <5>2
        <4>3. CASE a # n /\ a # o
          BY <3>1, <3>2, <4>3
        <4>4. QED
          BY <4>1, <4>2, <4>3
      <3>4. amounts' = [a \in AmountIds |-> amounts'[a]]
        BY <3>1
      <3>5. amounts' = [a \in AmountIds |->
                         [value |-> amounts'[a].value, isCurrent |-> amounts'[a].isCurrent]]
        <4> DEFINE g == [a \in AmountIds |->
                          [value |-> amounts'[a].value, isCurrent |-> amounts'[a].isCurrent]]
        <4>1. [a \in AmountIds |-> amounts'[a]] = g
          BY <3>3
        <4>2. QED
          BY <3>4, <4>1, Zenon
      <3>6. \A a \in StoredAmounts : amounts'[a].value = amounts[a].value
        BY <3>3 DEF StoredAmounts
      <3>7. QED
        BY <3>5, <3>6, Zenon
    <2>3. QED
      BY <1>3, <2>1, <2>2
  <1>5. Grows
    BY <1>1, <1>4 DEF Grows, Inv, Known, Shape
  <1>6. /\ calls' = [d \in Callers |-> calls'[d]]
        /\ calls'[c].op # "submit"
        /\ \A d \in Callers \ {c} : calls'[d] = calls[d]
    <2>1. (\E call : Start(c, call) /\ call.op # "submit") \/ Finish(c)
      <3>1. ASSUME NEW v, BeginCorrect(c, v)
            PROVE  \E call : Start(c, call) /\ call.op # "submit"
        <4>1. PICK x, y, z, u : Start(c, [op |-> "correct", amount |-> x, oldAmount |-> y,
                                          newPayment |-> z, newRelease |-> u])
          BY <3>1 DEF BeginCorrect
        <4>2. QED
          BY <4>1
      <3>2. ASSUME NEW x, NEW v, BeginShipment(c, x, v)
            PROVE  \E call : Start(c, call) /\ call.op # "submit"
        <4>1. PICK y : Start(c, [op |-> "shipment", target |-> x, seen |-> y,
                                 expectedVersion |-> v])
          BY <3>2 DEF BeginShipment
        <4>2. QED
          BY <4>1
      <3>3. ASSUME (\E a : CommitCorrect(c, a)) \/ CommitShipment(c) \/ Rollback(c)
            PROVE  Finish(c)
        BY <3>3 DEF CommitCorrect, CommitShipment, Rollback
      <3>4. QED
        BY <3>1, <3>2, <3>3 DEF PanelStep
    <2>2. QED
      BY <2>1 DEF Start, Finish, Idle, Inv, Known, Shape
  <1>7. Moved(c) /\ Submits(c)'
    BY <1>1, <1>6 DEF Moved, Submits, Inv, Known, Shape
  <1>8. /\ Knows(handlers'[c], attempts', bank', StoredAmounts', paidBy')
        /\ handlers'[c].at # "request"
    BY <1>1 DEF Knows, Answering, Confirmed, NoHandler
  <1>9. \A u \in Attempts : AttemptKnown(u)'
    BY <1>1, <1>5, StoredStay DEF AttemptKnown, Inv, Known
  <1>10. OneOpenAttempt'
    BY <1>1 DEF Inv, OneOpenAttempt, OpenAttempts
  <1>11. \A d \in Callers \ {c} :
           handlers[d].at = "request" => bank'[handlers[d].attempt] = "UNKNOWN"
    BY <1>1 DEF Inv, Known, Knows
  <1>12. QED
    BY <1>1, <1>2, <1>5, <1>7, <1>8, <1>9, <1>10, <1>11, StepKeepsInv

LEMMA InvStep == Inv /\ [Next]_vars => Inv'
  <1>1. ASSUME Inv, UNCHANGED vars PROVE Inv'
    <2>1. UNCHANGED <<calls, amounts, payments, attempts, bank, handlers, paidBy>>
      BY <1>1 DEF vars, settlementVars, gatewayVars
    <2>2. StoredAmounts' = StoredAmounts
      BY <2>1 DEF StoredAmounts
    <2>3. QED
      BY <1>1, <2>1, <2>2
      DEF Inv, Known, Shape, AttemptKnown, Submits, Knows, Reached, Backed,
          OneOpenAttempt, OpenAttempts, CreditedWasPaid
  <1>2. QED
    BY <1>1, GatewayStepKeepsInv, WorldStep, PanelStepKeepsInv DEF Next

LEMMA InvAlways == Spec => []Inv
  BY InvInit, InvStep, PTL DEF Spec

\* The partial unique index leaves one open attempt, however initiations,
\* returns and inquiries reopen and close them (initiateGatewayPayment).
THEOREM OpenAttemptsStaySingle == Spec => []OneOpenAttempt
  <1>1. Inv => OneOpenAttempt
    BY DEF Inv
  <1>2. QED
    BY <1>1, InvAlways, PTL

\* Whatever is entered as a gateway payment is for an attempt whose driver was sent
\* to the provider, who paid there unless the provider is BPM, and has the amount of
\* that attempt, although the amount of the waybill may have been corrected
\* meanwhile (handleGatewayCallback, inquireUnknownTransactions).
THEOREM CreditsWerePaid == Spec => []CreditedWasPaid
  <1>1. Inv => CreditedWasPaid
    BY DEF Inv
  <1>2. QED
    BY <1>1, InvAlways, PTL

\* A callback never marks an attempt VERIFIED before its payment is entered: the
\* crash between the two transactions loses no payment (handleGatewayCallback).
THEOREM CallbacksCreditFirst == Spec => CallbackCreditsFirst
  <1> DEFINE Step == \A c \in Callers, t \in Attempts :
                       /\ handlers[c].job = "callback"
                       /\ handlers[c].attempt = t
                       /\ handlers'[c] # handlers[c]
                       /\ attempts[t].status # "VERIFIED"
                       /\ attempts'[t].status = "VERIFIED"
                       => PaymentsOf(t) # {}
  <1>1. Inv /\ [Next]_vars => [Step]_vars
    <2> SUFFICES ASSUME Inv, Next, NEW c \in Callers, NEW t \in Attempts,
                        handlers[c].job = "callback", handlers[c].attempt = t,
                        handlers'[c] # handlers[c],
                        attempts[t].status # "VERIFIED",
                        attempts'[t].status = "VERIFIED"
                 PROVE  PaymentsOf(t) # {}
      OBVIOUS
    <2>1. ASSUME NEW d \in Callers, CommitVerified(d) PROVE PaymentsOf(t) # {}
      <3>1. d = c
        BY <2>1, DoneMoves DEF CommitVerified, Inv
      <3>2. handlers[c].at = "commit"
        BY <2>1, <3>1 DEF CommitVerified
      <3>3. QED
        BY <3>2 DEF Inv, Known, Knows, PaymentsOf
    <2>2. ASSUME NEW d \in Callers, RecordVerified(d) PROVE FALSE
      <3>1. d = c
        BY <2>2, GoToMoves DEF RecordVerified, Inv, Stages
      <3>2. QED
        BY <2>2, <3>1 DEF RecordVerified
    <2>3. ASSUME UNCHANGED attempts PROVE FALSE
      BY <2>3
    <2>4. ASSUME NEW u, NEW status, status # "VERIFIED",
                 attempts' = [attempts EXCEPT ![u].status = status]
          PROVE  FALSE
      <3>1. attempts \in [Attempts -> AttemptRow]
        BY DEF Inv, Known, Shape
      <3>2. CASE u = t
        <4>1. attempts'[t].status = status
          BY <2>4, <3>1, <3>2 DEF AttemptRow
        <4>2. QED
          BY <2>4, <4>1
      <3>3. CASE u # t
        <4>1. attempts'[t] = attempts[t]
          BY <2>4, <3>1, <3>3
        <4>2. QED
          BY <4>1
      <3>4. QED
        BY <3>2, <3>3
    <2>5. ASSUME NEW d \in Callers,
                 \/ ExpireOld(d) \/ RequestRefused(d) \/ MarkReturned(d)
                 \/ RecordFailed(d) \/ RecordUnknown(d)
          PROVE  FALSE
      <3>1. \E status \in {"EXPIRED", "FAILED", "RETURNED", "UNKNOWN"} :
              SetStatus(handlers[d].attempt, status)
        BY <2>5 DEF ExpireOld, RequestRefused, MarkReturned, RecordFailed, RecordUnknown
      <3>2. PICK status \in {"EXPIRED", "FAILED", "RETURNED", "UNKNOWN"} :
              attempts' = [attempts EXCEPT ![handlers[d].attempt].status = status]
        BY <3>1 DEF SetStatus
      <3>3. PICK u : u = handlers[d].attempt
        OBVIOUS
      <3>4. attempts' = [attempts EXCEPT ![u].status = status] /\ status # "VERIFIED"
        BY <3>2, <3>3
      <3>5. QED
        BY <2>4, <3>4
    <2>6. ASSUME NEW d \in Callers, NEW u \in Attempts, CreateAttempt(d, u) PROVE FALSE
      BY <2>6 DEF CreateAttempt, Inv, Known, Shape
    <2>7. ASSUME NEW u \in Attempts, TwentyMinutesPass(u) PROVE FALSE
      BY <2>7 DEF TwentyMinutesPass, Inv, Known, Shape, AttemptRow
    <2>8. ASSUME NEW d \in Callers,
                 \/ BeginInitiate(d) \/ RequestAccepted(d) \/ BeginCredit(d)
                 \/ GiveUp(d) \/ PanelStep(d)
                 \/ \E u \in Attempts : BeginCallback(d, u) \/ BeginInquiry(d, u)
                 \/ \E answer \in {"VERIFIED", "FAILED", "UNKNOWN"} : Ask(d, answer)
                 \/ \E p \in PaymentIds : Credit(d, p)
          PROVE  UNCHANGED attempts
      BY <2>8
      DEF BeginInitiate, RequestAccepted, BeginCredit, GiveUp, PanelStep, BeginCallback,
          BeginInquiry, Ask, Credit, gatewayVars
    <2>9. ASSUME NEW u \in Attempts, Pay(u) PROVE UNCHANGED attempts
      BY <2>9 DEF Pay
    <2>10. QED
      BY <2>1, <2>2, <2>3, <2>5, <2>6, <2>7, <2>8, <2>9 DEF Next, GatewayStep
  <1>2. QED
    BY <1>1, InvAlways, PTL DEF Spec, CallbackCreditsFirst

=============================================================================
