------------------------------ MODULE Messaging ------------------------------
(***************************************************************************)
(* SMS messages: sendNotificationSms, the operators' retrySmsJob, and the  *)
(* provider that fails over from a primary to a secondary service behind a *)
(* circuit breaker (FailoverSmsProvider, CircuitBreaker).                  *)
(*                                                                         *)
(* The server is one process.  Between two awaits a request runs alone;    *)
(* at an await any other request may run, and the process may die, which   *)
(* loses the requests and the breaker but not the rows.  The day in which  *)
(* messages are counted does not end here.  A statement of the database    *)
(* succeeds or the process dies.                                           *)
(***************************************************************************)
EXTENDS Integers, FiniteSets

CONSTANTS
  Senders,          \* requests in flight at the same time
  Jobs,             \* ids of notification_jobs rows
  DailyCap,         \* smsDailyCap
  FailureThreshold, \* failures in a minute until the breaker opens: 3
  Retried,          \* bound: the jobs that operators retry
  MaxAttempts,      \* the retries of a job are counted up to this number
  None

ASSUME MessagingAssumption ==
  /\ DailyCap \in Nat \ {0}
  /\ FailureThreshold \in Nat \ {0}
  /\ Retried \subseteq Jobs
  /\ MaxAttempts \in Nat \ {0}
  /\ IsFiniteSet(Senders)
  /\ None \notin Jobs

VARIABLES
  jobs,        \* rows of notification_jobs; "ABSENT": not created yet
  breaker,     \* the circuit breaker of the primary service
  senders,     \* senders[s]: the await at which the request is
  accepted,    \* the jobs that an adapter has reported as accepted
  abandoned    \* the jobs whose request died with the process

vars == <<jobs, breaker, senders, accepted, abandoned>>

NewBreaker == [state |-> "CLOSED", failures |-> 0, cooled |-> FALSE]

NoSender == [at |-> "idle", job |-> None]

InProgress(j) == jobs[j].status \in {"PENDING", "RETRYING"}

GoTo(s, stage, j) == senders' = [senders EXCEPT ![s] = [at |-> stage, job |-> j]]

Done(s) == senders' = [senders EXCEPT ![s] = NoSender]

At(s, stage) == senders[s].at = stage

-----------------------------------------------------------------------------
(* CircuitBreaker                                                          *)

\* getState: an open breaker half-opens once it has cooled down.
Looked(b) ==
  IF b.state = "OPEN" /\ b.cooled THEN [b EXCEPT !.state = "HALF_OPEN"] ELSE b

\* recordFailure: failures older than a minute have left the count; a half-open
\* breaker opens again only after as many failures as a closed one.
Failed(b) ==
  LET n == b.failures + 1 IN
  IF n >= FailureThreshold
  THEN [state |-> "OPEN", failures |-> n, cooled |-> FALSE]
  ELSE [b EXCEPT !.failures = n]

\* recordSuccess
Succeeded(b) == NewBreaker

-----------------------------------------------------------------------------
(* sendNotificationSms and retrySmsJob                                     *)

\* The messages that count against the cap.
Counted == {j \in Jobs : jobs[j].status \notin {"ABSENT", "FAILED"}}

\* Faulty variant: off by one.
BelowCapOrAt == Cardinality(Counted) <= DailyCap

BelowCap == Cardinality(Counted) < DailyCap

BeginSend(s) ==
  /\ senders[s] = NoSender
  /\ BelowCap
  /\ GoTo(s, "create", None)
  /\ UNCHANGED <<jobs, breaker, accepted, abandoned>>

Absent == {j \in Jobs : jobs[j].status = "ABSENT"}

\* Ids are fresh; which one is of no importance.
CreateJob(s) ==
  LET j == CHOOSE x \in Absent : TRUE IN
  /\ At(s, "create")
  /\ Absent # {}
  /\ jobs' = [jobs EXCEPT ![j].status = "PENDING"]
  /\ GoTo(s, "send", j)
  /\ UNCHANGED <<breaker, accepted, abandoned>>

\* The cap is not asked for.
BeginRetry(s, j) ==
  /\ senders[s] = NoSender
  /\ j \in Retried
  /\ jobs[j].status = "FAILED"
  /\ GoTo(s, "retry", j)
  /\ UNCHANGED <<jobs, breaker, accepted, abandoned>>

\* By id, whatever the status is by now.
MarkRetrying(s) ==
  LET j == senders[s].job IN
  /\ At(s, "retry")
  /\ jobs' = [jobs EXCEPT
       ![j].status = "RETRYING",
       ![j].attempts = IF @ < MaxAttempts THEN @ + 1 ELSE @]
  /\ GoTo(s, "send", j)
  /\ UNCHANGED <<breaker, accepted, abandoned>>

\* An open breaker sends the message to the secondary service at once.
ChooseService(s) ==
  /\ At(s, "send")
  /\ breaker' = Looked(breaker)
  /\ GoTo(s, IF breaker'.state = "OPEN" THEN "secondary" ELSE "primary",
          senders[s].job)
  /\ UNCHANGED <<jobs, accepted, abandoned>>

AfterPrimary(ok) == IF ok THEN "sent" ELSE "secondary"

Acknowledge(s, ok) ==
  accepted' = IF ok THEN accepted \cup {senders[s].job} ELSE accepted

\* A service takes the message, refuses it in the body of its answer, or answers
\* with an HTTP error or not at all.
Answers == {"TAKEN", "REFUSED", "ERROR"}

\* What its adapter reports as accepted: the body is searched for an id only.
FarazAccepts(answer) == answer # "ERROR"
MeliAccepts(answer) == answer # "ERROR"

\* An error, or no answer within 10 seconds, is a failure.
PrimaryAnswers(s, answer) ==
  LET ok == FarazAccepts(answer) IN
  /\ At(s, "primary")
  /\ breaker' = IF ok THEN Succeeded(breaker) ELSE Failed(breaker)
  /\ GoTo(s, AfterPrimary(ok), senders[s].job)
  /\ Acknowledge(s, ok)
  /\ UNCHANGED <<jobs, abandoned>>

SecondaryAnswers(s, answer) ==
  LET ok == MeliAccepts(answer) IN
  /\ At(s, "secondary")
  /\ GoTo(s, IF ok THEN "sent" ELSE "failed", senders[s].job)
  /\ Acknowledge(s, ok)
  /\ UNCHANGED <<jobs, breaker, abandoned>>

\* Faulty variant: the error is rethrown without being recorded.
FinalStatusOfSent(s) == IF At(s, "sent") THEN "SENT" ELSE jobs[senders[s].job].status

FinalStatus(s) == IF At(s, "sent") THEN "SENT" ELSE "FAILED"

\* By id, whatever another request has recorded.
RecordOutcome(s) ==
  /\ At(s, "sent") \/ At(s, "failed")
  /\ jobs' = [jobs EXCEPT ![senders[s].job].status = FinalStatus(s)]
  /\ Done(s)
  /\ UNCHANGED <<breaker, accepted, abandoned>>

-----------------------------------------------------------------------------
\* The process is restarted.
Crash ==
  /\ \E s \in Senders : senders[s] # NoSender
  /\ abandoned' = abandoned \cup
       {j \in Jobs : InProgress(j) /\ \E s \in Senders : senders[s].job = j}
  /\ senders' = [s \in Senders |-> NoSender]
  /\ breaker' = NewBreaker
  /\ UNCHANGED <<jobs, accepted>>

\* The oldest failure is a minute old.
FailureLeavesWindow ==
  /\ breaker.failures > 0
  /\ breaker' = [breaker EXCEPT !.failures = @ - 1]
  /\ UNCHANGED <<jobs, senders, accepted, abandoned>>

\* Five minutes have passed since the breaker opened.
CoolDown ==
  /\ breaker.state = "OPEN" /\ ~breaker.cooled
  /\ breaker.failures = 0
  /\ breaker' = [breaker EXCEPT !.cooled = TRUE]
  /\ UNCHANGED <<jobs, senders, accepted, abandoned>>

Init ==
  /\ jobs = [j \in Jobs |-> [status |-> "ABSENT", attempts |-> 0]]
  /\ breaker = NewBreaker
  /\ senders = [s \in Senders |-> NoSender]
  /\ accepted = {}
  /\ abandoned = {}

\* What a request does by itself once it has begun.
Progress(s) ==
  \/ CreateJob(s)
  \/ MarkRetrying(s)
  \/ ChooseService(s)
  \/ \E answer \in Answers : PrimaryAnswers(s, answer) \/ SecondaryAnswers(s, answer)
  \/ RecordOutcome(s)

TimePasses == FailureLeavesWindow \/ CoolDown

Next ==
  \/ \E s \in Senders :
       \/ BeginSend(s)
       \/ \E j \in Jobs : BeginRetry(s, j)
       \/ Progress(s)
  \/ TimePasses
  \/ Crash

Spec == Init /\ [][Next]_vars

\* Every await ends, after 10 seconds at the latest, and time passes.  Nobody
\* is obliged to send or to retry, and the services need not ever accept.
FairSpec ==
  Spec /\ WF_vars(TimePasses) /\ \A s \in Senders : WF_vars(Progress(s))

-----------------------------------------------------------------------------
\* getSmsMonitoringDashboard: what operators see of the day.
SmsDashboard ==
  LET With(statuses) == Cardinality({j \in Jobs : jobs[j].status \in statuses})
      used == With({"SENT", "PENDING", "RETRYING"})
  IN
  [used |-> used, failed |-> With({"FAILED"}),
   remaining |-> IF used < DailyCap THEN DailyCap - used ELSE 0,
   failover |-> Looked(breaker).state = "OPEN"]

\* The usage that operators see passes the daily cap by what they have retried
\* themselves, and otherwise by no more than one message per request that counted
\* at the same time (sendNotificationSms, getSmsMonitoringDashboard).
CapPassedOnlyByOverlap ==
  SmsDashboard.used - Cardinality({j \in Counted : jobs[j].attempts > 0})
    <= DailyCap - 1 + Cardinality(Senders)

\* Every message ends SENT or FAILED unless the process dies while it is sent;
\* the breaker and the second service never leave it hanging.
MessagesEnd == \A j \in Jobs : InProgress(j) ~> (~InProgress(j) \/ j \in abandoned)
=============================================================================
