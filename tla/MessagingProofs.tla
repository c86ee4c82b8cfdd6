--------------------------- MODULE MessagingProofs ---------------------------
(***************************************************************************)
(* A theorem about Messaging, for any cap, any finite number of requests   *)
(* and any set of messages, infinite ones included: by how much the usage  *)
(* of a day can pass the cap.                                              *)
(***************************************************************************)
EXTENDS Messaging, FiniteSetTheorems, TLAPS

Statuses == {"ABSENT", "PENDING", "RETRYING", "SENT", "FAILED"}
Stages == {"idle", "create", "retry", "send", "primary", "secondary", "sent", "failed"}

TypeOK ==
  /\ jobs \in [Jobs -> [status : Statuses, attempts : Nat]]
  /\ senders \in [Senders -> [at : Stages, job : Jobs \cup {None}]]

\* A request that carries a message of its own, and will record its outcome.
Carries(s, j) ==
  senders[s].job = j /\ senders[s].at \notin {"idle", "create", "retry"}

\* A message that nobody has retried is carried by the request that created it
\* alone; one that is about to be retried has had an outcome.
Carried ==
  \A s \in Senders, j \in Jobs :
    /\ Carries(s, j) =>
         /\ jobs[j].status # "ABSENT"
         /\ jobs[j].attempts = 0 =>
              jobs[j].status = "PENDING" /\ \A t \in Senders \ {s} : ~Carries(t, j)
    /\ senders[s].job = j /\ senders[s].at = "retry" =>
         jobs[j].status \notin {"ABSENT", "PENDING"}

\* Who has no message of the table yet, and who must have one.
Employed ==
  \A s \in Senders :
    senders[s].job = None <=> senders[s].at \in {"idle", "create"}

NoneRetriedYet == \A j \in Jobs : jobs[j].status = "ABSENT" => jobs[j].attempts = 0

Created == {j \in Jobs : jobs[j].status # "ABSENT"}

\* The messages that count and were never retried.
Fresh == {j \in Counted : jobs[j].attempts = 0}

\* The requests that have found room for a message and not created it yet.
Admitted == {s \in Senders : senders[s].at = "create"}

WithinCap == Cardinality(Fresh) + Cardinality(Admitted) <= DailyCap - 1 + Cardinality(Senders)

Inv == TypeOK /\ Carried /\ Employed /\ NoneRetriedYet /\ IsFiniteSet(Created) /\ WithinCap

-----------------------------------------------------------------------------
(* Counting.                                                               *)

LEMMA Finite ==
  ASSUME Inv
  PROVE  /\ IsFiniteSet(Admitted) /\ Cardinality(Admitted) \in Nat
         /\ Cardinality(Admitted) <= Cardinality(Senders)
         /\ IsFiniteSet(Counted) /\ Cardinality(Counted) \in Nat
         /\ IsFiniteSet(Fresh) /\ Cardinality(Fresh) \in Nat
         /\ Cardinality(Fresh) <= Cardinality(Counted)
         /\ Cardinality(Senders) \in Nat
  <1>1. /\ Admitted \subseteq Senders /\ IsFiniteSet(Senders)
        /\ Counted \subseteq Created /\ IsFiniteSet(Created)
        /\ Fresh \subseteq Counted
    BY MessagingAssumption DEF Inv, Admitted, Counted, Created, Fresh
  <1>2. IsFiniteSet(Counted)
    BY <1>1, FS_Subset
  <1>3. QED
    BY <1>1, <1>2, FS_Subset, FS_CardinalityType

\* A step that counts nothing new keeps what was counted.
LEMMA NothingNew ==
  ASSUME Inv, Fresh' \subseteq Fresh, Admitted' \subseteq Admitted
  PROVE  WithinCap'
  <1>1. /\ Cardinality(Fresh') <= Cardinality(Fresh) /\ Cardinality(Fresh') \in Nat
        /\ Cardinality(Admitted') <= Cardinality(Admitted) /\ Cardinality(Admitted') \in Nat
    BY Finite, FS_Subset, FS_CardinalityType
  <1>2. QED
    BY <1>1, Finite, MessagingAssumption DEF Inv, WithinCap

-----------------------------------------------------------------------------
(* The steps.                                                              *)

\* A request that moves on leaves the others where they are.
LEMMA Moves ==
  ASSUME Inv, NEW s \in Senders, NEW stage \in Stages, NEW j \in Jobs \cup {None},
         GoTo(s, stage, j)
  PROVE  /\ senders' \in [Senders -> [at : Stages, job : Jobs \cup {None}]]
         /\ senders'[s].at = stage /\ senders'[s].job = j
         /\ \A t \in Senders \ {s} : senders'[t] = senders[t]
  BY DEF Inv, TypeOK, GoTo

LEMMA WalkStep ==
  ASSUME Inv, NEW s \in Senders, senders[s].at \in {"send", "primary", "secondary"},
         NEW stage \in {"primary", "secondary", "sent", "failed"},
         GoTo(s, stage, senders[s].job), UNCHANGED jobs
  PROVE  Inv'
  <1> DEFINE j == senders[s].job
  <1>1. j \in Jobs /\ stage \in Stages /\ j # None
    BY MessagingAssumption DEF Inv, TypeOK, Employed, Stages
  <1>2. /\ senders' \in [Senders -> [at : Stages, job : Jobs \cup {None}]]
        /\ senders'[s].at = stage /\ senders'[s].job = j
        /\ \A t \in Senders \ {s} : senders'[t] = senders[t]
    BY <1>1, Moves
  <1>3. TypeOK' /\ Employed' /\ NoneRetriedYet' /\ IsFiniteSet(Created')
    BY <1>1, <1>2 DEF Inv, TypeOK, Employed, NoneRetriedYet, Created
  <1>4. \A t \in Senders, k \in Jobs : Carries(t, k)' <=> Carries(t, k)
    BY <1>2 DEF Carries
  <1>5. Carried'
    <2>1. \A t \in Senders, k \in Jobs :
            senders'[t].job = k /\ senders'[t].at = "retry"
            => senders[t].job = k /\ senders[t].at = "retry"
      BY <1>2
    <2>2. QED
      BY <1>4, <2>1 DEF Inv, Carried
  <1>6. Fresh' \subseteq Fresh /\ Admitted' \subseteq Admitted
    BY <1>2 DEF Fresh, Counted, Admitted
  <1>7. QED
    BY <1>3, <1>5, <1>6, NothingNew DEF Inv

LEMMA BeginSendStep == ASSUME Inv, NEW s \in Senders, BeginSend(s) PROVE Inv'
  <1>1. /\ senders' \in [Senders -> [at : Stages, job : Jobs \cup {None}]]
        /\ senders'[s].at = "create" /\ senders'[s].job = None
        /\ \A t \in Senders \ {s} : senders'[t] = senders[t]
    BY Moves DEF BeginSend, Stages
  <1>2. jobs' = jobs
    BY DEF BeginSend
  <1>3. TypeOK' /\ Employed' /\ NoneRetriedYet' /\ IsFiniteSet(Created')
    BY <1>1, <1>2 DEF Inv, TypeOK, Employed, NoneRetriedYet, Created
  <1>4. Carried'
    BY <1>1, <1>2 DEF Inv, Carried, Carries
  <1>5. WithinCap'
    <2>1. Cardinality(Fresh') <= DailyCap - 1 /\ Cardinality(Fresh') \in Nat
      BY <1>2, Finite, MessagingAssumption DEF BeginSend, BelowCap, Fresh, Counted
    <2>2. /\ Cardinality(Admitted') <= Cardinality(Senders)
          /\ Cardinality(Admitted') \in Nat
      <3>1. Admitted' \subseteq Senders
        BY DEF Admitted
      <3>2. QED
        BY <3>1, FS_Subset, FS_CardinalityType, MessagingAssumption
    <2>3. QED
      BY <2>1, <2>2, Finite, MessagingAssumption DEF WithinCap
  <1>6. QED
    BY <1>3, <1>4, <1>5 DEF Inv

LEMMA CreateJobStep == ASSUME Inv, NEW s \in Senders, CreateJob(s) PROVE Inv'
  <1> DEFINE j == CHOOSE x \in Absent : TRUE
  <1>1. j \in Jobs /\ jobs[j].status = "ABSENT" /\ jobs[j].attempts = 0 /\ j # None
    BY MessagingAssumption DEF CreateJob, Absent, Inv, NoneRetriedYet
  <1>2. /\ senders[s].at = "create"
        /\ jobs' = [jobs EXCEPT ![j].status = "PENDING"]
        /\ GoTo(s, "send", j)
    BY DEF CreateJob, At
  <1> HIDE DEF j
  <1>3. /\ senders' \in [Senders -> [at : Stages, job : Jobs \cup {None}]]
        /\ senders'[s].at = "send" /\ senders'[s].job = j
        /\ \A t \in Senders \ {s} : senders'[t] = senders[t]
    BY <1>1, <1>2, Moves DEF Stages
  <1>4. /\ jobs' \in [Jobs -> [status : Statuses, attempts : Nat]]
        /\ jobs'[j].status = "PENDING" /\ jobs'[j].attempts = 0
        /\ \A k \in Jobs \ {j} : jobs'[k] = jobs[k]
    BY <1>1, <1>2 DEF Inv, TypeOK, Statuses
  <1>5. TypeOK' /\ Employed' /\ NoneRetriedYet'
    BY <1>1, <1>3, <1>4 DEF Inv, TypeOK, Employed, NoneRetriedYet
  <1>6. IsFiniteSet(Created')
    <2>1. Created' = Created \cup {j}
      BY <1>1, <1>4 DEF Created
    <2>2. QED
      BY <2>1, FS_AddElement DEF Inv
  <1>7. Carried'
    <2>1. \A t \in Senders \ {s} : senders[t].job # j \/ senders[t].at \in {"idle", "create"}
      BY <1>1 DEF Inv, Carried, Carries
    <2>2. \A t \in Senders \ {s} : senders[t].job # j
      BY <1>1, <2>1 DEF Inv, Employed
    <2>3. \A k \in Jobs \ {j} : ~Carries(s, k) /\ ~Carries(s, k)'
      BY <1>2, <1>3 DEF Carries
    <2>4. QED
      BY <1>3, <1>4, <2>2, <2>3 DEF Inv, Carried, Carries
  <1>8. WithinCap'
    <2>1. Fresh' = Fresh \cup {j} /\ j \notin Fresh
      BY <1>1, <1>4 DEF Fresh, Counted
    <2>2. Admitted' = Admitted \ {s} /\ s \in Admitted
      BY <1>2, <1>3 DEF Admitted
    <2>3. /\ Cardinality(Fresh') = Cardinality(Fresh) + 1
          /\ Cardinality(Admitted') = Cardinality(Admitted) - 1
      BY <2>1, <2>2, Finite, FS_AddElement, FS_RemoveElement
    <2>4. QED
      BY <2>3, Finite, MessagingAssumption DEF Inv, WithinCap
  <1>9. QED
    BY <1>5, <1>6, <1>7, <1>8 DEF Inv

LEMMA BeginRetryStep ==
  ASSUME Inv, NEW s \in Senders, NEW j \in Jobs, BeginRetry(s, j) PROVE Inv'
  <1>1. /\ senders' \in [Senders -> [at : Stages, job : Jobs \cup {None}]]
        /\ senders'[s].at = "retry" /\ senders'[s].job = j
        /\ \A t \in Senders \ {s} : senders'[t] = senders[t]
    BY Moves DEF BeginRetry, Stages
  <1>2. jobs' = jobs /\ jobs[j].status = "FAILED" /\ j # None
    BY MessagingAssumption DEF BeginRetry
  <1>3. TypeOK' /\ Employed' /\ NoneRetriedYet' /\ IsFiniteSet(Created')
    BY <1>1, <1>2 DEF Inv, TypeOK, Employed, NoneRetriedYet, Created
  <1>4. Carried'
    BY <1>1, <1>2 DEF Inv, Carried, Carries
  <1>5. Fresh' \subseteq Fresh /\ Admitted' \subseteq Admitted
    BY <1>1, <1>2 DEF Fresh, Counted, Admitted
  <1>6. QED
    BY <1>3, <1>4, <1>5, NothingNew DEF Inv

LEMMA MarkRetryingStep == ASSUME Inv, NEW s \in Senders, MarkRetrying(s) PROVE Inv'
  <1> DEFINE j == senders[s].job
  <1>1. j \in Jobs /\ j # None /\ jobs[j].attempts \in Nat
        /\ jobs[j].status \notin {"ABSENT", "PENDING"}
    BY MessagingAssumption DEF MarkRetrying, At, Inv, TypeOK, Employed, Carried
  <1>2. /\ senders[s].at = "retry"
        /\ jobs' = [jobs EXCEPT
             ![j].status = "RETRYING",
             ![j].attempts = IF @ < MaxAttempts THEN @ + 1 ELSE @]
        /\ GoTo(s, "send", j)
    BY DEF MarkRetrying, At
  <1>3. /\ senders' \in [Senders -> [at : Stages, job : Jobs \cup {None}]]
        /\ senders'[s].at = "send" /\ senders'[s].job = j
        /\ \A t \in Senders \ {s} : senders'[t] = senders[t]
    BY <1>1, <1>2, Moves DEF Stages
  <1>4. /\ jobs' \in [Jobs -> [status : Statuses, attempts : Nat]]
        /\ jobs'[j].status = "RETRYING" /\ jobs'[j].attempts > 0
        /\ \A k \in Jobs \ {j} : jobs'[k] = jobs[k]
    BY <1>1, <1>2, MessagingAssumption DEF Inv, TypeOK, Statuses
  <1> HIDE DEF j
  <1>5. TypeOK' /\ Employed' /\ NoneRetriedYet' /\ IsFiniteSet(Created')
    <2>1. Created' = Created
      BY <1>1, <1>4 DEF Created
    <2>2. TypeOK'
      BY <1>3, <1>4 DEF TypeOK
    <2>3. Employed'
      BY <1>1, <1>3 DEF Inv, Employed
    <2>4. NoneRetriedYet'
      BY <1>4 DEF Inv, NoneRetriedYet
    <2>5. QED
      BY <2>1, <2>2, <2>3, <2>4 DEF Inv
  <1>6. Carried'
    <2>1. \A k \in Jobs \ {j} : ~Carries(s, k) /\ ~Carries(s, k)'
      BY <1>2, <1>3 DEF Carries
    <2>2. QED
      BY <1>3, <1>4, <2>1 DEF Inv, Carried, Carries
  <1>7. Fresh' \subseteq Fresh /\ Admitted' \subseteq Admitted
    BY <1>3, <1>4 DEF Fresh, Counted, Admitted
  <1>8. QED
    BY <1>5, <1>6, <1>7, NothingNew DEF Inv

LEMMA RecordOutcomeStep == ASSUME Inv, NEW s \in Senders, RecordOutcome(s) PROVE Inv'
  <1> DEFINE j == senders[s].job
  <1>1. /\ j \in Jobs /\ Carries(s, j) /\ jobs[j].status # "ABSENT"
        /\ FinalStatus(s) \in {"SENT", "FAILED"}
    BY DEF RecordOutcome, At, Inv, TypeOK, Employed, Carried, Carries, FinalStatus
  <1>2. /\ jobs' = [jobs EXCEPT ![j].status = FinalStatus(s)]
        /\ GoTo(s, "idle", None)
    BY DEF RecordOutcome, Done, GoTo, NoSender
  <1>3. /\ senders' \in [Senders -> [at : Stages, job : Jobs \cup {None}]]
        /\ senders'[s].at = "idle" /\ senders'[s].job = None
        /\ \A t \in Senders \ {s} : senders'[t] = senders[t]
    BY <1>2, Moves DEF Stages
  <1>4. /\ jobs' \in [Jobs -> [status : Statuses, attempts : Nat]]
        /\ jobs'[j].status \in {"SENT", "FAILED"} /\ jobs'[j].attempts = jobs[j].attempts
        /\ \A k \in Jobs \ {j} : jobs'[k] = jobs[k]
    BY <1>1, <1>2 DEF Inv, TypeOK, Statuses
  <1>5. jobs[j].attempts = 0 =>
          jobs[j].status = "PENDING" /\ \A t \in Senders \ {s} : ~Carries(t, j)
    BY <1>1 DEF Inv, Carried
  <1> HIDE DEF j
  <1>6. TypeOK' /\ Employed' /\ NoneRetriedYet' /\ IsFiniteSet(Created')
    <2>1. Created' = Created
      BY <1>1, <1>4 DEF Created
    <2>2. QED
      BY <1>3, <1>4, <2>1 DEF Inv, TypeOK, Employed, NoneRetriedYet
  <1>7. Carried'
    <2>1. \A k \in Jobs : ~Carries(s, k)'
      BY <1>3 DEF Carries
    <2>2. \A t \in Senders \ {s}, k \in Jobs : Carries(t, k)' <=> Carries(t, k)
      BY <1>3 DEF Carries
    <2>3. \A t \in Senders, k \in Jobs :
            senders'[t].job = k /\ senders'[t].at = "retry"
            => senders[t].job = k /\ senders[t].at = "retry"
      BY <1>3
    <2>4. QED
      BY <1>4, <1>5, <2>1, <2>2, <2>3 DEF Inv, Carried
  <1>8. Fresh' \subseteq Fresh /\ Admitted' \subseteq Admitted
    <2>1. Admitted' \subseteq Admitted
      BY <1>3 DEF Admitted
    <2>2. jobs[j].attempts = 0 => j \in Fresh
      BY <1>1, <1>5 DEF Fresh, Counted
    <2>3. Fresh' \subseteq Fresh
      BY <1>4, <2>2 DEF Fresh, Counted
    <2>4. QED
      BY <2>1, <2>3
  <1>9. QED
    BY <1>6, <1>7, <1>8, NothingNew DEF Inv

LEMMA CrashStep == ASSUME Inv, Crash PROVE Inv'
  <1>1. senders' = [s \in Senders |-> NoSender] /\ jobs' = jobs
    BY DEF Crash
  <1>2. TypeOK' /\ Employed' /\ Carried'
    BY <1>1, MessagingAssumption
    DEF Inv, TypeOK, Employed, Carried, Carries, NoSender, Stages
  <1>3. NoneRetriedYet' /\ IsFiniteSet(Created')
    BY <1>1 DEF Inv, NoneRetriedYet, Created
  <1>4. Fresh' \subseteq Fresh /\ Admitted' \subseteq Admitted
    BY <1>1 DEF Fresh, Counted, Admitted, NoSender
  <1>5. QED
    BY <1>2, <1>3, <1>4, NothingNew DEF Inv

LEMMA QuietStep == ASSUME Inv, UNCHANGED <<jobs, senders>> PROVE Inv'
  BY DEF Inv, TypeOK, Carried, Carries, Employed, NoneRetriedYet, Created, WithinCap, Fresh,
         Counted, Admitted

LEMMA InvStep == Inv /\ [Next]_vars => Inv'
  <1>1. ASSUME Inv, NEW s \in Senders, Progress(s) PROVE Inv'
    <2>1. CASE ChooseService(s)
      <3>1. PICK stage \in {"primary", "secondary"} : GoTo(s, stage, senders[s].job)
        BY <2>1 DEF ChooseService
      <3>2. QED
        BY <1>1, <2>1, <3>1, WalkStep DEF ChooseService, At
    <2>2. ASSUME NEW answer \in Answers, PrimaryAnswers(s, answer) PROVE Inv'
      <3>1. PICK stage \in {"sent", "secondary"} : GoTo(s, stage, senders[s].job)
        BY <2>2 DEF PrimaryAnswers, AfterPrimary
      <3>2. QED
        BY <1>1, <2>2, <3>1, WalkStep DEF PrimaryAnswers, At
    <2>3. ASSUME NEW answer \in Answers, SecondaryAnswers(s, answer) PROVE Inv'
      <3>1. PICK stage \in {"sent", "failed"} : GoTo(s, stage, senders[s].job)
        BY <2>3 DEF SecondaryAnswers
      <3>2. QED
        BY <1>1, <2>3, <3>1, WalkStep DEF SecondaryAnswers, At
    <2>4. QED
      BY <1>1, <2>1, <2>2, <2>3, CreateJobStep, MarkRetryingStep, RecordOutcomeStep
      DEF Progress
  <1>2. ASSUME Inv, TimePasses \/ UNCHANGED vars PROVE Inv'
    BY <1>2, QuietStep DEF TimePasses, FailureLeavesWindow, CoolDown, vars
  <1>3. QED
    BY <1>1, <1>2, BeginSendStep, BeginRetryStep, CrashStep DEF Next

LEMMA InvInit == Init => Inv
  <1> SUFFICES ASSUME Init PROVE Inv
    OBVIOUS
  <1>1. TypeOK /\ Carried /\ Employed /\ NoneRetriedYet
    BY MessagingAssumption
    DEF Init, TypeOK, Statuses, Stages, NoSender, Carried, Carries, Employed, NoneRetriedYet
  <1>2. Created = {} /\ Fresh = {} /\ Admitted = {}
    BY DEF Init, Created, Fresh, Counted, Admitted, NoSender
  <1>3. IsFiniteSet(Created) /\ WithinCap
    BY <1>2, FS_EmptySet, FS_CardinalityType, MessagingAssumption DEF WithinCap
  <1>4. QED
    BY <1>1, <1>3 DEF Inv

\* The usage that operators see passes the daily cap by no more than one message per
\* request that counted at the same time, apart from what they have retried
\* themselves (sendNotificationSms, getSmsMonitoringDashboard).
THEOREM CapIsPassedByOverlapOnly == Spec => []CapPassedOnlyByOverlap
  <1>1. Inv => CapPassedOnlyByOverlap
    <2> SUFFICES ASSUME Inv PROVE CapPassedOnlyByOverlap
      OBVIOUS
    <2> DEFINE Again == {j \in Counted : jobs[j].attempts > 0}
    <2>1. SmsDashboard.used = Cardinality(Counted)
      <3>1. {j \in Jobs : jobs[j].status \in {"SENT", "PENDING", "RETRYING"}} = Counted
        BY DEF Inv, TypeOK, Statuses, Counted
      <3>2. QED
        BY <3>1 DEF SmsDashboard
    <2>2. Counted = Again \cup Fresh /\ Again \cap Fresh = {} /\ Again \subseteq Counted
      BY DEF Inv, TypeOK, Counted, Fresh
    <2> HIDE DEF Again
    <2>3. /\ Cardinality(Again) \in Nat
          /\ Cardinality(Counted) = Cardinality(Again) + Cardinality(Fresh)
      <3>1. IsFiniteSet(Again) /\ Cardinality(Again) \in Nat
        BY <2>2, Finite, FS_Subset, FS_CardinalityType
      <3>2. Cardinality(Again \cap Fresh) = 0
        BY <2>2, FS_EmptySet
      <3>3. Cardinality(Again \cup Fresh) =
              Cardinality(Again) + Cardinality(Fresh) - Cardinality(Again \cap Fresh)
        BY <3>1, Finite, FS_Union
      <3>4. QED
        BY <2>2, <3>1, <3>2, <3>3, Finite
    <2>4. Cardinality(Fresh) <= DailyCap - 1 + Cardinality(Senders)
      BY Finite, MessagingAssumption DEF Inv, WithinCap
    <2>5. SmsDashboard.used - Cardinality(Again) <= DailyCap - 1 + Cardinality(Senders)
      BY <2>1, <2>3, <2>4, Finite, MessagingAssumption
    <2>6. QED
      BY <2>5 DEF CapPassedOnlyByOverlap, Again
  <1>2. QED
    BY <1>1, InvInit, InvStep, PTL DEF Spec

=============================================================================
