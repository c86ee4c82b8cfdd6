----------------------------- MODULE DriverAccess -----------------------------
(***************************************************************************)
(* How a driver gets in: the access link, one-time codes sent to his       *)
(* mobile (otp_challenges) and the session a correct code opens, while     *)
(* operators move the same waybill.  requestDriverOtp and verifyDriverOtp  *)
(* are not transactions: each statement commits by itself, and a handler   *)
(* decides from what it read first.                                        *)
(*                                                                         *)
(* Time is kept as the stages a code and a lock go through.  A code is     *)
(* valid for 3 minutes and counts against the request limit for 10; a lock *)
(* is set while the code is valid and holds for 15 minutes, so it lapses   *)
(* after both.  The day in which locks are counted does not end here.      *)
(***************************************************************************)
EXTENDS Shipment, Sequences, FiniteSets

CONSTANTS
  Handlers,      \* requests to the server in flight at the same time
  Links,         \* ids of driver_access_links rows of the waybill
  SessionIds,    \* ids of driver_sessions rows
  MaxChallenges, \* bound on the codes ever sent
  MaxRequests,   \* codes sent in 10 minutes: 3
  MaxAttempts,   \* wrong codes until the lock: 5
  MaxLocks       \* locks in a day until the mobile is suspended: 3

ASSUME DriverAccessAssumption ==
  /\ MaxChallenges \in Nat
  /\ MaxRequests \in Nat \ {0}
  /\ MaxAttempts \in Nat \ {0}
  /\ MaxLocks \in Nat \ {0}
  /\ None \notin Links
  /\ IsFiniteSet(Handlers) /\ IsFiniteSet(SessionIds)

VARIABLES
  links,       \* "VALID", "REVOKED" or "EXPIRED"
  challenges,  \* the codes sent to the mobile, in the order of created_at
  driverSessions, \* rows of driver_sessions
  handlers     \* handlers[h]: where the request is and what it has read

accessVars == <<links, challenges, driverSessions, handlers>>
vars == <<waybill, calls, accessVars>>

Challenge ==
  [stage: {"VALID", "EXPIRED", "OLD"}, lock: {"NONE", "LOCKED", "LAPSED"},
   attempts: Nat, verified: BOOLEAN]

NewChallenge ==
  [stage |-> "VALID", lock |-> "NONE", attempts |-> 0, verified |-> FALSE]

NoSession == [status |-> "ABSENT", link |-> None, code |-> 0]

NoHandler ==
  [at |-> "idle", link |-> None, code |-> 0, seenAttempts |-> 0,
   seenShipment |-> "DRAFT"]

\* Faulty variant: without `createdAt: { gte: past10m }'.
RecentEver == DOMAIN challenges

\* The codes requested in the last 10 minutes.
Recent == {i \in DOMAIN challenges : challenges[i].stage # "OLD"}

\* The codes with locked_until set.
EverLocked == {i \in DOMAIN challenges : challenges[i].lock # "NONE"}

\* Faulty variant: without `verifiedAt: null'.
AnyChallenge == DOMAIN challenges

Unverified == {i \in DOMAIN challenges : ~challenges[i].verified}

Suspended == Cardinality(EverLocked) >= MaxLocks

LatestIsLocked ==
  challenges # <<>> /\ challenges[Len(challenges)].lock = "LOCKED"

\* Faulty variant: without the limit of 10 minutes.
MayRequestUnlimited == ~Suspended /\ ~LatestIsLocked

\* The guards of requestDriverOtp, in the order they are evaluated.
MayRequest ==
  /\ ~Suspended
  /\ ~LatestIsLocked
  /\ Cardinality(Recent) < MaxRequests

GoTo(h, stage) == handlers' = [handlers EXCEPT ![h].at = stage]

Done(h) == handlers' = [handlers EXCEPT ![h] = NoHandler]

-----------------------------------------------------------------------------
(* requestDriverOtp                                                        *)

BeginRequest(h, l) ==
  /\ handlers[h] = NoHandler
  /\ links[l] = "VALID"
  /\ MayRequest
  /\ handlers' = [handlers EXCEPT ![h].at = "create", ![h].link = l]
  /\ UNCHANGED <<waybill, calls, links, challenges, driverSessions>>

\* The challenge stays when the SMS that follows fails.
CreateChallenge(h) ==
  /\ handlers[h].at = "create"
  /\ Len(challenges) < MaxChallenges
  /\ challenges' = Append(challenges, NewChallenge)
  /\ Done(h)
  /\ UNCHANGED <<waybill, calls, links, driverSessions>>

-----------------------------------------------------------------------------
(***************************************************************************)
(* verifyDriverOtp takes the latest code not yet verified.  Whether the    *)
(* driver typed it correctly is his choice.                                *)
(***************************************************************************)
BeginVerify(h, l, correct) ==
  \E i \in Unverified :
    /\ \A j \in Unverified : j <= i
    /\ handlers[h] = NoHandler
    /\ links[l] = "VALID"
    /\ challenges[i].lock # "LOCKED"
    /\ challenges[i].stage = "VALID"
    /\ handlers' = [handlers EXCEPT ![h] =
         [at |-> IF correct THEN "verify" ELSE "refuse", link |-> l, code |-> i,
          seenAttempts |-> challenges[i].attempts,
          seenShipment |-> waybill.shipment]]
    /\ UNCHANGED <<waybill, calls, links, challenges, driverSessions>>

\* Faulty variant: the row is written back as it was read, lock included.
WrongAttemptWholeRow(row, n) ==
  [row EXCEPT !.attempts = n, !.lock = IF n >= MaxAttempts THEN "LOCKED" ELSE "NONE"]

\* update({ where: { id } }) of attempts_count, and of locked_until at the limit.
WrongAttempt(row, n) ==
  [row EXCEPT !.attempts = n, !.lock = IF n >= MaxAttempts THEN "LOCKED" ELSE @]

RefuseCode(h) ==
  LET i == handlers[h].code IN
  /\ handlers[h].at = "refuse"
  /\ challenges' = [challenges EXCEPT ![i] =
       WrongAttempt(@, handlers[h].seenAttempts + 1)]
  /\ Done(h)
  /\ UNCHANGED <<waybill, calls, links, driverSessions>>

\* Faulty variant: every login notes that the driver has seen the waybill.
UnseenOrAny(status) == TRUE

Unseen(status) == status \in {"IMPORTED", "READY_FOR_DRIVER", "DRIVER_NOTIFIED"}

MarkVerified(h) ==
  /\ handlers[h].at = "verify"
  /\ challenges' = [challenges EXCEPT ![handlers[h].code].verified = TRUE]
  /\ GoTo(h, IF Unseen(handlers[h].seenShipment) THEN "view" ELSE "session")
  /\ UNCHANGED <<waybill, calls, links, driverSessions>>

\* By id, whatever the status is by now; the version is not incremented.
ViewWaybill(h) ==
  /\ handlers[h].at = "view"
  /\ WriteWaybill([waybill EXCEPT !.shipment = "DRIVER_VIEWED"])
  /\ GoTo(h, "session")
  /\ UNCHANGED <<calls, links, challenges, driverSessions>>

\* The session ends with the link at the latest; its own revoked_at is not set
\* although the link may have been revoked meanwhile.
NewSessionStatus(l) == IF links[l] = "EXPIRED" THEN "EXPIRED" ELSE "VALID"

CreateSession(h, s) ==
  /\ handlers[h].at = "session"
  /\ driverSessions[s] = NoSession
  /\ driverSessions' = [driverSessions EXCEPT ![s] =
       [status |-> NewSessionStatus(handlers[h].link),
        link |-> handlers[h].link, code |-> handlers[h].code]]
  /\ Done(h)
  /\ UNCHANGED <<waybill, calls, links, challenges>>

\* A statement fails or the process dies: what was committed stays.
GiveUp(h) ==
  /\ handlers[h].at # "idle"
  /\ Done(h)
  /\ UNCHANGED <<waybill, calls, links, challenges, driverSessions>>

-----------------------------------------------------------------------------
EndSessionsOf(l, status) ==
  [s \in SessionIds |->
     IF driverSessions[s].link = l /\ driverSessions[s].status = "VALID"
     THEN [driverSessions[s] EXCEPT !.status = status] ELSE driverSessions[s]]

\* revokeDriverAccessLink: one transaction.
RevokeLink(l) ==
  /\ links' = [links EXCEPT ![l] = "REVOKED"]
  /\ driverSessions' = EndSessionsOf(l, "REVOKED")
  /\ UNCHANGED <<waybill, calls, challenges, handlers>>

\* expires_at of the link passes, and so does that of its sessions.
ExpireLink(l) ==
  /\ links[l] = "VALID"
  /\ links' = [links EXCEPT ![l] = "EXPIRED"]
  /\ driverSessions' = EndSessionsOf(l, "EXPIRED")
  /\ UNCHANGED <<waybill, calls, challenges, handlers>>

\* Faulty variant: the link's revoked_at is not looked at.
UsableBySession(s) == driverSessions[s].status = "VALID"

\* validateDriverSession succeeds.
Usable(s) ==
  /\ driverSessions[s].status = "VALID"
  /\ links[driverSessions[s].link] # "REVOKED"

\* A code ages by a stage, the older ones first.
Age(i) ==
  /\ challenges[i].stage # "OLD"
  /\ \A j \in 1 .. i - 1 : challenges[j].stage # "VALID"
  /\ challenges[i].stage = "EXPIRED" => \A j \in 1 .. i - 1 : challenges[j].stage = "OLD"
  /\ challenges' = [challenges EXCEPT
       ![i].stage = IF @ = "VALID" THEN "EXPIRED" ELSE "OLD"]
  /\ UNCHANGED <<waybill, calls, links, driverSessions, handlers>>

LockLapses(i) ==
  /\ challenges[i].lock = "LOCKED"
  /\ challenges[i].stage = "OLD"
  /\ challenges' = [challenges EXCEPT ![i].lock = "LAPSED"]
  /\ UNCHANGED <<waybill, calls, links, driverSessions, handlers>>

Init ==
  /\ \E a \in AmountIds :
       waybill \in {row \in InitialRow(a) : row.shipment = "IMPORTED"}
  /\ calls = [c \in Callers |-> Idle]
  /\ links = [l \in Links |-> "VALID"]
  /\ challenges = <<>>
  /\ driverSessions = [s \in SessionIds |-> NoSession]
  /\ handlers = [h \in Handlers |-> NoHandler]

HandlerStep(h) ==
  \/ \E l \in Links : BeginRequest(h, l)
  \/ CreateChallenge(h)
  \/ \E l \in Links, correct \in BOOLEAN : BeginVerify(h, l, correct)
  \/ RefuseCode(h)
  \/ MarkVerified(h)
  \/ ViewWaybill(h)
  \/ \E s \in SessionIds : CreateSession(h, s)
  \/ GiveUp(h)

OperatorStep(c) ==
  /\ \/ \E t \in Targets, v \in 1 .. waybill.version : BeginShipment(c, t, v)
     \/ CommitShipment(c)
     \/ Rollback(c)
  /\ UNCHANGED accessVars

TimeStep == \E i \in DOMAIN challenges : Age(i) \/ LockLapses(i)

Next ==
  \/ \E h \in Handlers : HandlerStep(h)
  \/ \E c \in Callers : OperatorStep(c)
  \/ \E l \in Links : RevokeLink(l) \/ ExpireLink(l)
  \/ TimeStep

Spec == Init /\ [][Next]_vars

\* Time passes.  Nobody is obliged to do anything else.
FairSpec == Spec /\ WF_vars(TimeStep)

-----------------------------------------------------------------------------
HandlersAt(stages) == {h \in Handlers : handlers[h].at \in stages}

SessionsOf(i) == {s \in SessionIds : driverSessions[s].code = i}

Session ==
  [status: {"ABSENT", "VALID", "REVOKED", "EXPIRED"}, link: Links \cup {None},
   code: Nat]

Handler ==
  [at: {"idle", "create", "verify", "refuse", "view", "session"},
   link: Links \cup {None}, code: Nat, seenAttempts: Nat,
   seenShipment: ShipmentStatus]

\* Every row and every request in flight keeps its types.
TypeOK ==
  /\ waybill \in WaybillRow
  /\ calls \in [Callers -> {Idle} \cup ShipmentCalls]
  /\ links \in [Links -> {"VALID", "REVOKED", "EXPIRED"}]
  /\ challenges \in Seq(Challenge)
  /\ driverSessions \in [SessionIds -> Session]
  /\ handlers \in [Handlers -> Handler]

\* However a login overlaps the revocation or the end of its link, the session
\* it opens is of no use once the link is not valid (verifyDriverOtp,
\* validateDriverSession).
NoSessionOutlivesItsLink ==
  \A s \in SessionIds :
    driverSessions[s].status # "ABSENT" /\ Usable(s)
      => links[driverSessions[s].link] = "VALID"

\* Requests that are handled together pass the limit of codes in 10 minutes by
\* no more than one each; one at a time they keep it (requestDriverOtp).
RequestsLimited ==
  Cardinality(Recent) + Cardinality(HandlersAt({"create"}))
    <= MaxRequests - 1 + Cardinality(Handlers)

\* A wrong code that was compared before the lock and is counted after it does
\* not lift the lock: only time does (verifyDriverOtp).
LockIsKept ==
  [][\A i \in DOMAIN challenges :
       challenges[i].lock = "LOCKED" /\ challenges'[i].lock # "LOCKED"
         => challenges[i].stage = "OLD"]_vars

\* One code opens at most one session per request in flight, those that are
\* about to open one included; an unverified code opens none (verifyDriverOtp).
SessionsPerCode ==
  \A i \in DOMAIN challenges :
    /\ Cardinality(SessionsOf(i))
       + Cardinality({h \in HandlersAt({"verify", "view", "session"}) :
                        handlers[h].code = i}) <= Cardinality(Handlers)
    /\ SessionsOf(i) # {} => challenges[i].verified

\* A driver who is refused a code because of a lock or of the request limit is
\* let in again, unless his mobile is suspended for the day.
RefusalEnds == []<>(MayRequest \/ Suspended)

\* Only a login that began before the cancellation takes it back: it writes
\* DRIVER_VIEWED from the status it had read (verifyDriverOtp).
CancelledLostOnlyToLogin ==
  [][waybill.shipment = "CANCELLED" /\ waybill'.shipment # "CANCELLED"
       => \E h \in HandlersAt({"view"}) :
            handlers[h].seenShipment # "CANCELLED"]_vars
=============================================================================
