-------------------------- MODULE DriverAccessProofs --------------------------
(***************************************************************************)
(* Theorems about DriverAccess, for every number of requests in flight,    *)
(* links, sessions and codes, and every value of the limits.               *)
(***************************************************************************)
EXTENDS DriverAccess, FiniteSetTheorems, SequenceTheorems, TLAPS

\* The first row of the waybill is a row, and nothing is in flight.
LEMMA InitType == Init => TypeOK
  <1> SUFFICES ASSUME Init PROVE TypeOK
    OBVIOUS
  <1>1. waybill \in WaybillRow
    BY DEF Init, InitialRow, WaybillRow, ShipmentStatus, DocumentStatus,
           PaymentStatus, CommitmentStatus, ReleaseStatus
  <1>2. QED
    BY <1>1 DEF Init, TypeOK, Idle, NoSession, NoHandler, Session, Handler, ShipmentStatus

\* A call of an operator that ends is idle again.
LEMMA FinishType ==
  ASSUME TypeOK, NEW c \in Callers, Finish(c)
  PROVE  calls' \in [Callers -> {Idle} \cup ShipmentCalls]
  BY DEF TypeOK, Finish

\* Bumping a row changes its version only.
LEMMA BumpRow ==
  ASSUME NEW w \in WaybillRow
  PROVE  Bump(w) \in WaybillRow /\ Bump(w).shipment = w.shipment
  BY DEF Bump, WaybillRow

\* The operators' transitions keep the types.
LEMMA OperatorType ==
  ASSUME TypeOK, NEW c \in Callers, OperatorStep(c)
  PROVE  TypeOK'
  <1>1. ASSUME NEW t \in Targets, NEW v \in 1 .. waybill.version, BeginShipment(c, t, v)
        PROVE  waybill' \in WaybillRow /\ calls' \in [Callers -> {Idle} \cup ShipmentCalls]
    <2>1. waybill.shipment \in ShipmentStatus
      BY DEF TypeOK, WaybillRow
    <2>2. t \in ShipmentStatus
      BY <1>1, <2>1 DEF BeginShipment, AllowedShipment, ShipmentStatus
    <2> DEFINE call == [op |-> "shipment", target |-> t, seen |-> waybill.shipment,
                        expectedVersion |-> v]
    <2>3. v \in Nat
      BY DEF TypeOK, WaybillRow
    <2>4. call \in ShipmentCalls
      BY <2>1, <2>2, <2>3 DEF ShipmentCalls
    <2>5. Start(c, call)
      BY <1>1 DEF BeginShipment
    <2> HIDE DEF call
    <2>6. QED
      BY <1>1, <2>4, <2>5 DEF Start, TypeOK, BeginShipment
  <1>2. ASSUME CommitShipment(c)
        PROVE  waybill' \in WaybillRow /\ calls' \in [Callers -> {Idle} \cup ShipmentCalls]
    <2>1. calls[c] \in ShipmentCalls
      BY <1>2 DEF TypeOK, CommitShipment, Idle
    <2>2. waybill' \in WaybillRow
      <3>1. [waybill EXCEPT !.shipment = calls[c].target] \in WaybillRow
        BY <2>1 DEF TypeOK, WaybillRow, ShipmentCalls
      <3>2. QED
        BY <1>2, <3>1, BumpRow DEF CommitShipment, WriteWaybill
    <2>3. QED
      BY <1>2, <2>2, FinishType DEF CommitShipment
  <1>3. ASSUME Rollback(c)
        PROVE  waybill' \in WaybillRow /\ calls' \in [Callers -> {Idle} \cup ShipmentCalls]
    BY <1>3, FinishType DEF Rollback, TypeOK
  <1>4. waybill' \in WaybillRow /\ calls' \in [Callers -> {Idle} \cup ShipmentCalls]
    BY <1>1, <1>2, <1>3 DEF OperatorStep
  <1>5. QED
    BY <1>4 DEF OperatorStep, accessVars, TypeOK

\* What a request learned when it began stays while it goes on.
LEMMA GoToEffect ==
  ASSUME TypeOK, NEW h \in Handlers, GoTo(h, "view") \/ GoTo(h, "session")
  PROVE  /\ handlers' \in [Handlers -> Handler]
         /\ \A g \in Handlers \ {h} : handlers'[g] = handlers[g]
         /\ handlers'[h].at \in {"view", "session"}
         /\ handlers'[h].link = handlers[h].link
         /\ handlers'[h].code = handlers[h].code
         /\ handlers'[h].seenShipment = handlers[h].seenShipment
  <1>1. PICK stage \in {"view", "session"} :
          handlers' = [handlers EXCEPT ![h] = [handlers[h] EXCEPT !.at = stage]]
    BY DEF GoTo
  <1> DEFINE row == [handlers[h] EXCEPT !.at = stage]
  <1>2. handlers[h] \in Handler
    BY DEF TypeOK
  <1>3. /\ row \in Handler /\ row.at = stage /\ row.link = handlers[h].link
        /\ row.code = handlers[h].code /\ row.seenShipment = handlers[h].seenShipment
    BY <1>2 DEF Handler
  <1> HIDE DEF row
  <1>4. QED
    BY <1>1, <1>3 DEF TypeOK, row

\* A request that is answered is forgotten.
LEMMA DoneEffect ==
  ASSUME TypeOK, NEW h \in Handlers, Done(h)
  PROVE  /\ handlers' \in [Handlers -> Handler]
         /\ \A g \in Handlers \ {h} : handlers'[g] = handlers[g]
         /\ handlers'[h] = NoHandler
  BY DEF TypeOK, Done, NoHandler, Handler, ShipmentStatus

\* A verification begins with the latest code not verified yet.
LEMMA BeginVerifyEffect ==
  ASSUME TypeOK, NEW h \in Handlers, NEW l \in Links, NEW correct \in BOOLEAN,
         BeginVerify(h, l, correct)
  PROVE  /\ handlers' \in [Handlers -> Handler]
         /\ \A g \in Handlers \ {h} : handlers'[g] = handlers[g]
         /\ handlers'[h].at \in {"verify", "refuse"}
         /\ handlers'[h].link = l
         /\ handlers'[h].code \in Unverified
         /\ handlers[h] = NoHandler
         /\ UNCHANGED <<waybill, calls, links, challenges, driverSessions>>
  <1>1. PICK i \in Unverified :
          /\ handlers' = [handlers EXCEPT ![h] =
               [at |-> IF correct THEN "verify" ELSE "refuse", link |-> l, code |-> i,
                seenAttempts |-> challenges[i].attempts,
                seenShipment |-> waybill.shipment]]
          /\ UNCHANGED <<waybill, calls, links, challenges, driverSessions>>
    BY DEF BeginVerify
  <1>2. i \in 1 .. Len(challenges)
    BY LenProperties DEF Unverified, TypeOK
  <1>3. challenges[i].attempts \in Nat
    <2>1. challenges[i] \in Challenge
      BY <1>2, ElementOfSeq DEF TypeOK
    <2>2. QED
      BY <2>1 DEF Challenge
  <1> DEFINE row == [at |-> IF correct THEN "verify" ELSE "refuse", link |-> l, code |-> i,
                     seenAttempts |-> challenges[i].attempts,
                     seenShipment |-> waybill.shipment]
  <1>4. row \in Handler
    BY <1>2, <1>3 DEF Handler, TypeOK, WaybillRow
  <1>5. row.at \in {"verify", "refuse"} /\ row.link = l /\ row.code = i
    OBVIOUS
  <1>6. handlers' = [handlers EXCEPT ![h] = row]
    BY <1>1
  <1>7. handlers[h] = NoHandler
    BY DEF BeginVerify
  <1> HIDE DEF row
  <1>8. QED
    BY <1>1, <1>4, <1>5, <1>6, <1>7 DEF TypeOK

LEMMA BeginRequestEffect ==
  ASSUME TypeOK, NEW h \in Handlers, NEW l \in Links, BeginRequest(h, l)
  PROVE  /\ handlers' \in [Handlers -> Handler]
         /\ \A g \in Handlers \ {h} : handlers'[g] = handlers[g]
         /\ handlers'[h].at = "create"
         /\ handlers'[h].link = l
         /\ handlers[h] = NoHandler
         /\ UNCHANGED <<waybill, calls, links, challenges, driverSessions>>
  <1> DEFINE row == [handlers[h] EXCEPT !.at = "create", !.link = l]
  <1>1. row \in Handler /\ row.at = "create" /\ row.link = l
    BY DEF TypeOK, Handler
  <1>2. handlers' = [handlers EXCEPT ![h] = row]
    BY DEF BeginRequest, TypeOK
  <1>3. /\ handlers[h] = NoHandler
        /\ UNCHANGED <<waybill, calls, links, challenges, driverSessions>>
    BY DEF BeginRequest
  <1>4. handlers \in [Handlers -> Handler]
    BY DEF TypeOK
  <1> HIDE DEF row
  <1>5. QED
    BY <1>1, <1>2, <1>3, <1>4

\* The codes and the links that requests refer to exist.
Known ==
  /\ TypeOK
  /\ \A h \in Handlers :
       /\ handlers[h].at \in {"verify", "refuse", "view", "session"}
            => handlers[h].code \in DOMAIN challenges
       /\ handlers[h].at # "idle" => handlers[h].link \in Links

\* A code whose row is written keeps its place among the codes.
LEMMA CodeWritten ==
  ASSUME TypeOK, NEW i \in DOMAIN challenges, NEW row \in Challenge,
         challenges' = [challenges EXCEPT ![i] = row]
  PROVE  /\ challenges' \in Seq(Challenge)
         /\ DOMAIN challenges' = DOMAIN challenges
         /\ challenges'[i] = row
         /\ \A j \in DOMAIN challenges \ {i} : challenges'[j] = challenges[j]
  BY LenProperties, ExceptSeq DEF TypeOK

LEMMA CodeRow ==
  ASSUME TypeOK, NEW i \in DOMAIN challenges
  PROVE  challenges[i] \in Challenge
  BY LenProperties, ElementOfSeq DEF TypeOK

\* A code that is sent becomes the latest one.
LEMMA CodeAppended ==
  ASSUME TypeOK, challenges' = Append(challenges, NewChallenge)
  PROVE  /\ challenges' \in Seq(Challenge)
         /\ Len(challenges) + 1 \notin DOMAIN challenges
         /\ DOMAIN challenges' = DOMAIN challenges \cup {Len(challenges) + 1}
         /\ challenges'[Len(challenges) + 1] = NewChallenge
         /\ \A j \in DOMAIN challenges : challenges'[j] = challenges[j]
  <1>1. NewChallenge \in Challenge
    BY DEF NewChallenge, Challenge
  <1>2. QED
    BY <1>1, LenProperties DEF TypeOK

\* A request to the server keeps the types.
LEMMA HandlerType ==
  ASSUME Known, NEW h \in Handlers, HandlerStep(h)
  PROVE  Known'
  <1> USE DEF Known
  <1>1. ASSUME NEW l \in Links, BeginRequest(h, l)
        PROVE  Known'
    BY <1>1, BeginRequestEffect DEF TypeOK
  <1>2. CASE CreateChallenge(h)
    <2>1. /\ challenges' = Append(challenges, NewChallenge)
          /\ Done(h)
          /\ UNCHANGED <<waybill, calls, links, driverSessions>>
      BY <1>2 DEF CreateChallenge
    <2>2. TypeOK'
      BY <2>1, DoneEffect, CodeAppended DEF TypeOK
    <2>3. QED
      BY <2>1, <2>2, DoneEffect, CodeAppended DEF NoHandler, TypeOK
  <1>3. ASSUME NEW l \in Links, NEW correct \in BOOLEAN, BeginVerify(h, l, correct)
        PROVE  Known'
    BY <1>3, BeginVerifyEffect DEF TypeOK, Unverified
  <1>4. CASE RefuseCode(h)
    <2> DEFINE i == handlers[h].code
               row == WrongAttempt(challenges[i], handlers[h].seenAttempts + 1)
    <2>1. i \in DOMAIN challenges
      BY <1>4 DEF RefuseCode
    <2>2. row \in Challenge
      <3>1. challenges[i] \in Challenge
        BY <2>1, CodeRow
      <3>2. handlers[h].seenAttempts + 1 \in Nat
        BY DEF TypeOK, Handler
      <3>3. QED
        BY <3>1, <3>2 DEF WrongAttempt, Challenge
    <2>3. challenges' = [challenges EXCEPT ![i] = row]
      BY <1>4 DEF RefuseCode
    <2> HIDE DEF row
    <2>4. challenges' \in Seq(Challenge) /\ DOMAIN challenges' = DOMAIN challenges
      BY <2>1, <2>2, <2>3, CodeWritten
    <2>5. /\ handlers' \in [Handlers -> Handler]
          /\ \A g \in Handlers \ {h} : handlers'[g] = handlers[g]
          /\ handlers'[h].at = "idle"
      BY <1>4, DoneEffect DEF RefuseCode, NoHandler
    <2>6. QED
      BY <1>4, <2>4, <2>5 DEF RefuseCode, TypeOK
  <1>5. CASE MarkVerified(h)
    <2> DEFINE i == handlers[h].code
               row == [challenges[i] EXCEPT !.verified = TRUE]
    <2>1. i \in DOMAIN challenges
      BY <1>5 DEF MarkVerified
    <2>2. row \in Challenge
      BY <2>1, CodeRow DEF Challenge
    <2>3. challenges' = [challenges EXCEPT ![i] = row]
      BY <1>5 DEF MarkVerified
    <2> HIDE DEF row
    <2>4. GoTo(h, "view") \/ GoTo(h, "session")
      BY <1>5 DEF MarkVerified
    <2>5. challenges' \in Seq(Challenge) /\ DOMAIN challenges' = DOMAIN challenges
      BY <2>1, <2>2, <2>3, CodeWritten
    <2>6. QED
      BY <1>5, <2>4, <2>5, GoToEffect DEF MarkVerified, TypeOK
  <1>6. CASE ViewWaybill(h)
    <2>1. waybill' \in WaybillRow
      BY <1>6 DEF ViewWaybill, WriteWaybill, WaybillRow, ShipmentStatus, TypeOK
    <2>2. QED
      BY <1>6, <2>1, GoToEffect DEF ViewWaybill, TypeOK
  <1>7. ASSUME NEW s \in SessionIds, CreateSession(h, s)
        PROVE  Known'
    <2>1. driverSessions' \in [SessionIds -> Session]
      BY <1>7 DEF CreateSession, NewSessionStatus, TypeOK, Session, Handler
    <2>2. QED
      BY <1>7, <2>1, DoneEffect DEF CreateSession, NoHandler, TypeOK
  <1>8. CASE GiveUp(h)
    BY <1>8, DoneEffect DEF GiveUp, NoHandler, TypeOK
  <1>9. QED
    BY <1>1, <1>2, <1>3, <1>4, <1>5, <1>6, <1>7, <1>8 DEF HandlerStep

\* The end of a link ends its sessions and changes nothing else.
LEMMA LinkType ==
  ASSUME Known, NEW l \in Links, RevokeLink(l) \/ ExpireLink(l)
  PROVE  Known'
  <1>1. driverSessions' \in [SessionIds -> Session]
    <2>1. \A status \in {"REVOKED", "EXPIRED"} :
            EndSessionsOf(l, status) \in [SessionIds -> Session]
      <3> SUFFICES ASSUME NEW status \in {"REVOKED", "EXPIRED"}, NEW s \in SessionIds
                   PROVE  [driverSessions[s] EXCEPT !.status = status] \in Session
        BY DEF EndSessionsOf, Known, TypeOK
      <3>1. driverSessions[s] \in Session
        BY DEF Known, TypeOK
      <3>2. QED
        BY <3>1 DEF Session
    <2>2. QED
      BY <2>1 DEF RevokeLink, ExpireLink
  <1>2. links' \in [Links -> {"VALID", "REVOKED", "EXPIRED"}]
    BY DEF RevokeLink, ExpireLink, Known, TypeOK
  <1>3. QED
    BY <1>1, <1>2 DEF RevokeLink, ExpireLink, Known, TypeOK

\* Time changes the stage or the lock of one code.
LEMMA TimeEffect ==
  ASSUME TypeOK, NEW i \in DOMAIN challenges, Age(i) \/ LockLapses(i)
  PROVE  /\ challenges' \in Seq(Challenge)
         /\ DOMAIN challenges' = DOMAIN challenges
         /\ \A j \in DOMAIN challenges \ {i} : challenges'[j] = challenges[j]
         /\ challenges'[i].verified = challenges[i].verified
         /\ challenges[i].stage = "OLD" => challenges'[i].stage = "OLD"
         /\ challenges'[i].lock # challenges[i].lock => challenges[i].stage = "OLD"
         /\ UNCHANGED <<waybill, calls, links, driverSessions, handlers>>
  <1>1. CASE Age(i)
    <2> DEFINE row == [challenges[i] EXCEPT
                         !.stage = IF @ = "VALID" THEN "EXPIRED" ELSE "OLD"]
    <2>1. row \in Challenge /\ row.verified = challenges[i].verified
          /\ row.lock = challenges[i].lock
      BY CodeRow DEF Challenge
    <2>2. challenges' = [challenges EXCEPT ![i] = row]
      BY <1>1 DEF Age
    <2> HIDE DEF row
    <2>3. QED
      BY <1>1, <2>1, <2>2, CodeWritten DEF Age
  <1>2. CASE LockLapses(i)
    <2> DEFINE row == [challenges[i] EXCEPT !.lock = "LAPSED"]
    <2>1. row \in Challenge /\ row.verified = challenges[i].verified
          /\ row.stage = challenges[i].stage
      BY CodeRow DEF Challenge
    <2>2. challenges' = [challenges EXCEPT ![i] = row]
      BY <1>2 DEF LockLapses
    <2> HIDE DEF row
    <2>3. QED
      BY <1>2, <2>1, <2>2, CodeWritten DEF LockLapses
  <1>3. QED
    BY <1>1, <1>2

\* The types and the references are inductive.
LEMMA KnownStep == Known /\ [Next]_vars => Known'
  <1>1. ASSUME Known, UNCHANGED vars PROVE Known'
    BY <1>1 DEF Known, TypeOK, vars, accessVars
  <1>2. ASSUME Known, NEW c \in Callers, OperatorStep(c) PROVE Known'
    BY <1>2, OperatorType DEF Known, OperatorStep, accessVars
  <1>3. ASSUME Known, TimeStep PROVE Known'
    BY <1>3, TimeEffect DEF Known, TimeStep, TypeOK
  <1>4. QED
    BY <1>1, <1>2, <1>3, HandlerType, LinkType DEF Next

LEMMA KnownInit == Init => Known
  BY InitType DEF Known, Init, NoHandler

\* No request ever refers to a code or a link that does not exist
\* (verifyDriverOtp).
THEOREM KnownAlways == Spec => []Known
  BY KnownInit, KnownStep, PTL DEF Spec

\* Every row and every request in flight keeps its types.
THEOREM TypeCorrect == Spec => []TypeOK
  <1>1. Known => TypeOK
    BY DEF Known
  <1>2. QED
    BY <1>1, KnownAlways, PTL

-----------------------------------------------------------------------------
(* Sessions and links.                                                     *)

\* A session that has not ended belongs to a link that has not run out.
SessionLinks ==
  \A s \in SessionIds :
    driverSessions[s].status = "VALID" =>
      /\ driverSessions[s].link \in Links
      /\ links[driverSessions[s].link] # "EXPIRED"

LEMMA SessionLinksInit == Init => SessionLinks
  BY DEF Init, SessionLinks, NoSession

LEMMA SessionLinksStep ==
  ASSUME Known, SessionLinks, [Next]_vars
  PROVE  SessionLinks'
  <1>1. ASSUME UNCHANGED <<links, driverSessions>> PROVE SessionLinks'
    BY <1>1 DEF SessionLinks
  <1>2. ASSUME NEW h \in Handlers, HandlerStep(h) PROVE SessionLinks'
    <2>1. ASSUME NEW s \in SessionIds, CreateSession(h, s) PROVE SessionLinks'
      <3> DEFINE l == handlers[h].link
                 row == [status |-> NewSessionStatus(l), link |-> l, code |-> handlers[h].code]
      <3>1. l \in Links
        BY <2>1 DEF CreateSession, Known
      <3>2. row.status = "VALID" => links[l] # "EXPIRED"
        BY DEF NewSessionStatus
      <3>3. driverSessions' = [driverSessions EXCEPT ![s] = row] /\ links' = links
        BY <2>1 DEF CreateSession
      <3>4. row.link = l
        OBVIOUS
      <3> HIDE DEF row
      <3>5. QED
        BY <3>1, <3>2, <3>3, <3>4 DEF SessionLinks, Known, TypeOK
    <2>2. QED
      BY <1>1, <1>2, <2>1, BeginVerifyEffect
      DEF HandlerStep, BeginRequest, CreateChallenge, RefuseCode, MarkVerified,
          ViewWaybill, GiveUp, Known
  <1>3. ASSUME NEW l \in Links, NEW status \in {"REVOKED", "EXPIRED"},
               links' = [links EXCEPT ![l] = status],
               driverSessions' = EndSessionsOf(l, status)
        PROVE  SessionLinks'
    <2> SUFFICES ASSUME NEW s \in SessionIds, driverSessions'[s].status = "VALID"
                 PROVE  /\ driverSessions'[s].link \in Links
                        /\ links'[driverSessions'[s].link] # "EXPIRED"
      BY DEF SessionLinks
    <2>1. driverSessions[s] \in Session
      BY DEF Known, TypeOK
    <2>2. /\ driverSessions'[s] = driverSessions[s]
          /\ driverSessions[s].link # l
      BY <1>3, <2>1 DEF EndSessionsOf, Session
    <2>3. QED
      BY <1>3, <2>2 DEF SessionLinks, Known, TypeOK
  <1>4. ASSUME NEW l \in Links, RevokeLink(l) \/ ExpireLink(l) PROVE SessionLinks'
    BY <1>3, <1>4 DEF RevokeLink, ExpireLink
  <1>5. QED
    BY <1>1, <1>2, <1>4
    DEF Next, vars, accessVars, OperatorStep, TimeStep, Age, LockLapses

\* A session is of no use once its link is not valid, however the login that
\* opened it overlapped the end of the link (verifyDriverOtp,
\* validateDriverSession).
THEOREM SessionsEndWithTheirLink == Spec => []NoSessionOutlivesItsLink
  <1>1. Known /\ SessionLinks => NoSessionOutlivesItsLink
    BY DEF Known, TypeOK, SessionLinks, NoSessionOutlivesItsLink, Usable
  <1>2. QED
    BY <1>1, KnownAlways, SessionLinksInit, SessionLinksStep, PTL DEF Spec

-----------------------------------------------------------------------------
(* The limit of codes in 10 minutes.                                       *)

\* The codes of the last 10 minutes and the requests about to send one.
Waiting == HandlersAt({"create"})

LEMMA FiniteWaiting ==
  ASSUME Known
  PROVE  /\ IsFiniteSet(Recent) /\ Cardinality(Recent) \in Nat
         /\ IsFiniteSet(Waiting) /\ Cardinality(Waiting) \in Nat
         /\ Cardinality(Waiting) <= Cardinality(Handlers)
         /\ Cardinality(Handlers) \in Nat
  <1>1. IsFiniteSet(1 .. Len(challenges)) /\ DOMAIN challenges = 1 .. Len(challenges)
    BY FS_Interval, LenProperties DEF Known, TypeOK
  <1>2. IsFiniteSet(Recent)
    BY <1>1, FS_Subset DEF Recent
  <1>3. IsFiniteSet(Waiting) /\ Cardinality(Waiting) <= Cardinality(Handlers)
    BY FS_Subset, DriverAccessAssumption DEF Waiting, HandlersAt
  <1>4. QED
    BY <1>2, <1>3, FS_CardinalityType, DriverAccessAssumption

\* Fewer of both keep the limit.
LEMMA LimitKept ==
  ASSUME Known, Known', RequestsLimited,
         Recent' \subseteq Recent, Waiting' \subseteq Waiting
  PROVE  RequestsLimited'
  <1>1. /\ Cardinality(Recent') <= Cardinality(Recent)
        /\ Cardinality(Waiting') <= Cardinality(Waiting)
    BY FiniteWaiting, FS_Subset
  <1>2. /\ Cardinality(Recent') \in Nat
        /\ Cardinality(Waiting') \in Nat
    BY FiniteWaiting, FS_Subset, FS_CardinalityType
  <1>3. QED
    BY <1>1, <1>2, FiniteWaiting, DriverAccessAssumption DEF RequestsLimited, Waiting

LEMMA LimitStep ==
  ASSUME Known, Known', RequestsLimited, [Next]_vars
  PROVE  RequestsLimited'
  <1>1. ASSUME NEW h \in Handlers, NEW l \in Links, BeginRequest(h, l)
        PROVE  RequestsLimited'
    <2>1. Cardinality(Recent) < MaxRequests /\ Recent' = Recent
      BY <1>1 DEF BeginRequest, MayRequest, Recent
    <2>2. IsFiniteSet(Waiting') /\ Waiting' \subseteq Handlers
      BY FS_Subset, DriverAccessAssumption DEF Waiting, HandlersAt
    <2>3. Cardinality(Waiting') \in Nat /\ Cardinality(Waiting') <= Cardinality(Handlers)
      BY <2>2, FS_Subset, FS_CardinalityType, DriverAccessAssumption
    <2>4. QED
      BY <2>1, <2>3, FiniteWaiting, DriverAccessAssumption DEF RequestsLimited, Waiting
  <1>2. ASSUME NEW h \in Handlers, CreateChallenge(h)
        PROVE  RequestsLimited'
    <2> DEFINE n == Len(challenges) + 1
    <2>1. Recent' \subseteq Recent \cup {n}
      BY <1>2, CodeAppended DEF CreateChallenge, Recent, Known
    <2>2. h \in Waiting
      BY <1>2 DEF CreateChallenge, Waiting, HandlersAt
    <2>3. Waiting' \subseteq Waiting \ {h}
      BY <1>2, DoneEffect DEF CreateChallenge, Waiting, HandlersAt, Known, NoHandler
    <2>4. /\ IsFiniteSet(Recent \cup {n})
          /\ Cardinality(Recent \cup {n}) <= Cardinality(Recent) + 1
          /\ Cardinality(Recent \cup {n}) \in Nat
      <3>1. IsFiniteSet(Recent) /\ Cardinality(Recent) \in Nat
        BY FiniteWaiting
      <3>2. /\ IsFiniteSet(Recent \cup {n})
            /\ \/ Cardinality(Recent \cup {n}) = Cardinality(Recent)
               \/ Cardinality(Recent \cup {n}) = Cardinality(Recent) + 1
        BY <3>1, FS_AddElement
      <3>3. QED
        BY <3>1, <3>2
    <2>5. /\ IsFiniteSet(Waiting \ {h})
          /\ Cardinality(Waiting \ {h}) = Cardinality(Waiting) - 1
          /\ Cardinality(Waiting \ {h}) \in Nat
      BY <2>2, FiniteWaiting, FS_RemoveElement, FS_CardinalityType
    <2>6. Cardinality(Recent') \in Nat /\ Cardinality(Recent') <= Cardinality(Recent) + 1
      BY <2>1, <2>4, FiniteWaiting, FS_Subset, FS_CardinalityType
    <2>7. Cardinality(Waiting') \in Nat /\ Cardinality(Waiting') <= Cardinality(Waiting) - 1
      BY <2>3, <2>5, FiniteWaiting, FS_Subset, FS_CardinalityType
    <2>8. QED
      BY <2>6, <2>7, FiniteWaiting, DriverAccessAssumption DEF RequestsLimited, Waiting
  <1>3. ASSUME NEW h \in Handlers, HandlerStep(h), ~CreateChallenge(h),
               \A l \in Links : ~BeginRequest(h, l)
        PROVE  Recent' \subseteq Recent /\ Waiting' \subseteq Waiting
    <2>1. ASSUME NEW l \in Links, NEW correct \in BOOLEAN, BeginVerify(h, l, correct)
          PROVE  Recent' \subseteq Recent /\ Waiting' \subseteq Waiting
      BY <2>1, BeginVerifyEffect DEF Known, Recent, Waiting, HandlersAt
    <2>2. CASE RefuseCode(h)
      <3>1. Waiting' \subseteq Waiting
        BY <2>2, DoneEffect DEF RefuseCode, NoHandler, Known, Waiting, HandlersAt
      <3> DEFINE i == handlers[h].code
                 row == WrongAttempt(challenges[i], handlers[h].seenAttempts + 1)
      <3>2. i \in DOMAIN challenges
        BY <2>2 DEF RefuseCode, Known
      <3>3. challenges[i] \in Challenge
        BY <3>2, CodeRow DEF Known
      <3>4. row.stage = challenges[i].stage /\ row \in Challenge
        <4>1. handlers[h].seenAttempts + 1 \in Nat
          BY DEF Known, TypeOK, Handler
        <4>2. QED
          BY <3>3, <4>1 DEF WrongAttempt, Challenge
      <3>5. challenges' = [challenges EXCEPT ![i] = row]
        BY <2>2 DEF RefuseCode
      <3> HIDE DEF row
      <3>6. QED
        BY <3>1, <3>2, <3>4, <3>5, CodeWritten DEF Recent, Known
    <2>3. CASE MarkVerified(h)
      <3>1. GoTo(h, "view") \/ GoTo(h, "session")
        BY <2>3 DEF MarkVerified
      <3>2. Waiting' \subseteq Waiting
        BY <3>1, GoToEffect DEF Known, Waiting, HandlersAt
      <3> DEFINE i == handlers[h].code
                 row == [challenges[i] EXCEPT !.verified = TRUE]
      <3>3. i \in DOMAIN challenges
        BY <2>3 DEF MarkVerified, Known
      <3>4. row.stage = challenges[i].stage /\ row \in Challenge
        BY <3>3, CodeRow DEF Challenge, Known
      <3>5. challenges' = [challenges EXCEPT ![i] = row]
        BY <2>3 DEF MarkVerified
      <3> HIDE DEF row
      <3>6. QED
        BY <3>2, <3>3, <3>4, <3>5, CodeWritten DEF Recent, Known
    <2>4. CASE ViewWaybill(h)
      BY <2>4, GoToEffect DEF ViewWaybill, Known, Recent, Waiting, HandlersAt
    <2>5. ASSUME NEW s \in SessionIds, CreateSession(h, s)
          PROVE  Recent' \subseteq Recent /\ Waiting' \subseteq Waiting
      BY <2>5, DoneEffect DEF CreateSession, NoHandler, Known, Recent, Waiting, HandlersAt
    <2>6. CASE GiveUp(h)
      BY <2>6, DoneEffect DEF GiveUp, NoHandler, Known, Recent, Waiting, HandlersAt
    <2>7. QED
      BY <1>3, <2>1, <2>2, <2>3, <2>4, <2>5, <2>6 DEF HandlerStep
  <1>4. ASSUME TimeStep
        PROVE  Recent' \subseteq Recent /\ Waiting' \subseteq Waiting
    BY <1>4, TimeEffect DEF TimeStep, Known, Recent, Waiting, HandlersAt
  <1>5. ASSUME \/ UNCHANGED vars
               \/ \E c \in Callers : OperatorStep(c)
               \/ \E l \in Links : RevokeLink(l) \/ ExpireLink(l)
        PROVE  Recent' \subseteq Recent /\ Waiting' \subseteq Waiting
    BY <1>5 DEF vars, accessVars, OperatorStep, RevokeLink, ExpireLink, Recent,
                Waiting, HandlersAt
  <1>6. QED
    BY <1>1, <1>2, <1>3, <1>4, <1>5, LimitKept DEF Next

LEMMA LimitInit == Init => RequestsLimited
  <1> SUFFICES ASSUME Init PROVE RequestsLimited
    OBVIOUS
  <1>1. Recent = {} /\ HandlersAt({"create"}) = {}
    BY DEF Init, Recent, HandlersAt, NoHandler
  <1>2. Cardinality(Handlers) \in Nat
    BY FS_CardinalityType, DriverAccessAssumption
  <1>3. QED
    BY <1>1, <1>2, FS_EmptySet, DriverAccessAssumption DEF RequestsLimited

\* Requests handled together pass the limit by no more than one each, for every
\* limit and every number of requests (requestDriverOtp).
THEOREM RequestsAreLimited == Spec => []RequestsLimited
  BY LimitInit, LimitStep, KnownAlways, PTL DEF Spec

-----------------------------------------------------------------------------
(* Action properties.                                                      *)

LEMMA LockStep ==
  ASSUME Known, [Next]_vars, NEW i \in DOMAIN challenges,
         challenges[i].lock = "LOCKED", challenges'[i].lock # "LOCKED"
  PROVE  challenges[i].stage = "OLD"
  <1>1. ASSUME NEW h \in Handlers, HandlerStep(h)
        PROVE  challenges'[i].lock = "LOCKED"
    <2>1. CASE CreateChallenge(h)
      BY <2>1, CodeAppended DEF CreateChallenge, Known
    <2>2. CASE RefuseCode(h)
      <3> DEFINE j == handlers[h].code
                 row == WrongAttempt(challenges[j], handlers[h].seenAttempts + 1)
      <3>1. j \in DOMAIN challenges
        BY <2>2 DEF RefuseCode, Known
      <3>2. challenges[j] \in Challenge /\ handlers[h].seenAttempts + 1 \in Nat
        BY <3>1, CodeRow DEF Known, TypeOK, Handler
      <3>3. row \in Challenge /\ (challenges[j].lock = "LOCKED" => row.lock = "LOCKED")
        BY <3>2 DEF WrongAttempt, Challenge
      <3>4. challenges' = [challenges EXCEPT ![j] = row]
        BY <2>2 DEF RefuseCode
      <3> HIDE DEF row
      <3>5. QED
        BY <3>1, <3>3, <3>4, CodeWritten DEF Known
    <2>3. CASE MarkVerified(h)
      <3> DEFINE j == handlers[h].code
                 row == [challenges[j] EXCEPT !.verified = TRUE]
      <3>1. j \in DOMAIN challenges
        BY <2>3 DEF MarkVerified, Known
      <3>2. row \in Challenge /\ row.lock = challenges[j].lock
        BY <3>1, CodeRow DEF Challenge, Known
      <3>3. challenges' = [challenges EXCEPT ![j] = row]
        BY <2>3 DEF MarkVerified
      <3> HIDE DEF row
      <3>4. QED
        BY <3>1, <3>2, <3>3, CodeWritten DEF Known
    <2>4. QED
      BY <1>1, <2>1, <2>2, <2>3, BeginVerifyEffect
      DEF HandlerStep, BeginRequest, ViewWaybill, CreateSession, GiveUp, Known
  <1>2. ASSUME TimeStep PROVE challenges[i].stage = "OLD"
    BY <1>2, TimeEffect DEF TimeStep, Known
  <1>3. QED
    BY <1>1, <1>2 DEF Next, vars, accessVars, OperatorStep, RevokeLink, ExpireLink

\* Only time lifts a lock, whatever wrong codes are still being counted
\* (verifyDriverOtp).
THEOREM LocksAreKept == Spec => LockIsKept
  <1>1. Known /\ [Next]_vars =>
          [\A i \in DOMAIN challenges :
             challenges[i].lock = "LOCKED" /\ challenges'[i].lock # "LOCKED"
               => challenges[i].stage = "OLD"]_vars
    BY LockStep
  <1>2. QED
    BY <1>1, KnownAlways, PTL DEF Spec, LockIsKept

-----------------------------------------------------------------------------
(* Sessions per code.                                                      *)

\* The requests that a code has let in and the sessions it has opened.
LetIn(i) ==
  {h \in HandlersAt({"verify", "view", "session"}) : handlers[h].code = i}

\* A session was opened by a code that is verified, and so will be those whose
\* request is past the verification.
CodesVerified ==
  /\ \A s \in SessionIds :
       \/ driverSessions[s] = NoSession
       \/ /\ driverSessions[s].code \in DOMAIN challenges
          /\ challenges[driverSessions[s].code].verified
  /\ \A h \in HandlersAt({"view", "session"}) : challenges[handlers[h].code].verified
  /\ \A i \in DOMAIN challenges :
       Cardinality(SessionsOf(i)) + Cardinality(LetIn(i)) <= Cardinality(Handlers)

\* Both parts of the sum are finite; alone, the requests keep the bound.
LEMMA Parts ==
  ASSUME NEW S \in SUBSET SessionIds, NEW L \in SUBSET Handlers
  PROVE  /\ IsFiniteSet(S) /\ Cardinality(S) \in Nat
         /\ IsFiniteSet(L) /\ Cardinality(L) \in Nat
         /\ Cardinality(Handlers) \in Nat
         /\ S = {} => Cardinality(S) + Cardinality(L) <= Cardinality(Handlers)
  <1>1. IsFiniteSet(S)
    BY FS_Subset, DriverAccessAssumption
  <1>2. IsFiniteSet(L) /\ Cardinality(L) <= Cardinality(Handlers)
    BY FS_Subset, DriverAccessAssumption
  <1>3. QED
    BY <1>1, <1>2, FS_CardinalityType, FS_EmptySet, DriverAccessAssumption

\* Fewer sessions and requests, or a session for a request, keep the bound.
LEMMA Fewer ==
  ASSUME NEW S \in SUBSET SessionIds, NEW L \in SUBSET Handlers,
         Cardinality(S) + Cardinality(L) <= Cardinality(Handlers),
         NEW S2 \in SUBSET S, NEW L2 \in SUBSET L
  PROVE  Cardinality(S2) + Cardinality(L2) <= Cardinality(Handlers)
  <1>1. Cardinality(S2) <= Cardinality(S) /\ Cardinality(L2) <= Cardinality(L)
    BY Parts, FS_Subset
  <1>2. Cardinality(S2) \in Nat /\ Cardinality(L2) \in Nat
    BY Parts
  <1>3. QED
    BY <1>1, <1>2, Parts

LEMMA Moved ==
  ASSUME NEW S \in SUBSET SessionIds, NEW L \in SUBSET Handlers,
         Cardinality(S) + Cardinality(L) <= Cardinality(Handlers),
         NEW s \in SessionIds, NEW h \in L,
         NEW S2 \in SUBSET (S \cup {s}), NEW L2 \in SUBSET (L \ {h})
  PROVE  Cardinality(S2) + Cardinality(L2) <= Cardinality(Handlers)
  <1>1. /\ IsFiniteSet(S \cup {s})
        /\ \/ Cardinality(S \cup {s}) = Cardinality(S)
           \/ Cardinality(S \cup {s}) = Cardinality(S) + 1
    BY Parts, FS_AddElement
  <1>2. IsFiniteSet(L \ {h}) /\ Cardinality(L \ {h}) = Cardinality(L) - 1
    BY Parts, FS_RemoveElement
  <1>3. Cardinality(S2) <= Cardinality(S \cup {s}) /\ Cardinality(L2) <= Cardinality(L \ {h})
    BY <1>1, <1>2, FS_Subset
  <1>4. S2 \in SUBSET SessionIds /\ L2 \in SUBSET Handlers
    OBVIOUS
  <1>5. /\ Cardinality(S2) \in Nat /\ Cardinality(L2) \in Nat
        /\ Cardinality(S) \in Nat /\ Cardinality(L) \in Nat
    BY <1>4, Parts
  <1>6. QED
    BY <1>1, <1>2, <1>3, <1>5, Parts

\* The parts are subsets.
LEMMA Subsets ==
  \A i : /\ SessionsOf(i) \in SUBSET SessionIds
         /\ LetIn(i) \in SUBSET Handlers
         /\ SessionsOf(i)' \in SUBSET SessionIds
         /\ LetIn(i)' \in SUBSET Handlers
  BY DEF SessionsOf, LetIn, HandlersAt

LEMMA VerifiedInit == Init => CodesVerified
  BY DEF Init, CodesVerified, HandlersAt, NoHandler

LEMMA VerifiedStep ==
  ASSUME Known, Known', CodesVerified, [Next]_vars
  PROVE  CodesVerified'
  <1>1. ASSUME NEW h \in Handlers, NEW l \in Links, NEW correct \in BOOLEAN,
               BeginVerify(h, l, correct)
        PROVE  CodesVerified'
    <2>0. PICK j : j = handlers'[h].code
      OBVIOUS
    <2>1. /\ j \in DOMAIN challenges /\ ~challenges[j].verified
          /\ handlers'[h].at \in {"verify", "refuse"}
          /\ \A g \in Handlers \ {h} : handlers'[g] = handlers[g]
          /\ UNCHANGED <<challenges, driverSessions>>
      BY <1>1, <2>0, BeginVerifyEffect DEF Known, Unverified
    <2>2. SessionsOf(j)' = {}
      <3>1. j # 0
        BY <2>1, LenProperties DEF Known, TypeOK
      <3>2. \A s \in SessionIds : driverSessions[s].code # j
        BY <2>1, <3>1 DEF CodesVerified, NoSession
      <3>3. QED
        BY <2>1, <3>2 DEF SessionsOf
    <2>3. \A i \in DOMAIN challenges \ {j} :
            /\ SessionsOf(i)' \subseteq SessionsOf(i)
            /\ LetIn(i)' \subseteq LetIn(i)
      BY <2>0, <2>1 DEF SessionsOf, LetIn, HandlersAt
    <2>4. \A i \in DOMAIN challenges :
            Cardinality(SessionsOf(i)') + Cardinality(LetIn(i)') <= Cardinality(Handlers)
      <3>1. ASSUME NEW i \in DOMAIN challenges \ {j}
            PROVE  Cardinality(SessionsOf(i)') + Cardinality(LetIn(i)') <= Cardinality(Handlers)
        BY <2>3, Fewer, Subsets DEF CodesVerified
      <3>2. Cardinality(SessionsOf(j)') + Cardinality(LetIn(j)') <= Cardinality(Handlers)
        <4>1. SessionsOf(j)' \in SUBSET SessionIds /\ LetIn(j)' \in SUBSET Handlers
          BY Subsets
        <4>2. QED
          BY <2>2, <4>1, Parts
      <3>3. QED
        BY <3>1, <3>2
    <2>5. \A g \in HandlersAt({"view", "session"})' : challenges'[handlers'[g].code].verified
      BY <2>1 DEF CodesVerified, HandlersAt
    <2>6. QED
      BY <2>1, <2>4, <2>5 DEF CodesVerified
  <1>2. ASSUME NEW h \in Handlers, CreateChallenge(h)
        PROVE  CodesVerified'
    <2>0. PICK n : n = Len(challenges) + 1
      OBVIOUS
    <2>1. /\ handlers'[h] = NoHandler
          /\ \A g \in Handlers \ {h} : handlers'[g] = handlers[g]
          /\ driverSessions' = driverSessions
      BY <1>2, DoneEffect DEF CreateChallenge, Known
    <2>2. /\ DOMAIN challenges' = DOMAIN challenges \cup {n}
          /\ n \notin DOMAIN challenges /\ n # 0
          /\ \A j \in DOMAIN challenges : challenges'[j] = challenges[j]
      BY <1>2, <2>0, CodeAppended, LenProperties DEF CreateChallenge, Known, TypeOK
    <2>3. SessionsOf(n)' = {}
      BY <2>1, <2>2 DEF SessionsOf, CodesVerified, NoSession
    <2>4. \A i \in DOMAIN challenges :
            /\ SessionsOf(i)' \subseteq SessionsOf(i)
            /\ LetIn(i)' \subseteq LetIn(i)
      BY <2>1 DEF SessionsOf, LetIn, HandlersAt, NoHandler
    <2>5. \A i \in DOMAIN challenges' :
            Cardinality(SessionsOf(i)') + Cardinality(LetIn(i)') <= Cardinality(Handlers)
      <3>1. ASSUME NEW i \in DOMAIN challenges
            PROVE  Cardinality(SessionsOf(i)') + Cardinality(LetIn(i)') <= Cardinality(Handlers)
        BY <2>4, Fewer, Subsets DEF CodesVerified
      <3>2. Cardinality(SessionsOf(n)') + Cardinality(LetIn(n)') <= Cardinality(Handlers)
        <4>1. SessionsOf(n)' \in SUBSET SessionIds /\ LetIn(n)' \in SUBSET Handlers
          BY Subsets
        <4>2. QED
          BY <2>3, <4>1, Parts
      <3>3. QED
        BY <2>2, <3>1, <3>2
    <2>6. \A g \in HandlersAt({"view", "session"})' : challenges'[handlers'[g].code].verified
      BY <2>1, <2>2 DEF CodesVerified, HandlersAt, NoHandler, Known
    <2>7. QED
      BY <2>1, <2>2, <2>5, <2>6 DEF CodesVerified
  <1>3. ASSUME NEW h \in Handlers, RefuseCode(h) \/ GiveUp(h) \/ MarkVerified(h) \/ ViewWaybill(h)
        PROVE  CodesVerified'
    <2>1. /\ driverSessions' = driverSessions
          /\ DOMAIN challenges' = DOMAIN challenges
          /\ \A j \in DOMAIN challenges :
               challenges[j].verified => challenges'[j].verified
      <3>1. CASE GiveUp(h) \/ ViewWaybill(h)
        BY <3>1 DEF GiveUp, ViewWaybill
      <3>2. CASE RefuseCode(h)
        <4> DEFINE j == handlers[h].code
                   row == WrongAttempt(challenges[j], handlers[h].seenAttempts + 1)
        <4>1. j \in DOMAIN challenges
          BY <3>2 DEF RefuseCode, Known
        <4>2. challenges[j] \in Challenge /\ handlers[h].seenAttempts + 1 \in Nat
          BY <4>1, CodeRow DEF Known, TypeOK, Handler
        <4>3. row \in Challenge /\ row.verified = challenges[j].verified
          BY <4>2 DEF WrongAttempt, Challenge
        <4>4. challenges' = [challenges EXCEPT ![j] = row]
          BY <3>2 DEF RefuseCode
        <4> HIDE DEF row
        <4>5. QED
          BY <3>2, <4>1, <4>3, <4>4, CodeWritten DEF Known, RefuseCode
      <3>3. CASE MarkVerified(h)
        <4> DEFINE j == handlers[h].code
                   row == [challenges[j] EXCEPT !.verified = TRUE]
        <4>1. j \in DOMAIN challenges
          BY <3>3 DEF MarkVerified, Known
        <4>2. row \in Challenge /\ row.verified
          BY <4>1, CodeRow DEF Challenge, Known
        <4>3. challenges' = [challenges EXCEPT ![j] = row]
          BY <3>3 DEF MarkVerified
        <4> HIDE DEF row
        <4>4. QED
          BY <3>3, <4>1, <4>2, <4>3, CodeWritten DEF Known, MarkVerified
      <3>4. QED
        BY <1>3, <3>1, <3>2, <3>3
    <2>2. /\ \A g \in Handlers \ {h} : handlers'[g] = handlers[g]
          /\ \/ handlers'[h] = NoHandler
             \/ /\ handlers[h].at \in {"verify", "view"}
                /\ handlers'[h].code = handlers[h].code
                /\ handlers[h].at = "verify" => MarkVerified(h)
      BY <1>3, DoneEffect, GoToEffect
      DEF RefuseCode, GiveUp, MarkVerified, ViewWaybill, Known
    <2>3. \A i \in DOMAIN challenges :
            /\ SessionsOf(i)' \subseteq SessionsOf(i)
            /\ LetIn(i)' \subseteq LetIn(i)
      BY <2>1, <2>2 DEF SessionsOf, LetIn, HandlersAt, NoHandler
    <2>4. \A i \in DOMAIN challenges :
            Cardinality(SessionsOf(i)') + Cardinality(LetIn(i)') <= Cardinality(Handlers)
      BY <2>3, Fewer, Subsets DEF CodesVerified
    <2>5. MarkVerified(h) => challenges'[handlers[h].code].verified
      BY CodeRow, LenProperties, ExceptSeq DEF MarkVerified, Known, Challenge, TypeOK
    <2>6. \A g \in HandlersAt({"view", "session"})' : challenges'[handlers'[g].code].verified
      BY <2>1, <2>2, <2>5 DEF CodesVerified, HandlersAt, NoHandler, Known
    <2>7. QED
      BY <2>1, <2>4, <2>6 DEF CodesVerified
  <1>4. ASSUME NEW h \in Handlers, NEW s \in SessionIds, CreateSession(h, s)
        PROVE  CodesVerified'
    <2>0. PICK j : j = handlers[h].code
      OBVIOUS
    <2>1. /\ handlers'[h] = NoHandler
          /\ \A g \in Handlers \ {h} : handlers'[g] = handlers[g]
          /\ challenges' = challenges
          /\ handlers[h].at = "session"
          /\ driverSessions'[s].code = j
          /\ \A t \in SessionIds \ {s} : driverSessions'[t] = driverSessions[t]
      BY <1>4, <2>0, DoneEffect DEF CreateSession, Known, TypeOK
    <2>2. j \in DOMAIN challenges /\ challenges[j].verified
      BY <2>0, <2>1 DEF CodesVerified, HandlersAt, Known
    <2>3. /\ h \in LetIn(j)
          /\ SessionsOf(j)' \subseteq SessionsOf(j) \cup {s}
          /\ LetIn(j)' \subseteq LetIn(j) \ {h}
      <3>1. h \in LetIn(j)
        BY <2>0, <2>1 DEF LetIn, HandlersAt
      <3>2. SessionsOf(j)' \subseteq SessionsOf(j) \cup {s}
        BY <2>1 DEF SessionsOf
      <3>3. handlers'[h].at = "idle"
        BY <2>1 DEF NoHandler
      <3>4. LetIn(j)' \subseteq LetIn(j) \ {h}
        BY <2>1, <3>3 DEF LetIn, HandlersAt
      <3>5. QED
        BY <3>1, <3>2, <3>4
    <2>4. Cardinality(SessionsOf(j)') + Cardinality(LetIn(j)') <= Cardinality(Handlers)
      BY <2>2, <2>3, Moved, Subsets DEF CodesVerified
    <2>5. \A i \in DOMAIN challenges \ {j} :
            /\ SessionsOf(i)' \subseteq SessionsOf(i)
            /\ LetIn(i)' \subseteq LetIn(i)
      BY <2>1 DEF SessionsOf, LetIn, HandlersAt, NoHandler
    <2>6. \A i \in DOMAIN challenges :
            Cardinality(SessionsOf(i)') + Cardinality(LetIn(i)') <= Cardinality(Handlers)
      <3>1. ASSUME NEW i \in DOMAIN challenges \ {j}
            PROVE  Cardinality(SessionsOf(i)') + Cardinality(LetIn(i)') <= Cardinality(Handlers)
        BY <2>5, Fewer, Subsets DEF CodesVerified
      <3>2. QED
        BY <2>4, <3>1
    <2>7. QED
      BY <2>1, <2>2, <2>6 DEF CodesVerified, HandlersAt, NoHandler
  <1>5. ASSUME /\ UNCHANGED handlers
               /\ DOMAIN challenges' = DOMAIN challenges
               /\ \A i \in DOMAIN challenges :
                    challenges'[i].verified = challenges[i].verified
               /\ \A s \in SessionIds :
                    /\ driverSessions[s] = NoSession => driverSessions'[s] = NoSession
                    /\ driverSessions'[s].code = driverSessions[s].code
        PROVE  CodesVerified'
    <2>1. \A i : SessionsOf(i)' \subseteq SessionsOf(i) /\ LetIn(i)' \subseteq LetIn(i)
      BY <1>5 DEF SessionsOf, LetIn, HandlersAt
    <2>2. \A i \in DOMAIN challenges :
            Cardinality(SessionsOf(i)') + Cardinality(LetIn(i)') <= Cardinality(Handlers)
      BY <2>1, Fewer, Subsets DEF CodesVerified
    <2>3. QED
      BY <1>5, <2>2 DEF CodesVerified, HandlersAt, Known
  <1>6. ASSUME NEW l \in Links, RevokeLink(l) \/ ExpireLink(l)
        PROVE  CodesVerified'
    <2>1. \A s \in SessionIds :
            /\ driverSessions[s] = NoSession => driverSessions'[s] = NoSession
            /\ driverSessions'[s].code = driverSessions[s].code
      <3> SUFFICES ASSUME NEW s \in SessionIds, NEW status \in {"REVOKED", "EXPIRED"}
                   PROVE  /\ driverSessions[s] = NoSession
                               => EndSessionsOf(l, status)[s] = NoSession
                          /\ EndSessionsOf(l, status)[s].code = driverSessions[s].code
        BY <1>6 DEF RevokeLink, ExpireLink
      <3>1. driverSessions[s] \in Session
        BY DEF Known, TypeOK
      <3>2. QED
        BY <3>1 DEF EndSessionsOf, Session, NoSession
    <2>2. QED
      BY <1>5, <1>6, <2>1 DEF RevokeLink, ExpireLink
  <1>7. ASSUME TimeStep PROVE CodesVerified'
    BY <1>5, <1>7, TimeEffect DEF TimeStep, Known
  <1>8. ASSUME \/ UNCHANGED vars
               \/ \E c \in Callers : OperatorStep(c)
               \/ \E h \in Handlers, l \in Links : BeginRequest(h, l)
        PROVE  CodesVerified'
    <2>1. CASE UNCHANGED vars \/ \E c \in Callers : OperatorStep(c)
      BY <1>5, <2>1 DEF vars, accessVars, OperatorStep
    <2>2. ASSUME NEW h \in Handlers, NEW l \in Links, BeginRequest(h, l)
          PROVE  CodesVerified'
      <3>1. /\ handlers'[h].at = "create"
            /\ \A g \in Handlers \ {h} : handlers'[g] = handlers[g]
            /\ UNCHANGED <<challenges, driverSessions>>
        BY <2>2, BeginRequestEffect DEF Known
      <3>2. \A i : SessionsOf(i)' \subseteq SessionsOf(i) /\ LetIn(i)' \subseteq LetIn(i)
        BY <3>1 DEF SessionsOf, LetIn, HandlersAt
      <3>3. \A i \in DOMAIN challenges :
              Cardinality(SessionsOf(i)') + Cardinality(LetIn(i)') <= Cardinality(Handlers)
        BY <3>2, Fewer, Subsets DEF CodesVerified
      <3>4. QED
        BY <3>1, <3>3 DEF CodesVerified, HandlersAt
    <2>3. QED
      BY <1>8, <2>1, <2>2
  <1>9. QED
    BY <1>1, <1>2, <1>3, <1>4, <1>6, <1>7, <1>8 DEF Next, HandlerStep

\* One code opens no more sessions than there are requests in flight, and none
\* before it is verified (verifyDriverOtp).
THEOREM SessionsPerCodeBounded == Spec => []SessionsPerCode
  <1>1. Known /\ CodesVerified => SessionsPerCode
    <2> SUFFICES ASSUME Known, CodesVerified, NEW i \in DOMAIN challenges
                 PROVE  /\ Cardinality(SessionsOf(i)) + Cardinality(LetIn(i))
                             <= Cardinality(Handlers)
                        /\ SessionsOf(i) # {} => challenges[i].verified
      BY Zenon DEF SessionsPerCode, LetIn
    <2>1. Cardinality(SessionsOf(i)) + Cardinality(LetIn(i)) <= Cardinality(Handlers)
      BY Zenon DEF CodesVerified
    <2>2. ASSUME NEW s \in SessionsOf(i)
          PROVE  challenges[i].verified
      <3>1. DOMAIN challenges \subseteq 1 .. Len(challenges)
        BY DEF Known, TypeOK
      <3>2. driverSessions[s].code = i /\ i # 0
        BY <2>2, <3>1 DEF SessionsOf
      <3>3. driverSessions[s] # NoSession
        BY <3>2 DEF NoSession
      <3>4. QED
        BY <2>2, <3>2, <3>3 DEF CodesVerified, SessionsOf
    <2>3. QED
      BY <2>1, <2>2
  <1>2. QED
    BY <1>1, VerifiedInit, VerifiedStep, KnownAlways, PTL DEF Spec

-----------------------------------------------------------------------------
(* The only writes over a cancellation.                                    *)

\* A transition in flight is allowed from the status it has read, and a login
\* about to write DRIVER_VIEWED has read a status before it.
ReadsAllow ==
  /\ \A c \in Callers :
       calls[c].op = "shipment" => calls[c].target \in AllowedShipment[calls[c].seen]
  /\ \A h \in HandlersAt({"view"}) : Unseen(handlers[h].seenShipment)

LEMMA ReadsInit == Init => ReadsAllow
  BY DEF Init, ReadsAllow, Idle, HandlersAt, NoHandler

LEMMA ReadsCalls ==
  ASSUME Known, ReadsAllow, NEW c \in Callers, OperatorStep(c)
  PROVE  ReadsAllow'
  <1>1. UNCHANGED accessVars
    BY DEF OperatorStep
  <1>2. ASSUME NEW t \in Targets, NEW v \in 1 .. waybill.version, BeginShipment(c, t, v)
        PROVE  ReadsAllow'
    <2> DEFINE call == [op |-> "shipment", target |-> t, seen |-> waybill.shipment,
                        expectedVersion |-> v]
    <2>1. call.op = "shipment" /\ call.target \in AllowedShipment[call.seen]
      BY <1>2 DEF BeginShipment
    <2>2. calls' = [calls EXCEPT ![c] = call]
      BY <1>2 DEF BeginShipment, Start
    <2> HIDE DEF call
    <2>3. QED
      BY <1>1, <2>1, <2>2 DEF ReadsAllow, Known, TypeOK, accessVars, HandlersAt
  <1>3. CASE Finish(c)
    BY <1>1, <1>3 DEF Finish, Idle, ReadsAllow, Known, TypeOK, accessVars, HandlersAt
  <1>4. QED
    BY <1>2, <1>3 DEF OperatorStep, CommitShipment, Rollback

LEMMA ReadsHandlers ==
  ASSUME Known, ReadsAllow, NEW h \in Handlers, HandlerStep(h)
  PROVE  ReadsAllow'
  <1>1. CASE MarkVerified(h)
    <2>1. handlers'[h].seenShipment = handlers[h].seenShipment
          /\ \A g \in Handlers \ {h} : handlers'[g] = handlers[g]
      BY <1>1, GoToEffect DEF MarkVerified, Known
    <2>2. handlers'[h].at = "view" => Unseen(handlers[h].seenShipment)
      BY <1>1 DEF MarkVerified, GoTo, Known, TypeOK
    <2>3. QED
      BY <1>1, <2>1, <2>2 DEF ReadsAllow, HandlersAt, Unseen, MarkVerified
  <1>2. CASE ViewWaybill(h)
    <2>1. handlers'[h].seenShipment = handlers[h].seenShipment
          /\ handlers[h].at = "view"
          /\ \A g \in Handlers \ {h} : handlers'[g] = handlers[g]
      BY <1>2, GoToEffect DEF ViewWaybill, Known
    <2>2. QED
      BY <1>2, <2>1 DEF ReadsAllow, HandlersAt, Unseen, ViewWaybill
  <1>3. ASSUME NEW l \in Links, BeginRequest(h, l) PROVE ReadsAllow'
    BY <1>3, BeginRequestEffect DEF ReadsAllow, HandlersAt, Unseen, Known
  <1>4. ASSUME NEW l \in Links, NEW correct \in BOOLEAN, BeginVerify(h, l, correct)
        PROVE  ReadsAllow'
    BY <1>4, BeginVerifyEffect DEF ReadsAllow, HandlersAt, Unseen, Known
  <1>5. CASE Done(h) /\ UNCHANGED calls
    BY <1>5, DoneEffect DEF ReadsAllow, HandlersAt, Unseen, Known, NoHandler
  <1>6. QED
    BY <1>1, <1>2, <1>3, <1>4, <1>5
    DEF HandlerStep, CreateChallenge, RefuseCode, CreateSession, GiveUp

LEMMA ReadsStep == Known /\ ReadsAllow /\ [Next]_vars => ReadsAllow'
  <1>1. ASSUME Known, ReadsAllow, UNCHANGED <<calls, handlers>> PROVE ReadsAllow'
    BY <1>1 DEF ReadsAllow, HandlersAt
  <1>2. ASSUME Known, ReadsAllow, TimeStep PROVE ReadsAllow'
    BY <1>1, <1>2, TimeEffect DEF TimeStep, Known
  <1>3. QED
    BY <1>1, <1>2, ReadsCalls, ReadsHandlers
    DEF Next, vars, accessVars, RevokeLink, ExpireLink

\* Whatever operators and drivers do, a cancelled waybill is changed back only
\* by a login that had read its status before (verifyDriverOtp).
THEOREM OnlyLoginsOverwriteCancellation == Spec => CancelledLostOnlyToLogin
  <1>1. Known /\ ReadsAllow /\ [Next]_vars =>
          [waybill.shipment = "CANCELLED" /\ waybill'.shipment # "CANCELLED"
             => \E h \in HandlersAt({"view"}) :
                  handlers[h].seenShipment # "CANCELLED"]_vars
    <2> SUFFICES ASSUME Known, ReadsAllow, Next,
                        waybill.shipment = "CANCELLED", waybill'.shipment # "CANCELLED"
                 PROVE  \E h \in HandlersAt({"view"}) :
                          handlers[h].seenShipment # "CANCELLED"
      OBVIOUS
    <2>1. ASSUME NEW c \in Callers, CommitShipment(c) PROVE FALSE
      <3>1. calls[c].target \in AllowedShipment["CANCELLED"]
        BY <2>1 DEF CommitShipment, ShipmentUnchanged, ReadsAllow
      <3>2. QED
        BY <3>1 DEF AllowedShipment
    <2>2. ASSUME NEW h \in Handlers, ViewWaybill(h)
          PROVE  h \in HandlersAt({"view"}) /\ handlers[h].seenShipment # "CANCELLED"
      BY <2>2 DEF ViewWaybill, HandlersAt, ReadsAllow, Unseen
    <2>3. CASE UNCHANGED waybill
      BY <2>3
    <2>4. \/ UNCHANGED waybill
          \/ \E c \in Callers : CommitShipment(c)
          \/ \E h \in Handlers : ViewWaybill(h)
      BY TimeEffect
      DEF Next, HandlerStep, OperatorStep, TimeStep, BeginRequest, CreateChallenge,
          BeginVerify, RefuseCode, MarkVerified, CreateSession, GiveUp, RevokeLink,
          ExpireLink, BeginShipment, Rollback, Known
    <2>5. QED
      BY <2>1, <2>2, <2>3, <2>4
  <1>2. QED
    BY <1>1, ReadsInit, ReadsStep, KnownAlways, PTL DEF Spec, CancelledLostOnlyToLogin

=============================================================================
