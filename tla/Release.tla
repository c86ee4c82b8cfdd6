------------------------------- MODULE Release -------------------------------
(***************************************************************************)
(* Delivery of the waybill's PDF: authorizeRelease, revokeRelease and the  *)
(* download grant canReleaseAndGrantDownload, with the rows they share:    *)
(* release_authorizations, driver_sessions, document_access_events.        *)
(***************************************************************************)
EXTENDS WaybillRecord, FiniteSets

CONSTANTS
  AuthIds,      \* ids of release_authorizations rows
  Sessions      \* driver sessions of this waybill

ASSUME ReleaseAssumption == None \notin AuthIds /\ None \notin Sessions

VARIABLES
  authorizations,  \* "ABSENT", "ACTIVE" (revoked_at IS NULL) or "REVOKED"
  sessions,        \* "VALID", or "ENDED": revoked or expired
  accessEvents     \* document_access_events: who downloaded (None: no session)

releaseVars == <<authorizations, sessions, accessEvents>>

ActiveAuthorizations ==
  {a \in AuthIds : authorizations[a] = "ACTIVE"}

-----------------------------------------------------------------------------
(***************************************************************************)
(* authorizeRelease.  When an authorization is active the call returns it  *)
(* and writes nothing; when one appears after that look-up, the insert is  *)
(* rejected.  Both are Rollback here.                                      *)
(***************************************************************************)
AuthorizeCalls == [op: {"authorize"}]

BeginAuthorize(c) ==
  /\ Active(waybill)
  /\ DocVerified(waybill)
  /\ PaymentSettled(waybill)
  /\ CommitmentAccepted(waybill)
  /\ Start(c, [op |-> "authorize"])
  /\ UNCHANGED <<waybill, releaseVars>>

\* Faulty variant: neither the look-up nor the partial unique index.
NoneActiveUnchecked == TRUE

\* No active row: neither in the look-up nor in
\* idx_release_authorizations_active at the insert.
NoneActive == ActiveAuthorizations = {}

CommitAuthorize(c, a) ==
  /\ calls[c].op = "authorize"
  /\ authorizations[a] = "ABSENT"
  /\ NoneActive
  /\ VersionLeft
  /\ authorizations' = [authorizations EXCEPT ![a] = "ACTIVE"]
  /\ WriteWaybill(Bump([waybill EXCEPT !.release = "AUTHORIZED"]))
  /\ Finish(c)
  /\ UNCHANGED <<sessions, accessEvents>>

-----------------------------------------------------------------------------
(***************************************************************************)
(* revokeRelease: allowed in every state of the waybill.                   *)
(***************************************************************************)
RevokeCalls == [op: {"revoke"}, authorization: AuthIds \cup {None}]

BeginRevoke(c) ==
  /\ Start(c, [op |-> "revoke",
               authorization |-> IF NoneActive THEN None
                                 ELSE CHOOSE a \in ActiveAuthorizations : TRUE])
  /\ UNCHANGED <<waybill, releaseVars>>

EndSessions == [s \in Sessions |-> "ENDED"]

\* Faulty variant: the waybill's release status is left as it was.
CommitRevokeAuthorizationOnly(c) ==
  /\ calls[c].op = "revoke"
  /\ authorizations' = [a \in AuthIds |->
       IF a = calls[c].authorization THEN "REVOKED" ELSE authorizations[a]]
  /\ sessions' = EndSessions
  /\ Finish(c)
  /\ UNCHANGED <<waybill, accessEvents>>

\* Faulty variant: only the waybill is written.
CommitRevokeWaybillOnly(c) ==
  /\ calls[c].op = "revoke"
  /\ VersionLeft
  /\ sessions' = EndSessions
  /\ WriteWaybill(Bump([waybill EXCEPT !.release = "REVOKED"]))
  /\ Finish(c)
  /\ UNCHANGED <<authorizations, accessEvents>>

CommitRevoke(c) ==
  /\ calls[c].op = "revoke"
  /\ VersionLeft
  /\ authorizations' = [a \in AuthIds |->
       IF a = calls[c].authorization THEN "REVOKED" ELSE authorizations[a]]
  /\ sessions' = EndSessions
  /\ WriteWaybill(Bump([waybill EXCEPT !.release = "REVOKED"]))
  /\ Finish(c)
  /\ UNCHANGED accessEvents

-----------------------------------------------------------------------------
(***************************************************************************)
(* canReleaseAndGrantDownload.  The session is optional: the download      *)
(* route passes one only when its cookie names a valid session.            *)
(***************************************************************************)
GrantCalls ==
  [op: {"grant"}, session: Sessions \cup {None}, advance: BOOLEAN]

HasActiveSession(s) == s # None => sessions[s] = "VALID"

BeginGrant(c, s) ==
  /\ CanRelease(waybill, HasActiveSession(s))
  /\ Start(c, [op |-> "grant", session |-> s,
               advance |-> waybill.release = "AUTHORIZED"])
  /\ UNCHANGED <<waybill, releaseVars>>

CommitGrant(c) ==
  LET call == calls[c] IN
  /\ call.op = "grant"
  /\ accessEvents' = accessEvents \cup {call.session}
  /\ IF call.advance
     THEN /\ VersionLeft
          /\ WriteWaybill(Bump([waybill EXCEPT !.release = "RELEASED"]))
     ELSE UNCHANGED waybill
  /\ Finish(c)
  /\ UNCHANGED <<authorizations, sessions>>

\* A session reaches its expires_at, or its link is revoked.
EndSession(s) ==
  /\ sessions[s] = "VALID"
  /\ sessions' = [sessions EXCEPT ![s] = "ENDED"]
  /\ UNCHANGED <<waybill, calls, authorizations, accessEvents>>

=============================================================================
