------------------------------ MODULE Commitment ------------------------------
(***************************************************************************)
(* The driver's answer to the commitment, acceptDriverCommitment and       *)
(* declineDriverCommitment, and the panel's choice of the version in       *)
(* force.  The panel's request is not a transaction: it retires all        *)
(* versions and then activates one.                                        *)
(***************************************************************************)
EXTENDS WaybillRecord, FiniteSets

CONSTANT Versions     \* ids of commitment_versions rows

ASSUME CommitmentAssumption == Versions # {} /\ None \notin Versions

VARIABLES
  versions,           \* status of each version; ACTIVE is the default one
  signed              \* the versions with a commitment_acceptances row

commitmentVars == <<versions, signed>>

ActiveVersions == {v \in Versions : versions[v] = "ACTIVE"}

InitCommitment ==
  \E v \in Versions :
    /\ versions = [u \in Versions |-> IF u = v THEN "ACTIVE" ELSE "DRAFT"]
    /\ signed = IF waybill.commitment = "ACCEPTED" THEN {v} ELSE {}

-----------------------------------------------------------------------------
\* A repeated acceptance returns the existing row.  The status of the waybill
\* and of its shipment are not asked for.
BeginAccept(c) ==
  /\ ~(waybill.commitment = "ACCEPTED" /\ signed # {})
  /\ \E v \in ActiveVersions : Start(c, [op |-> "accept", version |-> v])
  /\ UNCHANGED <<waybill, commitmentVars>>

\* Faulty variant: no unique index on waybill and version, the answer repeated
\* without its row.
CommitAcceptStatusOnly(c) ==
  /\ calls[c].op = "accept"
  /\ VersionLeft
  /\ WriteWaybill(Bump([waybill EXCEPT !.commitment = "ACCEPTED"]))
  /\ Finish(c)
  /\ UNCHANGED commitmentVars

\* A second row for the same version is rejected.
CommitAccept(c) ==
  /\ calls[c].op = "accept"
  /\ calls[c].version \notin signed
  /\ VersionLeft
  /\ signed' = signed \cup {calls[c].version}
  /\ WriteWaybill(Bump([waybill EXCEPT !.commitment = "ACCEPTED"]))
  /\ Finish(c)
  /\ UNCHANGED versions

BeginDecline(c) ==
  /\ Start(c, [op |-> "decline"])
  /\ UNCHANGED <<waybill, commitmentVars>>

\* Whatever the answer was before.
CommitDecline(c) ==
  /\ calls[c].op = "decline"
  /\ VersionLeft
  /\ WriteWaybill(Bump([waybill EXCEPT !.commitment = "DECLINED"]))
  /\ Finish(c)
  /\ UNCHANGED commitmentVars

\* The first statement commits by itself: drafts are retired with the rest.
RetireVersions(c, v) ==
  /\ Start(c, [op |-> "publish", version |-> v])
  /\ versions' = [u \in Versions |-> "RETIRED"]
  /\ UNCHANGED <<waybill, signed>>

\* Faulty variant: no partial unique index on the active default version.
NoneActivatedUnchecked(v) == TRUE

\* idx_commitment_versions_active_default
NoneActivated(v) == ActiveVersions \subseteq {v}

ActivateVersion(c) ==
  /\ calls[c].op = "publish"
  /\ NoneActivated(calls[c].version)
  /\ versions' = [versions EXCEPT ![calls[c].version] = "ACTIVE"]
  /\ Finish(c)
  /\ UNCHANGED <<waybill, signed>>

=============================================================================
