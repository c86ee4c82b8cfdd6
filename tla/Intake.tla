-------------------------------- MODULE Intake --------------------------------
(***************************************************************************)
(* What happens before a waybill is shown to its driver: files are         *)
(* imported, PDFs are attached, waybills cancelled and their amounts       *)
(* corrected, in requests that overlap.                                    *)
(***************************************************************************)
EXTENDS Documents, FiniteSetsExt

CONSTANT Corrections    \* the amounts operators correct a waybill to

ASSUME IntakeAssumption == Corrections \subseteq Nat \ {0}

vars == <<batches, drivers, waybills, requests, docs>>

Init ==
  /\ batches = [b \in BatchIds |-> NoBatch]
  /\ drivers = {}
  /\ waybills = [k \in Identities |-> NoWaybill]
  /\ requests = [r \in Requests |-> Idle]
  /\ docs = [d \in DocIds |-> NoDoc]

ImportStep(r) ==
  /\ \/ \E f \in Files : BeginUpload(r, f)
     \/ \E b \in BatchIds : CommitUpload(r, b)
     \/ \E b \in BatchIds : BeginCommitBatch(r, b)
     \/ CommitBatch(r)
  /\ UNCHANGED docs

DocumentStep(r) ==
  \/ \E name \in FileNames, b \in BatchIds \cup {None} : BeginMatch(r, name, b)
  \/ \E d \in DocIds : StoreUnmatched(r, d)
  \/ \E d \in DocIds : CommitMatch(r, d)
  \/ \E d \in DocIds, k \in Identities : BeginAttach(r, d, k)
  \/ CommitAttach(r)
  \/ \E k \in Identities : BeginReplace(r, k)
  \/ \E d \in DocIds : CommitReplace(r, d)

\* The transaction is rolled back or the process dies.
Rollback(r) ==
  /\ requests[r] # Idle
  /\ Finish(r)
  /\ UNCHANGED <<importVars, waybills, docs>>

\* transitionWaybillShipmentStatus writes only what it has just read.
Cancel(k) ==
  /\ waybills[k].shipment \in {"IMPORTED", "READY_FOR_DRIVER"}
  /\ waybills' = [waybills EXCEPT ![k].shipment = "CANCELLED"]
  /\ UNCHANGED <<importVars, requests, docs>>

\* Faulty variant: the correction counts as the price of the file.
PricedAnew(row, v) == [row EXCEPT !.rounded = v, !.amount = v, !.corrected = TRUE]

\* The new row of waybill_amounts copies raw, rounded and surcharge from the one it
\* supersedes.
Corrected(row, v) == [row EXCEPT !.amount = v, !.corrected = TRUE]

\* correctWaybillAmount, whose overlap with itself is the subject of Settlement.
Correct(k, v) ==
  /\ k \in Imported
  /\ Active(k)
  /\ waybills' = [waybills EXCEPT ![k] = Corrected(@, v)]
  /\ UNCHANGED <<importVars, requests, docs>>

Next ==
  \/ \E r \in Requests : ImportStep(r) \/ DocumentStep(r) \/ Rollback(r)
  \/ \E k \in Identities : Cancel(k)
  \/ \E k \in Identities, v \in Corrections : Correct(k, v)

Spec == Init /\ [][Next]_vars

-----------------------------------------------------------------------------
RoundingExcess(k) == waybills[k].rounded - waybills[k].raw

Total(value(_), K) == SumFunctionOnSet([k \in Identities |-> value(k)], K)

\* The cumulative report over the current amounts that were created in a period:
\* those of the waybills K.
RoundingReport(K) ==
  [raw            |-> Total(LAMBDA k : waybills[k].raw, K),
   excess         |-> Total(RoundingExcess, K),
   surcharge      |-> Total(LAMBDA k : waybills[k].surcharge, K),
   payable        |-> Total(LAMBDA k : waybills[k].amount, K),
   roundedUpCount |-> Cardinality({k \in K : RoundingExcess(k) > 0})]

-----------------------------------------------------------------------------
BatchRow ==
  [status: {"ABSENT", "VALIDATED", "COMMITTED", "DELETED"}, file: Files \cup {None}]

WaybillRow ==
  [shipment: {"ABSENT", "IMPORTED", "READY_FOR_DRIVER", "CANCELLED"},
   document: {"NOT_UPLOADED", "VERIFIED"}, source: BatchIds \cup {None},
   mobile: Mobiles \cup {None}, raw: Nat, rounded: Nat, surcharge: Nat, amount: Nat,
   corrected: BOOLEAN]

DocRow ==
  [status: {"ABSENT", "UNMATCHED", "AUTO_MATCHED", "MANUALLY_ATTACHED", "REPLACED"},
   waybill: Identities \cup {None}]

UploadRequests == [op: {"upload"}, file: Files, existing: BatchIds \cup {None}]

CommitRequests == [op: {"commit"}, batch: BatchIds, file: Files]

DocumentRequests ==
  [op: {"match", "attach", "replace"}, waybill: Identities \cup {None},
   doc: DocIds \cup {None}, seenDoc: DocRow,
   seen: {"ABSENT", "IMPORTED", "READY_FOR_DRIVER"}]

\* Every row and every request in flight keeps its types.
TypeOK ==
  /\ batches \in [BatchIds -> BatchRow]
  /\ drivers \subseteq Mobiles
  /\ waybills \in [Identities -> WaybillRow]
  /\ requests \in
       [Requests -> {Idle} \cup UploadRequests \cup CommitRequests \cup DocumentRequests]
  /\ docs \in [DocIds -> DocRow]

ImportedFrom(b, row) ==
  /\ waybills[Identity(row)].source = b
  /\ waybills[Identity(row)].raw = row.raw
  /\ waybills[Identity(row)].mobile \in drivers

\* All or nothing, however uploads of the same file, commits and cancellations
\* overlap: the valid rows of a committed batch, and no other rows, are
\* waybills of that batch (processImportFile, commitImportBatch).
CommittedMeansImported ==
  /\ \A b \in BatchIds :
       batches[b].status = "COMMITTED" =>
         \A i \in ValidRows(batches[b].file) :
           ImportedFrom(b, Contents[batches[b].file][i])
  /\ \A k \in Imported :
       LET b == waybills[k].source IN
       b # None => /\ batches[b].status = "COMMITTED"
                   /\ \E row \in RowsOf(batches[b].file) :
                        Classify(row) = "VALID" /\ Identity(row) = k

\* The rounding report of any period tells what rounding cost the drivers, to
\* the rial: the excess is less than a multiple on each waybill, and with it the
\* prices of the files become multiples.  A correction sets the payable amount and
\* leaves that record, so it does not count as rounding; what the drivers owe is
\* explained by files, excess and surcharges only in a period without one
\* (calculateWaybillAmount, correctWaybillAmount, getRoundingExcessReport).
RoundingExplained ==
  \A K \in SUBSET Imported :
    LET report == RoundingReport(K) IN
    /\ (\A k \in K : ~waybills[k].corrected) =>
         report.payable = report.raw + report.excess + report.surcharge
    /\ \A k \in K : RoundingExcess(k) < RoundMultiple
    /\ report.roundedUpCount = 0 <=> report.excess = 0
    /\ (report.raw + report.excess) % RoundMultiple = 0

\* I-11: an identity is used once, also by a file that is imported again
\* because its batch was deleted, and also after a cancellation; only an operator
\* changes what the driver owes.
IdentityUsedOnce ==
  [][\A k \in Identities :
       waybills[k] # NoWaybill =>
         /\ waybills'[k] # NoWaybill
         /\ waybills'[k].raw = waybills[k].raw
         /\ waybills'[k].amount # waybills[k].amount => waybills'[k].corrected
         /\ waybills'[k].source \in {waybills[k].source, None}]_vars

\* I-4: a waybill has at most one PDF, however matching, attaching and
\* replacing overlap.
OneActivePdf == \A k \in Identities : Cardinality(ActiveDocs(k)) <= 1

\* A waybill loses its PDF only to a request that had read the document before
\* it came to this waybill (attachDocumentManually, replaceWaybillPdf).
PdfLostOnlyToStaleRead ==
  [][\A k \in Identities :
       ActiveDocs(k) # {} /\ ActiveDocs(k)' = {} =>
         \E r \in Requests :
           /\ requests[r].op \in {"attach", "replace"}
           /\ requests[r].doc \in ActiveDocs(k)
           /\ requests[r].seenDoc # docs[requests[r].doc]]_vars

=============================================================================
