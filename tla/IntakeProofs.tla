----------------------------- MODULE IntakeProofs -----------------------------
(***************************************************************************)
(* Theorems about Intake, for every set of files, batches, documents and   *)
(* requests in flight.                                                     *)
(***************************************************************************)
EXTENDS Intake, SumTheorems, SequenceTheorems

\* The rows of a file are as the assumption says.
FileRow ==
  [number: Numbers, year: Nat, mobile: Mobiles, raw: Nat, weight: Nat,
   identified: BOOLEAN, date: DateCells]

LEMMA RowOfFile ==
  ASSUME NEW f \in Files, NEW i \in DOMAIN Contents[f]
  PROVE  Contents[f][i] \in FileRow /\ Identity(Contents[f][i]) \in Identities
  <1>1. Contents[f] \in Seq(FileRow)
    BY ImportsAssumption DEF FileRow
  <1>2. Contents[f][i] \in FileRow
    BY <1>1, LenProperties, ElementOfSeq
  <1>3. Contents[f][i] \in UNION {RowsOf(g) : g \in Files}
    BY DEF RowsOf
  <1>4. QED
    BY <1>2, <1>3 DEF Identities

\* Rounding up a price gives a price.
LEMMA RoundedType == ASSUME NEW raw \in Nat PROVE Rounded(raw) \in Nat
  <1>1. raw % RoundMultiple \in 0 .. RoundMultiple - 1
    BY ImportsAssumption
  <1>2. QED
    BY <1>1, ImportsAssumption DEF Rounded

\* The narrowing of candidates leaves candidates.
LEMMA MatchIsImported ==
  ASSUME NEW name, NEW preferred, MatchOf(name, preferred) # None
  PROVE  /\ MatchOf(name, preferred) \in Imported
         /\ Active(MatchOf(name, preferred))
  <1> DEFINE C == Candidates(name, preferred)
  <1>1. C \subseteq Imported
    BY DEF Candidates, Narrow
  <1>2. Cardinality(C) = 1 => C # {}
    BY FS_EmptySet
  <1> HIDE DEF C
  <1>3. /\ C # {}
        /\ \A k \in C : Active(k)
        /\ MatchOf(name, preferred) = CHOOSE k \in C : TRUE
    BY <1>2 DEF MatchOf, C
  <1>4. QED
    BY <1>1, <1>3

-----------------------------------------------------------------------------
(* The inductive invariant.                                                *)

\* A waybill is absent in its status exactly if it is absent as a row, and a
\* request about a waybill is about one that exists.
Referenced ==
  /\ \A k \in Identities :
       waybills[k].shipment = "ABSENT" => waybills[k] = NoWaybill
  /\ \A r \in Requests :
       requests[r].op \in {"match", "attach", "replace"} =>
         /\ requests[r].waybill # None => requests[r].waybill \in Imported
         /\ requests[r].op # "match" => requests[r].waybill # None

\* A batch has a file, and a request to commit knows it as long as the batch is
\* there.
BatchesKnown ==
  /\ \A b \in BatchIds :
       batches[b].status \in {"VALIDATED", "COMMITTED"} => batches[b].file # None
  /\ \A r \in Requests :
       requests[r].op = "commit" =>
         LET batch == batches[requests[r].batch] IN
         /\ batch.status # "ABSENT"
         /\ batch.status # "DELETED" => batch.file = requests[r].file

Inv == TypeOK /\ Referenced /\ BatchesKnown

\* What a waybill keeps for good: the record of its price, and its amount until an
\* operator corrects it.
KeepsIdentity(old, new) ==
  /\ new \in WaybillRow
  /\ new.shipment # "ABSENT"
  /\ new.raw = old.raw /\ new.rounded = old.rounded /\ new.surcharge = old.surcharge
  /\ new.mobile = old.mobile
  /\ new.corrected \/ (new.amount = old.amount /\ ~old.corrected)

\* The row of a waybill that is given a PDF.
LEMMA VerifiedRow ==
  ASSUME TypeOK, Referenced, NEW k \in Imported, NEW seen
  PROVE  /\ Verified(k, seen) \in [Identities -> WaybillRow]
         /\ \A j \in Identities \ {k} : Verified(k, seen)[j] = waybills[j]
         /\ KeepsIdentity(waybills[k], Verified(k, seen)[k])
         /\ Verified(k, seen)[k].source = waybills[k].source
  <1> DEFINE row == [waybills[k] EXCEPT !.document = "VERIFIED",
                       !.shipment = IF seen = "IMPORTED" THEN "READY_FOR_DRIVER" ELSE @]
  <1>1. waybills[k] \in WaybillRow /\ waybills[k].shipment # "ABSENT"
    BY DEF TypeOK, Referenced, Imported
  <1>2. KeepsIdentity(waybills[k], row) /\ row.source = waybills[k].source
    BY <1>1 DEF WaybillRow, KeepsIdentity
  <1>3. Verified(k, seen) = [waybills EXCEPT ![k] = row]
    BY DEF Verified, TypeOK
  <1> HIDE DEF row
  <1>4. QED
    BY <1>2, <1>3 DEF TypeOK, Imported, KeepsIdentity

\* The row of a waybill whose batch is dropped.
LEMMA UnsourcedRow ==
  ASSUME TypeOK, Referenced, NEW b, NEW k \in Identities
  PROVE  /\ Unsourced(b)[k] \in WaybillRow
         /\ waybills[k] = NoWaybill => Unsourced(b)[k] = NoWaybill
         /\ waybills[k] # NoWaybill => KeepsIdentity(waybills[k], Unsourced(b)[k])
         /\ Unsourced(b)[k].source =
              IF waybills[k].source = b THEN None ELSE waybills[k].source
  <1>1. waybills[k] \in WaybillRow
        /\ (waybills[k] # NoWaybill => waybills[k].shipment # "ABSENT")
    BY DEF TypeOK, Referenced
  <1>2. CASE waybills[k].source = b /\ b # None
    BY <1>1, <1>2 DEF Unsourced, WaybillRow, KeepsIdentity, NoWaybill
  <1>3. CASE ~(waybills[k].source = b /\ b # None)
    BY <1>1, <1>3 DEF Unsourced, KeepsIdentity
  <1>4. QED
    BY <1>2, <1>3

\* A request that ends leaves the others alone.
LEMMA FinishEffect ==
  ASSUME TypeOK, NEW r \in Requests, Finish(r)
  PROVE  /\ requests' \in [Requests -> {Idle} \cup UploadRequests
                                        \cup CommitRequests \cup DocumentRequests]
         /\ requests'[r] = Idle
         /\ \A q \in Requests \ {r} : requests'[q] = requests[q]
  BY DEF TypeOK, Finish

\* So does one that begins.
LEMMA BeginEffect ==
  ASSUME TypeOK, NEW r \in Requests,
         NEW request \in UploadRequests \cup CommitRequests \cup DocumentRequests,
         Begin(r, request)
  PROVE  /\ requests' \in [Requests -> {Idle} \cup UploadRequests
                                        \cup CommitRequests \cup DocumentRequests]
         /\ requests'[r] = request
         /\ \A q \in Requests \ {r} : requests'[q] = requests[q]
  BY DEF TypeOK, Begin

\* What the kinds of requests hold.
LEMMA RequestOf ==
  ASSUME TypeOK, NEW r \in Requests
  PROVE  /\ requests[r].op = "upload" => requests[r] \in UploadRequests
         /\ requests[r].op = "commit" => requests[r] \in CommitRequests
         /\ requests[r].op \in {"match", "attach", "replace"}
              => requests[r] \in DocumentRequests
  BY DEF TypeOK, Idle, UploadRequests, CommitRequests, DocumentRequests

\* The invariant only looks at rows and requests that exist.
LEMMA RequestEnds ==
  ASSUME Inv, NEW r \in Requests, Finish(r),
         batches' \in [BatchIds -> BatchRow], drivers' \subseteq Mobiles,
         docs' \in [DocIds -> DocRow],
         waybills' \in [Identities -> WaybillRow],
         \A k \in Identities :
           waybills'[k] = waybills[k] \/ waybills'[k].shipment # "ABSENT",
         \A b \in BatchIds :
           \/ batches'[b] = batches[b]
           \/ batches[b] = NoBatch
           \/ batches'[b].status = "DELETED"
           \/ batches'[b].status # "ABSENT" /\ batches'[b].file = batches[b].file
              /\ batches[b].status # "DELETED",
         \A b \in BatchIds :
           batches'[b].status \in {"VALIDATED", "COMMITTED"} => batches'[b].file # None
  PROVE  Inv'
  <1>1. TypeOK'
    BY FinishEffect DEF Inv, TypeOK
  <1>2. Referenced'
    <2>1. ASSUME NEW k \in Identities, waybills'[k].shipment = "ABSENT"
          PROVE  waybills'[k] = NoWaybill
      BY <2>1 DEF Inv, Referenced
    <2>2. Imported \subseteq Imported'
      <3>1. \A k \in Identities : waybills'[k] = waybills[k] \/ waybills'[k] # NoWaybill
        BY DEF NoWaybill
      <3>2. QED
        BY <3>1 DEF Imported
    <2>3. \A q \in Requests :
            requests'[q].op \in {"match", "attach", "replace"} => requests'[q] = requests[q]
      BY FinishEffect DEF Inv, Idle
    <2>4. QED
      BY <2>1, <2>2, <2>3 DEF Inv, Referenced
  <1>3. BatchesKnown'
    BY FinishEffect, RequestOf
    DEF Inv, BatchesKnown, Idle, CommitRequests, NoBatch
  <1>4. QED
    BY <1>1, <1>2, <1>3 DEF Inv

LEMMA RequestBegins ==
  ASSUME Inv, NEW r \in Requests, UNCHANGED <<batches, drivers, waybills, docs>>,
         NEW request \in UploadRequests \cup CommitRequests \cup DocumentRequests,
         Begin(r, request),
         request.op \in {"match", "attach", "replace"} =>
           /\ request.waybill # None => request.waybill \in Imported
           /\ request.op # "match" => request.waybill # None,
         request.op = "commit" =>
           /\ batches[request.batch].status # "ABSENT"
           /\ batches[request.batch].file = request.file
  PROVE  Inv'
  <1>1. TypeOK'
    BY BeginEffect DEF Inv, TypeOK
  <1>2. Referenced'
    BY BeginEffect DEF Inv, Referenced, Imported
  <1>3. BatchesKnown'
    BY BeginEffect DEF Inv, BatchesKnown
  <1>4. QED
    BY <1>1, <1>2, <1>3 DEF Inv

LEMMA ImportInv ==
  ASSUME Inv, NEW r \in Requests, ImportStep(r)
  PROVE  Inv'
  <1>1. ASSUME NEW f \in Files, BeginUpload(r, f) PROVE Inv'
    <2>1. PICK existing \in BatchIds \cup {None} :
            Begin(r, [op |-> "upload", file |-> f, existing |-> existing])
      BY <1>1 DEF BeginUpload, BatchesOf
    <2> DEFINE request == [op |-> "upload", file |-> f, existing |-> existing]
    <2>2. request \in UploadRequests /\ request.op = "upload"
      BY DEF UploadRequests
    <2>3. UNCHANGED <<batches, drivers, waybills, docs>>
      BY <1>1 DEF BeginUpload, importVars, ImportStep
    <2> HIDE DEF request
    <2>4. QED
      BY <2>1, <2>2, <2>3, RequestBegins DEF request
  <1>2. ASSUME NEW b \in BatchIds, CommitUpload(r, b) PROVE Inv'
    <2>1. requests[r] \in UploadRequests
      BY <1>2, RequestOf DEF CommitUpload, Inv
    <2>2. batches' \in [BatchIds -> BatchRow]
      BY <1>2, <2>1 DEF CommitUpload, Inv, TypeOK, BatchRow, UploadRequests, Dropped
    <2>3. waybills' \in [Identities -> WaybillRow]
      BY <1>2, UnsourcedRow DEF CommitUpload, Inv, Unsourced
    <2>4. \A k \in Identities :
            waybills'[k] = waybills[k] \/ waybills'[k].shipment # "ABSENT"
      BY <1>2, UnsourcedRow DEF CommitUpload, Inv, KeepsIdentity
    <2>5. \A x \in BatchIds :
            batches'[x] = batches[x] \/ batches[x] = NoBatch \/ batches'[x].status = "DELETED"
      BY <1>2 DEF CommitUpload, Dropped
    <2>6. UNCHANGED <<drivers, docs>> /\ Finish(r)
      BY <1>2 DEF CommitUpload, ImportStep
    <2>7. \A x \in BatchIds :
            batches'[x].status \in {"VALIDATED", "COMMITTED"} => batches'[x].file # None
      BY <1>2, <2>1, ImportsAssumption
      DEF CommitUpload, Dropped, Inv, BatchesKnown, UploadRequests
    <2>8. QED
      BY <2>2, <2>3, <2>4, <2>5, <2>6, <2>7, RequestEnds DEF Inv, TypeOK
  <1>3. ASSUME NEW b \in BatchIds, BeginCommitBatch(r, b) PROVE Inv'
    <2> DEFINE request == [op |-> "commit", batch |-> b, file |-> batches[b].file]
    <2>1. batches[b].file \in Files
      BY <1>3 DEF BeginCommitBatch, Inv, TypeOK, BatchRow, BatchesKnown
    <2>2. request \in CommitRequests
      BY <2>1 DEF CommitRequests
    <2>3. /\ Begin(r, request)
          /\ batches[b].status # "ABSENT"
          /\ UNCHANGED <<batches, drivers, waybills, docs>>
      BY <1>3 DEF BeginCommitBatch, importVars, ImportStep
    <2>4. request.op = "commit" /\ request.batch = b /\ request.file = batches[b].file
      OBVIOUS
    <2> HIDE DEF request
    <2>5. QED
      BY <2>2, <2>3, <2>4, RequestBegins
  <1>4. CASE CommitBatch(r)
    <2> DEFINE f == requests[r].file
               b == requests[r].batch
               rowsOf(k) == {i \in ValidRows(f) : Identity(Contents[f][i]) = k}
    <2>1. f \in Files /\ b \in BatchIds
      BY <1>4, RequestOf DEF CommitBatch, CommitRequests, Inv
    <2>2. \A i \in ValidRows(f) : Contents[f][i] \in FileRow
      BY <2>1, RowOfFile DEF ValidRows
    <2>3. ASSUME NEW k \in Identities
          PROVE  /\ waybills'[k] \in WaybillRow
                 /\ waybills'[k] = waybills[k] \/ waybills'[k].shipment # "ABSENT"
      <3>1. CASE rowsOf(k) # {}
        <4>1. PICK i \in ValidRows(f) : waybills'[k] = NewWaybill(b, Contents[f][i])
          BY <1>4, <3>1 DEF CommitBatch
        <4>2. Contents[f][i] \in FileRow
          BY <2>2
        <4>3. /\ Contents[f][i].mobile \in Mobiles
              /\ Contents[f][i].raw \in Nat /\ Rounded(Contents[f][i].raw) \in Nat
          BY <4>2, RoundedType DEF FileRow
        <4>4. NewWaybill(b, Contents[f][i]) \in WaybillRow
              /\ NewWaybill(b, Contents[f][i]).shipment = "IMPORTED"
          BY <2>1, <4>3, ImportsAssumption, SMTT(20) DEF NewWaybill, WaybillRow
        <4>5. QED
          BY <4>1, <4>4
      <3>2. CASE rowsOf(k) = {}
        BY <1>4, <3>2 DEF CommitBatch, Inv, TypeOK
      <3>3. QED
        BY <3>1, <3>2
    <2>4. waybills' \in [Identities -> WaybillRow]
      <3>1. waybills' = [k \in Identities |-> waybills'[k]]
        BY <1>4 DEF CommitBatch
      <3>2. QED
        BY <2>3, <3>1
    <2>5. drivers' \subseteq Mobiles
      BY <1>4, <2>2 DEF CommitBatch, Inv, TypeOK, FileRow
    <2>6. /\ batches' = [batches EXCEPT ![b].status = "COMMITTED"]
          /\ batches[b].status # "DELETED" /\ Finish(r) /\ docs' = docs
      BY <1>4 DEF CommitBatch, StillThere, ImportStep
    <2>7. batches' \in [BatchIds -> BatchRow]
          /\ batches'[b].status = "COMMITTED" /\ batches'[b].file = batches[b].file
          /\ \A x \in BatchIds \ {b} : batches'[x] = batches[x]
      BY <2>1, <2>6 DEF Inv, TypeOK, BatchRow
    <2>8. \A x \in BatchIds :
            batches'[x].status \in {"VALIDATED", "COMMITTED"} => batches'[x].file # None
      <3>1. batches[b].file = f
        BY <1>4, <2>6 DEF Inv, BatchesKnown, CommitBatch
      <3>2. QED
        BY <2>1, <2>7, <3>1, ImportsAssumption DEF Inv, BatchesKnown
    <2>9. docs' \in [DocIds -> DocRow]
      BY <2>6 DEF Inv, TypeOK
    <2> HIDE DEF f, b
    <2>10. QED
      BY <2>3, <2>4, <2>5, <2>6, <2>7, <2>8, <2>9, RequestEnds
  <1>5. QED
    BY <1>1, <1>2, <1>3, <1>4 DEF ImportStep

\* A PDF is written to a waybill: the invariant stays.
LEMMA PdfWritten ==
  ASSUME Inv, NEW r \in Requests, Finish(r), UNCHANGED importVars,
         docs' \in [DocIds -> DocRow],
         \/ waybills' = waybills
         \/ \E k \in Imported : \E seen : waybills' = Verified(k, seen)
         \/ \E k \in Imported : waybills' = [waybills EXCEPT ![k].document = "VERIFIED"]
  PROVE  Inv'
  <1>1. \/ waybills' = waybills
        \/ /\ waybills' \in [Identities -> WaybillRow]
           /\ \A k \in Identities :
                waybills'[k] = waybills[k] \/ waybills'[k].shipment # "ABSENT"
    <2>1. ASSUME NEW k \in Imported, NEW seen, waybills' = Verified(k, seen)
          PROVE  /\ waybills' \in [Identities -> WaybillRow]
                 /\ \A j \in Identities :
                      waybills'[j] = waybills[j] \/ waybills'[j].shipment # "ABSENT"
      BY <2>1, VerifiedRow DEF Inv, KeepsIdentity
    <2>2. ASSUME NEW k \in Imported,
                 waybills' = [waybills EXCEPT ![k].document = "VERIFIED"]
          PROVE  /\ waybills' \in [Identities -> WaybillRow]
                 /\ \A j \in Identities :
                      waybills'[j] = waybills[j] \/ waybills'[j].shipment # "ABSENT"
      BY <2>2 DEF Inv, TypeOK, WaybillRow, Imported, Referenced
    <2>3. QED
      BY <2>1, <2>2
  <1>2. QED
    BY <1>1, RequestEnds DEF Inv, TypeOK, BatchesKnown, importVars

\* A waybill that may still be changed has one of the statuses before CANCELLED.
LEMMA SeenStatus ==
  ASSUME TypeOK, NEW k \in Imported, Active(k)
  PROVE  waybills[k].shipment \in {"ABSENT", "IMPORTED", "READY_FOR_DRIVER"}
  BY DEF TypeOK, WaybillRow, Imported, Active

LEMMA DocumentInv ==
  ASSUME Inv, NEW r \in Requests, DocumentStep(r)
  PROVE  Inv'
  <1> USE DEF Inv
  <1>1. ASSUME NEW name, NEW b, BeginMatch(r, name, b) PROVE Inv'
    <2> DEFINE k == MatchOf(name, b)
               request ==
                 [op |-> "match", waybill |-> k, doc |-> None, seenDoc |-> NoDoc,
                  seen |-> IF k = None THEN "ABSENT" ELSE waybills[k].shipment]
    <2>1. k # None => k \in Imported /\ Active(k)
      BY MatchIsImported
    <2>2. Begin(r, request) /\ UNCHANGED <<batches, drivers, waybills, docs>>
      BY <1>1 DEF BeginMatch, importVars
    <2> HIDE DEF k
    <2>3. request \in DocumentRequests
      <3>1. request.seen \in {"ABSENT", "IMPORTED", "READY_FOR_DRIVER"}
        BY <2>1, SeenStatus
      <3>2. k \in Identities \cup {None} /\ NoDoc \in DocRow
        BY <2>1 DEF Imported, NoDoc, DocRow
      <3>3. QED
        BY <3>1, <3>2 DEF DocumentRequests
    <2>4. request.op = "match" /\ request.waybill = k
      OBVIOUS
    <2> HIDE DEF request
    <2>5. QED
      BY <2>1, <2>2, <2>3, <2>4, RequestBegins
  <1>2. ASSUME NEW d \in DocIds, StoreUnmatched(r, d) PROVE Inv'
    <2>1. docs' \in [DocIds -> DocRow]
      BY <1>2 DEF StoreUnmatched, TypeOK, DocRow
    <2>2. QED
      BY <1>2, <2>1, PdfWritten DEF StoreUnmatched
  <1>3. ASSUME NEW d \in DocIds, CommitMatch(r, d) PROVE Inv'
    <2>1. requests[r].waybill \in Imported
      BY <1>3 DEF CommitMatch, Referenced
    <2>2. docs' \in [DocIds -> DocRow]
      BY <1>3, <2>1 DEF CommitMatch, TypeOK, DocRow, Imported
    <2>3. QED
      BY <1>3, <2>1, <2>2, PdfWritten DEF CommitMatch
  <1>4. ASSUME NEW d \in DocIds, NEW k \in Identities, BeginAttach(r, d, k) PROVE Inv'
    <2> DEFINE request ==
          [op |-> "attach", waybill |-> k, doc |-> d, seenDoc |-> docs[d],
           seen |-> waybills[k].shipment]
    <2>1. k \in Imported /\ Active(k) /\ k # None
      BY <1>4, DocumentsAssumption DEF BeginAttach
    <2>2. Begin(r, request) /\ UNCHANGED <<batches, drivers, waybills, docs>>
      BY <1>4 DEF BeginAttach, importVars
    <2>3. request \in DocumentRequests
      <3>1. waybills[k].shipment \in {"ABSENT", "IMPORTED", "READY_FOR_DRIVER"}
        BY <2>1, SeenStatus
      <3>2. docs[d] \in DocRow
        BY DEF TypeOK
      <3>3. QED
        BY <3>1, <3>2 DEF DocumentRequests
    <2>4. request.op = "attach" /\ request.waybill = k
      OBVIOUS
    <2> HIDE DEF request
    <2>5. QED
      BY <2>1, <2>2, <2>3, <2>4, RequestBegins
  <1>5. CASE CommitAttach(r)
    <2>1. requests[r].waybill \in Imported
      BY <1>5 DEF CommitAttach, Referenced
    <2>2. docs' \in [DocIds -> DocRow]
      BY <1>5, <2>1 DEF CommitAttach, TypeOK, DocRow, Imported
    <2>3. QED
      BY <1>5, <2>1, <2>2, PdfWritten DEF CommitAttach
  <1>6. ASSUME NEW k \in Identities, BeginReplace(r, k) PROVE Inv'
    <2>1. PICK old \in DocIds \cup {None} :
            Begin(r, [op |-> "replace", waybill |-> k, doc |-> old,
                      seenDoc |-> IF old = None THEN NoDoc ELSE docs[old],
                      seen |-> waybills[k].shipment])
      BY <1>6 DEF BeginReplace, ActiveDocs
    <2> DEFINE request ==
          [op |-> "replace", waybill |-> k, doc |-> old,
           seenDoc |-> IF old = None THEN NoDoc ELSE docs[old],
           seen |-> waybills[k].shipment]
    <2>2. k \in Imported /\ Active(k) /\ k # None
      BY <1>6, DocumentsAssumption DEF BeginReplace
    <2>3. Begin(r, request) /\ UNCHANGED <<batches, drivers, waybills, docs>>
      BY <1>6, <2>1 DEF BeginReplace, importVars
    <2>4. request \in DocumentRequests
      <3>1. waybills[k].shipment \in {"ABSENT", "IMPORTED", "READY_FOR_DRIVER"}
        BY <2>2, SeenStatus
      <3>2. NoDoc \in DocRow /\ (old # None => docs[old] \in DocRow)
        BY DEF TypeOK, NoDoc, DocRow
      <3>3. QED
        BY <3>1, <3>2 DEF DocumentRequests
    <2>5. request.op = "replace" /\ request.waybill = k
      OBVIOUS
    <2> HIDE DEF request
    <2>6. QED
      BY <2>2, <2>3, <2>4, <2>5, RequestBegins
  <1>7. ASSUME NEW d \in DocIds, CommitReplace(r, d) PROVE Inv'
    <2>1. requests[r].waybill \in Imported
      BY <1>7 DEF CommitReplace, Referenced
    <2>2. docs' \in [DocIds -> DocRow]
      BY <1>7, <2>1 DEF CommitReplace, TypeOK, DocRow, Imported
    <2>3. QED
      BY <1>7, <2>1, <2>2, PdfWritten DEF CommitReplace
  <1>8. QED
    BY <1>1, <1>2, <1>3, <1>4, <1>5, <1>6, <1>7 DEF DocumentStep

\* What an operator does to one waybill: it is cancelled or its amount corrected.
Operate(k) == Cancel(k) \/ \E v \in Corrections : Correct(k, v)

\* Neither touches what identifies the waybill, nor the record of its price.
LEMMA OperatorEffect ==
  ASSUME Inv, NEW k \in Identities, Operate(k)
  PROVE  /\ waybills' \in [Identities -> WaybillRow]
         /\ \A j \in Identities \ {k} : waybills'[j] = waybills[j]
         /\ KeepsIdentity(waybills[k], waybills'[k])
         /\ waybills'[k].source = waybills[k].source
         /\ waybills[k] # NoWaybill
         /\ UNCHANGED <<batches, drivers, requests, docs>>
  <1>1. waybills[k] \in WaybillRow
    BY DEF Inv, TypeOK
  <1>2. CASE Cancel(k)
    BY <1>2 DEF Inv, TypeOK, Cancel, WaybillRow, KeepsIdentity, NoWaybill, importVars
  <1>3. ASSUME NEW v \in Corrections, Correct(k, v)
        PROVE  /\ waybills' \in [Identities -> WaybillRow]
               /\ \A j \in Identities \ {k} : waybills'[j] = waybills[j]
               /\ KeepsIdentity(waybills[k], waybills'[k])
               /\ waybills'[k].source = waybills[k].source
               /\ waybills[k] # NoWaybill
               /\ UNCHANGED <<batches, drivers, requests, docs>>
    <2> DEFINE row == Corrected(waybills[k], v)
    <2>1. waybills[k] # NoWaybill /\ waybills[k].shipment # "ABSENT"
      BY <1>3 DEF Inv, Referenced, Correct, Imported
    <2>2. /\ row \in WaybillRow /\ row.shipment = waybills[k].shipment
          /\ row.raw = waybills[k].raw /\ row.rounded = waybills[k].rounded
          /\ row.surcharge = waybills[k].surcharge /\ row.mobile = waybills[k].mobile
          /\ row.source = waybills[k].source
      BY <1>1, IntakeAssumption DEF Corrected, WaybillRow
    <2>3. row.corrected
      BY <1>1 DEF Corrected, WaybillRow
    <2>4. /\ waybills' = [waybills EXCEPT ![k] = row]
          /\ UNCHANGED <<batches, drivers, requests, docs>>
      BY <1>3 DEF Correct, importVars
    <2> HIDE DEF row
    <2>5. QED
      BY <2>1, <2>2, <2>3, <2>4 DEF Inv, TypeOK, KeepsIdentity
  <1>4. QED
    BY <1>2, <1>3 DEF Operate

LEMMA InvStep == Inv /\ [Next]_vars => Inv'
  <1>1. ASSUME Inv, UNCHANGED vars PROVE Inv'
    BY <1>1
    DEF vars, Inv, TypeOK, Referenced, BatchesKnown, Imported
  <1>2. ASSUME Inv, NEW r \in Requests, Rollback(r) PROVE Inv'
    BY <1>2, RequestEnds DEF Rollback, importVars, Inv, TypeOK, BatchesKnown
  <1>3. ASSUME Inv, NEW k \in Identities, Operate(k) PROVE Inv'
    <2>1. UNCHANGED <<batches, drivers, requests, docs>>
      BY <1>3, OperatorEffect
    <2>2. TypeOK'
      BY <1>3, <2>1, OperatorEffect DEF Inv, TypeOK
    <2>3. Referenced'
      <3>1. waybills'[k].shipment # "ABSENT"
        BY <1>3, OperatorEffect DEF KeepsIdentity
      <3>2. \A j \in Identities \ {k} : waybills'[j] = waybills[j]
        BY <1>3, OperatorEffect
      <3>3. waybills'[k] # NoWaybill
        BY <3>1 DEF NoWaybill
      <3>4. Imported \subseteq Imported'
        BY <3>2, <3>3 DEF Imported
      <3>5. QED
        BY <1>3, <2>1, <3>1, <3>2, <3>4 DEF Inv, Referenced
    <2>4. BatchesKnown'
      <3>1. BatchesKnown
        BY <1>3 DEF Inv
      <3>2. QED
        BY <2>1, <3>1 DEF BatchesKnown
    <2>5. QED
      BY <2>2, <2>3, <2>4 DEF Inv
  <1>4. QED
    BY <1>1, <1>2, <1>3, ImportInv, DocumentInv DEF Next, Operate

LEMMA InvInit == Init => Inv
  <1>1. NoBatch \in BatchRow /\ NoWaybill \in WaybillRow /\ NoDoc \in DocRow
    BY DEF NoBatch, BatchRow, NoWaybill, WaybillRow, NoDoc, DocRow
  <1>2. Init => TypeOK
    BY <1>1 DEF Init, TypeOK
  <1>3. Init => Referenced /\ BatchesKnown
    BY DEF Init, Referenced, BatchesKnown, Idle, NoBatch
  <1>4. QED
    BY <1>2, <1>3 DEF Inv

\* In every state of the intake, whatever overlaps, each row and each request
\* has its type, and what requests refer to exists.
THEOREM InvAlways == Spec => []Inv
  BY InvInit, InvStep, PTL DEF Spec

\* Every row and every request in flight keeps its types.
THEOREM TypeCorrect == Spec => []TypeOK
  <1>1. Inv => TypeOK
    BY DEF Inv
  <1>2. QED
    BY <1>1, InvAlways, PTL

-----------------------------------------------------------------------------
(* Waybills are kept.                                                      *)

\* Requests about PDFs keep all that identifies a waybill.
LEMMA DocumentRows ==
  ASSUME Inv, NEW r \in Requests, DocumentStep(r), NEW k \in Identities
  PROVE  \/ waybills'[k] = waybills[k]
         \/ /\ KeepsIdentity(waybills[k], waybills'[k])
            /\ waybills'[k].source = waybills[k].source
            /\ waybills[k] # NoWaybill
  <1> USE DEF Inv
  <1>1. ASSUME NEW j \in Imported, NEW seen, waybills' = Verified(j, seen)
        PROVE  \/ waybills'[k] = waybills[k]
               \/ /\ KeepsIdentity(waybills[k], waybills'[k])
                  /\ waybills'[k].source = waybills[k].source
                  /\ waybills[k] # NoWaybill
    BY <1>1, VerifiedRow DEF Imported
  <1>2. ASSUME NEW j \in Imported, waybills' = [waybills EXCEPT ![j].document = "VERIFIED"]
        PROVE  \/ waybills'[k] = waybills[k]
               \/ /\ KeepsIdentity(waybills[k], waybills'[k])
                  /\ waybills'[k].source = waybills[k].source
                  /\ waybills[k] # NoWaybill
    <2>1. waybills[j] \in WaybillRow /\ waybills[j] # NoWaybill
      BY DEF TypeOK, Imported
    <2>2. waybills[j].shipment # "ABSENT"
      BY <2>1 DEF Referenced, Imported
    <2>3. QED
      BY <1>2, <2>1, <2>2 DEF TypeOK, WaybillRow, KeepsIdentity
  <1>3. CASE UNCHANGED waybills
    BY <1>3
  <1>4. ASSUME NEW d \in DocIds, CommitMatch(r, d)
        PROVE  requests[r].waybill \in Imported
    BY <1>4 DEF CommitMatch, Referenced
  <1>5. ASSUME CommitAttach(r) \/ \E d \in DocIds : CommitReplace(r, d)
        PROVE  requests[r].waybill \in Imported
    BY <1>5 DEF CommitAttach, CommitReplace, Referenced
  <1>6. QED
    BY <1>1, <1>2, <1>3, <1>4, <1>5
    DEF DocumentStep, BeginMatch, StoreUnmatched, CommitMatch, BeginAttach, CommitAttach,
        BeginReplace, CommitReplace

\* I-11, for any number of files, batches and requests: an identity is never
\* used again (commitImportBatch, processImportFile).
THEOREM IdentitiesAreKept == Spec => IdentityUsedOnce
  <1>1. Inv /\ [Next]_vars =>
          [\A k \in Identities :
             waybills[k] # NoWaybill =>
               /\ waybills'[k] # NoWaybill
               /\ waybills'[k].raw = waybills[k].raw
               /\ waybills'[k].amount # waybills[k].amount => waybills'[k].corrected
               /\ waybills'[k].source \in {waybills[k].source, None}]_vars
    <2> SUFFICES ASSUME Inv, Next, NEW k \in Identities, waybills[k] # NoWaybill
                 PROVE  /\ waybills'[k] # NoWaybill
                        /\ waybills'[k].raw = waybills[k].raw
                        /\ waybills'[k].amount # waybills[k].amount => waybills'[k].corrected
                        /\ waybills'[k].source \in {waybills[k].source, None}
      OBVIOUS
    <2>1. CASE UNCHANGED waybills
      BY <2>1
    <2>2. ASSUME NEW r \in Requests, NEW b \in BatchIds, CommitUpload(r, b)
          PROVE  /\ KeepsIdentity(waybills[k], waybills'[k])
                 /\ waybills'[k].source \in {waybills[k].source, None}
      BY <2>2, UnsourcedRow DEF CommitUpload, Inv
    <2>3. ASSUME NEW r \in Requests, CommitBatch(r)
          PROVE  waybills'[k] = waybills[k]
      <3> DEFINE f == requests[r].file
      <3>1. {i \in ValidRows(f) : Identity(Contents[f][i]) = k} = {}
        BY <2>3 DEF CommitBatch, AllNew
      <3>2. QED
        BY <2>3, <3>1 DEF CommitBatch
    <2>4. ASSUME NEW r \in Requests, DocumentStep(r)
          PROVE  waybills'[k] = waybills[k] \/ /\ KeepsIdentity(waybills[k], waybills'[k])
                                               /\ waybills'[k].source = waybills[k].source
      BY <2>4, DocumentRows
    <2>5. ASSUME NEW j \in Identities, Operate(j)
          PROVE  waybills'[k] = waybills[k] \/ /\ KeepsIdentity(waybills[k], waybills'[k])
                                               /\ waybills'[k].source = waybills[k].source
      BY <2>5, OperatorEffect
    <2>6. ASSUME NEW r \in Requests, ImportStep(r) \/ Rollback(r)
          PROVE  \/ UNCHANGED waybills
                 \/ CommitBatch(r)
                 \/ \E b \in BatchIds : CommitUpload(r, b)
      BY <2>6 DEF ImportStep, BeginUpload, BeginCommitBatch, Rollback
    <2>7. \/ waybills'[k] = waybills[k]
          \/ /\ KeepsIdentity(waybills[k], waybills'[k])
             /\ waybills'[k].source \in {waybills[k].source, None}
      BY <2>1, <2>2, <2>3, <2>4, <2>5, <2>6 DEF Next, Operate
    <2>8. QED
      BY <2>7 DEF KeepsIdentity, NoWaybill
  <1>2. QED
    BY <1>1, InvAlways, PTL DEF Spec, IdentityUsedOnce

-----------------------------------------------------------------------------
(* One PDF per waybill.                                                    *)

OnePdf == \A k \in Identities : \A d, e \in ActiveDocs(k) : d = e

\* The documents that a step leaves alone stay with their waybills, those it
\* writes go where there was no other.
LEMMA OnePdfStep == Inv /\ OnePdf /\ [Next]_vars => OnePdf'
  <1> SUFFICES ASSUME Inv, OnePdf, [Next]_vars PROVE OnePdf'
    OBVIOUS
  <1> USE DEF Inv, TypeOK, OnePdf, ActiveDocs
  <1>1. CASE UNCHANGED docs
    BY <1>1
  <1>2. ASSUME NEW r \in Requests, NEW d \in DocIds, StoreUnmatched(r, d) PROVE OnePdf'
    <2>1. docs'[d].waybill = None
      BY <1>2 DEF StoreUnmatched, NoDoc
    <2>2. \A e \in DocIds \ {d} : docs'[e] = docs[e]
      BY <1>2 DEF StoreUnmatched
    <2>3. QED
      BY <2>1, <2>2, DocumentsAssumption
  <1>3. ASSUME NEW r \in Requests, NEW d \in DocIds, CommitMatch(r, d) PROVE OnePdf'
    <2> DEFINE k == requests[r].waybill
    <2>1. docs'[d].waybill = k /\ \A e \in DocIds \ {d} : docs'[e] = docs[e]
      BY <1>3 DEF CommitMatch
    <2>2. ActiveDocs(k) = {}
      BY <1>3 DEF CommitMatch, NoOtherActive
    <2>3. QED
      BY <2>1, <2>2
  <1>4. ASSUME NEW r \in Requests, CommitAttach(r) PROVE OnePdf'
    <2> DEFINE k == requests[r].waybill
               d == requests[r].doc
    <2>1. \A e \in DocIds \ {d} : docs'[e] = docs[e]
      BY <1>4 DEF CommitAttach
    <2>2. d \in DocIds => docs'[d].waybill = k
      BY <1>4 DEF CommitAttach
    <2>3. ActiveDocs(k) \subseteq {d}
      BY <1>4 DEF CommitAttach, NoOtherActive
    <2>4. QED
      BY <2>1, <2>2, <2>3
  <1>5. ASSUME NEW r \in Requests, NEW d \in DocIds, CommitReplace(r, d) PROVE OnePdf'
    <2> DEFINE k == requests[r].waybill
               old == requests[r].doc
    <2>1. /\ docs'[d].waybill = k
          /\ \A e \in DocIds \ {d, old} : docs'[e] = docs[e]
          /\ old \in DocIds \ {d} => docs'[old].status = "REPLACED"
      BY <1>5 DEF CommitReplace, DocRow
    <2>2. ActiveDocs(k) \subseteq {old}
      BY <1>5 DEF CommitReplace, NoOtherActive
    <2>3. QED
      BY <2>1, <2>2
  <1>6. QED
    BY <1>1, <1>2, <1>3, <1>4, <1>5
    DEF Next, ImportStep, DocumentStep, BeginMatch, BeginAttach, BeginReplace, Rollback,
        Cancel, Correct, vars

\* I-4, for any number of PDFs and requests: a waybill has at most one PDF
\* (attachDocumentManually, replaceWaybillPdf, uploadAndMatchPdfs).
THEOREM OnePdfPerWaybill == Spec => []OneActivePdf
  <1>1. Init => OnePdf
    BY DocumentsAssumption DEF Init, OnePdf, ActiveDocs, NoDoc
  <1>2. OnePdf => OneActivePdf
    <2> SUFFICES ASSUME OnePdf, NEW k \in Identities
                 PROVE  Cardinality(ActiveDocs(k)) <= 1
      BY DEF OneActivePdf
    <2>1. CASE ActiveDocs(k) = {}
      BY <2>1, FS_EmptySet
    <2>2. ASSUME NEW d \in ActiveDocs(k) PROVE Cardinality(ActiveDocs(k)) = 1
      <3>1. ActiveDocs(k) = {d}
        BY DEF OnePdf
      <3>2. QED
        BY <3>1, FS_Singleton
    <2>3. QED
      BY <2>1, <2>2
  <1>3. QED
    BY <1>1, <1>2, OnePdfStep, InvAlways, PTL DEF Spec

-----------------------------------------------------------------------------
(* Who takes a PDF away.                                                   *)

\* What a request about a document has read of it.
SeenDocs ==
  \A r \in Requests :
    /\ requests[r].op = "attach" =>
         /\ requests[r].doc \in DocIds
         /\ requests[r].seenDoc.waybill = None \/ requests[r].seenDoc.status = "REPLACED"
    /\ requests[r].op = "replace" /\ requests[r].doc # None =>
         requests[r].seenDoc.waybill = requests[r].waybill

\* A request keeps what it has read until it ends.
LEMMA SeenDocsStep == Inv /\ SeenDocs /\ [Next]_vars => SeenDocs'
  <1> SUFFICES ASSUME Inv, SeenDocs, [Next]_vars PROVE SeenDocs'
    OBVIOUS
  <1>1. CASE UNCHANGED requests
    BY <1>1 DEF SeenDocs
  <1>2. ASSUME NEW r \in Requests, Finish(r) PROVE SeenDocs'
    BY <1>2, FinishEffect DEF Inv, SeenDocs, Idle
  <1>3. ASSUME NEW r \in Requests, NEW request, Begin(r, request),
               request.op \in {"upload", "commit", "match"}
        PROVE  SeenDocs'
    BY <1>3 DEF Begin, SeenDocs, Inv, TypeOK
  <1>4. ASSUME NEW r \in Requests, NEW d \in DocIds, NEW k \in Identities,
               BeginAttach(r, d, k)
        PROVE  SeenDocs'
    <2> DEFINE request ==
          [op |-> "attach", waybill |-> k, doc |-> d, seenDoc |-> docs[d],
           seen |-> waybills[k].shipment]
    <2>1. requests' = [requests EXCEPT ![r] = request]
      BY <1>4 DEF BeginAttach, Begin
    <2>2. /\ request.op = "attach" /\ request.doc = d
          /\ request.seenDoc.waybill = None \/ request.seenDoc.status = "REPLACED"
      BY <1>4 DEF BeginAttach, Free
    <2> HIDE DEF request
    <2>3. QED
      BY <2>1, <2>2 DEF SeenDocs, Inv, TypeOK
  <1>5. ASSUME NEW r \in Requests, NEW k \in Identities, BeginReplace(r, k)
        PROVE  SeenDocs'
    <2>1. PICK old \in ActiveDocs(k) \cup {None} :
            /\ Begin(r, [op |-> "replace", waybill |-> k, doc |-> old,
                         seenDoc |-> IF old = None THEN NoDoc ELSE docs[old],
                         seen |-> waybills[k].shipment])
      BY <1>5 DEF BeginReplace
    <2> DEFINE request ==
          [op |-> "replace", waybill |-> k, doc |-> old,
           seenDoc |-> IF old = None THEN NoDoc ELSE docs[old],
           seen |-> waybills[k].shipment]
    <2>2. requests' = [requests EXCEPT ![r] = request]
      BY <2>1 DEF Begin
    <2>3. /\ request.op = "replace" /\ request.waybill = k /\ request.doc = old
          /\ old # None => request.seenDoc.waybill = k
      BY DEF ActiveDocs
    <2> HIDE DEF request
    <2>4. QED
      BY <2>2, <2>3 DEF SeenDocs, Inv, TypeOK
  <1>6. ASSUME NEW r \in Requests, ImportStep(r) \/ DocumentStep(r) \/ Rollback(r)
        PROVE  SeenDocs'
    <2>1. CASE ImportStep(r) \/ Rollback(r)
      BY <1>2, <1>3, <2>1
      DEF ImportStep, Rollback, BeginUpload, CommitUpload, BeginCommitBatch, CommitBatch
    <2>2. CASE DocumentStep(r)
      BY <1>2, <1>3, <1>4, <1>5, <2>2
      DEF DocumentStep, BeginMatch, StoreUnmatched, CommitMatch, CommitAttach, CommitReplace
    <2>3. QED
      BY <1>6, <2>1, <2>2
  <1>7. QED
    BY <1>1, <1>6 DEF Next, Cancel, Correct, vars

\* A waybill's PDF is taken away only by a request that had read the document
\* before it came to the waybill (attachDocumentManually, replaceWaybillPdf).
THEOREM OnlyStaleReadsTakePdfs == Spec => PdfLostOnlyToStaleRead
  <1>1. Inv /\ SeenDocs /\ [Next]_vars =>
          [\A k \in Identities :
             ActiveDocs(k) # {} /\ ActiveDocs(k)' = {} =>
               \E r \in Requests :
                 /\ requests[r].op \in {"attach", "replace"}
                 /\ requests[r].doc \in ActiveDocs(k)
                 /\ requests[r].seenDoc # docs[requests[r].doc]]_vars
    <2> SUFFICES ASSUME Inv, SeenDocs, Next, NEW k \in Identities,
                        ActiveDocs(k) # {}, ActiveDocs(k)' = {}
                 PROVE  \E r \in Requests :
                          /\ requests[r].op \in {"attach", "replace"}
                          /\ requests[r].doc \in ActiveDocs(k)
                          /\ requests[r].seenDoc # docs[requests[r].doc]
      OBVIOUS
    <2>0. PICK e \in ActiveDocs(k) : e \notin ActiveDocs(k)'
      OBVIOUS
    <2>1. /\ e \in DocIds /\ docs[e].waybill = k /\ docs[e].status # "REPLACED"
          /\ ~(docs'[e].waybill = k /\ docs'[e].status # "REPLACED")
          /\ k # None
      BY <2>0, DocumentsAssumption DEF ActiveDocs
    <2>2. docs[e] # NoDoc /\ docs'[e] # docs[e]
      BY <2>1 DEF NoDoc
    <2>3. ASSUME NEW r \in Requests, CommitAttach(r)
          PROVE  /\ requests[r].op = "attach" /\ requests[r].doc = e
                 /\ requests[r].seenDoc # docs[e]
      <3>1. requests[r].op = "attach" /\ requests[r].doc = e
        BY <2>2, <2>3 DEF CommitAttach, Inv, TypeOK
      <3>2. QED
        BY <2>1, <3>1 DEF SeenDocs
    <2>4. ASSUME NEW r \in Requests, NEW d \in DocIds, CommitReplace(r, d)
          PROVE  /\ requests[r].op = "replace" /\ requests[r].doc = e
                 /\ requests[r].seenDoc # docs[e]
      <3>1. /\ requests[r].op = "replace" /\ requests[r].doc = e /\ e # d
            /\ docs'[d] = [status |-> "MANUALLY_ATTACHED", waybill |-> requests[r].waybill]
        BY <2>1, <2>2, <2>4 DEF CommitReplace
      <3>2. requests[r].waybill # k
        BY <3>1, <2>4 DEF ActiveDocs
      <3>3. QED
        BY <2>1, <3>1, <3>2, DocumentsAssumption DEF SeenDocs
    <2>5. ASSUME NEW r \in Requests, NEW d \in DocIds,
                 StoreUnmatched(r, d) \/ CommitMatch(r, d)
          PROVE  FALSE
      BY <2>1, <2>2, <2>5 DEF StoreUnmatched, CommitMatch, Inv, TypeOK
    <2>6. docs' # docs
      BY <2>2
    <2>7. \/ \E r \in Requests : CommitAttach(r)
          \/ \E r \in Requests, d \in DocIds : CommitReplace(r, d)
      BY <2>5, <2>6
      DEF Next, ImportStep, DocumentStep, BeginMatch, BeginAttach, BeginReplace, Rollback,
          Cancel, Correct
    <2>8. QED
      BY <2>0, <2>3, <2>4, <2>7
  <1>2. Init => SeenDocs
    BY DEF Init, SeenDocs, Idle
  <1>3. QED
    BY <1>1, <1>2, SeenDocsStep, InvAlways, PTL DEF Spec, PdfLostOnlyToStaleRead

-----------------------------------------------------------------------------
(* All or nothing.                                                         *)

\* Both halves of CommittedMeansImported.
BatchImported ==
  \A b \in BatchIds :
    batches[b].status = "COMMITTED" =>
      \A i \in ValidRows(batches[b].file) : ImportedFrom(b, Contents[batches[b].file][i])

WaybillSourced ==
  \A k \in Imported :
    waybills[k].source # None =>
      /\ batches[waybills[k].source].status = "COMMITTED"
      /\ \E row \in RowsOf(batches[waybills[k].source].file) :
           Classify(row) = "VALID" /\ Identity(row) = k

\* The row of a batch that is there, and its identity.
LEMMA BatchRowOf ==
  ASSUME Inv, NEW b \in BatchIds, batches[b].status \in {"VALIDATED", "COMMITTED"},
         NEW i \in ValidRows(batches[b].file)
  PROVE  Identity(Contents[batches[b].file][i]) \in Identities
  <1>1. batches[b].file \in Files
    BY DEF Inv, BatchesKnown, TypeOK, BatchRow
  <1>2. QED
    BY <1>1, RowOfFile DEF ValidRows

\* Steps that write no batch and keep what was imported keep the promise.
LEMMA PromiseKept ==
  ASSUME Inv, BatchImported, WaybillSourced, UNCHANGED <<batches, drivers>>,
         \A k \in Identities :
           \/ waybills'[k] = waybills[k]
           \/ /\ KeepsIdentity(waybills[k], waybills'[k])
              /\ waybills'[k].source = waybills[k].source
              /\ waybills[k] # NoWaybill
  PROVE  BatchImported' /\ WaybillSourced'
  <1>1. ASSUME NEW b \in BatchIds, batches[b].status = "COMMITTED",
               NEW i \in ValidRows(batches[b].file)
        PROVE  ImportedFrom(b, Contents[batches[b].file][i])'
    <2>1. ImportedFrom(b, Contents[batches[b].file][i])
      BY <1>1 DEF BatchImported
    <2>2. Identity(Contents[batches[b].file][i]) \in Identities
      BY <1>1, BatchRowOf
    <2>3. QED
      BY <2>1, <2>2 DEF ImportedFrom, KeepsIdentity
  <1>2. ASSUME NEW k \in Imported'
        PROVE  k \in Imported /\ waybills'[k].source = waybills[k].source
    BY <1>2 DEF Imported
  <1>3. QED
    BY <1>1, <1>2 DEF BatchImported, WaybillSourced

\* A batch that is dropped takes its name off its waybills.
LEMMA PromiseAtUpload ==
  ASSUME Inv, BatchImported, WaybillSourced, NEW r \in Requests, NEW x \in BatchIds,
         CommitUpload(r, x)
  PROVE  BatchImported' /\ WaybillSourced'
  <1> DEFINE old == requests[r].existing
  <1>1. /\ old \in BatchIds \cup {None}
        /\ batches[x] = NoBatch /\ drivers' = drivers
        /\ batches'[x].status = "VALIDATED"
        /\ \A b \in BatchIds \ {x, old} : batches'[b] = batches[b]
        /\ old \in BatchIds \ {x} => batches'[old].status = "DELETED"
        /\ waybills' = Unsourced(old)
    BY RequestOf DEF CommitUpload, Inv, UploadRequests, Dropped
  <1>2. ASSUME NEW b \in BatchIds, batches'[b].status = "COMMITTED"
        PROVE  b # old /\ b # x /\ batches'[b] = batches[b]
    BY <1>1, <1>2
  <1>3. ASSUME NEW b \in BatchIds, batches'[b].status = "COMMITTED",
               NEW i \in ValidRows(batches[b].file)
        PROVE  ImportedFrom(b, Contents[batches[b].file][i])'
    <2> DEFINE k == Identity(Contents[batches[b].file][i])
    <2>1. b # old /\ batches'[b] = batches[b]
      BY <1>2, <1>3
    <2>2. ImportedFrom(b, Contents[batches[b].file][i])
      BY <1>3, <2>1 DEF BatchImported
    <2>3. k \in Identities
      BY <1>3, <2>1, BatchRowOf
    <2>4. waybills[k].source = b /\ waybills[k] # NoWaybill
      BY <2>2, ImportsAssumption DEF ImportedFrom, NoWaybill
    <2>5. waybills'[k].source = b /\ KeepsIdentity(waybills[k], waybills'[k])
      BY <1>1, <2>1, <2>3, <2>4, UnsourcedRow DEF Inv
    <2>6. QED
      BY <1>1, <2>1, <2>2, <2>5 DEF ImportedFrom, KeepsIdentity
  <1>4. ASSUME NEW k \in Imported', waybills'[k].source # None
        PROVE  /\ k \in Imported
               /\ waybills'[k].source = waybills[k].source
               /\ batches'[waybills[k].source] = batches[waybills[k].source]
    <2>1. k \in Identities /\ waybills'[k] # NoWaybill
      BY <1>4 DEF Imported
    <2>2. k \in Imported /\ waybills'[k].source = waybills[k].source
          /\ waybills[k].source # old
      BY <1>1, <1>4, <2>1, UnsourcedRow DEF Inv, Imported
    <2>3. batches[waybills[k].source].status = "COMMITTED"
      BY <1>4, <2>2 DEF WaybillSourced
    <2>4. waybills[k].source \in BatchIds
      BY <1>4, <2>1, <2>2 DEF Inv, TypeOK, WaybillRow
    <2>5. QED
      BY <1>1, <2>2, <2>3, <2>4 DEF NoBatch
  <1>5. QED
    BY <1>2, <1>3, <1>4 DEF BatchImported, WaybillSourced

\* A batch that is committed turns each of its valid rows into a waybill, and
\* touches no other.
LEMMA PromiseAtCommit ==
  ASSUME Inv, BatchImported, WaybillSourced, NEW r \in Requests, CommitBatch(r)
  PROVE  BatchImported' /\ WaybillSourced'
  <1>1. PICK b \in BatchIds, f \in Files : b = requests[r].batch /\ f = requests[r].file
    BY RequestOf DEF CommitBatch, CommitRequests, Inv
  <1>2. /\ batches[b].file = f /\ drivers \subseteq drivers'
        /\ batches'[b].status = "COMMITTED" /\ batches'[b].file = f
        /\ \A x \in BatchIds \ {b} : batches'[x] = batches[x]
    <2>1. batches[b].file = f
      BY <1>1 DEF CommitBatch, StillThere, Inv, BatchesKnown
    <2>2. batches' = [batches EXCEPT ![b].status = "COMMITTED"]
          /\ drivers \subseteq drivers'
      BY <1>1 DEF CommitBatch
    <2>3. batches[b] \in BatchRow
      BY DEF Inv, TypeOK
    <2>4. QED
      BY <2>1, <2>2, <2>3 DEF Inv, TypeOK, BatchRow
  <1>3. ASSUME NEW i \in ValidRows(f)
        PROVE  /\ waybills[Identity(Contents[f][i])] = NoWaybill
               /\ waybills'[Identity(Contents[f][i])].source = b
               /\ waybills'[Identity(Contents[f][i])].raw = Contents[f][i].raw
               /\ waybills'[Identity(Contents[f][i])].mobile \in drivers'
    <2> DEFINE k == Identity(Contents[f][i])
               rows == {j \in ValidRows(f) : Identity(Contents[f][j]) = k}
    <2>1. waybills[k] = NoWaybill /\ rows = {i}
      BY <1>1, <1>3 DEF CommitBatch, AllNew
    <2>2. k \in Identities
      BY <1>3, RowOfFile DEF ValidRows
    <2>3. waybills'[k] = NewWaybill(b, Contents[f][CHOOSE j \in rows : TRUE])
      BY <1>1, <2>1, <2>2 DEF CommitBatch
    <2>4. Contents[f][i].mobile \in drivers'
      BY <1>1, <1>3 DEF CommitBatch
    <2> HIDE DEF rows, k
    <2>5. waybills'[k] = NewWaybill(b, Contents[f][i])
      BY <2>1, <2>3
    <2>6. /\ waybills'[k].source = b /\ waybills'[k].raw = Contents[f][i].raw
          /\ waybills'[k].mobile = Contents[f][i].mobile
      BY <2>5 DEF NewWaybill
    <2>7. QED
      BY <2>1, <2>4, <2>6 DEF k
  <1>4. ASSUME NEW k \in Identities,
               \A i \in ValidRows(f) : Identity(Contents[f][i]) # k
        PROVE  waybills'[k] = waybills[k]
    BY <1>1, <1>4 DEF CommitBatch
  <1>5. BatchImported'
    <2>1. ASSUME NEW i \in ValidRows(f) PROVE ImportedFrom(b, Contents[f][i])'
      BY <1>3, <2>1 DEF ImportedFrom
    <2>2. ASSUME NEW x \in BatchIds \ {b}, batches[x].status = "COMMITTED",
                 NEW i \in ValidRows(batches[x].file)
          PROVE  ImportedFrom(x, Contents[batches[x].file][i])'
      <3>1. ImportedFrom(x, Contents[batches[x].file][i])
        BY <2>2 DEF BatchImported
      <3>2. Identity(Contents[batches[x].file][i]) \in Identities
        BY <2>2, BatchRowOf
      <3>3. waybills[Identity(Contents[batches[x].file][i])] # NoWaybill
        BY <3>1, ImportsAssumption DEF ImportedFrom, NoWaybill
      <3>4. waybills'[Identity(Contents[batches[x].file][i])]
              = waybills[Identity(Contents[batches[x].file][i])]
        BY <1>3, <1>4, <3>2, <3>3
      <3>5. QED
        BY <1>2, <3>1, <3>4 DEF ImportedFrom
    <2>3. QED
      BY <1>2, <2>1, <2>2 DEF BatchImported
  <1>6. ASSUME NEW k \in Imported', waybills'[k].source # None
        PROVE  /\ batches'[waybills'[k].source].status = "COMMITTED"
               /\ \E row \in RowsOf(batches'[waybills'[k].source].file) :
                    Classify(row) = "VALID" /\ Identity(row) = k
    <2>1. CASE \E i \in ValidRows(f) : Identity(Contents[f][i]) = k
      <3>1. PICK i \in ValidRows(f) : Identity(Contents[f][i]) = k
        BY <2>1
      <3>2. waybills'[k].source = b
        BY <1>3, <3>1
      <3>3. Contents[f][i] \in RowsOf(f) /\ Classify(Contents[f][i]) = "VALID"
        BY <3>1 DEF ValidRows, RowsOf
      <3>4. QED
        BY <1>2, <3>1, <3>2, <3>3
    <2>2. CASE \A i \in ValidRows(f) : Identity(Contents[f][i]) # k
      <3>1. waybills'[k] = waybills[k] /\ k \in Imported
        BY <1>4, <1>6, <2>2 DEF Imported
      <3>2. /\ batches[waybills[k].source].status = "COMMITTED"
            /\ \E row \in RowsOf(batches[waybills[k].source].file) :
                 Classify(row) = "VALID" /\ Identity(row) = k
        BY <1>6, <3>1 DEF WaybillSourced
      <3>3. waybills[k].source \in BatchIds
        BY <1>6, <3>1 DEF Inv, TypeOK, WaybillRow, Imported
      <3>4. QED
        BY <1>2, <3>1, <3>2, <3>3
    <2>3. QED
      BY <2>1, <2>2
  <1>7. WaybillSourced'
    BY <1>6 DEF WaybillSourced
  <1>8. QED
    BY <1>5, <1>7

LEMMA PromiseStep ==
  Inv /\ BatchImported /\ WaybillSourced /\ [Next]_vars
    => BatchImported' /\ WaybillSourced'
  <1> SUFFICES ASSUME Inv, BatchImported, WaybillSourced, [Next]_vars
               PROVE  BatchImported' /\ WaybillSourced'
    OBVIOUS
  <1>1. CASE UNCHANGED <<batches, drivers, waybills>>
    BY <1>1, PromiseKept
  <1>2. ASSUME NEW r \in Requests, DocumentStep(r)
        PROVE  BatchImported' /\ WaybillSourced'
    <2>1. UNCHANGED <<batches, drivers>>
      BY <1>2
      DEF DocumentStep, BeginMatch, StoreUnmatched, CommitMatch, BeginAttach,
          CommitAttach, BeginReplace, CommitReplace, importVars
    <2>2. QED
      BY <1>2, <2>1, DocumentRows, PromiseKept
  <1>3. ASSUME NEW k \in Identities, Operate(k)
        PROVE  BatchImported' /\ WaybillSourced'
    BY <1>3, OperatorEffect, PromiseKept
  <1>4. ASSUME NEW r \in Requests, ImportStep(r) \/ Rollback(r)
        PROVE  BatchImported' /\ WaybillSourced'
    BY <1>1, <1>4, PromiseAtUpload, PromiseAtCommit
    DEF ImportStep, BeginUpload, BeginCommitBatch, Rollback, importVars
  <1>5. QED
    BY <1>1, <1>2, <1>3, <1>4 DEF Next, Operate, vars

\* All or nothing: for any files and any overlap of uploads, commits and
\* cancellations the valid rows of a committed batch, and no others, are its
\* waybills (processImportFile, commitImportBatch).
THEOREM ImportIsAllOrNothing == Spec => []CommittedMeansImported
  <1>1. Init => BatchImported /\ WaybillSourced
    BY DEF Init, BatchImported, WaybillSourced, Imported, NoBatch
  <1>2. BatchImported /\ WaybillSourced => CommittedMeansImported
    BY DEF BatchImported, WaybillSourced, CommittedMeansImported
  <1>3. QED
    BY <1>1, <1>2, PromiseStep, InvAlways, PTL DEF Spec

-----------------------------------------------------------------------------
(* The rounding report.                                                    *)

\* The record of a price: the raw one rounded up by less than a multiple, and, as
\* long as nobody corrects it, an amount that adds the surcharge.
WellPriced(row) ==
  /\ row.raw <= row.rounded
  /\ row.rounded < row.raw + RoundMultiple
  /\ row.rounded % RoundMultiple = 0
  /\ row.corrected \/ row.amount = row.rounded + row.surcharge

\* The waybills that are there are finitely many, and each is priced so.
Priced ==
  /\ IsFiniteSet(Imported)
  /\ \A k \in Imported : WellPriced(waybills[k])

\* What rounding gives.
LEMMA RoundedIs ==
  ASSUME NEW raw \in Nat
  PROVE  /\ raw <= Rounded(raw) /\ Rounded(raw) < raw + RoundMultiple
         /\ Rounded(raw) % RoundMultiple = 0
  <1>1. RoundMultiple \in Nat \ {0}
    BY ImportsAssumption
  <1>2. CASE raw % RoundMultiple = 0
    BY <1>1, <1>2 DEF Rounded
  <1>3. CASE raw % RoundMultiple # 0
    <2>1. Rounded(raw) = raw + (RoundMultiple - (raw % RoundMultiple))
      BY <1>3 DEF Rounded
    <2>2. /\ Rounded(raw) \in Nat /\ raw < Rounded(raw)
          /\ Rounded(raw) < raw + RoundMultiple /\ Rounded(raw) % RoundMultiple = 0
      BY <1>1, <1>3, <2>1, NextMultiple
    <2>3. QED
      BY <2>2
  <1>4. QED
    BY <1>2, <1>3

\* Steps that keep what identifies the waybills keep their prices.
LEMMA PricesKept ==
  ASSUME Inv, Priced,
         \A k \in Identities :
           \/ waybills'[k] = waybills[k]
           \/ KeepsIdentity(waybills[k], waybills'[k]) /\ waybills[k] # NoWaybill
  PROVE  Priced'
  <1>1. \A k \in Imported' : k \in Imported /\ WellPriced(waybills'[k])
    BY DEF Imported, KeepsIdentity, Priced, WellPriced
  <1>2. IsFiniteSet(Imported')
    BY <1>1, FS_Subset DEF Priced
  <1>3. QED
    BY <1>1, <1>2 DEF Priced

\* So do the commits of imports, whose new waybills are priced by rounding.
LEMMA PricesAtCommit ==
  ASSUME Inv, Priced, NEW r \in Requests, CommitBatch(r)
  PROVE  Priced'
  <1>1. PICK b \in BatchIds, f \in Files : b = requests[r].batch /\ f = requests[r].file
    BY RequestOf DEF CommitBatch, CommitRequests, Inv
  <1> DEFINE New == {Identity(Contents[f][i]) : i \in DOMAIN Contents[f]}
  <1>2. IsFiniteSet(New)
    <2>1. Contents[f] \in Seq(FileRow)
      BY ImportsAssumption DEF FileRow
    <2>2. PICK n \in Nat : DOMAIN Contents[f] = 1 .. n
      <3>1. Len(Contents[f]) \in Nat /\ DOMAIN Contents[f] = 1 .. Len(Contents[f])
        BY <2>1, LenProperties
      <3>2. QED
        BY <3>1, Zenon
    <2>3. \A m \in Int : IsFiniteSet(1 .. m)
      BY FS_Interval
    <2>4. IsFiniteSet(DOMAIN Contents[f])
      <3>1. n \in Int
        OBVIOUS
      <3>2. QED
        BY <2>2, <2>3, <3>1, Zenon
    <2>5. PICK g : g = [i \in DOMAIN Contents[f] |-> Identity(Contents[f][i])]
      OBVIOUS
    <2>6. g \in Surjection(DOMAIN Contents[f], New)
      BY <2>5 DEF Surjection
    <2>7. QED
      BY <2>4, <2>6, FS_Surjection
  <1>3. ASSUME NEW k \in Identities
        PROVE  \/ waybills'[k] = waybills[k]
               \/ \E i \in ValidRows(f) :
                    /\ Identity(Contents[f][i]) = k
                    /\ waybills'[k] = NewWaybill(b, Contents[f][i])
    <2> DEFINE rows == {i \in ValidRows(f) : Identity(Contents[f][i]) = k}
    <2>1. waybills'[k] = IF rows # {}
                         THEN NewWaybill(b, Contents[f][CHOOSE i \in rows : TRUE])
                         ELSE waybills[k]
      BY <1>1 DEF CommitBatch
    <2>2. CASE rows = {}
      BY <2>1, <2>2
    <2>3. CASE rows # {}
      <3>1. PICK i \in rows : i = CHOOSE j \in rows : TRUE
        BY <2>3
      <3>2. QED
        BY <2>1, <2>3, <3>1
    <2>4. QED
      BY <2>2, <2>3
  <1>4. \A k \in Identities : waybills'[k] = waybills[k] \/ k \in New
    BY <1>3 DEF ValidRows
  <1>5. IsFiniteSet(Imported')
    <2>1. Imported' \subseteq Imported \cup New
      BY <1>4 DEF Imported
    <2>2. IsFiniteSet(Imported \cup New)
      BY <1>2, FS_Union DEF Priced
    <2>3. QED
      BY <2>1, <2>2, FS_Subset
  <1>6. ASSUME NEW k \in Imported' PROVE WellPriced(waybills'[k])
    <2>1. CASE waybills'[k] = waybills[k]
      BY <1>6, <2>1 DEF Imported, Priced
    <2>2. ASSUME NEW i \in ValidRows(f), waybills'[k] = NewWaybill(b, Contents[f][i])
          PROVE  WellPriced(waybills'[k])
      <3>1. Contents[f][i].raw \in Nat
        BY RowOfFile DEF ValidRows, FileRow
      <3>2. /\ waybills'[k].raw = Contents[f][i].raw
            /\ waybills'[k].rounded = Rounded(Contents[f][i].raw)
            /\ waybills'[k].amount = waybills'[k].rounded + waybills'[k].surcharge
        BY <2>2 DEF NewWaybill
      <3>3. QED
        BY <3>1, <3>2, RoundedIs DEF WellPriced
    <2>3. QED
      BY <1>3, <1>6, <2>1, <2>2 DEF Imported
  <1>7. QED
    BY <1>5, <1>6 DEF Priced

LEMMA PricedStep == Inv /\ Priced /\ [Next]_vars => Priced'
  <1> SUFFICES ASSUME Inv, Priced, [Next]_vars PROVE Priced'
    OBVIOUS
  <1>1. CASE UNCHANGED waybills
    BY <1>1, PricesKept
  <1>2. ASSUME NEW r \in Requests, DocumentStep(r) PROVE Priced'
    BY <1>2, DocumentRows, PricesKept
  <1>3. ASSUME NEW k \in Identities, Operate(k) PROVE Priced'
    BY <1>3, OperatorEffect, PricesKept
  <1>4. ASSUME NEW r \in Requests, NEW b \in BatchIds, CommitUpload(r, b) PROVE Priced'
    <2>1. waybills' = Unsourced(requests[r].existing)
      BY <1>4 DEF CommitUpload
    <2>2. \A k \in Identities :
            \/ waybills'[k] = waybills[k]
            \/ KeepsIdentity(waybills[k], waybills'[k]) /\ waybills[k] # NoWaybill
      BY <2>1, UnsourcedRow DEF Inv
    <2>3. QED
      BY <2>2, PricesKept
  <1>5. ASSUME NEW r \in Requests, ImportStep(r) \/ Rollback(r) PROVE Priced'
    BY <1>1, <1>4, <1>5, PricesAtCommit
    DEF ImportStep, BeginUpload, BeginCommitBatch, Rollback
  <1>6. QED
    BY <1>1, <1>2, <1>3, <1>5 DEF Next, Operate, vars

\* A report over waybills with such records adds up.
LEMMA ReportAddsUp ==
  ASSUME Inv, Priced, NEW K \in SUBSET Imported
  PROVE  LET report == RoundingReport(K) IN
         /\ (\A k \in K : ~waybills[k].corrected) =>
              report.payable = report.raw + report.excess + report.surcharge
         /\ \A k \in K : RoundingExcess(k) < RoundMultiple
         /\ report.roundedUpCount = 0 <=> report.excess = 0
         /\ (report.raw + report.excess) % RoundMultiple = 0
  <1> DEFINE raw == [k \in Identities |-> waybills[k].raw]
             rounded == [k \in Identities |-> waybills[k].rounded]
             excess == [k \in Identities |-> RoundingExcess(k)]
             surcharge == [k \in Identities |-> waybills[k].surcharge]
             amount == [k \in Identities |-> waybills[k].amount]
             Sum(f) == SumFunctionOnSet(f, K)
             report == RoundingReport(K)
  <1>1. IsFiniteSet(K) /\ K \subseteq Identities
    BY FS_Subset DEF Priced, Imported
  <1>2. ASSUME NEW k \in K
        PROVE  /\ raw[k] \in Nat /\ rounded[k] \in Nat /\ amount[k] \in Nat
               /\ excess[k] \in Nat /\ excess[k] < RoundMultiple
               /\ surcharge[k] \in Nat
               /\ rounded[k] = raw[k] + excess[k]
               /\ waybills[k].corrected \/ amount[k] = rounded[k] + surcharge[k]
               /\ rounded[k] % RoundMultiple = 0
    <2>1. k \in Identities
      BY <1>1
    <2>2. /\ waybills[k].raw \in Nat /\ waybills[k].rounded \in Nat
          /\ waybills[k].amount \in Nat /\ waybills[k].surcharge \in Nat
      BY <2>1 DEF Inv, TypeOK, WaybillRow
    <2>3. QED
      BY <2>1, <2>2, ImportsAssumption DEF Priced, WellPriced, RoundingExcess
  <1>3. /\ report.raw = Sum(raw)
        /\ report.excess = Sum(excess)
        /\ report.surcharge = Sum(surcharge)
        /\ report.payable = Sum(amount)
        /\ report.roundedUpCount = Cardinality({k \in K : RoundingExcess(k) > 0})
    BY Zenon DEF RoundingReport, Total
  <1>4. \A k \in K : excess[k] = RoundingExcess(k)
    BY <1>1
  <1> HIDE DEF raw, rounded, excess, surcharge, amount
  <1>5. Sum(rounded) = Sum(raw) + Sum(excess)
    <2>1. \A k \in K : /\ raw[k] \in Int /\ excess[k] \in Int
                       /\ rounded[k] = raw[k] + excess[k]
      BY <1>2
    <2>2. QED
      BY <1>1, <2>1, SumPlus
  <1>6. ASSUME \A k \in K : ~waybills[k].corrected
        PROVE  Sum(amount) = Sum(rounded) + Sum(surcharge)
    <2>1. \A k \in K : /\ rounded[k] \in Int /\ surcharge[k] \in Int
                       /\ amount[k] = rounded[k] + surcharge[k]
      BY <1>2, <1>6
    <2>2. QED
      BY <1>1, <2>1, SumPlus
  <1>7. Sum(raw) \in Int /\ Sum(excess) \in Nat /\ Sum(surcharge) \in Int
    BY <1>1, <1>2, SumInt, SumNat
  <1>8. Sum(rounded) % RoundMultiple = 0
    BY <1>1, <1>2, SumMultiple, ImportsAssumption
  <1>9. Sum(excess) = 0 <=> \A k \in K : excess[k] = 0
    BY <1>1, <1>2, SumZero
  <1>10. report.roundedUpCount = 0 <=> \A k \in K : excess[k] = 0
    <2> DEFINE up == {k \in K : RoundingExcess(k) > 0}
    <2>1. IsFiniteSet(up)
      BY <1>1, FS_Subset
    <2>2. Cardinality(up) = 0 <=> up = {}
      BY <2>1, FS_EmptySet
    <2>3. up = {} <=> \A k \in K : excess[k] = 0
      BY <1>2, <1>4
    <2>4. QED
      BY <1>3, <2>2, <2>3
  <1> HIDE DEF Sum, report
  <1>11. ASSUME \A k \in K : ~waybills[k].corrected
         PROVE  report.payable = report.raw + report.excess + report.surcharge
    BY <1>3, <1>5, <1>6, <1>7, <1>11
  <1>12. (report.raw + report.excess) % RoundMultiple = 0
    BY <1>3, <1>5, <1>8
  <1>13. \A k \in K : RoundingExcess(k) < RoundMultiple
    BY <1>2, <1>4
  <1>14. report.roundedUpCount = 0 <=> report.excess = 0
    BY <1>3, <1>9, <1>10
  <1>15. QED
    BY <1>11, <1>12, <1>13, <1>14, Zenon DEF report

\* For any files and corrections, and for any set of waybills a period selects, the
\* report tells what rounding cost, to the rial, and explains all that is owed when
\* none of them was corrected (calculateWaybillAmount, correctWaybillAmount,
\* getRoundingExcessReport).
THEOREM RoundingIsExplained == Spec => []RoundingExplained
  <1>1. Init => Priced
    <2>1. Init => Imported = {}
      BY DEF Init, Imported
    <2>2. QED
      BY <2>1, FS_EmptySet DEF Priced
  <1>2. Inv /\ Priced => RoundingExplained
    BY ReportAddsUp DEF RoundingExplained
  <1>3. QED
    BY <1>1, <1>2, PricedStep, InvAlways, PTL DEF Spec

=============================================================================
