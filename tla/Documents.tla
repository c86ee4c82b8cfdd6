------------------------------ MODULE Documents ------------------------------
(***************************************************************************)
(* PDFs find their waybills: by the number in the name of the file         *)
(* (uploadAndMatchPdfs), by hand (attachDocumentManually), or in the place *)
(* of another one (replaceWaybillPdf).  The partial unique index on        *)
(* documents(waybill_id) keeps one PDF per waybill; nothing keeps one      *)
(* waybill per PDF.                                                        *)
(***************************************************************************)
EXTENDS Imports

CONSTANTS
  DocIds,       \* ids of documents rows
  FileNames     \* number and year read from the name of a PDF

ASSUME DocumentsAssumption ==
  /\ FileNames \subseteq [number: Numbers \cup {None}, year: Nat]
  /\ None \notin DocIds \cup Identities

VARIABLE docs   \* rows of documents

NoDoc == [status |-> "ABSENT", waybill |-> None]

Imported == {k \in Identities : waybills[k] # NoWaybill}

\* matching_status <> 'REPLACED'
ActiveDocs(k) ==
  {d \in DocIds : docs[d].waybill = k /\ docs[d].status # "REPLACED"}

Active(k) == waybills[k].shipment \notin {"CANCELLED", "ARCHIVED"}

\* Faulty variant: the index is missing.
NoOtherActiveUnchecked(k, D) == TRUE

\* idx_documents_active_waybill_pdf
NoOtherActive(k, D) == ActiveDocs(k) \subseteq D

\* By id; the status of the shipment is the one read before.
Verified(k, seen) ==
  [waybills EXCEPT
     ![k].document = "VERIFIED",
     ![k].shipment = IF seen = "IMPORTED" THEN "READY_FOR_DRIVER" ELSE @]

-----------------------------------------------------------------------------
(* uploadAndMatchPdfs, one file                                            *)

\* Narrowing applies only when it leaves something.
Narrow(candidates, subset) == IF subset = {} THEN candidates ELSE subset

\* The year tells waybills apart only when there are several.
Candidates(name, preferred) ==
  LET all == {k \in Imported : k.number = name.number}
      inBatch == Narrow(all, {k \in all : waybills[k].source = preferred
                                          /\ preferred # None})
  IN IF name.year # 0 /\ Cardinality(inBatch) > 1
     THEN Narrow(inBatch, {k \in inBatch : k.year = name.year})
     ELSE inBatch

\* The one waybill that may take the PDF, None for every other outcome.
MatchOf(name, preferred) ==
  LET candidates == Candidates(name, preferred) IN
  IF /\ Cardinality(candidates) = 1
     /\ \A k \in candidates : Active(k) /\ ActiveDocs(k) = {}
  THEN CHOOSE k \in candidates : TRUE
  ELSE None

BeginMatch(r, name, preferred) ==
  LET k == MatchOf(name, preferred) IN
  /\ Begin(r, [op |-> "match", waybill |-> k, doc |-> None, seenDoc |-> NoDoc,
               seen |-> IF k = None THEN "ABSENT" ELSE waybills[k].shipment])
  /\ UNCHANGED <<importVars, waybills, docs>>

StoreUnmatched(r, d) ==
  /\ requests[r].op = "match"
  /\ requests[r].waybill = None
  /\ docs[d] = NoDoc
  /\ docs' = [docs EXCEPT ![d].status = "UNMATCHED"]
  /\ Finish(r)
  /\ UNCHANGED <<importVars, waybills>>

CommitMatch(r, d) ==
  LET k == requests[r].waybill IN
  /\ requests[r].op = "match"
  /\ k # None
  /\ docs[d] = NoDoc
  /\ NoOtherActive(k, {})
  /\ docs' = [docs EXCEPT ![d] = [status |-> "AUTO_MATCHED", waybill |-> k]]
  /\ waybills' = Verified(k, requests[r].seen)
  /\ Finish(r)
  /\ UNCHANGED importVars

-----------------------------------------------------------------------------
(* attachDocumentManually                                                  *)

\* Faulty variant: an attached document may be attached again.
FreeUnchecked(d) == docs[d] # NoDoc

Free(d) ==
  /\ docs[d] # NoDoc
  /\ docs[d].waybill = None \/ docs[d].status = "REPLACED"

BeginAttach(r, d, k) ==
  /\ Free(d)
  /\ k \in Imported /\ Active(k)
  /\ ActiveDocs(k) = {}
  /\ Begin(r, [op |-> "attach", waybill |-> k, doc |-> d, seenDoc |-> docs[d],
               seen |-> waybills[k].shipment])
  /\ UNCHANGED <<importVars, waybills, docs>>

\* By id: a document attached elsewhere meanwhile moves here.
CommitAttach(r) ==
  LET k == requests[r].waybill
      d == requests[r].doc
  IN
  /\ requests[r].op = "attach"
  /\ NoOtherActive(k, {d})
  /\ docs' = [docs EXCEPT ![d] = [status |-> "MANUALLY_ATTACHED", waybill |-> k]]
  /\ waybills' = Verified(k, requests[r].seen)
  /\ Finish(r)
  /\ UNCHANGED importVars

-----------------------------------------------------------------------------
(* replaceWaybillPdf                                                       *)

BeginReplace(r, k) ==
  /\ k \in Imported /\ Active(k)
  /\ \E old \in ActiveDocs(k) \cup (IF ActiveDocs(k) = {} THEN {None} ELSE {}) :
       Begin(r, [op |-> "replace", waybill |-> k, doc |-> old,
                 seenDoc |-> IF old = None THEN NoDoc ELSE docs[old],
                 seen |-> waybills[k].shipment])
  /\ UNCHANGED <<importVars, waybills, docs>>

\* The document found before is replaced by id; the shipment is left alone.
CommitReplace(r, d) ==
  LET k == requests[r].waybill
      old == requests[r].doc
  IN
  /\ requests[r].op = "replace"
  /\ docs[d] = NoDoc
  /\ NoOtherActive(k, {old})
  /\ docs' = [x \in DocIds |->
       IF x = d THEN [status |-> "MANUALLY_ATTACHED", waybill |-> k]
       ELSE IF x = old THEN [docs[x] EXCEPT !.status = "REPLACED"] ELSE docs[x]]
  /\ waybills' = [waybills EXCEPT ![k].document = "VERIFIED"]
  /\ Finish(r)
  /\ UNCHANGED importVars

=============================================================================
