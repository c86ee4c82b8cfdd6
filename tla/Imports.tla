------------------------------- MODULE Imports -------------------------------
(***************************************************************************)
(* Waybills come from Excel files: processImportFile turns a file into a   *)
(* batch of classified rows, commitImportBatch turns the batch into        *)
(* waybills.  Both read first and write later, in one transaction that     *)
(* fails as a whole.                                                       *)
(***************************************************************************)
EXTENDS Integers, Sequences, FiniteSets

CONSTANTS
  Files,        \* contents of a file, told apart by their hash
  Contents,     \* Contents[f]: the rows of the file
  Defects,      \* Defects[f]: what is wrong with the file as a whole
  BatchIds,     \* ids of import_batches rows
  Numbers,      \* waybill numbers
  Mobiles,      \* mobiles of drivers
  Requests,     \* requests in flight at the same time
  RoundMultiple,
  SurchargeAmount,
  None

\* The kinds of cells a date may stand in: a number, a text year/month/day, a
\* text in ISO form, anything else.
DateCells ==
  [kind: {"number"}, value: Nat]
  \cup [kind: {"jalali"}, year: Nat, month: Nat, day: Nat]
  \cup [kind: {"iso", "other"}]

FileDefects ==
  {"format", "size", "corrupted", "no sheet", "merged cells", "no rows",
   "too many rows", "missing column"}

ASSUME ImportsAssumption ==
  /\ RoundMultiple \in Nat \ {0}
  /\ SurchargeAmount \in Nat
  /\ \A f \in Files : Contents[f] \in
       Seq([number: Numbers, year: Nat, mobile: Mobiles, raw: Nat, weight: Nat,
            identified: BOOLEAN, date: DateCells])
  /\ Defects \in [Files -> SUBSET FileDefects]
  /\ None \notin Files \cup BatchIds \cup Numbers \cup Mobiles

VARIABLES
  batches,      \* rows of import_batches, their import_rows follow from the file
  drivers,      \* mobiles of the active drivers
  waybills,     \* rows of waybills by identity
  requests      \* requests[r]: what the request has read and will write

importVars == <<batches, drivers>>

\* organization, waybill_number and COALESCE(waybill_year, 0) are unique.
Identity(row) == [number |-> row.number, year |-> row.year]

RowsOf(f) == {Contents[f][i] : i \in DOMAIN Contents[f]}

Identities == {Identity(row) : row \in UNION {RowsOf(f) : f \in Files}}

\* "ABSENT": not created yet; "DELETED": it was, its id is not used again.
NoBatch == [status |-> "ABSENT", file |-> None]

\* The waybill and its current amount, an operator's correction or the import's.
NoWaybill ==
  [shipment |-> "ABSENT", document |-> "NOT_UPLOADED", source |-> None,
   mobile |-> None, raw |-> 0, rounded |-> 0, surcharge |-> 0, amount |-> 0,
   corrected |-> FALSE]

Idle == [op |-> "idle"]

Begin(r, request) ==
  /\ requests[r] = Idle
  /\ requests' = [requests EXCEPT ![r] = request]

Finish(r) == requests' = [requests EXCEPT ![r] = Idle]

-----------------------------------------------------------------------------
\* calculateWaybillAmount: up to the next multiple; a multiple stays.
Rounded(raw) ==
  LET remainder == raw % RoundMultiple IN
  IF remainder = 0 THEN raw ELSE raw + (RoundMultiple - remainder)

\* parseExcelBuffer throws at the first defect.
Opens(f) == Defects[f] = {}

\* The arithmetic rule of the Persian calendar.
LeapYear(year) == (25 * year + 11) % 33 < 8

\* jalaliToUtcDate finds the day, by a search that ends.
JalaliDay(year, month, day) ==
  /\ year \in 1300 .. 1500
  /\ month \in 1 .. 12
  /\ day \in 1 .. (IF month > 6 THEN 30 ELSE 31)
  /\ month = 12 /\ day = 30 => LeapYear(year)

\* parseWaybillDate: a number is a serial of Excel's, never a year.
ParsesDate(cell) ==
  \/ cell.kind = "number" /\ cell.value \in 30000 .. 60000
  \/ cell.kind = "jalali" /\ JalaliDay(cell.year, cell.month, cell.day)
  \/ cell.kind = "iso"

\* The zero/zero rule comes before the date is looked at.
Classify(row) ==
  IF row.identified /\ row.raw = 0 /\ row.weight = 0
  THEN "SKIPPED_PREVIOUSLY_CANCELLED"
  ELSE IF row.identified /\ ParsesDate(row.date) THEN "VALID" ELSE "INVALID"

\* Faulty variant: only the invalid rows are left out.
ValidOrSkippedRows(f) ==
  {i \in DOMAIN Contents[f] : Classify(Contents[f][i]) # "INVALID"}

\* The places of the rows that are imported.
ValidRows(f) ==
  {i \in DOMAIN Contents[f] : Classify(Contents[f][i]) = "VALID"}

-----------------------------------------------------------------------------
(* processImportFile                                                       *)

BatchesOf(f) == {b \in BatchIds : batches[b].file = f}

BeginUpload(r, f) ==
  /\ Opens(f)
  /\ \A b \in BatchesOf(f) : batches[b].status # "COMMITTED"
  /\ \E existing \in {b \in BatchesOf(f) : batches[b].status = "VALIDATED"} \cup
                     (IF \E b \in BatchesOf(f) : batches[b].status = "VALIDATED"
                      THEN {} ELSE {None}) :
       Begin(r, [op |-> "upload", file |-> f, existing |-> existing])
  /\ UNCHANGED <<importVars, waybills>>

Dropped(b) == [status |-> "DELETED", file |-> None]

\* Faulty variant: ON DELETE CASCADE.
DeletedWith(b) ==
  [k \in Identities |->
     IF waybills[k].source = b /\ b # None THEN NoWaybill ELSE waybills[k]]

\* waybills_source_import_id_fkey ON DELETE SET NULL
Unsourced(b) ==
  [k \in Identities |->
     IF waybills[k].source = b /\ b # None
     THEN [waybills[k] EXCEPT !.source = None] ELSE waybills[k]]

\* The batch found before is deleted by id, whatever its status is by now;
\* delete fails when it is gone.  The hash of a file is unique.
CommitUpload(r, b) ==
  LET old == requests[r].existing
      f == requests[r].file
  IN
  /\ requests[r].op = "upload"
  /\ batches[b] = NoBatch
  /\ old # None => batches[old].status # "DELETED"
  /\ BatchesOf(f) \subseteq {old}
  /\ batches' = [x \in BatchIds |->
       IF x = b THEN [status |-> "VALIDATED", file |-> f]
       ELSE IF x = old THEN Dropped(x) ELSE batches[x]]
  /\ waybills' = Unsourced(old)
  /\ Finish(r)
  /\ UNCHANGED drivers

-----------------------------------------------------------------------------
(* commitImportBatch; a batch committed before is answered without effect. *)

BeginCommitBatch(r, b) ==
  /\ batches[b].status = "VALIDATED"
  /\ Begin(r, [op |-> "commit", batch |-> b, file |-> batches[b].file])
  /\ UNCHANGED <<importVars, waybills>>

\* The rows and the batch are updated by id; waybills refer to the batch.
StillThere(b) == batches[b].status # "DELETED"

\* Each row creates a waybill; waybills_organization_id_waybill_number_
\* waybill_year_key_key forbids a second one, also within the file.
AllNew(f) ==
  \A i \in ValidRows(f) :
    /\ waybills[Identity(Contents[f][i])] = NoWaybill
    /\ \A j \in ValidRows(f) :
         Identity(Contents[f][i]) = Identity(Contents[f][j]) => i = j

NewWaybill(b, row) ==
  [shipment |-> "IMPORTED", document |-> "NOT_UPLOADED", source |-> b,
   mobile |-> row.mobile, raw |-> row.raw, rounded |-> Rounded(row.raw),
   surcharge |-> SurchargeAmount, amount |-> Rounded(row.raw) + SurchargeAmount,
   corrected |-> FALSE]

\* The surcharge is added whatever the preview was made with.
CommitBatch(r) ==
  LET b == requests[r].batch
      f == requests[r].file
      rowsOf(k) == {i \in ValidRows(f) : Identity(Contents[f][i]) = k}
  IN
  /\ requests[r].op = "commit"
  /\ StillThere(b)
  /\ AllNew(f)
  /\ waybills' = [k \in Identities |->
       IF rowsOf(k) # {} THEN NewWaybill(b, Contents[f][CHOOSE i \in rowsOf(k) : TRUE])
       ELSE waybills[k]]
  /\ drivers' = drivers \cup {Contents[f][i].mobile : i \in ValidRows(f)}
  /\ batches' = [batches EXCEPT ![b].status = "COMMITTED"]
  /\ Finish(r)

=============================================================================
