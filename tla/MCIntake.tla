------------------------------- MODULE MCIntake -------------------------------
EXTENDS Intake, TLC

CONSTANTS n1, n3, m1, f1, f2, f3

Row(n, y, raw, weight, date) ==
  [number |-> n, year |-> y, mobile |-> m1, raw |-> raw, weight |-> weight,
   identified |-> TRUE, date |-> date]

Jalali(y, m, d) == [kind |-> "jalali", year |-> y, month |-> m, day |-> d]
Number(v) == [kind |-> "number", value |-> v]

\* The first file has a row with the last day of a leap year, one of a weight and
\* a price of zero, and one whose date is a bare year; the second repeats a
\* waybill of the first one; the third has no column of mobiles.
MCContents ==
  [x \in {f1, f2, f3} |->
     CASE x = f1 -> <<Row(n1, 0, 5, 1, Jalali(1403, 12, 30)),
                      Row(n1, 5, 3, 1, Number(45800)),
                      Row(n3, 0, 0, 0, Number(1404)),
                      Row(n3, 0, 7, 1, Number(1404))>>
       [] x = f2 -> <<Row(n1, 0, 8, 1, Jalali(1404, 6, 31))>>
       [] OTHER  -> <<Row(n3, 0, 9, 1, Jalali(1404, 1, 1))>>]

MCDefects ==
  [x \in {f1, f2, f3} |-> IF x = f3 THEN {"missing column"} ELSE {}]

MCFileNames ==
  {[number |-> n1, year |-> 0], [number |-> n1, year |-> 5]}

Symmetry == Permutations(Requests) \cup Permutations(DocIds)
=============================================================================
