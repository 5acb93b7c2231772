------------------------------ MODULE MCFigures ------------------------------
(* Figures for a year of two months and two quarters.  Amounts are          *)
(* hundredths.                                                              *)
EXTENDS Figures

CONSTANT Other \* a month cell that holds something else

Cell(job, pct, contract, cost, profit, month) ==
  [job |-> job, pct |-> pct, contract |-> contract, cost |-> cost, profit |-> profit, month |-> month]

\* A job that is done, the same half done, and one nearly done, whose month cell
\* does not hold a month.
MCCells ==
  {Cell("101", 100, 1000, 600, None, 1), Cell("101", 50, 1200, None, 400, 2),
   Cell("102", 99, None, 200, 300, Other)}

Entry(month, total) == [month |-> month, total |-> total]

\* One cut short by a note, one that names a month twice and leaves one blank.
MCColumns ==
  {<<Entry(1, 100), Entry(None, 900), Entry(2, 100)>>,
   <<Entry(2, 200), Entry(2, 300), Entry(1, None)>>}
=============================================================================
