------------------------------- MODULE Figures -------------------------------
(***************************************************************************)
(* How the workbooks of a fiscal year become the dashboard's figures:      *)
(* services/parser.py reads them row by row, the worker stores the result, *)
(* and routers/dashboard.py shows it in one of three accounting modes      *)
(* (services/accounting.py).                                               *)
(*                                                                         *)
(* A row is what the parser takes it for.  Amounts are hundredths and      *)
(* whole multiples of 100, so that a percentage of one is exact; margins   *)
(* are left out.  What the parser passes over wherever it stands is left   *)
(* out too: blank and cumulative rows, notes, templates, unreadable files. *)
(***************************************************************************)
EXTENDS Integers, Sequences, FiniteSets, SequencesExt

CONSTANTS
  Months,     \* the length of MONTHS, 12
  PerQuarter, \* months in a quarter, 3
  Cells,      \* what the cells of a project row may hold; the month is any text
  Sums,       \* the gross profit of a totals row
  Columns,    \* the overhead blocks: sequences of a month and its total
  MaxBooks,   \* bound: workbooks of the year
  MaxRows,    \* bound: rows, of all of them
  None        \* an empty cell

ASSUME Calendar == Months \in Nat \ {0} /\ PerQuarter \in Nat \ {0}

Month == 1..Months
Amount == Int \cup {None}

ASSUME Data ==
  /\ None \notin Int
  /\ Cells \subseteq [job: {c.job : c \in Cells}, pct: Amount, contract: Amount,
                      cost: Amount, profit: Amount, month: {c.month : c \in Cells}]
  /\ Sums \subseteq Amount
  /\ Columns \subseteq Seq([month: Month \cup {None}, total: Amount])

VARIABLES
  books,                  \* history: the workbooks read, oldest first
  book,                   \* the one being read, and its rows so far
  month_idx,              \* counted from 1; 0 while no header was seen
  in_block_after_totals,
  found,                  \* its projects so far
  reported,               \* its totals rows so far, by month
  projects, block_monthly, overhead_detail,  \* of the year
  figures                 \* the rows stored for the year

scan == <<month_idx, in_block_after_totals, found, reported>>
year == <<projects, block_monthly, overhead_detail>>
vars == <<books, book, scan, year, figures>>

-----------------------------------------------------------------------------
MonthToQ(m) == (m - 1) \div PerQuarter + 1
Quarter == {MonthToQ(m) : m \in Month}
Empty == [m \in {} |-> None]

\* dict.update: what f says, over what g says.
Over(f, g) ==
  [x \in DOMAIN f \cup DOMAIN g |-> IF x \in DOMAIN f THEN f[x] ELSE g[x]]

\* The members of a finite set of numbers, the smallest first.
Ascending(S) ==
  [k \in 1..Cardinality(S) |-> CHOOSE i \in S : Cardinality({j \in S : j <= i}) = k]

AnyMonth(n) == n \* fault: a thirteenth block is a month
\* MONTHS[month_idx] if 0 <= month_idx < 12 else None.
MonthOf(n) == IF n \in Month THEN n ELSE None

OrZero(v) == IF v = None THEN 0 ELSE v

\* A ProjectRow; a missing profit is derived.
AsProject(c, m) ==
  [job |-> c.job, pct |-> c.pct, contract |-> c.contract, last_month |-> m,
   profit |-> IF c.profit = None /\ c.contract # None /\ c.cost # None
              THEN c.contract - c.cost ELSE c.profit]

Row ==
  [kind: {"header"}] \cup [kind: {"totals"}, profit: Sums]
    \cup [kind: {"project"}, cells: Cells]

\* "blocks": the stacked monthly blocks; "listing": the legacy layout, one
\* header and a month in every row.
Book == [layout: {"blocks", "listing"}, column: Columns, rows: Seq(Row)]

Project ==
  [job: {c.job : c \in Cells} \cup {"JOB #"}, pct: Amount, contract: Amount,
   profit: Amount, last_month: Month \cup {None} \cup {c.month : c \in Cells}]
Lines == [sales: Int, gross_profit: Int, overhead: Int, net_profit: Int]

TypeOK ==
  /\ book \in Book \cup {None} /\ books \in Seq(Book)
  /\ month_idx \in Nat /\ in_block_after_totals \in BOOLEAN
  /\ {found, projects} \subseteq Seq(Project)
  /\ \A f \in {reported, block_monthly, overhead_detail} :
       DOMAIN f \subseteq Month /\ f \in [DOMAIN f -> Amount]
  /\ figures # None =>
       figures \in [projects: Seq(Project), monthly: [Month -> Lines], quarterly: [Quarter -> Lines]]

Init ==
  /\ books = <<>> /\ book = None
  /\ month_idx = 0 /\ in_block_after_totals = FALSE
  /\ found = <<>> /\ reported = Empty
  /\ projects = <<>> /\ block_monthly = Empty /\ overhead_detail = Empty
  /\ figures = None

-----------------------------------------------------------------------------
(* parse_workbook                                                          *)

RowsRead ==
  SumFunction([i \in DOMAIN books |-> Len(books[i].rows)])
    + IF book = None THEN 0 ELSE Len(book.rows)

Open(layout, column) ==
  /\ book = None /\ figures = None
  /\ Len(books) < MaxBooks
  /\ book' = [layout |-> layout, column |-> column, rows |-> <<>>]
  /\ month_idx' = 0 /\ in_block_after_totals' = FALSE
  /\ found' = <<>> /\ reported' = Empty
  /\ UNCHANGED <<books, year, figures>>

KeepsFlag(r) == \* fault: the flag is not reset
  /\ r.kind = "header"
  /\ month_idx' = month_idx + 1
  /\ UNCHANGED <<in_block_after_totals, found, reported>>

HeaderRow(r) ==
  /\ r.kind = "header"
  /\ month_idx' = month_idx + 1 /\ in_block_after_totals' = FALSE
  /\ UNCHANGED <<found, reported>>

\* The last totals row of a block counts, and one of a thirteenth block does not.
TotalsRow(r) ==
  /\ r.kind = "totals" /\ month_idx > 0
  /\ in_block_after_totals' = TRUE
  /\ reported' = IF month_idx \in Month THEN Over([m \in {month_idx} |-> r.profit], reported) ELSE reported
  /\ UNCHANGED <<month_idx, found>>

ProjectRow(r) ==
  /\ r.kind = "project" /\ month_idx > 0 /\ ~in_block_after_totals
  /\ found' = Append(found, AsProject(r.cells, MonthOf(month_idx)))
  /\ UNCHANGED <<month_idx, in_block_after_totals, reported>>

\* Rows before the first header, and stray rows after the totals.
SkippedRow(r) ==
  /\ r.kind \in {"totals", "project"}
  /\ month_idx = 0 \/ (r.kind = "project" /\ in_block_after_totals)
  /\ UNCHANGED scan

ReadRow(r) ==
  /\ book # None
  /\ RowsRead < MaxRows
  /\ book.layout = "listing" => r.kind = "project"
  /\ book' = [book EXCEPT !.rows = Append(@, r)]
  /\ HeaderRow(r) \/ TotalsRow(r) \/ ProjectRow(r) \/ SkippedRow(r)
  /\ UNCHANGED <<books, year, figures>>

\* parse_overhead_detail: the months below the header up to the first cell
\* that is none; of a month named twice the later row counts.
Overhead(column) ==
  LET stop == SelectInSeq(column, LAMBDA e : e.month = None)
      rows == SubSeq(column, 1, Min({Months, IF stop = 0 THEN Len(column) ELSE stop - 1}))
  IN  [m \in {rows[i].month : i \in DOMAIN rows} |->
         rows[Max({i \in DOMAIN rows : rows[i].month = m})].total]

\* parse_profitability_single_header: every row below the first header with a
\* job and a name.  Every later header of a stacked workbook is such a row.
\* The rows of a stacked workbook have no month (the overhead block, whose
\* header names one, is taken to begin in another row than the first header).
SingleHeader(b) ==
  LET start == SelectInSeq(b.rows, LAMBDA r : r.kind = "header")
      below == Ascending({i \in (start + 1)..Len(b.rows) : b.rows[i].kind \in {"header", "project"}})
      Listed(r) ==
        IF r.kind = "header"
        THEN [job |-> "JOB #", pct |-> None, contract |-> None, last_month |-> None, profit |-> None]
        ELSE AsProject(r.cells, IF b.layout = "listing" THEN r.cells.month ELSE None)
  IN  IF b.layout = "blocks" /\ start = 0 THEN <<>>
      ELSE [k \in DOMAIN below |-> Listed(b.rows[below[k]])]

\* The end of the workbook: without a project row in its blocks it is read
\* again as the legacy layout, and what the blocks report is dropped.  Then
\* parse_files_for_year adds it to the year, over what older workbooks say.
Close ==
  /\ book # None
  /\ book' = None /\ books' = Append(books, book)
  /\ IF found # <<>>
     THEN /\ projects' = projects \o found
          /\ block_monthly' = Over(reported, block_monthly)
          /\ overhead_detail' = Over(Overhead(book.column), overhead_detail)
     ELSE /\ projects' = projects \o SingleHeader(book)
          /\ UNCHANGED <<block_monthly, overhead_detail>>
  /\ UNCHANGED <<scan, figures>>

-----------------------------------------------------------------------------
(* The figures of the year                                                 *)

DedupeFirst(ps) == \* fault: the first occurrence is kept
  LET first == {i \in DOMAIN ps : \A j \in 1..(i - 1) : ps[j].job # ps[i].job}
      s == Ascending(first)
  IN  [k \in DOMAIN s |-> ps[s[k]]]
DedupeProjects(ps) ==
  LET last == {i \in DOMAIN ps : \A j \in (i + 1)..Len(ps) : ps[j].job # ps[i].job}
      s == Ascending(last)
  IN  [k \in DOMAIN s |-> ps[s[k]]]

\* The sum of V over the projects of the months in M.
SumOver(ps, M, V(_)) ==
  SumFunction([i \in {j \in DOMAIN ps : ps[j].last_month \in M} |-> V(ps[i])])
Profit(p) == OrZero(p.profit)
Contract(p) == OrZero(p.contract)
Span(q) == {m \in Month : MonthToQ(m) = q}

Line(sales, gp, oh) == [sales |-> sales, gross_profit |-> gp, overhead |-> oh, net_profit |-> gp - oh]

BlocksOnly(ps, m, block) == \* fault: one totals row, and no month is summed
  IF m \in DOMAIN block /\ block[m] # None THEN block[m]
  ELSE IF DOMAIN block # {} THEN 0 ELSE SumOver(ps, {m}, Profit)
GrossProfit(ps, m, block) ==
  IF m \in DOMAIN block /\ block[m] # None THEN block[m] ELSE SumOver(ps, {m}, Profit)

Monthly(ps, oh, block) ==
  [m \in Month |-> Line(0, GrossProfit(ps, m, block),
                        IF m \in DOMAIN oh THEN OrZero(oh[m]) ELSE 0)]

QuarterlyOfProjects(ps, monthly) == \* fault: the months' own totals are forgotten
  [q \in Quarter |-> Line(SumOver(ps, Span(q), Contract), SumOver(ps, Span(q), Profit),
                          SumFunction([m \in Span(q) |-> monthly[m].overhead]))]
Quarterly(ps, monthly) ==
  [q \in Quarter |->
     Line(SumOver(ps, Span(q), Contract),
          SumFunction([m \in Span(q) |-> monthly[m].gross_profit]),
          SumFunction([m \in Span(q) |-> monthly[m].overhead]))]

Total(quarterly) ==
  Line(SumFunction([q \in Quarter |-> quarterly[q].sales]),
       SumFunction([q \in Quarter |-> quarterly[q].gross_profit]),
       SumFunction([q \in Quarter |-> quarterly[q].overhead]))

\* The last workbook was read: the worker stores what parse_files_for_year returns.
Publish ==
  /\ book = None /\ figures = None
  /\ LET ps == DedupeProjects(projects)
         monthly == Monthly(ps, overhead_detail, block_monthly)
     IN  figures' = [projects |-> ps, monthly |-> monthly, quarterly |-> Quarterly(ps, monthly)]
  /\ UNCHANGED <<books, book, scan, year>>

Next ==
  \/ \E layout \in {"blocks", "listing"}, column \in Columns : Open(layout, column)
  \/ \E r \in Row : ReadRow(r)
  \/ Close \/ Publish

Spec == Init /\ [][Next]_vars

-----------------------------------------------------------------------------
(* GET /api/dashboard                                                      *)

Modes == {"raw", "poc", "closeout"}

\* _factor, in hundredths.
Factor(p, mode) ==
  CASE mode = "poc" -> OrZero(p.pct)
    [] mode = "closeout" -> IF p.pct # None /\ p.pct >= 99 THEN 100 ELSE 0
    [] mode = "raw" -> 100

Aggregate(ps, mode, oh) ==
  LET Share(v, p) == (OrZero(v) * Factor(p, mode)) \div 100
      Sales(p) == Share(p.contract, p)
      Gp(p) == Share(p.profit, p)
      monthly == [m \in Month |-> Line(0, SumOver(ps, {m}, Gp), oh[m])]
      quarterly == [q \in Quarter |-> Line(SumOver(ps, Span(q), Sales), SumOver(ps, Span(q), Gp),
                                           SumFunction([m \in Span(q) |-> oh[m]]))]
  IN  [monthly |-> monthly, quarterly |-> quarterly, totals |-> Total(quarterly)]

\* What the page shows; without projects it is 404, "no_data_for_year".
Dashboard(mode) ==
  IF mode = "raw"
  THEN [monthly |-> figures.monthly, quarterly |-> figures.quarterly,
        totals |-> Total(figures.quarterly)]
  ELSE Aggregate(figures.projects, mode, [m \in Month |-> figures.monthly[m].overhead])
Shown == figures # None /\ figures.projects # <<>>

-----------------------------------------------------------------------------
(* What the rows of a workbook mean, said without scanning them.           *)

Block(rows, i) == Cardinality({j \in 1..i : rows[j].kind = "header"})

\* The project rows in a block, above its totals.
Kept(rows) ==
  LET kept == {i \in DOMAIN rows :
                 /\ rows[i].kind = "project" /\ Block(rows, i) > 0
                 /\ \A j \in 1..i : rows[j].kind = "totals" => Block(rows, j) < Block(rows, i)}
      s == Ascending(kept)
  IN  [k \in DOMAIN s |-> AsProject(rows[s[k]].cells, MonthOf(Block(rows, s[k])))]

\* The gross profit each month's block ends with.
Reported(rows) ==
  LET totals == {i \in DOMAIN rows : rows[i].kind = "totals" /\ Block(rows, i) \in Month}
  IN  [m \in {Block(rows, i) : i \in totals} |->
         rows[Max({i \in totals : Block(rows, i) = m})].profit]

Contents(b) == IF Kept(b.rows) # <<>> THEN Kept(b.rows) ELSE SingleHeader(b)
AllRows == FlattenSeq([i \in DOMAIN books |-> Contents(books[i])])

-----------------------------------------------------------------------------
(* Properties that hold.                                                   *)

\* The flags of the scan are right after every row: what it has collected are
\* the project rows above the totals of their block, each with the month of
\* that block (none past December), and the last totals row of each month.
ScanIsBlockwise ==
  book # None => found = Kept(book.rows) /\ reported = Reported(book.rows)

\* Every job that is in a workbook of the year is in the register once, with
\* the numbers of its last row in the newest workbook that has it.
EachJobIsItsLatestRow ==
  figures # None =>
    LET all == AllRows
    IN  /\ Len(figures.projects) = Cardinality({p.job : p \in ToSet(all)})
        /\ \A p \in ToSet(figures.projects) :
             \E i \in DOMAIN all : all[i] = p /\ \A j \in (i + 1)..Len(all) : all[j].job # p.job

\* In every mode the totals are the sum of the quarters and of the months, and
\* the overhead is the same in all of them, although raw reads stored rows and
\* the other modes compute theirs anew.
ModesReconcile ==
  Shown => \A mode \in Modes :
    LET d == Dashboard(mode)
        OfMonths(V(_)) == SumFunction([m \in Month |-> V(d.monthly[m])])
    IN  /\ d.totals.gross_profit = OfMonths(LAMBDA l : l.gross_profit)
        /\ d.totals.net_profit = OfMonths(LAMBDA l : l.net_profit)
        /\ \A m \in Month : d.monthly[m].overhead = Dashboard("raw").monthly[m].overhead
        /\ d.totals.overhead = Dashboard("raw").totals.overhead

\* Where workbooks are as the tests write them (a block's totals row is the sum
\* of its projects, no job comes twice, no two workbooks report a month) raw is
\* what accounting.py promises, the sum over the projects; and a year whose
\* projects are all complete looks the same in every mode.
TidyYearAgrees ==
  LET all == AllRows
      Tidy == /\ \A i, j \in DOMAIN all : all[i].job = all[j].job => i = j
              /\ \A i \in DOMAIN books : \A m \in DOMAIN Reported(books[i].rows) :
                   /\ Reported(books[i].rows)[m] \in {None, SumOver(Contents(books[i]), {m}, Profit)}
                   /\ \A j \in DOMAIN books \ {i} :
                        \A p \in ToSet(Contents(books[j])) : p.last_month # m
      Done(p) == p.pct = 100
      oh == [m \in Month |-> figures.monthly[m].overhead]
  IN  Shown /\ Tidy =>
        /\ Dashboard("raw") = Aggregate(figures.projects, "raw", oh)
        /\ (\A p \in ToSet(all) : Done(p)) => \A mode \in Modes : Dashboard(mode) = Dashboard("raw")

(* What a comment of the code says and the code does not do.               *)

\* parser.py:247: stray rows after the totals are skipped.  But when a workbook
\* has no project row above its totals, the second reading lists them (and, as
\* projects named "JOB #", the headers of its later blocks).
StrayRowsAreSkipped ==
  figures # None =>
    \A p \in ToSet(figures.projects) : p.job # "JOB #" =>
      \E i \in DOMAIN books :
        p \in ToSet(IF books[i].layout = "blocks" THEN Kept(books[i].rows) ELSE SingleHeader(books[i]))
=============================================================================
