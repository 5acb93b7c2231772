---------------------------- MODULE MCParseWorker ----------------------------
(* ParseWorker on small sets: two revisions of the 2024 workbook, one of    *)
(* 2025, and a workbook without a year in its name.                         *)
EXTENDS ParseWorker, TLC

CONSTANTS s1, s2, s3, b1, old, new, other, yearless, c1, c2, c12, unreadable, j1, j2

MCYears == {2024, 2025}
MCYearOf == old :> 2024 @@ new :> 2024 @@ other :> 2025 @@ yearless :> None
MCJobsIn == c1 :> {j1} @@ c2 :> {j2} @@ c12 :> {j1, j2} @@ unreadable :> {}

\* What a snapshot may consist of, as a set of files with their contents.
Of(f) == [g \in Files |-> IF g \in DOMAIN f THEN f[g] ELSE None]
OneYear == {Of(old :> c1), Of(new :> c2), Of(old :> c1 @@ new :> c12)}
\* Two files of one year, and one of the next that cannot be read; the same two
\* years in the opposite order; two groups of one year.
Mixed == {Of(old :> c1 @@ new :> c12 @@ other :> unreadable),
          Of(other :> c1 @@ yearless :> c2), Of(old :> c1 @@ yearless :> c1)}
=============================================================================
