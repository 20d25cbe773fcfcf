--------------------------- MODULE MCReviewBatch ---------------------------
(* Instances of ReviewBatch for TLC. *)
EXTENDS ReviewBatch, TLC

CONSTANTS d1, d2

\* a single bill of the first document, the cohort that replaces it (a bill
\* and a generic candidate), and a single bill of the second document
TwoDocuments == <<d1, d1, d2>>
Cohorts == <<1, 2, 2, 3>>
BillCandidates == {1, 2, 4}

=============================================================================
