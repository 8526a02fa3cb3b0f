--------------------------- MODULE MCHrSubmission ---------------------------
(* Two forms, two contents: enough for a retry, an edit and a retry after  *)
(* the edit in each form, and for a second form to meet the keys of the    *)
(* first.                                                                  *)
EXTENDS HrSubmission
=============================================================================
