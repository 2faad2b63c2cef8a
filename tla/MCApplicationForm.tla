------------------------- MODULE MCApplicationForm -------------------------
(* Model-checking instance of ApplicationForm: one application, one       *)
(* component, one shared env row, two thunks or submissions.              *)
EXTENDS ApplicationForm

CONSTANTS a1, c1, none

MCApps == {a1}
MCComps == {c1}
=============================================================================
