------------------------------ MODULE Nothing ------------------------------
(***************************************************************************)
(* The one value of null, of SQL NULL and of a missing row or field, shared *)
(* by the modules that a run checks together.                              *)
(***************************************************************************)
CONSTANT None
=============================================================================
