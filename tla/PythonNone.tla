----------------------------- MODULE PythonNone -----------------------------
(***************************************************************************)
(* Python's None, for the modules that are used together.                  *)
(***************************************************************************)

CONSTANT None

=============================================================================
