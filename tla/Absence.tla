------------------------------ MODULE Absence ------------------------------
(* The value that stands for what is not there: no process, no worker, no file.
   The modules that share a run take it from here. *)
CONSTANT None
=============================================================================
