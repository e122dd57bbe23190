------------------------------ MODULE MCTransfer ------------------------------
(***************************************************************************)
(* Three pages of two columns, in one buffer or in windows of two pages.     *)
(***************************************************************************)
EXTENDS Transfer
=============================================================================
