------------------------------ MODULE MCContract ------------------------------
(***************************************************************************)
(* The driver against its contract, on a panel of one page.                *)
(***************************************************************************)
EXTENDS SSD1315Contract
=============================================================================
