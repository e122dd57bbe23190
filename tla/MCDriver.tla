------------------------------ MODULE MCDriver ------------------------------
(***************************************************************************)
(* The driver on small panels, for TLC: two pages of one column behind a   *)
(* full framebuffer or a window of one page, or a single cell.             *)
(***************************************************************************)
EXTENDS SSD1315Driver
=============================================================================
