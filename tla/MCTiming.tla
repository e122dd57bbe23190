------------------------------- MODULE MCTiming -------------------------------
(***************************************************************************)
(* A clock of eight or sixteen samples that rolls over during the run.     *)
(***************************************************************************)
EXTENDS Timing
=============================================================================
