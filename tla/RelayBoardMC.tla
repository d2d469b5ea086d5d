---------------------------- MODULE RelayBoardMC ----------------------------
(***************************************************************************)
(* The relay board with its history and its refinement mapping side by     *)
(* side, for one pass over the states of HSpec.                            *)
(***************************************************************************)
EXTENDS RelayBoardHist, RelayBoardPanel
=============================================================================
