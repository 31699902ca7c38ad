--------------------------- MODULE MCToolHarness ---------------------------
(***************************************************************************)
(* ToolHarness with runs of different budgets.                             *)
(***************************************************************************)
EXTENDS ToolHarness, TLC

CONSTANTS r1, r2

MCRun == {r1, r2}

\* One run may plan two writes in a batch, the other gets in between.
MCBudget == r1 :> 2 @@ r2 :> 1
=============================================================================
