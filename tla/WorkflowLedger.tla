--------------------------- MODULE WorkflowLedger ---------------------------
(***************************************************************************)
(* What the platform promises of a reporting workflow, without messages,   *)
(* idempotency keys, event logs or lineage queries: a workflow is a        *)
(* growing list of decisions, one per accepted revision, and the revisions *)
(* whose findings are still open.  Only the analysis of a further revision *)
(* changes either; nothing an enterprise says in between does.  A risk     *)
(* opens a finding and a normal candidate closes all; of any other         *)
(* decision only this is promised: it closes all or none and opens none.   *)
(***************************************************************************)
EXTENDS Naturals, Sequences

CONSTANTS Workflow, Decision, Normal, Risk

VARIABLES
  history,  \* decisions of each workflow, in revision order
  open      \* revisions of each workflow with an open finding

\* Revision Len(history[w]) + 1 of w is analysed with decision d.
Analyse(w, d) ==
  /\ history' = [history EXCEPT ![w] = Append(@, d)]
  /\ \/ /\ d = Risk
        /\ open' = [open EXCEPT ![w] = @ \union {Len(history[w]) + 1}]
     \/ /\ d # Risk
        /\ open' = [open EXCEPT ![w] = {}]
     \/ /\ d \notin {Normal, Risk}
        /\ UNCHANGED open

Init ==
  /\ history = [w \in Workflow |-> <<>>]
  /\ open = [w \in Workflow |-> {}]

Next == \E w \in Workflow, d \in Decision : Analyse(w, d)

Spec == Init /\ [][Next]_<<history, open>>
============================================================================
