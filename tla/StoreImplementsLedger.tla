----------------------- MODULE StoreImplementsLedger -----------------------
(***************************************************************************)
(* The store implements the ledger: its workflows, read off the accepted   *)
(* submissions, the analysis runs and the finding events, change only as   *)
(* the ledger allows.                                                      *)
(***************************************************************************)
EXTENDS RegulatoryStore

RevisionsOf(wf) == {s \in filed : s.corr = wf}

RunOf(wf, r) == run[(CHOOSE s \in RevisionsOf(wf) : s.rev = r).id]

HistoryOf(wf) == [r \in 1..Cardinality(RevisionsOf(wf)) |-> RunOf(wf, r)]

\* As get_finding reports it, whatever was said of the finding since.
Open(f) == FindingState(f) # "cleared_by_reanalysis"

OpenOf(wf) ==
  {s.rev : s \in {t \in RevisionsOf(wf) : \E f \in FindingsOf(t) : Open(f)}}

\* Every workflow that a submission may belong to.
Workflows == {m.corr : m \in Submissions}

Ledger == INSTANCE WorkflowLedger WITH
  Workflow <- Workflows,
  history <- [wf \in Workflows |-> HistoryOf(wf)],
  open <- [wf \in Workflows |-> OpenOf(wf)]

\* Every step of the store is an analysis of the ledger or leaves it alone:
\* revisions are analysed in order, a normal candidate closes all findings of
\* its workflow at once, a risk revision closes none, and no response,
\* acknowledgement, refused message or poll opens or closes any.
LedgerSpec == Ledger!Spec
============================================================================
