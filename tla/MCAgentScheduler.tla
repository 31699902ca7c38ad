-------------------------- MODULE MCAgentScheduler --------------------------
(***************************************************************************)
(* Small instances of AgentScheduler for TLC: the flows are those that the *)
(* jobs can ask for.                                                       *)
(***************************************************************************)
EXTENDS AgentScheduler

MCFlow ==
  {Occurrence(j, n) : j \in Job, n \in 1..MaxDue}
    \union {ManualRun(j, r) : j \in Job, r \in Request}
    \union {EventRun(j, e) : j \in Job, e \in EventId}
=============================================================================
