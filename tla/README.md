# MineGuard: formal models of the regulatory exchange

MineGuard connects a coal mine's enterprise agent with the county regulator's
platform. The agent collects production figures, from files and from a connector
service, has people review them and files them; the platform analyses each
filing, raises risk findings, and the mine answers them, until a corrected filing
is analysed without risk. Inside the agent, durable health checks and a tool
harness work on the drafts in the background. This directory models the parts
whose correctness depends on order, concurrency and failure, checks small
instances with TLC and proves the central properties for all instances with
TLAPS.

## Inventory

| Part (source) | State | Operations | What is hard | What makes it correct |
|---|---|---|---|---|
| Intake store (`platform/.../regulatory_v2_store.py`) | submissions, runs, findings with event logs, responses, acknowledgements, outbox, inbox commands | `submit_and_analyze`, `record_enterprise_response_batch`, `record_delivery_ack`, polls | racing corrections, resends, reused keys, findings several revisions back, log order | a workflow is one chain; a finding clears by a later normal candidate; effects happen once |
| Exchange routes (`regulatory_v2_http.py`, `exchange_v2.py`) | issued report messages | lineage, reference and binding checks around the store | checks read what other messages change | what is accepted refers to what the platform issued, in the same workflow |
| Agent exchange (`agent/.../five_quantity_runtime.py`) | drafts, imports, responses, outbox rows, inbox, cursor; claims of threads | import, edit, discard, correct, confirm; claim, send, succeed, fail; poll, store | several threads and people, reads before transactions, crash between claim and result, changed accounts | what is sent is what was saved and reviewed; nothing sent twice at once, skipped or stuck |
| Agent accounts (`auth.py`, `cli.py`, `settings.py`) | who prepares, who confirms, four eyes | fixed at process start | approvals outlive the configuration | approvals are checked under the configuration that sends |
| Connector ingestion (`storage.py`, `machine_ingestion.py`) | leased ingestion events, machine drafts | claim, complete, release, reject | lease expiry during work, people editing the same draft | one owner finishes an event; human edits are not overwritten |
| Agent workflows (`agent_v2/`) | flows, steps, leases, jobs, events | create, claim, heartbeat, recover, cancel, schedule | lease expiry, crash between claim and launch, cancellation | at most one live owner; a due time runs once |
| Tool harness (`harness/`) | runs, tool calls, approvals | claim, call, approve, cancel, recover | stale approvals, interrupted calls | no side effect without a live approval |
| Connector service (`connector-service/.../state.py`) | observation queue, dead letters, generations | register, prepare, deliver, retry, replay, supersede | lost answers, newer snapshots, operators | revisions reach the agent in order, none twice |
| Analysis jobs (`jobs.py`) | jobs and windows | submit, claim, cancel, finalize, recover | cancel against finish, crash | every job ends, cancelled jobs do not return |
| Platform accounts (`auth.py`) | users, sessions, throttle | login, administer | two administrators at once | an active administrator remains |
| Decision algorithm (`regulatory_v2.py`, `regulatory_v3.py`) | none | analysis of one submission | numerical | left to tests |
| Legacy platform, imports, chat, consoles, packaging | various | | | not modelled |

How they interact: the connector service posts observations to the agent; the
agent turns files and observations into drafts. The agent polls: every exchange
is a call of the agent to the platform (`POST` submissions, responses and
acknowledgements, `GET` the next report behind a cursor), repeated until it
succeeds. A merged snapshot may ask for a health check, which is a flow; the
scheduler starts flows at due times, by hand and on events; a run of the harness
reads and, with a person's approval, writes a draft; a draft that a flow, a job
or a run needs is not deleted. Each platform route is one transaction; each
method of a store is one transaction, and an operation of a runtime is several
of them, with threads, people, expired leases and ended processes in between.

## Modules

`RegulatoryStore.tla` - the platform's intake. A route runs inside one
`controlled_write_scope` (a re-entrant lock around `BEGIN IMMEDIATE`), so a
route is one action with all checks and writes of route and store. A refused
message is a stuttering step, except the reused idempotency key, whose audit
event is committed (`KeyConflict`). An exact resend returns the stored receipt
and changes nothing.

| State | Code |
|---|---|
| `filed`, `answered`, `acked` | `v2_submissions`, `v2_responses`, `v2_delivery_acks` with their inbox commands and messages |
| `conflicts` | audit rows `inbox_idempotency_conflict_rejected` |
| `run`, `events` | `v2_analysis_runs`, `v2_finding_events` of `v2_findings` |
| `outbox`, `delivered` | `v2_outbox` by sequence; outbound report messages on record |

| Action | Code |
|---|---|
| `Submit` | `submit_and_analyze`: lineage, revision, run, findings or resolutions, report |
| `Respond`, `RespondAgain` | `record_enterprise_response_batch`, first message and new envelope |
| `Acknowledge` | `record_delivery_ack` |
| `PollNext`, `GetReport` | `GET analysis-reports/next` and `/<id>` with `_record_outbound` |
| `KeyConflict` | `_find_inbox_command` with the commit in `_transaction` |

`WorkflowLedger.tla` - the abstract promise: a workflow is a growing list of
decisions and the set of revisions with open findings; only the analysis of the
next revision changes either. A normal candidate closes all findings, a risk
revision closes none. What insufficient data do is left open (all or none), since
docstring and code disagree about it (finding 1). `StoreImplementsLedger.tla`
gives the refinement mapping; TLC checks `LedgerSpec`.

`RegulatoryStoreProofs.tla`, `StoreLedgerProofs.tla` - theorems about
`RegulatoryStore` and its refinement of the ledger (below).

`AgentExchange.tla` - the agent's side, at the grain of its transactions:
confirming is `Read` and then `ConfirmDraft` or `ConfirmResponse`; sending is
`Claim` (of due rows or of one draft), `Call`, and `Succeed` or `Fail` for each
message of the batch, oldest first; polling is `StartPoll` and `AnswerPoll` or `EndPoll`; a watched file is
`ImportWatched`, `CheckWatched` and a confirmation in the name of
`system-watcher`, resumed by `ResumeWatched` when a pass was interrupted.
Threads are `Worker`s: the exchange loop and HTTP threads run the same code at
once. `Restart` forgets what threads and people were doing, makes `sending`
rows due again and may change the configuration. `AgentExchangeProofs.tla`,
`AgentDocumentProofs.tla` - theorems about it (below).

| State | Code |
|---|---|
| `drafts`, `imports`, `responses` | `fq_drafts`, `fq_imports`, `fq_responses` |
| `rows`, `order`, `letter` | status, order and signed body in `fq_outbox` |
| `inbox`, `cursor` | `fq_inbox`, setting `analysis_cursor` |
| `reading`, `watching` | locals of `confirm_draft`, `confirm_response`, `ingest_bytes` |
| `batch`, `calling`, `polling` | locals of `process_outbox_once`, `poll_analysis_once` |
| `config` | `four_eyes_required`, `human_preparer_actor_ids` of the process |

`AgentFlow.tla` - the durable health checks (`agent_v2/store.py`,
`agent_v2/runtime.py`). A flow is a row with a status, an owner, a lease and a
number of attempts; each thread takes a flow from the queue in memory, claims
it, reads the attempt, and goes through the workflow with a look at the cancel
mark before most writes.

| State | Code |
|---|---|
| `flows`, `steps` | `agent_flows`, `agent_flow_steps` |
| `leased` | the flows whose `lease_expires_at` lies ahead |
| `live` | drafts that are not deleted |
| `queue`, `threads` | `_queue` and `_scheduled`; the locals of `_worker_loop`, `run` and `_execute_claimed` |
| `errors`, `restarts` | the model's count of faults |

| Action | Code |
|---|---|
| `Create`, `Cancel`, `Retry`, `DeleteDraft` | `create_flow`, `request_cancel`, `retry` with `_schedule`; `soft_delete` |
| `Take`, `Claim`, `ReadClaim`, `Check` | `_worker_loop`, `claim`, `run`, `_raise_if_cancelled` |
| `StartStep`, `FinishStep`, `CaptureFails`, `Complete`, `Raise` | the store's `start_step`, `finish_step`, `complete`, and what raises around them |
| `EndStep`, `EndFlow`, `Boundary`, `Escape`, `Die`, `Release` | `_finish_inflight_steps`, `_complete_after_error` with and without an attempt, errors in them, the end of the loop |
| `Renew`, `LeaseExpires`, `Recover`, `Restart` | `_heartbeat_loop`, time, `_recovery_loop`, `start` |

`AgentScheduler.tla` - extends `AgentFlow` with `agent_v2/scheduler.py`: jobs,
occurrences, run-now requests and events, which create flows that may not be
dispatched yet (`ready` is false) and authorize them later. A flow's identity is
what asked for it, as the code derives `client_request_id`. The flows are run by
one action (`Ran`), since `AgentFlow` says how.

| State | Code |
|---|---|
| `jobs` | `agent_jobs`: configuration, `next_run_at`, `pending_run_at`, `deleted_at` |
| `linked`, `missed` | `agent_job_events`: `job_flow_created`, `job_launch_failed` |
| `events` | `agent_trigger_events` and `agent_trigger_claims` |
| `tick`, `call` | locals of `run_due_once`; of the request that holds `_lifecycle_lock` |

| Action | Code |
|---|---|
| `CreateJob`, `UpdateJob`, `DeleteJob`, `DropDraft` | the methods of these names; `soft_delete` |
| `TickPending`, `TickDue`, `TickRead`, `TickCreate`, `TickCommit`, `TickWake` | `run_due_once`, `_claim_due`, `_launch_claimed` |
| `TickError`, `TickAbandon`, `TickRecord` | its error path: `_abandon_failed_occurrence`, `_record_job_error` |
| `RunNow`, `CallCreate`, `CallCommit`, `CallWake`, `CallAbort` | `_run_now` |
| `Emit`, `Resume`, `TriggerJob`, `Persist`, `EndEvent`, `ClaimExpires` | `_emit_event`, `_resume_incomplete_events`, `_persist_trigger_progress`, claims |

`ConnectorDelivery.tla` - the way of a source snapshot from the connector's
queue (`connector-service/.../state.py`, `service.py`, `client.py`) through the
agent's ingestion (`machine_ingestion.py`, `storage.py`) into the machine draft
(`five_quantity_runtime.py`). It composes the two processes: a call of the
connector is taken up by a thread of the agent, which may outlive its caller.

| State | Code |
|---|---|
| `observations`, `health`, `generations`, `lease` | the connector's tables `observations`, `health_deliveries`, `workflow_generations`, `leases` |
| `services` | locals of `dispatch` of each connector process |
| `ingestions` | `connector_ingestions` |
| `contributions`, `draft` | `fq_machine_source_contributions`; the bound draft and who edits it |
| `requests` | locals of `ingest` of each thread |

| Action | Code |
|---|---|
| `Acquire`, `LeaseLapses`, `Stop`, `Crash` | the service's lease |
| `Register`, `RecordHealth`, `SendHealth` | collection: `register`, `register_health`, `dispatch_health` |
| `Select`, `Prepare`, `Send`, `SendFails`, `TimeOut`, `Mark` | `dispatch`: `pending`, `prepare_delivery`, `_send`, `mark_delivered`/`mark_retry`/`mark_dead` |
| `Claim`, `Import`, `Reject`, `Dispatch`, `Complete`, `Fail` | `ingest`, by its transactions |
| `IngestionLapses`, `AgentRestart` | an expired lease; a process that ends |
| `RetryDead`, `Supersede`, `Replay` | the operator's commands |
| `EditDraft`, `ResumeSync`, `ConfirmDraft`, `DiscardDraft` | people |

`ToolHarness.tla` - the runs of the tool harness (`harness/store.py`,
`harness/runtime.py`): a run plans calls; a write into the draft suspends the run
until a person has decided, and is carried out when a thread resumes it.

| State | Code |
|---|---|
| `runs`, `calls` | `agent_runs`, `agent_tool_calls` with `agent_approvals` |
| `log` | the authors of the draft's revisions |
| `wanted`, `queue`, `threads` | callers about to `_schedule`; `_run_queue` and `_scheduled`; the locals of `_worker_loop` and below |

| Action | Code |
|---|---|
| `Create`, `Decide`, `Cancel`, `Edit` | `create`, `decide_approval`, `cancel` with `_mutation_lock`, `patch_draft` |
| `Schedule`, `Claim`, `Release`, `Die` | `_schedule`, `claim`, `_worker_loop` |
| `Plan`, `Suspend`, `Complete`, `Raise` | `_model_loop` with `_plan_call`, `update_checkpoint` |
| `Check`, `Mark`, `Invoke`, `FinishTool`, `Refuse`, `Stumble`, `Fail`, `FailRun` | `_execute_call_inner`, `mark_tool_running`, `_invoke_tool`, `finish_tool` and the error paths |
| `Restart` | `recover_interrupted` |

`MCRegulatoryStore.tla`, `MCAgentExchange.tla`, `MCAgentScheduler.tla` and
`MCToolHarness.tla` are the instances whose constants need definitions; the other
configurations give their constants directly. `*Proofs.tla` hold the theorems.

## Properties and the hazards they answer

Every property is stated with its comment in the module. The ones that matter
most:

- `LinearWorkflow`, `ClearedByReanalysis`: the life of a finding over a chain of
  revisions. `OutboxFollowsLineage`: a reader by cursor sees causes before
  effects. `BatchTakesEffectOnce`, `CorrectedIsLaterRevision`: resends and late
  answers. `TypeOK` includes that what was refused for a reused key is never
  accepted, and that what was delivered is the report of a filed submission.
- `QueuedIsFrozen`, `ConfirmedAsSaved`, `ReviewedBeforeSending`,
  `ChainsDoNotFork`: what leaves the agent was saved, reviewed and continues
  exactly one received filing. `ClaimedOnce`, `NothingSkipped`,
  `QueueNotBlocked`, `EveryReportAcknowledged`, `QueuedIsDelivered`: the exchange
  with several threads, failures and restarts.
- `RunOnce`, `PastAttemptsFrozen`: a flow whose lease ran out while its worker
  was inside a model call is not run twice, and the late worker writes nothing.
  `CancelIsFinal`: a cancel wins against completion, failure, recovery and
  restarts. `SucceededIsWhole`, `ActiveHasDraft`, `FlowsEnd`.
- `AuthorizedOnce`, `LaunchedAsPlanned`, `FailedIsNotDispatched`,
  `OccurrencesEnd`, `DeferredEnds`, `EventsEnd`: a due time, a request or an
  event is two transactions or more; a crash, an error or a change of the job in
  between neither loses nor repeats it.
- `AssignedIsUnderway`, `DeliveredIsHeld`, `RejectedIsWithoutEffect`,
  `ObservationsEnd`: connector and agent agree about a snapshot whatever answers
  were lost or late, and no snapshot waits for ever behind a generation, a
  source's health or a lease.
- `WrittenAsApproved`, `EndedIsQuiet`, `CompletedIsSettled`: a run writes what a
  person approved, on the revision the person saw, once, and does not refuse or
  cancel it afterwards (it may report it as failed, see Known disagreements).

## Runs and bounds

| Run | Bounds | Shows |
|---|---|---|
| `store` | 2 mines; a chain of three revisions with a fork at the second, a fork's continuation, a wrong period, a reused key; the other mine's own filing and its correction of a foreign one; 5 answers (revised, resent, conflicting); 2 acknowledgements under the keys of other messages; every decision for every submission | chain, clearing, outbox order, answers, refusals, refinement |
| `store_insufficient` | the same | finding 1 |
| `agent_drafting` | 1 draft, 1 report, 2 symmetric texts, 2 people and the watcher, 1 thread, 3 configurations, 2 edits | drafting and review of filings and responses |
| `agent_corrections` | 3 symmetric drafts, 2 texts of 2 periods, 2 people, 1 thread, 2 edits | corrections: three drafts for two corrections of one submission |
| `agent_delivery` | 1 draft, 2 reports with answers, 2 people, 2 threads, batches of 2 | delivery, polling, liveness |
| `agent_flows` | 1 flow, 1 draft, 2 threads, 2 specialists, 2 attempts, 1 error, 1 restart, queue of 1 | flows |
| `agent_schedule` | 1 job, 1 due time, 1 request, 2 drafts, 1 restart, queue of 1 for 2 flows | job changes, launches, crash, full queue |
| `agent_events` | 1 job, 1 due time, 1 event, 1 draft, 1 error, 1 restart | events |
| `agent_reopen` | 1 job, 1 request, 1 draft, 1 restart, no due time and no event | finding 2 |
| `connector_delivery` | 1 source with 2 snapshots, 2 connector processes, 2 threads, 1 fault or replay | delivery and ingestion |
| `harness_runs` | 2 runs (one of two calls, one of one), 2 threads, 3 revisions, 1 fault, queue of 1 | runs and approvals |
| `harness_wakeup` | 1 thread, no fault | finding 3 |

Why they are enough. Three revisions let a finding lie behind another risk
revision, and behind two revisions without risk of which only the first may
clear it; a second mine and a second thread give every pairwise interference;
two reports let a poll be late by one. One category is enough, since several
open findings of a workflow come from several risk revisions. In `agent_flows`
one flow meets two threads; flows meet each other only in the limits. In
`agent_schedule` two flows share a queue of one place, so a flow that is due
finds the queue full of the other, and `FlowsEnd` says that it is woken again.
Two attempts let a late worker meet its successor, and two specialists let one
fail while the other is under way. One job with one due time and one request has
two flows that share the job's row; two drafts let it be changed while it is
launched. Two snapshots give a newer one that overtakes; with a second source
the generation would hold two revisions, but the conditions of
`prepare_delivery` are read source by source. A batch of two writes and a second
run that writes between them are what `WrittenAsApproved` is about.

`MaxRevision` bounds the edits of one text (exchange, harness) or the snapshots
(connector); `BatchLimit` is 20 in the code; `MaxAttempt`, `MaxError`,
`MaxRestart`, `MaxTrouble`, `MaxFault`, `MaxDue` bound retries, faults and due
times. Recovery that would pass `MaxAttempt` is left out by not letting the lease
run out (`MayLapse`). Deadlock is checked for the flows and the scheduler. It is
not for the others: the platform may receive no more messages, a small instance
of the agent or of the connector runs out of drafts and snapshots, and a harness
whose runs have ended and whose threads died is at its end.

## Fairness

Nothing is assumed about people anywhere.

- `AgentExchange` (`Fairness`): a busy thread finishes (weak fairness); the loop
  claims, calls and polls again and again, and restarts do not hit every single
  step (strong fairness, since a restart disables a step); the platform accepts a
  call now and then and answers a poll now and then (strong fairness on the
  environment). `_loop` runs for the life of the process and swallows exceptions,
  and the retry delay is at most an hour, which justifies the first two; the last
  is the assumption that the network is not down for ever.
- `AgentFlow` (`Fairness`): threads go on with what they hold; the queue is first
  in first out, so a queued flow is taken when threads keep becoming free (strong
  fairness of `Take`); nobody renews the lease of a process that ended;
  `_recovery_loop` wakes every few seconds. A thread may die (`Die`); `errors` is
  bounded below the number of threads, so one is left.
- `AgentScheduler` (`SchedFairness`): `_loop` polls every few seconds and gets
  the lock in its turn, and comes to each job that waits; a request runs to its
  end; a claim of an event runs out; recovery and the workers go on.
- `ConnectorDelivery` (`Scheduling`, `Cycles`): a connector that lost its lease
  stops at its next renewal and one that may start does; steps of a delivery and
  of a request are taken; a cycle looks at every source and every pending
  observation, and an observation that is not deferred is selected in the end; the
  agent answers for the health of the last snapshot.
- `ToolHarness` (`Fairness`): threads go on, a caller that is about to schedule a
  run does, and a queued run is taken when threads keep becoming free.

## Findings

1. `store_insufficient`: a revision with insufficient data resolves the findings
   of its predecessors (`regulatory_v2_store.py:1887`), while the module's
   docstring (lines 10-12) says that "only a later, normal-candidate revision"
   does, and the event names the rule `normal_candidate_revision_reanalysis_only`
   (line 4704). `ClearedByReanalysis` and the ledger promise nothing of this case.
2. `agent_reopen`: a repeated run-now reopens a flow that was abandoned before it
   was dispatched (`agent_v2/store.py:549`) without asking whether its draft is
   still there, which the comment at `storage.py:3375` says callers that
   reactivate work do.
3. `harness_wakeup`: an approval that comes between the suspension of a run and
   the moment its thread lets go of it is not scheduled
   (`harness/runtime.py:325`); the run stays queued until the service restarts.

## Known disagreements

Met while modelling; the models have the code's behaviour, and no run is spent
on them.

- The watcher resumes an import after a person edited its draft
  (`five_quantity_runtime.py:5042`); the edited text is then confirmed as
  `system-watcher`, on checks of the original file.
- A draft whose preparer is no longer configured is accepted for the queue
  (`five_quantity_runtime.py:2863`) that will refuse to send it (`:1147`), and
  with it everything else.
- The check for a second filing of a period (`five_quantity_runtime.py:3640`)
  compares keys that contain the draft id and never fires.
- The connector asks for the workflow in the body of an observation
  (`state.py:684`), so the body may change between two attempts; the agent
  refuses the second body for good if it completed the first, and the client
  takes that for the end (`client.py`, `_send`).
- A worker thread of flows or of the harness ends for good when the database
  fails inside the handling of an error (`agent_v2/runtime.py:411-453`,
  `harness/runtime.py:346-357`); a run it held stays as it is until a restart.
- Connector: the workflow of a snapshot is not started when the process ends
  after the import; a source that the workflow requires never starts it by its
  own snapshot, whose ingestion is only imported when the health is looked at; a
  revision retried after a newer one is refused and stays dead; an automatic
  confirmation may confirm a draft that a person edited between import and read.
- Harness: a write whose result exceeds the result budget, or whose recording
  meets a database error, is marked failed although it was applied, and a cancel
  passes then; a run that is approved and queued when the process ends is taken
  up again, and completes without its approved write if the model service is not
  configured any more.

## Proofs

`RegulatoryStoreProofs.tla` proves, from the assumptions `MessageAssumption`
(messages are well-formed; a message has revision one exactly if it names no
predecessor), `CategoryAssumption` (finitely many categories) and
`DisjointAssumption` (message types are distinct), for any sets of messages:

| Theorem | Says |
|---|---|
| `TypeCorrect` | `Spec => []TypeOK` |
| `WorkflowsAreLinear` | `Spec => []LinearWorkflow` |
| `FindingsClearedByReanalysis` | `Spec => []ClearedByReanalysis` |
| `CorrectionsAreLaterRevisions` | `Spec => []CorrectedIsLaterRevision` |
| `BatchesTakeEffectOnce` | `Spec => []BatchTakesEffectOnce` |
| `OutboxIsInLineageOrder` | `Spec => []OutboxFollowsLineage` |

The argument. `LinearWorkflow` is not inductive: a correction names its
predecessor by id and payload, so `ChainInv` adds that ids identify filed
submissions, that every later revision's predecessor is filed in the same
workflow one revision below, and that no two share a predecessor. From it,
`LineageIsEarlierRevisions` shows that the least closed set of predecessors
(`Lineage`) of a submission is exactly the earlier revisions of its workflow
(well-founded induction on revisions, instantiated through `LeastNatural`), and
`FileableIsLast` that an accepted correction extends the end of its chain. Then
`ResolvesWholeWorkflow` says that a revision without risk resolves every open
finding of its workflow. The inductive `FindingInv` therefore has the rule of the
code, `ClearedWithoutRisk` (cleared exactly when a later revision is no risk), of
which the documented `ClearedByReanalysis` is a consequence. `BatchInv` adds that
a response id no accepted response carries has left no trace, so a new one leaves
its first. `OutboxInv` adds that notices are of resolved findings and reports of
filed submissions: what an analysis appends stands behind all it has to follow.

`StoreLedgerProofs.tla` proves, from the same assumptions,
`StoreImplementsTheLedger`: `Spec => LedgerSpec`. An analysis of a submission is
`Analyse` of its workflow, every other step leaves the mapped history and open
revisions alone. `Counted` (the accepted revisions of a workflow are 1 to their
number) makes the next revision the history's next position;
`ClearedByResolution` replaces the fold of `get_finding` by "the log holds a
resolution" (the fold's recursion is solved by its closed form, and the least
position at which the two differ is refuted); `RiskOpens` and `ReanalysisCloses`
say which revisions have open findings afterwards.

`AgentExchangeProofs.tla` proves, from `AgentAssumption` (well-formed
configurations, a feed that holds every report once, positive bounds, and an
absent value that is none of the others), for any number of drafts, reports,
people, threads, texts and configurations:

| Theorem | Says |
|---|---|
| `TypeCorrect` | `Spec => []TypeOK` |
| `SignedStaysFrozen` | `Spec => []QueuedIsFrozen` |
| `OneSender` | `Spec => []ClaimedOnce` |
| `NothingUnreviewed` | `Spec => []ReviewedBeforeSending` |

The argument. The inductive invariant is `IInv == TypeInv /\ OutboxInv`. Types
are not inductive alone: a confirmation types what it queues by the draft that
was read, and a correction its text by the letter of its predecessor, so `Shape`
adds that a document that exists has a revision and a text, and its letter too
once it is queued. `QueuedIsFrozen` needs its converse (a document without a row
is neither queued nor submitted, `RowsMatch`), and `ClaimedOnce`: if two threads
held a message, one could fail after the other succeeded and queue it again.
`ReviewedBeforeSending` needs that the whole batch was approved when it was
claimed and that nobody changes a queued document until it is handled
(`Approved`); a change of configuration empties the batches. The actions that
leave the outbox alone are handled at once by `Quiet`: they touch no document
that has a row. `RowsMatch` implies `QueuedIsFrozen`, and `Approved` implies
`ReviewedBeforeSending`.

`AgentDocumentProofs.tla` goes on from `IInv`:

| Theorem | Says |
|---|---|
| `NoReportSkipped` | `Spec => []NothingSkipped` |
| `NoFork` | `Spec => []ChainsDoNotFork` |
| `SignsTheSaved` | `Spec => ConfirmedAsSaved` |
| `NoBlockedQueue` | `Spec => []QueueNotBlocked`, if there is one configuration |

`FeedInv` adds to `NothingSkipped` that a poll, however old, was sent with a
cursor not ahead of the present one, and that only reports of the feed are stored:
a late answer then brings the next report or one that is there. `ChainInv` adds
that documents have revisions from one up, so that a confirmation gives a new
workflow to a first text only; `ChainKeeps` handles the steps on one draft (a
submitted one is never touched again), `ChainCorrect` the new link. `ReadInv` says
that what a reader holds is not newer than the document and, at the same revision,
has its text; it holds because a document keeps its text unless its revision grows
(`Grows`). `ApprovalInv` says that under four eyes only a configured preparer's
name is on a draft and that every queued document passes the test of the outbox;
with a second configuration it is false, and so is `QueueNotBlocked`, which is why
the theorem assumes `OneConfig`.

`AgentFlowProofs.tla` proves, from `FlowAssumption` (finitely many flows and
specialists, positive limits, names that do not collide), for any number of
flows, drafts, threads, specialists, attempts, errors and restarts:

| Theorem | Says |
|---|---|
| `FlowTyped` | `Spec => []TypeOK` |
| `HandledOnce` | `Spec => []RunOnce` |
| `SuccessIsWhole` | `Spec => []SucceededIsWhole` |
| `ActiveKeepsDraft` | `Spec => []ActiveHasDraft` |
| `CancelStays` | `Spec => CancelIsFinal` |
| `PastStaysFrozen` | `Spec => PastAttemptsFrozen` |

The argument. The inductive invariant `Inv` has the types, `Hands` (a flow is in
one thread's hands or in the queue), `ThreadOK` of each thread and `FlowOK` of
each flow. `RunOnce` is inductive with the types, since `_schedule` looks at
`_scheduled`. `SucceededIsWhole` is not: it needs that a thread that still holds
its flow knows how far the steps are (`Progress`, by the point of the workflow),
which holds only for the attempt it read, and that no step of a later attempt has
begun (`Fresh`), so that a claim and a retry begin with nothing. A thread that
does not hold its flow any more is free to be anywhere: every write asks
`Holds`. A thread changes its own flow only (`Frame`), so `MovingOwn` looks at
one thread and one flow, and `OtherThreads` and `OtherFlows` at the rest.
`CancelIsFinal` and `PastAttemptsFrozen` follow step by step from `Inv`
(`NextLawful`): ends look at the cancel mark in their transaction, and a write
goes to the running attempt.

`ToolHarnessProofs.tla` proves, from `HarnessAssumption` (finitely many runs,
budgets within the limit), for any number of runs, threads, calls, revisions and
faults:

| Theorem | Says |
|---|---|
| `HarnessTyped` | `Spec => []TypeOK` |
| `WritesAreApproved` | `Spec => []WrittenAsApproved` |
| `CompletedSettles` | `Spec => []CompletedIsSettled` |
| `EndedStaysQuiet` | `Spec => EndedIsQuiet` |

The argument. `Inv` has the types, `Hands` as above, and for each thread that the
call it carries has the status its place in the program asks for (`Ordered`,
`Placed`) and that no other call of its run is open, nor any decision due while it
plans (`Turning`); for each run, that exactly the writes have an approval
(`Asked`), that no write is pending in a queued run (`Deciding`), that nothing is
under way in a run nobody holds (`AtRest`), and that a completed run is settled
(`Settled`). `WrittenAsApproved` itself is part of `Inv`: a revision and its
author's call are written in one step, and no step refuses or cancels what was
written, since a cancel is refused while a write is under way and a restart
reports it as of unknown outcome.

`AgentSchedulerProofs.tla` proves, from `SchedulerAssumption` (a flow is an
occurrence of a job, a request or an event) and `FlowAssumption`, for any number
of jobs, due times, requests, events, drafts and restarts:

| Theorem | Says |
|---|---|
| `SchedulerTyped` | `SchedSpec => []SchedTypeOK` |
| `FlowsAuthorizedOnce` | `SchedSpec => []AuthorizedOnce` |
| `FailuresNotDispatched` | `SchedSpec => []FailedIsNotDispatched` |
| `DueFlowsAsPlanned` | `SchedSpec => LaunchedAsPlanned` |

The argument. None of the last three follows from the types alone: `_abandon_failed_occurrence` and
`_launch_claimed` are separate transactions about an occurrence that the job's row
may meanwhile have left behind. `SchedInv` adds that an occurrence that was
dispatched or recorded as failed is `Closed` (its number lies below `next_run_at`
and is not the pending one), so that neither a later claim nor the resumed pending
one comes back to it; that only an enabled timed job has a claimed occurrence
(`JobsOK`: every change of a job clears it); that the thread works on a claimed
occurrence and has the flow that it is about to authorize in front of it, with the
draft it read (`TickOK`); that requests work on flows of requests and events
(`CallOK`), which keeps the two kinds of launches apart; and that an abandoned flow
is cancelled and never ready (`RowOK`). `LaunchedAsPlanned` follows because the
commit compares the job with what was read. The steps fall under a few lemmas about
what they leave alone (`FlowsStay`, `ReadyStays`, `JobsMove`, `Onward`).

`ConnectorDeliveryProofs.tla` proves, from `DeliveryAssumption` (finitely many
sources, a bound on snapshots, an absent value that is none of the others), for any
number of sources, required or not, instances of the service, threads of the agent
and faults:

| Theorem | Says |
|---|---|
| `DeliveryTyped` | `Spec => []TypeOK` |
| `GenerationsUnderway` | `Spec => []AssignedIsUnderway` |
| `DeliveriesHeld` | `Spec => []DeliveredIsHeld` |
| `RejectionsHarmless` | `Spec => []RejectedIsWithoutEffect` |

The argument. `AssignedIsUnderway` is inductive with the types: a generation ends
in the transaction that ends its observation, and repairs touch only observations
that have ended. `DeliveredIsHeld` relates the connector's table to the agent's
over a call that the caller may have given up, so `DeliveryInv` follows the way of
an answer:
a call has one caller, who waits for it (`RequestsOK`), so a thread whose caller
timed out answers nobody; a good answer, until it is marked, is about a completed
ingestion (`Answered`); a completed ingestion was merged, and what the draft holds
is at least as new as all that was merged (`Merged`). A thread that owns an
ingestion is at work on it and its place tells the ingestion's status
(`OwnersOK`), so a thread that lost its lease finds another owner and writes
nothing, and a rejection meets only an ingestion that was not merged: hence
`RejectedIsWithoutEffect`. A generation is made of the last delivered revision of
every source, which exists by well-foundedness of `<` (`Largest`).

Both invariants were checked as invariants of TLC's runs before they were proved,
the connector's also with two required sources.

Every safety and action property of the passing runs is proved (`QueueNotBlocked`
for one configuration, as its run checks it). Only
model-checked: the liveness properties (`EveryReportAcknowledged`,
`QueuedIsDelivered`, `FlowsEnd`, `OccurrencesEnd`, `DeferredEnds`, `EventsEnd`,
`ObservationsEnd` and the like), since liveness under fairness is out of the
prover's reach; and the three findings, which are counterexamples.

## Not modelled, and why

- The decision algorithm (`regulatory_v2.py`, `regulatory_v3.py`): numeric; its
  verdict is a choice in `RegulatoryStore`. Peer snapshots and baseline admission
  enter it as numbers and are left out with it.
- Analysis jobs (`jobs.py`) and the platform's accounts (`auth.py`): no module
  yet. Both are state machines within TLC's reach; the first is the next of the
  plan.
- The composition of `AgentExchange` and `RegulatoryStore`: both have the other
  side as a choice. That the agent never composes a message the platform refuses
  for good needs them together.
- Signatures, nonces and clocks (cryptographic, and numeric bounds on time);
  audit hash chains and the verification of archives (they refuse to work on a
  damaged database; no action of the models damages one).
- The legacy platform (`api.py`, `casework.py`, `edge_store.py`), file parsing and
  mapping, model providers, chat and skills, packaging and the web consoles:
  request handling, conversion and display over tables of their own, without the
  interplay of several actors that a model would show.
- A process that ends inside a transaction: that SQLite rolls it back is assumed.
- One process per database is assumed (`instance_lock.py`). A database error
  inside the handling of an error is modelled in flows and harness, not in the
  exchange.

The map covers a small share of the repository's lines: the legacy platform, the
verification scripts, the consoles and the parsers are most of them. Within the
files it covers, validation of inputs, hashing and the writing of audit events
are most of the rest.

## Plan

1. `RegulatoryStore`, `WorkflowLedger`, `StoreImplementsLedger`,
   `RegulatoryStoreProofs`, `StoreLedgerProofs`: done; every property of the runs
   is proved.
2. `AgentExchange`, `AgentExchangeProofs`, `AgentDocumentProofs`: done; every
   safety property of the runs is proved.
3. `AgentFlow`, `AgentFlowProofs`, `AgentScheduler`, `AgentSchedulerProofs`: done;
   every safety property of the runs is proved.
4. `ConnectorDelivery`, `ConnectorDeliveryProofs`: done; every safety property of
   the run is proved. Next: an abstract specification of a delivery (merged in
   order, completed, counted as delivered) that the composition implements.
5. `ToolHarness`, `ToolHarnessProofs`: done.
6. `JobQueue` and `Accounts`: jobs with cancellation and crash recovery; the last
   administrator.
7. `ExchangeSystem`: the composition of exchange and store over a network that
   loses and delays.
