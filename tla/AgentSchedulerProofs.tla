------------------------ MODULE AgentSchedulerProofs ------------------------
(***************************************************************************)
(* What the scheduler guarantees for any number of jobs, occurrences,      *)
(* requests and events, in whatever order jobs are changed, launches fail  *)
(* and the process restarts.                                               *)
(***************************************************************************)
EXTENDS AgentScheduler, FiniteSetTheorems, TLAPS

-----------------------------------------------------------------------------
(***************************************************************************)
(* The inductive invariant.                                                *)
(***************************************************************************)
StepStatus == {"none", "running", "succeeded", "failed", "cancelled"}

\* What the scheduler leaves to AgentFlow.
RestTyped ==
  /\ steps \in [Flow -> [Attempt -> [Step -> StepStatus]]]
  /\ leased \subseteq Flow /\ live \subseteq Draft
  /\ queue \subseteq Flow /\ Cardinality(queue) <= QueueLimit
  /\ threads \in [Thread -> ThreadRecord]
  /\ errors \in 0..MaxError /\ restarts \in 0..MaxRestart

SchedTyped ==
  /\ jobs \in [Job -> JobRecord]
  /\ linked \in [Flow -> Nat] /\ missed \subseteq Flow
  /\ events \in [EventId -> EventRecord]
  /\ tick \in TickState /\ call \in CallState

\* An aborted flow is at its end, a flow that is authorized exists.
RowOK(r) ==
  /\ r.owner = "none" /\ r.status \in {"none", "queued", "succeeded", "cancelled"}
  /\ r.status = "none" => ~ r.ready
  /\ r.aborted => r.status = "cancelled" /\ r.cancel /\ ~ r.ready

FlowsOK ==
  /\ flows \in [Flow -> FlowRecord]
  /\ \A f \in Flow : RowOK(flows[f])

\* An occurrence that was dispatched or recorded as failed was claimed and is
\* closed.
Closed(f) ==
  f.by = "schedule" => f.id < jobs[f.job].next /\ jobs[f.job].pending # f.id

Audited ==
  \A f \in Flow :
    /\ linked[f] = IF flows[f].ready THEN 1 ELSE 0
    /\ flows[f].ready => Closed(f)
    /\ f \in missed => f.by = "schedule" /\ ~ flows[f].ready /\ Closed(f)

\* Only an enabled timed job has a claimed occurrence.
JobsOK ==
  \A j \in Job : jobs[j].pending # 0 =>
    /\ Enabled(j) /\ jobs[j].config.timed /\ jobs[j].pending < jobs[j].next

\* The thread works on an occurrence that was claimed, and authorizes a flow
\* that is about the draft it has read.
TickOK ==
  /\ tick.at # "idle" =>
       /\ tick.flow \in Flow /\ tick.flow.by = "schedule"
       /\ tick.flow.id < jobs[tick.flow.job].next
  /\ tick.at = "commit" =>
       /\ flows[tick.flow].status # "none"
       /\ flows[tick.flow].draft = tick.config.draft

\* A request works on the flow of a request or an event.
CallOK ==
  /\ call.at \notin {"idle", "event"} =>
       call.flow \in Flow /\ call.flow.by # "schedule"
  /\ call.at \in {"event", "persist"} => call.event \in EventId

SchedInv ==
  /\ FlowsOK /\ RestTyped /\ SchedTyped
  /\ Audited /\ JobsOK /\ TickOK /\ CallOK

-----------------------------------------------------------------------------
(***************************************************************************)
(* Flows and queues.                                                       *)
(***************************************************************************)
LEMMA FlowFields ==
  ASSUME NEW f \in Flow
  PROVE  /\ f.job \in Job
         /\ f.by = "schedule" => f.id \in 1..MaxDue
BY SchedulerAssumption DEF Occurrence, ManualRun, EventRun

LEMMA Occurrences ==
  ASSUME NEW j \in Job, NEW n \in 1..MaxDue
  PROVE  /\ Occurrence(j, n) \in Flow /\ Occurrence(j, n).by = "schedule"
         /\ Occurrence(j, n).job = j /\ Occurrence(j, n).id = n
BY SchedulerAssumption DEF Occurrence

LEMMA ManualRuns ==
  ASSUME NEW j \in Job, NEW r \in Request
  PROVE  ManualRun(j, r) \in Flow /\ ManualRun(j, r).by = "manual"
BY SchedulerAssumption DEF ManualRun

LEMMA EventRuns ==
  ASSUME NEW j \in Job, NEW e \in EventId
  PROVE  EventRun(j, e) \in Flow /\ EventRun(j, e).by = "event"
BY SchedulerAssumption DEF EventRun

LEMMA FiniteQueue ==
  ASSUME NEW q, q \subseteq Flow
  PROVE  IsFiniteSet(q) /\ Cardinality(q) \in Nat
BY FS_Subset, FS_CardinalityType, FlowAssumption

LEMMA OneMore ==
  ASSUME NEW q, q \subseteq Flow, NEW f \in Flow, Cardinality(q) < QueueLimit
  PROVE  Cardinality(q \union {f}) <= QueueLimit
<1>1. Cardinality(q \union {f}) =
        IF f \in q THEN Cardinality(q) ELSE Cardinality(q) + 1
  BY FiniteQueue, FS_AddElement
<1> QED
  BY <1>1, FiniteQueue, FlowAssumption

\* A queue from which flows were taken or that filled up keeps its limit.
QueueOK(q) == q \subseteq Flow /\ Cardinality(q) <= QueueLimit

LEMMA WokenQueue ==
  ASSUME QueueOK(queue), NEW f \in Flow
  PROVE  QueueOK(WokenIfReady(f))
<1>1. CASE Cardinality(queue) < QueueLimit
  BY <1>1, OneMore DEF WokenIfReady, Woken, QueueOK
<1>2. CASE ~ Cardinality(queue) < QueueLimit
  <2>1. Cardinality(queue) >= QueueLimit
    BY <1>2, FiniteQueue, FlowAssumption DEF QueueOK
  <2> QED
    BY <2>1 DEF WokenIfReady, Woken, QueueOK
<1> QED
  BY <1>1, <1>2

LEMMA WakingsQueue ==
  ASSUME NEW q, q \subseteq Flow, NEW ws, ws \subseteq Flow,
         NEW r \in Wakings(q, ws)
  PROVE  QueueOK(r)
BY DEF Wakings, QueueOK

LEMMA TakenQueue ==
  ASSUME QueueOK(queue), NEW f
  PROVE  QueueOK(queue \ {f})
<1>1. Cardinality(queue \ {f}) <= Cardinality(queue)
  BY FiniteQueue, FS_Subset DEF QueueOK
<1> QED
  BY <1>1, FiniteQueue, FlowAssumption DEF QueueOK

-----------------------------------------------------------------------------
(***************************************************************************)
(* What a step leaves of the flows and the jobs.                           *)
(***************************************************************************)
\* A flow that exists goes on to exist and to be about its draft.
Stays(f) ==
  /\ RowOK(flows'[f])
  /\ flows[f].status # "none" =>
       flows'[f].status # "none" /\ flows'[f].draft = flows[f].draft

FlowsStay == flows' \in [Flow -> FlowRecord] /\ \A f \in Flow : Stays(f)

\* No flow is authorized.
ReadyStays ==
  linked' = linked /\ \A f \in Flow : flows'[f].ready = flows[f].ready

\* What was claimed goes on to be claimed, what was closed to be closed.
Moves(j) ==
  \A n \in 1..MaxDue : n < jobs[j].next =>
    /\ n < jobs'[j].next
    /\ jobs[j].pending # n => jobs'[j].pending # n

JobsMove == jobs' \in [Job -> JobRecord] /\ \A j \in Job : Moves(j)

\* What LaunchedAsPlanned says of a step.
Planned(f) ==
  f.by = "schedule" /\ ~ flows[f].ready /\ flows'[f].ready =>
    /\ Enabled(f.job) /\ jobs[f.job].config.timed
    /\ jobs[f.job].config.draft = flows[f].draft

AllPlanned == \A f \in Flow : Planned(f)

LEMMA ReadyPlanned ==
  ASSUME ReadyStays
  PROVE  AllPlanned
BY DEF ReadyStays, AllPlanned, Planned

LEMMA ClosedStays ==
  ASSUME JobsMove, NEW f \in Flow, Closed(f)
  PROVE  Closed(f)'
BY FlowFields DEF JobsMove, Moves, Closed

LEMMA AuditedStays ==
  ASSUME Audited, ReadyStays, JobsMove, missed' = missed
  PROVE  Audited'
<1>1. SUFFICES ASSUME NEW f \in Flow
               PROVE  /\ linked'[f] = IF flows'[f].ready THEN 1 ELSE 0
                      /\ flows'[f].ready => Closed(f)'
                      /\ f \in missed' => f.by = "schedule" /\ ~ flows'[f].ready
                                          /\ Closed(f)'
  BY DEF Audited
<1>2. Closed(f) => Closed(f)'
  BY ClosedStays
<1>3. flows'[f].ready = flows[f].ready /\ linked' = linked
  BY DEF ReadyStays
<1> QED
  BY <1>2, <1>3 DEF Audited

\* The thread goes on with its occurrence.
Onward ==
  /\ tick'.at # "idle" => tick.at # "idle" /\ tick'.flow = tick.flow
  /\ tick'.at = "commit" =>
       tick.at = "commit" /\ tick'.config = tick.config

LEMMA TickStays ==
  ASSUME TickOK, FlowsStay, JobsMove, Onward
  PROVE  TickOK'
<1>1. CASE tick'.at = "idle"
  BY <1>1 DEF TickOK
<1>2. CASE tick'.at # "idle"
  <2>1. /\ tick'.flow = tick.flow /\ tick.flow \in Flow
        /\ tick.flow.by = "schedule"
        /\ tick.flow.id < jobs[tick.flow.job].next
    BY <1>2 DEF TickOK, Onward
  <2>2. tick.flow.job \in Job /\ tick.flow.id \in 1..MaxDue
    BY <2>1, FlowFields
  <2>3. tick.flow.id < jobs'[tick.flow.job].next
    BY <2>1, <2>2 DEF JobsMove, Moves
  <2>4. ASSUME tick'.at = "commit"
        PROVE  /\ flows'[tick.flow].status # "none"
               /\ flows'[tick.flow].draft = tick'.config.draft
    BY <2>1, <2>4 DEF TickOK, Onward, FlowsStay, Stays
  <2> QED
    BY <2>1, <2>3, <2>4 DEF TickOK
<1> QED
  BY <1>1, <1>2

LEMMA JobsUnchanged ==
  ASSUME SchedInv, jobs' = jobs
  PROVE  JobsMove /\ JobsOK'
BY DEF SchedInv, SchedTyped, JobsMove, Moves, JobsOK, Enabled, Alive

LEMMA FlowsUnchanged ==
  ASSUME SchedInv, flows' = flows
  PROVE  FlowsStay /\ (linked' = linked => ReadyStays)
BY DEF SchedInv, FlowsOK, FlowsStay, Stays, ReadyStays

LEMMA FlowsOKStay ==
  ASSUME FlowsStay
  PROVE  FlowsOK'
BY DEF FlowsStay, Stays, FlowsOK

LEMMA RestUnchanged ==
  ASSUME RestTyped, UNCHANGED <<restVars, queue>>
  PROVE  RestTyped'
BY DEF RestTyped, restVars

\* A step that authorizes nothing and records no failure keeps the invariant.
LEMMA ClaimInv ==
  ASSUME SchedInv, FlowsStay, ReadyStays, JobsMove, JobsOK', missed' = missed,
         RestTyped', events' \in [EventId -> EventRecord],
         tick' \in TickState, TickOK', call' \in CallState, CallOK'
  PROVE  SchedInv' /\ AllPlanned
<1>1. FlowsOK'
  BY FlowsOKStay
<1>2. Audited'
  BY AuditedStays DEF SchedInv
<1>3. SchedTyped'
  BY DEF SchedInv, SchedTyped, JobsMove, ReadyStays
<1>4. AllPlanned
  BY ReadyPlanned
<1> QED
  BY <1>1, <1>2, <1>3, <1>4 DEF SchedInv

\* So does one in which the thread goes on.
LEMMA QuietInv ==
  ASSUME SchedInv, FlowsStay, ReadyStays, JobsMove, JobsOK', missed' = missed,
         RestTyped', events' \in [EventId -> EventRecord],
         tick' \in TickState, Onward, call' \in CallState, CallOK'
  PROVE  SchedInv' /\ AllPlanned
<1>1. TickOK'
  BY TickStays DEF SchedInv
<1> QED
  BY <1>1, ClaimInv

-----------------------------------------------------------------------------
(***************************************************************************)
(* Jobs and drafts.                                                        *)
(***************************************************************************)
LEMMA ScopeQuiet ==
  ASSUME SchedInv, UNCHANGED <<flowVars, linked, missed, events, tick, call>>,
         JobsMove, JobsOK'
  PROVE  SchedInv' /\ AllPlanned
<1>1. FlowsStay /\ ReadyStays
  BY FlowsUnchanged DEF flowVars
<1>2. RestTyped'
  BY RestUnchanged DEF SchedInv, flowVars, restVars
<1>3. /\ events' \in [EventId -> EventRecord]
      /\ tick' \in TickState /\ call' \in CallState
  BY DEF SchedInv, SchedTyped
<1>4. Onward
  BY DEF Onward
<1>5. CallOK'
  BY DEF SchedInv, CallOK
<1> QED
  BY <1>1, <1>2, <1>3, <1>4, <1>5, QuietInv

\* A job that is written with no other claim keeps what the others have.
LEMMA OneJob ==
  ASSUME SchedInv, NEW j \in Job, NEW x \in JobRecord,
         jobs' = [jobs EXCEPT ![j] = x],
         x.next = jobs[j].next, x.pending \in {0, jobs[j].pending},
         x.pending # 0 =>
           /\ x.config # None /\ ~ x.deleted /\ x.config.enabled
           /\ x.config.timed /\ x.pending < x.next
  PROVE  JobsMove /\ JobsOK'
<1>1. /\ jobs' \in [Job -> JobRecord] /\ jobs'[j] = x
      /\ \A i \in Job \ {j} : jobs'[i] = jobs[i]
  BY DEF SchedInv, SchedTyped
<1>2. \A i \in Job : Moves(i)
  BY <1>1 DEF Moves
<1>3. ASSUME NEW i \in Job, jobs'[i].pending # 0
      PROVE  Enabled(i)' /\ jobs'[i].config.timed
             /\ jobs'[i].pending < jobs'[i].next
  <2>1. CASE i = j
    BY <1>1, <1>3, <2>1 DEF Enabled, Alive
  <2>2. CASE i # j
    BY <1>1, <1>3, <2>2 DEF SchedInv, JobsOK, Enabled, Alive
  <2> QED
    BY <2>1, <2>2
<1> QED
  BY <1>1, <1>2, <1>3 DEF JobsMove, JobsOK

LEMMA NoClaim == MaxDue \in Nat /\ 0 \in 0..MaxDue
BY SchedulerAssumption

LEMMA JobFields ==
  ASSUME SchedInv, NEW j \in Job
  PROVE  /\ jobs[j] \in JobRecord
         /\ jobs[j].config \in JobConfig \union {None}
         /\ jobs[j].deleted \in BOOLEAN
         /\ jobs[j].next \in 1..MaxDue + 1 /\ jobs[j].pending \in 0..MaxDue
BY DEF SchedInv, SchedTyped, JobRecord

LEMMA CreateJobInv ==
  ASSUME SchedInv, NEW j \in Job, NEW c \in JobConfig, CreateJob(j, c)
  PROVE  SchedInv' /\ AllPlanned
<1>1. PICK x \in JobRecord : x = [jobs[j] EXCEPT !.config = c]
  BY JobFields DEF JobRecord
<1>2. x.next = jobs[j].next /\ x.pending = jobs[j].pending
  BY <1>1, JobFields DEF JobRecord
<1>3. jobs' = [jobs EXCEPT ![j] = x]
  BY <1>1 DEF CreateJob, SchedInv, SchedTyped
<1>4. jobs[j].pending = 0
  BY DEF CreateJob, SchedInv, JobsOK, Enabled, Alive
<1>5. JobsMove /\ JobsOK'
  BY <1>2, <1>3, <1>4, OneJob
<1> QED
  BY <1>5, ScopeQuiet DEF CreateJob

LEMMA UpdateJobInv ==
  ASSUME SchedInv, NEW j \in Job, NEW c \in JobConfig, UpdateJob(j, c)
  PROVE  SchedInv' /\ AllPlanned
<1>1. PICK x \in JobRecord : x = [jobs[j] EXCEPT !.config = c, !.pending = 0]
  BY JobFields, NoClaim DEF JobRecord
<1>2. x.next = jobs[j].next /\ x.pending = 0
  BY <1>1, JobFields DEF JobRecord
<1>3. jobs' = [jobs EXCEPT ![j] = x]
  BY <1>1 DEF UpdateJob, SchedInv, SchedTyped
<1>4. JobsMove /\ JobsOK'
  BY <1>2, <1>3, OneJob
<1> QED
  BY <1>4, ScopeQuiet DEF UpdateJob

LEMMA DeleteJobInv ==
  ASSUME SchedInv, NEW j \in Job, DeleteJob(j)
  PROVE  SchedInv' /\ AllPlanned
<1>1. jobs[j].config \in JobConfig
  BY JobFields DEF DeleteJob, Alive
<1>2. PICK c \in JobConfig : c = [jobs[j].config EXCEPT !.enabled = FALSE]
  BY <1>1 DEF JobConfig
<1>3. PICK x \in JobRecord :
        x = [jobs[j] EXCEPT !.config = c, !.deleted = TRUE, !.pending = 0]
  BY JobFields, NoClaim DEF JobRecord
<1>4. x.next = jobs[j].next /\ x.pending = 0
  BY <1>3, JobFields DEF JobRecord
<1>5. jobs' = [jobs EXCEPT ![j] = x]
  BY <1>2, <1>3 DEF DeleteJob, SchedInv, SchedTyped
<1>6. JobsMove /\ JobsOK'
  BY <1>4, <1>5, OneJob
<1> QED
  BY <1>6, ScopeQuiet DEF DeleteJob

LEMMA DropDraftInv ==
  ASSUME SchedInv, NEW d \in Draft, DropDraft(d)
  PROVE  SchedInv' /\ AllPlanned
<1>1. /\ live' = live \ {d}
      /\ UNCHANGED <<flows, steps, leased, queue, threads, errors, restarts>>
      /\ UNCHANGED <<jobs, linked, missed, events, tick, call>>
  BY DEF DropDraft, DeleteDraft, schedVars
<1>2. FlowsStay /\ ReadyStays
  BY <1>1, FlowsUnchanged
<1>3. JobsMove /\ JobsOK'
  BY <1>1, JobsUnchanged
<1>4. RestTyped'
  BY <1>1 DEF SchedInv, RestTyped
<1>5. /\ events' \in [EventId -> EventRecord]
      /\ tick' \in TickState /\ call' \in CallState
  BY <1>1 DEF SchedInv, SchedTyped
<1>6. Onward
  BY <1>1 DEF Onward
<1>7. CallOK'
  BY <1>1 DEF SchedInv, CallOK
<1> QED
  BY <1>1, <1>2, <1>3, <1>4, <1>5, <1>6, <1>7, QuietInv

-----------------------------------------------------------------------------
(***************************************************************************)
(* Flows.                                                                  *)
(***************************************************************************)
LEMMA OneFlow ==
  ASSUME SchedInv, NEW f \in Flow, NEW x \in FlowRecord, RowOK(x),
         flows' = [flows EXCEPT ![f] = x], x.ready = flows[f].ready,
         flows[f].status # "none" =>
           x.status # "none" /\ x.draft = flows[f].draft
  PROVE  FlowsStay /\ (linked' = linked => ReadyStays)
<1>1. /\ flows' \in [Flow -> FlowRecord] /\ flows'[f] = x
      /\ \A g \in Flow \ {f} : flows'[g] = flows[g]
  BY DEF SchedInv, FlowsOK
<1>2. ASSUME NEW g \in Flow
      PROVE  Stays(g) /\ flows'[g].ready = flows[g].ready
  BY <1>1 DEF SchedInv, FlowsOK, Stays
<1> QED
  BY <1>1, <1>2 DEF FlowsStay, ReadyStays

LEMMA FlowRow ==
  ASSUME SchedInv, NEW f \in Flow
  PROVE  flows[f] \in FlowRecord /\ RowOK(flows[f])
BY DEF SchedInv, FlowsOK

\* create_flow, of a flow that is not known or of the flow that is.
LEMMA CreatedStays ==
  ASSUME SchedInv, NEW f \in Flow, NEW d \in Draft,
         MayCreate(f, d), CreatedDeferred(f, d)
  PROVE  /\ FlowsStay /\ (linked' = linked => ReadyStays)
         /\ UNCHANGED <<restVars, queue>>
         /\ flows'[f].status # "none" /\ flows'[f].draft = d
<1>1. CASE flows[f].status = "none"
  <2>1. flows[f] \in FlowRecord /\ RowOK(flows[f])
    BY FlowRow
  <2>2. PICK x \in FlowRecord :
          x = [flows[f] EXCEPT !.status = "queued", !.draft = d, !.ready = FALSE]
    BY <2>1 DEF FlowRecord
  <2>3. /\ x.status = "queued" /\ x.draft = d /\ x.ready = FALSE
        /\ x.owner = flows[f].owner /\ x.aborted = flows[f].aborted
    BY <2>1, <2>2 DEF FlowRecord
  <2>4. RowOK(x) /\ x.ready = flows[f].ready
    BY <1>1, <2>1, <2>3 DEF RowOK, FlowRecord
  <2>5. New(f, d, FALSE)
    BY <1>1 DEF CreatedDeferred
  <2>6. flows' = [flows EXCEPT ![f] = x]
    BY <2>2, <2>5 DEF New, SchedInv, FlowsOK
  <2>7. FlowsStay /\ (linked' = linked => ReadyStays)
    BY <1>1, <2>4, <2>6, OneFlow
  <2>8. UNCHANGED <<restVars, queue>>
    BY <2>5 DEF New, restVars
  <2>9. flows'[f] = x
    BY <2>6 DEF SchedInv, FlowsOK
  <2> QED
    BY <2>3, <2>7, <2>8, <2>9
<1>2. CASE flows[f].status # "none"
  <2>1. UNCHANGED flowVars /\ flows[f].draft = d
    BY <1>2 DEF CreatedDeferred, MayCreate
  <2>2. flows' = flows /\ UNCHANGED <<restVars, queue>>
    BY <2>1 DEF flowVars, restVars
  <2> QED
    BY <1>2, <2>1, <2>2, FlowsUnchanged
<1> QED
  BY <1>1, <1>2

\* Only a flow that was never dispatchable is aborted.
LEMMA AbandonedRow ==
  ASSUME SchedInv, NEW f \in Flow, Deferred(f)
  PROVE  /\ Abandoned(flows[f]) \in FlowRecord /\ RowOK(Abandoned(flows[f]))
         /\ Abandoned(flows[f]).ready = flows[f].ready
         /\ Abandoned(flows[f]).status # "none"
         /\ Abandoned(flows[f]).draft = flows[f].draft
<1>1. flows[f] \in FlowRecord /\ RowOK(flows[f])
  BY FlowRow
<1>2. PICK x \in FlowRecord : x = Abandoned(flows[f])
  BY <1>1 DEF Abandoned, FlowRecord, Terminal
<1>3. /\ x.status = "cancelled" /\ x.cancel /\ x.aborted
      /\ x.ready = flows[f].ready /\ x.draft = flows[f].draft
      /\ x.owner = flows[f].owner
  BY <1>1, <1>2 DEF Abandoned, FlowRecord
<1>4. RowOK(x)
  BY <1>1, <1>3 DEF RowOK, Deferred
<1> QED
  BY <1>2, <1>3, <1>4

LEMMA AbortingStays ==
  ASSUME SchedInv, NEW f \in Flow, Aborting(f)
  PROVE  FlowsStay /\ (linked' = linked => ReadyStays)
<1>1. CASE Deferred(f)
  <2>1. flows' = [flows EXCEPT ![f] = Abandoned(flows[f])]
    BY <1>1 DEF Aborting
  <2> QED
    BY <1>1, <2>1, AbandonedRow, OneFlow
<1>2. CASE ~ Deferred(f)
  BY <1>2, FlowsUnchanged DEF Aborting
<1> QED
  BY <1>1, <1>2

\* No flow is running between two of the actions of this module, so that
\* recovery has to do with deferred flows alone.
LEMMA RecoveredStays ==
  ASSUME SchedInv, NEW held, NEW lapsed, flows' = Recovered(held, lapsed)
  PROVE  FlowsStay /\ (linked' = linked => ReadyStays)
<1>1. ASSUME NEW f \in Flow
      PROVE  flows'[f] = IF Deferred(f) /\ f \in lapsed THEN Abandoned(flows[f])
                         ELSE flows[f]
  BY FlowRow DEF Recovered, Running, RowOK
<1>2. ASSUME NEW f \in Flow
      PROVE  /\ flows'[f] \in FlowRecord /\ Stays(f)
             /\ flows'[f].ready = flows[f].ready
  BY <1>1, AbandonedRow, FlowRow DEF Stays
<1>3. flows' \in [Flow -> FlowRecord]
  BY <1>2 DEF Recovered
<1> QED
  BY <1>2, <1>3 DEF FlowsStay, ReadyStays

LEMMA StepsRecoveredTyped ==
  ASSUME RestTyped, NEW held
  PROVE  StepsRecovered(held) \in [Flow -> [Attempt -> [Step -> StepStatus]]]
BY DEF RestTyped, StepsRecovered, StepStatus

-----------------------------------------------------------------------------
(***************************************************************************)
(* The thread.                                                             *)
(***************************************************************************)
LEMMA TickFields ==
  ASSUME SchedInv
  PROVE  /\ tick \in TickState /\ tick.flow \in Flow \union {None}
         /\ tick.config \in JobConfig \union {None}
         /\ tick.at # "idle" =>
              /\ tick.flow \in Flow /\ tick.flow.by = "schedule"
              /\ tick.flow.job \in Job /\ tick.flow.id \in 1..MaxDue
BY FlowFields DEF SchedInv, SchedTyped, TickState, TickOK

LEMMA IdleTick == NoTick \in TickState /\ NoTick.at = "idle"
BY DEF NoTick, TickState

\* What the thread keeps when it goes on to another point.
LEMMA TickGoes ==
  ASSUME SchedInv, NEW at \in {"wake", "abandon", "record"}
  PROVE  /\ TickTo(at) \in TickState
         /\ TickTo(at).at = at /\ TickTo(at).flow = tick.flow
BY TickFields DEF TickTo, NoTick, TickState

\* A step of the thread that touches no flow and no queue.
LEMMA TickQuiet ==
  ASSUME SchedInv, UNCHANGED <<flowVars, linked, missed, events, call>>,
         JobsMove, JobsOK', tick' \in TickState, TickOK'
  PROVE  SchedInv' /\ AllPlanned
<1>1. FlowsStay /\ ReadyStays
  BY FlowsUnchanged DEF flowVars
<1>2. RestTyped'
  BY RestUnchanged DEF SchedInv, flowVars, restVars
<1>3. events' \in [EventId -> EventRecord] /\ call' \in CallState
  BY DEF SchedInv, SchedTyped
<1>4. CallOK'
  BY DEF SchedInv, CallOK
<1> QED
  BY <1>1, <1>2, <1>3, <1>4, ClaimInv

\* The thread takes up an occurrence that was claimed.
LEMMA TickStarts ==
  ASSUME SchedInv, NEW j \in Job, NEW n \in 1..MaxDue, n < jobs'[j].next,
         tick' = [NoTick EXCEPT !.at = "read", !.flow = Occurrence(j, n)]
  PROVE  tick' \in TickState /\ TickOK'
<1>1. /\ Occurrence(j, n) \in Flow /\ Occurrence(j, n).by = "schedule"
      /\ Occurrence(j, n).job = j /\ Occurrence(j, n).id = n
  BY Occurrences
<1>2. tick' \in TickState /\ tick'.at = "read" /\ tick'.flow = Occurrence(j, n)
  BY <1>1 DEF NoTick, TickState
<1> QED
  BY <1>1, <1>2 DEF TickOK

LEMMA TickPendingInv ==
  ASSUME SchedInv, NEW j \in Job, TickPending(j)
  PROVE  SchedInv' /\ AllPlanned
<1>1. jobs[j].pending \in 1..MaxDue
  BY JobFields, SchedulerAssumption DEF TickPending
<1>2. jobs[j].pending < jobs[j].next
  BY DEF TickPending, SchedInv, JobsOK
<1>3. tick' \in TickState /\ TickOK'
  BY <1>1, <1>2, TickStarts DEF TickPending
<1> QED
  BY <1>3, TickQuiet, JobsUnchanged DEF TickPending

\* The new claim is of an occurrence that comes after all that were closed.
LEMMA TickDueInv ==
  ASSUME SchedInv, NEW j \in Job, TickDue(j)
  PROVE  SchedInv' /\ AllPlanned
<1>1. /\ jobs[j] \in JobRecord /\ jobs[j].next \in 1..MaxDue
      /\ jobs[j].next + 1 \in 1..MaxDue + 1 /\ jobs[j].next \in 0..MaxDue
  <2>1. jobs[j] \in JobRecord /\ jobs[j].next \in 1..MaxDue + 1
    BY JobFields
  <2>2. jobs[j].next <= MaxDue
    BY DEF TickDue
  <2> QED
    BY <2>1, <2>2, NoClaim
<1>2. PICK x \in JobRecord :
        x = [jobs[j] EXCEPT !.pending = jobs[j].next, !.next = jobs[j].next + 1]
  BY <1>1 DEF JobRecord
<1>3. /\ x.pending = jobs[j].next /\ x.next = jobs[j].next + 1
      /\ x.config = jobs[j].config /\ x.deleted = jobs[j].deleted
  BY <1>1, <1>2 DEF JobRecord
<1>4. jobs' = [jobs EXCEPT ![j] = x]
  BY <1>2 DEF TickDue, SchedInv, SchedTyped
<1>5. /\ jobs' \in [Job -> JobRecord] /\ jobs'[j] = x
      /\ \A i \in Job \ {j} : jobs'[i] = jobs[i]
  BY <1>4 DEF SchedInv, SchedTyped
<1>6. ASSUME NEW i \in Job
      PROVE  Moves(i)
  <2>1. CASE i = j
    BY <1>1, <1>3, <1>5, <2>1 DEF Moves
  <2>2. CASE i # j
    BY <1>5, <2>2 DEF Moves
  <2> QED
    BY <2>1, <2>2
<1>7. ASSUME NEW i \in Job, jobs'[i].pending # 0
      PROVE  Enabled(i)' /\ jobs'[i].config.timed
             /\ jobs'[i].pending < jobs'[i].next
  <2>1. CASE i = j
    BY <1>1, <1>3, <1>5, <2>1 DEF TickDue, Enabled, Alive
  <2>2. CASE i # j
    BY <1>5, <1>7, <2>2 DEF SchedInv, JobsOK, Enabled, Alive
  <2> QED
    BY <2>1, <2>2
<1>8. JobsMove /\ JobsOK'
  BY <1>5, <1>6, <1>7 DEF JobsMove, JobsOK
<1>9. jobs[j].next < jobs'[j].next
  BY <1>1, <1>3, <1>5
<1>10. tick' \in TickState /\ TickOK'
  BY <1>1, <1>9, TickStarts DEF TickDue
<1> QED
  BY <1>8, <1>10, TickQuiet DEF TickDue

\* What the thread still needs of its flow when it goes on to another point.
LEMMA TickOnward ==
  ASSUME SchedInv, tick.at # "idle",
         \/ tick' = NoTick
         \/ \E at \in {"wake", "abandon", "record"} : tick' = TickTo(at)
  PROVE  tick' \in TickState /\ Onward
<1>1. CASE tick' = NoTick
  BY <1>1, IdleTick DEF Onward, NoTick
<1>2. CASE \E at \in {"wake", "abandon", "record"} : tick' = TickTo(at)
  <2>1. PICK at \in {"wake", "abandon", "record"} : tick' = TickTo(at)
    BY <1>2
  <2>2. tick' \in TickState /\ tick'.at = at /\ tick'.flow = tick.flow
    BY <2>1, TickGoes
  <2> QED
    BY <2>1, <2>2 DEF Onward
<1> QED
  BY <1>1, <1>2

LEMMA TickReadInv ==
  ASSUME SchedInv, TickRead
  PROVE  SchedInv' /\ AllPlanned
<1>1. tick.at # "idle" /\ tick.at # "commit"
  BY DEF TickRead
<1>2. JobsMove /\ JobsOK' /\ FlowsStay
  BY JobsUnchanged, FlowsUnchanged DEF TickRead, flowVars
<1>3. tick' \in TickState /\ Onward
  <2>1. CASE Alive(tick.flow.job) /\ Pending(tick.flow)
    <3>1. tick.flow.job \in Job /\ tick \in TickState
      BY <1>1, TickFields
    <3>2. jobs[tick.flow.job].config \in JobConfig \union {None}
      BY <3>1, JobFields
    <3>3. tick' = [tick EXCEPT !.at = "create",
                               !.config = jobs[tick.flow.job].config]
      BY <2>1 DEF TickRead
    <3>4. /\ tick' \in TickState /\ tick'.at = "create"
          /\ tick'.flow = tick.flow
      BY <3>1, <3>2, <3>3 DEF TickState
    <3> QED
      BY <1>1, <3>4 DEF Onward
  <2>2. CASE ~ (Alive(tick.flow.job) /\ Pending(tick.flow))
    <3>1. tick' = TickTo("abandon")
      BY <2>2 DEF TickRead
    <3> QED
      BY <1>1, <3>1, TickOnward
  <2> QED
    BY <2>1, <2>2
<1>4. TickOK'
  BY <1>2, <1>3, TickStays DEF SchedInv
<1> QED
  BY <1>2, <1>3, <1>4, TickQuiet DEF TickRead

\* The flow that the thread is about to authorize is about the draft it read.
LEMMA TickCreateInv ==
  ASSUME SchedInv, TickCreate
  PROVE  SchedInv' /\ AllPlanned
<1>1. /\ tick.at = "create" /\ tick.flow \in Flow
      /\ tick.flow.by = "schedule" /\ tick.flow.job \in Job
      /\ tick.flow.id \in 1..MaxDue /\ tick \in TickState
      /\ tick.flow.id < jobs[tick.flow.job].next
  BY TickFields DEF TickCreate, SchedInv, TickOK
<1>2. JobsMove /\ JobsOK' /\ linked' = linked /\ missed' = missed
  BY JobsUnchanged DEF TickCreate
<1>3. /\ events' \in [EventId -> EventRecord]
      /\ call' \in CallState /\ CallOK'
  BY DEF TickCreate, SchedInv, SchedTyped, CallOK
<1>4. CASE MayCreate(tick.flow, tick.config.draft)
  <2>1. /\ CreatedDeferred(tick.flow, tick.config.draft)
        /\ tick' = [tick EXCEPT !.at = "commit"]
    BY <1>4 DEF TickCreate
  <2>2. tick.config.draft \in Draft
    BY <1>4 DEF MayCreate, SchedInv, RestTyped
  <2>3. /\ FlowsStay /\ (linked' = linked => ReadyStays)
        /\ UNCHANGED <<restVars, queue>>
        /\ flows'[tick.flow].status # "none"
        /\ flows'[tick.flow].draft = tick.config.draft
    BY <1>1, <1>4, <2>1, <2>2, CreatedStays
  <2>4. /\ tick' \in TickState /\ tick'.at = "commit"
        /\ tick'.flow = tick.flow /\ tick'.config = tick.config
    BY <1>1, <2>1 DEF TickState
  <2>5. jobs' = jobs
    BY DEF TickCreate
  <2>6. TickOK'
    BY <1>1, <2>3, <2>4, <2>5 DEF TickOK
  <2>7. RestTyped'
    BY <2>3, RestUnchanged DEF SchedInv
  <2> QED
    BY <1>2, <1>3, <2>3, <2>4, <2>6, <2>7, ClaimInv
<1>5. CASE ~ MayCreate(tick.flow, tick.config.draft)
  <2>1. tick' = TickTo("abandon") /\ UNCHANGED flowVars
    BY <1>5 DEF TickCreate
  <2>2. tick' \in TickState /\ Onward
    BY <1>1, <2>1, TickOnward
  <2>3. FlowsStay
    BY <2>1, FlowsUnchanged DEF flowVars
  <2>4. TickOK'
    BY <1>2, <2>2, <2>3, TickStays DEF SchedInv
  <2> QED
    BY <1>2, <2>1, <2>2, <2>4, TickQuiet DEF TickCreate
<1> QED
  BY <1>4, <1>5

LEMMA TickWakeInv ==
  ASSUME SchedInv, TickWake
  PROVE  SchedInv' /\ AllPlanned
<1>1. /\ tick.at # "idle" /\ tick.flow \in Flow
      /\ UNCHANGED <<flows, restVars, jobs, linked, missed, events, call>>
      /\ queue' = WokenIfReady(tick.flow) /\ tick' = NoTick
  BY TickFields DEF TickWake
<1>2. JobsMove /\ JobsOK' /\ FlowsStay /\ ReadyStays
  BY <1>1, JobsUnchanged, FlowsUnchanged
<1>3. tick' \in TickState /\ Onward
  BY <1>1, TickOnward
<1>4. QueueOK(queue')
  BY <1>1, WokenQueue DEF SchedInv, RestTyped, QueueOK
<1>5. RestTyped'
  BY <1>1, <1>4 DEF SchedInv, RestTyped, QueueOK, restVars
<1>6. /\ events' \in [EventId -> EventRecord]
      /\ call' \in CallState /\ CallOK'
  BY <1>1 DEF SchedInv, SchedTyped, CallOK
<1> QED
  BY <1>1, <1>2, <1>3, <1>5, <1>6, QuietInv

LEMMA TickErrorInv ==
  ASSUME SchedInv, TickError
  PROVE  SchedInv' /\ AllPlanned
<1>1. /\ tick.at # "idle" /\ tick' = TickTo("abandon")
      /\ UNCHANGED <<flows, steps, leased, live, queue, threads, restarts>>
      /\ UNCHANGED <<jobs, linked, missed, events, call>>
  BY DEF TickError
<1>2. JobsMove /\ JobsOK' /\ FlowsStay /\ ReadyStays
  BY <1>1, JobsUnchanged, FlowsUnchanged
<1>3. tick' \in TickState /\ Onward
  BY <1>1, TickOnward
<1>4. errors' \in 0..MaxError
  BY FlowAssumption DEF TickError, SchedInv, RestTyped
<1>5. RestTyped'
  BY <1>1, <1>4 DEF SchedInv, RestTyped
<1>6. /\ events' \in [EventId -> EventRecord]
      /\ call' \in CallState /\ CallOK'
  BY <1>1 DEF SchedInv, SchedTyped, CallOK
<1> QED
  BY <1>1, <1>2, <1>3, <1>5, <1>6, QuietInv

LEMMA TickAbandonInv ==
  ASSUME SchedInv, TickAbandon
  PROVE  SchedInv' /\ AllPlanned
<1>1. /\ tick.at # "idle" /\ tick.flow \in Flow /\ Aborting(tick.flow)
      /\ tick' = TickTo("record")
      /\ UNCHANGED <<restVars, queue, jobs, linked, missed, events, call>>
  BY TickFields DEF TickAbandon
<1>2. JobsMove /\ JobsOK' /\ FlowsStay /\ ReadyStays
  BY <1>1, JobsUnchanged, AbortingStays
<1>3. tick' \in TickState /\ Onward
  BY <1>1, TickOnward
<1>4. RestTyped'
  BY <1>1, RestUnchanged DEF SchedInv
<1>5. /\ events' \in [EventId -> EventRecord]
      /\ call' \in CallState /\ CallOK'
  BY <1>1 DEF SchedInv, SchedTyped, CallOK
<1> QED
  BY <1>1, <1>2, <1>3, <1>4, <1>5, QuietInv

\* A flow is authorized that was not, and the audit says so: its occurrence, if
\* it is one, is closed by the same step and was not recorded as failed.
LEMMA Authorizing ==
  ASSUME SchedInv, JobsMove, missed' = missed,
         NEW f \in Flow, NEW x \in FlowRecord, RowOK(x), x.ready,
         ~ flows[f].ready, f \notin missed, Closed(f)',
         flows[f].status # "none" => x.draft = flows[f].draft,
         flows' = [flows EXCEPT ![f] = x],
         linked' = [linked EXCEPT ![f] = @ + 1]
  PROVE  /\ FlowsStay /\ Audited' /\ linked' \in [Flow -> Nat]
         /\ \A g \in Flow \ {f} : flows'[g].ready = flows[g].ready
<1>1. /\ flows' \in [Flow -> FlowRecord] /\ flows'[f] = x
      /\ \A g \in Flow \ {f} : flows'[g] = flows[g]
  BY DEF SchedInv, FlowsOK
<1>2. /\ linked' \in [Flow -> Nat] /\ linked'[f] = linked[f] + 1
      /\ \A g \in Flow \ {f} : linked'[g] = linked[g]
  BY DEF SchedInv, SchedTyped
<1>3. x.status # "none"
  BY DEF RowOK
<1>4. FlowsStay
  BY <1>1, <1>3 DEF SchedInv, FlowsOK, FlowsStay, Stays
<1>5. linked[f] = 0
  BY DEF SchedInv, Audited
<1>6. ASSUME NEW g \in Flow \ {f}
      PROVE  /\ linked'[g] = IF flows'[g].ready THEN 1 ELSE 0
             /\ flows'[g].ready => Closed(g)'
             /\ g \in missed' => g.by = "schedule" /\ ~ flows'[g].ready
                                 /\ Closed(g)'
  BY <1>1, <1>2, ClosedStays DEF SchedInv, Audited
<1>7. Audited'
  BY <1>1, <1>2, <1>5, <1>6 DEF Audited
<1> QED
  BY <1>1, <1>2, <1>4, <1>7

\* An authorized flow is queued with its mark, unless somebody cancelled it.
LEMMA AuthorizedRow ==
  ASSUME NEW r \in FlowRecord, RowOK(r), MayAuthorize(r)
  PROVE  /\ [r EXCEPT !.ready = TRUE] \in FlowRecord
         /\ RowOK([r EXCEPT !.ready = TRUE])
         /\ [r EXCEPT !.ready = TRUE].ready
         /\ [r EXCEPT !.ready = TRUE].draft = r.draft
<1>1. PICK x \in FlowRecord : x = [r EXCEPT !.ready = TRUE]
  BY DEF FlowRecord
<1>2. /\ x.ready = TRUE /\ x.status = "queued" /\ x.cancel = r.cancel
      /\ x.draft = r.draft /\ x.owner = r.owner /\ x.aborted = r.aborted
  BY <1>1 DEF FlowRecord, MayAuthorize
<1>3. RowOK(x)
  BY <1>2 DEF RowOK, MayAuthorize
<1> QED
  BY <1>1, <1>2, <1>3

\* An occurrence whose claim is open was neither dispatched nor recorded.
LEMMA PendingIsOpen ==
  ASSUME SchedInv, NEW f \in Flow, f.by = "schedule", Pending(f)
  PROVE  ~ flows[f].ready /\ f \notin missed
BY DEF SchedInv, Audited, Closed, Pending

\* The job gives its claim up.
LEMMA ClaimClosed ==
  ASSUME SchedInv, NEW j \in Job, jobs' = [jobs EXCEPT ![j].pending = 0]
  PROVE  JobsMove /\ JobsOK' /\ jobs'[j].pending = 0
         /\ jobs'[j].next = jobs[j].next
<1>1. jobs[j] \in JobRecord
  BY JobFields
<1>2. PICK x \in JobRecord : x = [jobs[j] EXCEPT !.pending = 0]
  BY <1>1, NoClaim DEF JobRecord
<1>3. x.pending = 0 /\ x.next = jobs[j].next
  BY <1>1, <1>2 DEF JobRecord
<1>4. jobs' = [jobs EXCEPT ![j] = x]
  BY <1>2 DEF SchedInv, SchedTyped
<1>5. JobsMove /\ JobsOK'
  BY <1>3, <1>4, OneJob
<1>6. jobs'[j] = x
  BY <1>4 DEF SchedInv, SchedTyped
<1> QED
  BY <1>3, <1>5, <1>6

LEMMA TickAuthorizes ==
  ASSUME SchedInv, NEW f \in Flow, f = tick.flow, tick.at = "commit",
         ~ flows[f].ready, StillWanted(f, tick.config),
         MayAuthorize(flows[f]), TickCommit
  PROVE  SchedInv' /\ AllPlanned
<1>1. /\ flows' = [flows EXCEPT ![f].ready = TRUE]
      /\ jobs' = [jobs EXCEPT ![f.job].pending = 0]
      /\ linked' = [linked EXCEPT ![f] = @ + 1]
      /\ tick' = TickTo("wake")
      /\ UNCHANGED <<restVars, queue, missed, events, call>>
  BY DEF TickCommit
<1>2. /\ f.by = "schedule" /\ f.job \in Job /\ f.id \in 1..MaxDue
      /\ f.id < jobs[f.job].next
      /\ flows[f].draft = tick.config.draft
  BY TickFields DEF SchedInv, TickOK
<1>3. Pending(f) /\ jobs[f.job].config = tick.config
  BY DEF StillWanted
<1>4. /\ JobsMove /\ JobsOK' /\ jobs'[f.job].pending = 0
      /\ jobs'[f.job].next = jobs[f.job].next
  BY <1>1, <1>2, ClaimClosed
<1>5. Closed(f)'
  BY <1>2, <1>4 DEF Closed
<1>6. flows[f] \in FlowRecord /\ RowOK(flows[f])
  BY FlowRow
<1>7. PICK x \in FlowRecord : x = [flows[f] EXCEPT !.ready = TRUE]
  BY <1>6, AuthorizedRow
<1>8. RowOK(x) /\ x.ready /\ x.draft = flows[f].draft
  BY <1>6, <1>7, AuthorizedRow
<1>9. flows' = [flows EXCEPT ![f] = x]
  BY <1>1, <1>7 DEF SchedInv, FlowsOK
<1>10. f \notin missed
  BY <1>2, <1>3, PendingIsOpen
<1>11. /\ FlowsStay /\ Audited' /\ linked' \in [Flow -> Nat]
       /\ \A g \in Flow \ {f} : flows'[g].ready = flows[g].ready
  BY <1>1, <1>4, <1>5, <1>8, <1>9, <1>10, Authorizing
<1>12. tick' \in TickState /\ Onward
  BY <1>1, TickOnward
<1>13. TickOK'
  BY <1>4, <1>11, <1>12, TickStays DEF SchedInv
<1>14. RestTyped' /\ CallOK'
  BY <1>1, RestUnchanged DEF SchedInv, CallOK
<1>15. SchedTyped'
  BY <1>1, <1>4, <1>11, <1>12 DEF SchedInv, SchedTyped, JobsMove
<1>16. FlowsOK'
  BY <1>11, FlowsOKStay
<1>17. jobs[f.job].pending # 0
  BY <1>2, <1>3 DEF Pending
<1>18. Enabled(f.job) /\ jobs[f.job].config.timed
  BY <1>2, <1>17 DEF SchedInv, JobsOK
<1>19. Planned(f)
  BY <1>2, <1>3, <1>18 DEF Planned
<1>20. AllPlanned
  BY <1>11, <1>19 DEF AllPlanned, Planned
<1> QED
  BY <1>4, <1>11, <1>13, <1>14, <1>15, <1>16, <1>20 DEF SchedInv

LEMMA TickCommitInv ==
  ASSUME SchedInv, TickCommit
  PROVE  SchedInv' /\ AllPlanned
<1> DEFINE f == tick.flow
           Go == /\ ~ flows[f].ready /\ StillWanted(f, tick.config)
                 /\ MayAuthorize(flows[f])
<1>1. tick.at = "commit" /\ f \in Flow
  BY TickFields DEF TickCommit
<1>2. CASE Go
  BY <1>1, <1>2, TickAuthorizes
<1>3. CASE ~ Go
  <2>1. /\ tick' \in {NoTick, TickTo("abandon")}
        /\ UNCHANGED <<flows, jobs, linked>>
        /\ UNCHANGED <<restVars, queue, missed, events, call>>
    BY <1>3 DEF TickCommit
  <2>2. tick' \in TickState /\ Onward
    BY <1>1, <2>1, TickOnward
  <2>3. JobsMove /\ JobsOK' /\ FlowsStay
    BY <2>1, JobsUnchanged, FlowsUnchanged
  <2>4. TickOK'
    BY <2>2, <2>3, TickStays DEF SchedInv
  <2>5. UNCHANGED flowVars
    BY <2>1 DEF flowVars, restVars
  <2> QED
    BY <2>1, <2>2, <2>3, <2>4, <2>5, TickQuiet
<1> QED
  BY <1>2, <1>3

\* An occurrence is recorded as failed only while its claim is open.
LEMMA TickRecordInv ==
  ASSUME SchedInv, TickRecord
  PROVE  SchedInv' /\ AllPlanned
<1>1. /\ tick.at # "idle" /\ tick.flow \in Flow /\ tick.flow.by = "schedule"
      /\ tick.flow.job \in Job /\ tick.flow.id \in 1..MaxDue
      /\ tick.flow.id < jobs[tick.flow.job].next
      /\ tick' = NoTick /\ UNCHANGED <<flowVars, linked, events, call>>
  BY TickFields DEF TickRecord, SchedInv, TickOK
<1>2. tick' \in TickState /\ Onward
  BY <1>1, TickOnward
<1>3. FlowsStay /\ ReadyStays /\ RestTyped' /\ CallOK'
  BY <1>1, FlowsUnchanged, RestUnchanged
     DEF flowVars, restVars, SchedInv, CallOK
<1>4. CASE ~ Missed(tick.flow)
  <2>1. UNCHANGED <<jobs, missed>>
    BY <1>4 DEF TickRecord
  <2>2. JobsMove /\ JobsOK'
    BY <2>1, JobsUnchanged
  <2>3. TickOK'
    BY <1>2, <1>3, <2>2, TickStays DEF SchedInv
  <2> QED
    BY <1>1, <1>2, <2>1, <2>2, <2>3, TickQuiet
<1>5. CASE Missed(tick.flow)
  <2>1. /\ jobs' = [jobs EXCEPT ![tick.flow.job].pending = 0]
        /\ missed' = missed \union {tick.flow}
    BY <1>5 DEF TickRecord
  <2>2. /\ JobsMove /\ JobsOK' /\ jobs'[tick.flow.job].pending = 0
        /\ jobs'[tick.flow.job].next = jobs[tick.flow.job].next
    BY <1>1, <2>1, ClaimClosed
  <2>3. ~ flows[tick.flow].ready
    BY <1>1, <1>5, PendingIsOpen DEF Missed
  <2>4. ASSUME NEW g \in Flow, g = tick.flow
        PROVE  Closed(g)'
    <3>1. g.id # 0 /\ jobs'[g.job].pending = 0 /\ g.id < jobs'[g.job].next
      BY <1>1, <2>2, <2>4
    <3> QED
      BY <3>1 DEF Closed
  <2>5. ASSUME NEW g \in Flow
        PROVE  /\ linked'[g] = IF flows'[g].ready THEN 1 ELSE 0
               /\ flows'[g].ready => Closed(g)'
               /\ g \in missed' => g.by = "schedule" /\ ~ flows'[g].ready
                                   /\ Closed(g)'
    <3>1. Closed(g) => Closed(g)'
      BY <2>2, ClosedStays
    <3>2. flows' = flows /\ linked' = linked
      BY <1>1 DEF flowVars
    <3>3. g \in missed' => g \in missed \/ g = tick.flow
      BY <2>1
    <3>4. g = tick.flow => g.by = "schedule" /\ ~ flows[g].ready /\ Closed(g)'
      BY <1>1, <2>3, <2>4
    <3>5. Audited
      BY DEF SchedInv
    <3> QED
      BY <3>1, <3>2, <3>3, <3>4, <3>5 DEF Audited
  <2>6. Audited'
    BY <2>5 DEF Audited
  <2>7. TickOK'
    BY <1>2, <1>3, <2>2, TickStays DEF SchedInv
  <2>8. SchedTyped'
    BY <1>1, <1>2, <2>1, <2>2 DEF SchedInv, SchedTyped, JobsMove
  <2>9. FlowsOK' /\ AllPlanned
    BY <1>3, FlowsOKStay, ReadyPlanned
  <2> QED
    BY <1>3, <2>2, <2>6, <2>7, <2>8, <2>9 DEF SchedInv
<1> QED
  BY <1>4, <1>5

-----------------------------------------------------------------------------
(***************************************************************************)
(* A request.                                                              *)
(***************************************************************************)
\* What CallOK says of a state of the request.
WorksOnRun(c) ==
  /\ c.at \notin {"idle", "event"} => c.flow \in Flow /\ c.flow.by # "schedule"
  /\ c.at \in {"event", "persist"} => c.event \in EventId

LEMMA CallFields ==
  ASSUME SchedInv
  PROVE  /\ call \in CallState /\ call.flow \in Flow \union {None}
         /\ call.event \in EventId \union {None} /\ call.tried \subseteq Job
         /\ WorksOnRun(call)
         /\ call.at \notin {"idle", "event"} => call.flow.job \in Job
BY FlowFields DEF SchedInv, SchedTyped, CallState, CallOK, WorksOnRun

LEMMA IdleCall == NoCall \in CallState /\ NoCall.at = "idle" /\ WorksOnRun(NoCall)
BY DEF NoCall, CallState, WorksOnRun

LEMMA CallGoes ==
  ASSUME SchedInv, call.at \notin {"idle", "event"},
         NEW at \in {"wake", "abort"}
  PROVE  CallTo(at) \in CallState /\ WorksOnRun(CallTo(at))
<1>1. /\ CallTo(at) \in CallState
      /\ CallTo(at).at = at /\ CallTo(at).flow = call.flow
  BY CallFields DEF CallTo, NoCall, CallState
<1> QED
  BY <1>1, CallFields DEF WorksOnRun

LEMMA CallReturns ==
  ASSUME SchedInv, call.at \notin {"idle", "event"}, NEW done \in BOOLEAN,
         Return(done)
  PROVE  call' \in CallState /\ WorksOnRun(call)'
<1>1. CASE call.event = None
  BY <1>1, IdleCall DEF Return
<1>2. CASE call.event # None
  <2>1. call' = [CallTo("persist") EXCEPT !.done = done]
    BY <1>2 DEF Return
  <2>2. /\ CallTo("persist") \in CallState
        /\ CallTo("persist").at = "persist"
        /\ CallTo("persist").flow = call.flow
        /\ CallTo("persist").event = call.event
    BY CallFields DEF CallTo, NoCall, CallState
  <2>3. /\ call' \in CallState /\ call'.at = "persist"
        /\ call'.flow = call.flow /\ call'.event = call.event
    BY <2>1, <2>2 DEF CallState
  <2> QED
    BY <1>2, <2>3, CallFields DEF WorksOnRun
<1> QED
  BY <1>1, <1>2

LEMMA CallCalls ==
  ASSUME SchedInv, NEW f \in Flow, f.by # "schedule", NEW c \in CallState
  PROVE  Calling(f, c) \in CallState /\ WorksOnRun(Calling(f, c))
<1>1. f.job \in Job
  BY FlowFields
<1>2. jobs[f.job].config \in JobConfig \union {None}
  BY <1>1, JobFields
<1>3. /\ Calling(f, c) \in CallState /\ Calling(f, c).flow = f
      /\ Calling(f, c).at \in {"create", "commit"}
  BY <1>2 DEF Calling, CallState
<1> QED
  BY <1>3 DEF WorksOnRun

\* A step of a request that authorizes nothing.
LEMMA CallQuiet ==
  ASSUME SchedInv, UNCHANGED <<jobs, linked, missed, tick>>,
         FlowsStay, linked' = linked => ReadyStays, RestTyped',
         events' \in [EventId -> EventRecord],
         call' \in CallState, WorksOnRun(call)'
  PROVE  SchedInv' /\ AllPlanned
<1>1. JobsMove /\ JobsOK'
  BY JobsUnchanged
<1>2. tick' \in TickState /\ Onward
  BY DEF SchedInv, SchedTyped, Onward
<1>3. CallOK'
  BY DEF CallOK, WorksOnRun
<1> QED
  BY <1>1, <1>2, <1>3, QuietInv

LEMMA CallOnly ==
  ASSUME SchedInv, UNCHANGED <<flowVars, jobs, linked, missed, tick>>,
         events' \in [EventId -> EventRecord],
         call' \in CallState, WorksOnRun(call)'
  PROVE  SchedInv' /\ AllPlanned
<1>1. FlowsStay /\ ReadyStays
  BY FlowsUnchanged DEF flowVars
<1>2. RestTyped'
  BY RestUnchanged DEF SchedInv, flowVars, restVars
<1> QED
  BY <1>1, <1>2, CallQuiet

LEMMA RunNowInv ==
  ASSUME SchedInv, NEW j \in Job, NEW r \in Request, RunNow(j, r)
  PROVE  SchedInv' /\ AllPlanned
<1>1. /\ call' = Calling(ManualRun(j, r), NoCall)
      /\ UNCHANGED <<flowVars, jobs, linked, missed, events, tick>>
  BY DEF RunNow
<1>2. ManualRun(j, r) \in Flow /\ ManualRun(j, r).by # "schedule"
  BY ManualRuns
<1>3. call' \in CallState /\ WorksOnRun(call)'
  BY <1>1, <1>2, CallCalls, IdleCall
<1>4. events' \in [EventId -> EventRecord]
  BY <1>1 DEF SchedInv, SchedTyped
<1> QED
  BY <1>1, <1>3, <1>4, CallOnly

LEMMA CallCreateInv ==
  ASSUME SchedInv, CallCreate
  PROVE  SchedInv' /\ AllPlanned
<1>1. /\ call.at = "create" /\ call.flow \in Flow /\ call \in CallState
      /\ call.flow.by # "schedule"
      /\ UNCHANGED <<jobs, linked, missed, events, tick>>
  BY CallFields DEF CallCreate, WorksOnRun
<1>2. events' \in [EventId -> EventRecord]
  BY <1>1 DEF SchedInv, SchedTyped
<1>3. CASE MayCreate(call.flow, call.config.draft)
  <2>1. /\ CreatedDeferred(call.flow, call.config.draft)
        /\ call' = [call EXCEPT !.at = "commit"]
    BY <1>3 DEF CallCreate
  <2>2. call.config.draft \in Draft
    BY <1>3 DEF MayCreate, SchedInv, RestTyped
  <2>3. /\ FlowsStay /\ (linked' = linked => ReadyStays)
        /\ UNCHANGED <<restVars, queue>>
    BY <1>1, <1>3, <2>1, <2>2, CreatedStays
  <2>4. /\ call' \in CallState /\ call'.flow = call.flow
        /\ call'.at = "commit"
    BY <1>1, <2>1 DEF CallState
  <2>5. WorksOnRun(call)'
    BY <1>1, <2>4 DEF WorksOnRun
  <2>6. RestTyped'
    BY <2>3, RestUnchanged DEF SchedInv
  <2> QED
    BY <1>1, <1>2, <2>3, <2>4, <2>5, <2>6, CallQuiet
<1>4. CASE ~ MayCreate(call.flow, call.config.draft)
  <2>1. Return(FALSE) /\ UNCHANGED flowVars
    BY <1>4 DEF CallCreate
  <2>2. call' \in CallState /\ WorksOnRun(call)'
    BY <1>1, <2>1, CallReturns
  <2> QED
    BY <1>1, <1>2, <2>1, <2>2, CallOnly
<1> QED
  BY <1>3, <1>4

\* A flow that the request authorizes, after it was reopened or as it is.
LEMMA AttachedRow ==
  ASSUME SchedInv, NEW f \in Flow, ~ flows[f].ready,
         NEW r, r \in {flows[f], Reopened(flows[f])},
         r = flows[f] => MayAuthorize(flows[f]),
         r # flows[f] => MayReopen(f)
  PROVE  /\ [r EXCEPT !.ready = TRUE] \in FlowRecord
         /\ RowOK([r EXCEPT !.ready = TRUE])
         /\ [r EXCEPT !.ready = TRUE].ready
         /\ [r EXCEPT !.ready = TRUE].draft = flows[f].draft
<1>1. flows[f] \in FlowRecord /\ RowOK(flows[f])
  BY FlowRow
<1>2. CASE r = flows[f]
  BY <1>1, <1>2, AuthorizedRow
<1>3. CASE r # flows[f]
  <2>1. r = Reopened(flows[f])
    BY <1>3
  <2>2. PICK x \in FlowRecord : x = Reopened(flows[f])
    BY <1>1 DEF Reopened, FlowRecord
  <2>3. /\ x.status = "queued" /\ ~ x.cancel /\ ~ x.aborted
        /\ x.draft = flows[f].draft /\ x.owner = flows[f].owner
    BY <1>1, <2>2 DEF Reopened, FlowRecord
  <2>4. RowOK(x) /\ MayAuthorize(x)
    BY <1>1, <2>3 DEF RowOK, MayAuthorize
  <2> QED
    BY <2>1, <2>2, <2>3, <2>4, AuthorizedRow
<1> QED
  BY <1>2, <1>3

\* The request authorizes a flow that no schedule is about.
LEMMA AttachInv ==
  ASSUME SchedInv, NEW f \in Flow, f = call.flow, f.by # "schedule",
         ~ flows[f].ready, MayAttach(f), Attach(f),
         call' \in CallState, WorksOnRun(call)',
         UNCHANGED <<restVars, queue, jobs, missed, events, tick>>
  PROVE  SchedInv' /\ AllPlanned
<1> DEFINE again == call.replay /\ MayReopen(f)
           r == IF again THEN Reopened(flows[f]) ELSE flows[f]
<1>1. flows[f] \in FlowRecord /\ RowOK(flows[f])
  BY FlowRow
<1>2. ~ r.ready
  <2>1. Reopened(flows[f]).ready = flows[f].ready
    BY <1>1 DEF Reopened, FlowRecord
  <2> QED
    BY <2>1
<1>3. /\ flows' = [flows EXCEPT ![f] = [r EXCEPT !.ready = TRUE]]
      /\ linked' = [linked EXCEPT ![f] = @ + 1]
  BY <1>2 DEF Attach
<1>4. MayAuthorize(flows[f]) \/ again
  BY DEF MayAttach
<1>5. /\ r \in {flows[f], Reopened(flows[f])}
      /\ r # flows[f] => MayReopen(f)
      /\ r = flows[f] => MayAuthorize(flows[f])
  <2>1. CASE again
    <3>1. flows[f].status = "cancelled" /\ Reopened(flows[f]).status = "queued"
      BY <1>1, <2>1 DEF MayReopen, Reopened, FlowRecord
    <3> QED
      BY <2>1, <3>1
  <2>2. CASE ~ again
    BY <1>4, <2>2
  <2> QED
    BY <2>1, <2>2
<1> HIDE DEF r, again
<1>6. PICK x \in FlowRecord :
        /\ x = [r EXCEPT !.ready = TRUE]
        /\ RowOK(x) /\ x.ready /\ x.draft = flows[f].draft
  BY <1>5, AttachedRow
<1>7. JobsMove /\ JobsOK'
  BY JobsUnchanged
<1>8. f \notin missed /\ Closed(f)'
  BY DEF SchedInv, Audited, Closed
<1>9. /\ FlowsStay /\ Audited' /\ linked' \in [Flow -> Nat]
      /\ \A g \in Flow \ {f} : flows'[g].ready = flows[g].ready
  BY <1>3, <1>6, <1>7, <1>8, Authorizing
<1>10. AllPlanned
  BY <1>9 DEF AllPlanned, Planned
<1>11. Onward
  BY DEF Onward
<1>12. TickOK'
  BY <1>7, <1>9, <1>11, TickStays DEF SchedInv
<1>13. RestTyped' /\ CallOK'
  BY RestUnchanged DEF SchedInv, CallOK, WorksOnRun
<1>14. SchedTyped'
  BY <1>7, <1>9 DEF SchedInv, SchedTyped, JobsMove
<1>15. FlowsOK'
  BY <1>9, FlowsOKStay
<1> QED
  BY <1>7, <1>9, <1>10, <1>12, <1>13, <1>14, <1>15 DEF SchedInv

LEMMA CallCommitInv ==
  ASSUME SchedInv, CallCommit
  PROVE  SchedInv' /\ AllPlanned
<1>1. /\ call.at = "commit" /\ call.flow \in Flow
      /\ call.flow.by # "schedule"
      /\ UNCHANGED <<restVars, queue, jobs, missed, events, tick>>
  BY CallFields DEF CallCommit, WorksOnRun
<1>2. CASE MayAttach(call.flow)
  <2>1. Attach(call.flow) /\ call' = CallTo("wake")
    BY <1>2 DEF CallCommit
  <2>2. call' \in CallState /\ WorksOnRun(call)'
    BY <1>1, <2>1, CallGoes
  <2>3. CASE ~ flows[call.flow].ready
    BY <1>1, <1>2, <2>1, <2>2, <2>3, AttachInv
  <2>4. CASE flows[call.flow].ready
    <3>1. flows[call.flow] \in FlowRecord
      BY <1>1, FlowRow
    <3>2. Reopened(flows[call.flow]).ready = flows[call.flow].ready
      BY <3>1 DEF Reopened, FlowRecord
    <3>3. UNCHANGED <<flows, linked>>
      BY <2>1, <2>4, <3>2 DEF Attach
    <3>4. UNCHANGED flowVars
      BY <1>1, <3>3 DEF flowVars, restVars
    <3>5. events' \in [EventId -> EventRecord]
      BY <1>1 DEF SchedInv, SchedTyped
    <3> QED
      BY <1>1, <2>2, <3>3, <3>4, <3>5, CallOnly
  <2> QED
    BY <2>3, <2>4
<1>3. CASE ~ MayAttach(call.flow)
  <2>1. /\ Return(FALSE) \/ call' = CallTo("abort")
        /\ UNCHANGED <<flows, linked>>
    BY <1>3 DEF CallCommit
  <2>2. call' \in CallState /\ WorksOnRun(call)'
    BY <1>1, <2>1, CallGoes, CallReturns
  <2>3. UNCHANGED flowVars
    BY <1>1, <2>1 DEF flowVars, restVars
  <2>4. events' \in [EventId -> EventRecord]
    BY <1>1 DEF SchedInv, SchedTyped
  <2> QED
    BY <1>1, <2>1, <2>2, <2>3, <2>4, CallOnly
<1> QED
  BY <1>2, <1>3

LEMMA CallWakeInv ==
  ASSUME SchedInv, CallWake
  PROVE  SchedInv' /\ AllPlanned
<1>1. /\ call.at = "wake" /\ call.flow \in Flow /\ Return(TRUE)
      /\ queue' = WokenIfReady(call.flow)
      /\ UNCHANGED <<flows, restVars, jobs, linked, missed, events, tick>>
  BY CallFields DEF CallWake, WorksOnRun
<1>2. FlowsStay /\ ReadyStays
  BY <1>1, FlowsUnchanged
<1>3. QueueOK(queue')
  BY <1>1, WokenQueue DEF SchedInv, RestTyped, QueueOK
<1>4. RestTyped'
  BY <1>1, <1>3 DEF SchedInv, RestTyped, QueueOK, restVars
<1>5. call' \in CallState /\ WorksOnRun(call)'
  BY <1>1, CallReturns
<1>6. events' \in [EventId -> EventRecord]
  BY <1>1 DEF SchedInv, SchedTyped
<1> QED
  BY <1>1, <1>2, <1>4, <1>5, <1>6, CallQuiet

LEMMA CallAbortInv ==
  ASSUME SchedInv, CallAbort
  PROVE  SchedInv' /\ AllPlanned
<1>1. /\ call.at = "abort" /\ call.flow \in Flow /\ Return(FALSE)
      /\ Aborting(call.flow)
      /\ UNCHANGED <<restVars, queue, jobs, linked, missed, events, tick>>
  BY CallFields DEF CallAbort, WorksOnRun
<1>2. FlowsStay /\ (linked' = linked => ReadyStays)
  BY <1>1, AbortingStays
<1>3. RestTyped'
  BY <1>1, RestUnchanged DEF SchedInv
<1>4. call' \in CallState /\ WorksOnRun(call)'
  BY <1>1, CallReturns
<1>5. events' \in [EventId -> EventRecord]
  BY <1>1 DEF SchedInv, SchedTyped
<1> QED
  BY <1>1, <1>2, <1>3, <1>4, <1>5, CallQuiet

-----------------------------------------------------------------------------
(***************************************************************************)
(* Events.                                                                 *)
(***************************************************************************)
LEMMA EventFields ==
  ASSUME SchedInv, NEW e \in EventId
  PROVE  events[e] \in EventRecord
BY DEF SchedInv, SchedTyped

\* The request is at work on an event, between two of its jobs.
LEMMA CallOnEvent ==
  ASSUME NEW e \in EventId, NEW tried \in SUBSET Job,
         NEW c, c = [NoCall EXCEPT !.at = "event", !.event = e, !.tried = tried]
  PROVE  c \in CallState /\ WorksOnRun(c)
<1>1. c \in CallState /\ c.at = "event" /\ c.event = e
  BY DEF NoCall, CallState
<1> QED
  BY <1>1 DEF WorksOnRun

LEMMA CallOnNewEvent ==
  ASSUME NEW e \in EventId,
         NEW c, c = [NoCall EXCEPT !.at = "event", !.event = e]
  PROVE  c \in CallState /\ WorksOnRun(c)
<1>1. c \in CallState /\ c.at = "event" /\ c.event = e
  BY DEF NoCall, CallState
<1> QED
  BY <1>1 DEF WorksOnRun

LEMMA EmitInv ==
  ASSUME SchedInv, NEW e \in EventId, NEW d \in Draft, Emit(e, d)
  PROVE  SchedInv' /\ AllPlanned
<1> DEFINE ms == {j \in Job : /\ Enabled(j) /\ ~ jobs[j].config.timed
                              /\ jobs[j].config.draft = d}
<1>1. /\ UNCHANGED <<flowVars, jobs, linked, missed, tick>>
      /\ call' = [NoCall EXCEPT !.at = "event", !.event = e]
      /\ events' = [events EXCEPT ![e] =
           [NoEvent EXCEPT !.status = "open", !.claimed = TRUE, !.matched = ms]]
  BY DEF Emit
<1>2. ms \subseteq Job
  OBVIOUS
<1> HIDE DEF ms
<1>3. PICK x \in EventRecord :
        x = [NoEvent EXCEPT !.status = "open", !.claimed = TRUE, !.matched = ms]
  BY <1>2 DEF NoEvent, EventRecord
<1>4. events' \in [EventId -> EventRecord]
  BY <1>1, <1>3 DEF SchedInv, SchedTyped
<1>5. call' \in CallState /\ WorksOnRun(call)'
  BY <1>1, CallOnNewEvent
<1> QED
  BY <1>1, <1>4, <1>5, CallOnly

LEMMA ResumeInv ==
  ASSUME SchedInv, NEW e \in EventId, Resume(e)
  PROVE  SchedInv' /\ AllPlanned
<1>1. /\ UNCHANGED <<flowVars, jobs, linked, missed, tick>>
      /\ call' = [NoCall EXCEPT !.at = "event", !.event = e]
      /\ events' = [events EXCEPT ![e].claimed = TRUE]
  BY DEF Resume
<1>2. PICK x \in EventRecord : x = [events[e] EXCEPT !.claimed = TRUE]
  BY EventFields DEF EventRecord
<1>3. events' \in [EventId -> EventRecord]
  BY <1>1, <1>2 DEF SchedInv, SchedTyped
<1>4. call' \in CallState /\ WorksOnRun(call)'
  BY <1>1, CallOnNewEvent
<1> QED
  BY <1>1, <1>3, <1>4, CallOnly

LEMMA ClaimExpiresInv ==
  ASSUME SchedInv, NEW e \in EventId, ClaimExpires(e)
  PROVE  SchedInv' /\ AllPlanned
<1>1. /\ UNCHANGED <<flowVars, jobs, linked, missed, tick, call>>
      /\ events' = [events EXCEPT ![e].claimed = FALSE]
  BY DEF ClaimExpires
<1>2. PICK x \in EventRecord : x = [events[e] EXCEPT !.claimed = FALSE]
  BY EventFields DEF EventRecord
<1>3. events' \in [EventId -> EventRecord]
  BY <1>1, <1>2 DEF SchedInv, SchedTyped
<1>4. call' \in CallState /\ WorksOnRun(call)'
  BY <1>1, CallFields
<1> QED
  BY <1>1, <1>3, <1>4, CallOnly

LEMMA TriggerJobInv ==
  ASSUME SchedInv, NEW j \in Job, TriggerJob(j)
  PROVE  SchedInv' /\ AllPlanned
<1>1. /\ call.at = "event" /\ j \in ToTrigger(call.event)
      /\ UNCHANGED <<flowVars, jobs, linked, missed, events, tick>>
  BY DEF TriggerJob
<1>2. call.event \in EventId
  BY <1>1, CallFields DEF WorksOnRun
<1>3. EventRun(j, call.event) \in Flow /\ EventRun(j, call.event).by # "schedule"
  BY <1>2, EventRuns
<1>4. PICK c \in CallState : c = [call EXCEPT !.tried = @ \union {j}]
  BY CallFields DEF CallState
<1>5. call' \in CallState /\ WorksOnRun(call)'
  <2>1. CASE Alive(j)
    <3>1. call' = Calling(EventRun(j, call.event), c)
      BY <1>4, <2>1 DEF TriggerJob
    <3> QED
      BY <1>3, <3>1, CallCalls
  <2>2. CASE ~ Alive(j)
    <3>1. call' = [c EXCEPT !.at = "persist",
                            !.flow = EventRun(j, call.event), !.done = FALSE]
      BY <1>4, <2>2 DEF TriggerJob
    <3>2. /\ call' \in CallState /\ call'.flow = EventRun(j, call.event)
          /\ call'.event = c.event
      BY <1>3, <3>1 DEF CallState
    <3>3. c.event = call.event
      BY <1>4, CallFields DEF CallState
    <3> QED
      BY <1>2, <1>3, <3>2, <3>3 DEF WorksOnRun
  <2> QED
    BY <2>1, <2>2
<1>6. events' \in [EventId -> EventRecord]
  BY <1>1 DEF SchedInv, SchedTyped
<1> QED
  BY <1>1, <1>5, <1>6, CallOnly

LEMMA PersistInv ==
  ASSUME SchedInv, Persist
  PROVE  SchedInv' /\ AllPlanned
<1> DEFINE e == call.event
           j == call.flow.job
<1>1. call.at = "persist" /\ e \in EventId /\ j \in Job /\ call.tried \subseteq Job
  BY CallFields DEF Persist, WorksOnRun
<1>2. /\ UNCHANGED <<flowVars, jobs, linked, missed, tick>>
      /\ call' = [NoCall EXCEPT !.at = "event", !.event = e, !.tried = call.tried]
      /\ events' = [events EXCEPT
           ![e].succeeded = IF call.done THEN @ \union {j} ELSE @,
           ![e].failed = IF call.done THEN @ \ {j} ELSE @ \union {j}]
  BY DEF Persist
<1> HIDE DEF e, j
<1>3. events[e] \in EventRecord
  BY <1>1, EventFields
<1>4. PICK x \in EventRecord :
        x = [events[e] EXCEPT
               !.succeeded = IF call.done THEN @ \union {j} ELSE @,
               !.failed = IF call.done THEN @ \ {j} ELSE @ \union {j}]
  BY <1>1, <1>3 DEF EventRecord
<1>5. events' = [events EXCEPT ![e] = x]
  BY <1>2, <1>4 DEF SchedInv, SchedTyped
<1>6. events' \in [EventId -> EventRecord]
  BY <1>5 DEF SchedInv, SchedTyped
<1>7. call' \in CallState /\ WorksOnRun(call)'
  BY <1>1, <1>2, CallOnEvent
<1> QED
  BY <1>2, <1>6, <1>7, CallOnly

LEMMA EndEventInv ==
  ASSUME SchedInv, EndEvent
  PROVE  SchedInv' /\ AllPlanned
<1> DEFINE e == call.event
<1>1. e \in EventId
  BY CallFields DEF EndEvent, WorksOnRun
<1>2. /\ UNCHANGED <<flowVars, jobs, linked, missed, tick>>
      /\ call' = NoCall
      /\ events' = [events EXCEPT ![e].status = "completed", ![e].claimed = FALSE]
  BY DEF EndEvent
<1> HIDE DEF e
<1>3. PICK x \in EventRecord :
        x = [events[e] EXCEPT !.status = "completed", !.claimed = FALSE]
  BY <1>1, EventFields DEF EventRecord
<1>4. events' = [events EXCEPT ![e] = x]
  BY <1>2, <1>3 DEF SchedInv, SchedTyped
<1>5. events' \in [EventId -> EventRecord]
  BY <1>4 DEF SchedInv, SchedTyped
<1> QED
  BY <1>2, <1>5, IdleCall, CallOnly

-----------------------------------------------------------------------------
(***************************************************************************)
(* Recovery, restarts, workers and people.                                 *)
(***************************************************************************)
LEMMA WorldQuiet ==
  ASSUME SchedInv, FlowsStay, linked' = linked => ReadyStays, RestTyped',
         UNCHANGED schedVars
  PROVE  SchedInv' /\ AllPlanned
<1>1. UNCHANGED <<jobs, linked, missed, events, tick, call>>
  BY DEF schedVars
<1>2. events' \in [EventId -> EventRecord]
  BY <1>1 DEF SchedInv, SchedTyped
<1>3. call' \in CallState /\ WorksOnRun(call)'
  BY <1>1, CallFields
<1> QED
  BY <1>1, <1>2, <1>3, CallQuiet

LEMMA CancelInv ==
  ASSUME SchedInv, NEW f \in Flow, Cancel(f), UNCHANGED schedVars
  PROVE  SchedInv' /\ AllPlanned
<1>1. flows[f] \in FlowRecord /\ RowOK(flows[f])
  BY FlowRow
<1>2. flows[f].status = "queued" /\ ~ flows[f].cancel
  BY <1>1 DEF Cancel, RowOK
<1>3. PICK x \in FlowRecord :
        x = [flows[f] EXCEPT !.cancel = TRUE, !.status = "cancelled"]
  BY <1>1 DEF FlowRecord, Terminal
<1>4. /\ x.status = "cancelled" /\ x.cancel /\ x.ready = flows[f].ready
      /\ x.draft = flows[f].draft /\ x.owner = flows[f].owner
      /\ x.aborted = flows[f].aborted
  BY <1>1, <1>3 DEF FlowRecord
<1>5. RowOK(x)
  BY <1>1, <1>4 DEF RowOK
<1>6. flows' = [flows EXCEPT ![f] = x]
  BY <1>2, <1>3 DEF Cancel, SchedInv, FlowsOK
<1>7. FlowsStay /\ (linked' = linked => ReadyStays)
  BY <1>4, <1>5, <1>6, OneFlow
<1>8. RestTyped'
  BY RestUnchanged DEF Cancel, SchedInv, restVars
<1> QED
  BY <1>7, <1>8, WorldQuiet

LEMMA RanInv ==
  ASSUME SchedInv, NEW f \in Flow, Ran(f)
  PROVE  SchedInv' /\ AllPlanned
<1>1. FlowsStay /\ (linked' = linked => ReadyStays)
  <2>1. CASE f \in Waiting(flows)
    <3>1. flows[f] \in FlowRecord /\ RowOK(flows[f]) /\ flows[f].status = "queued"
      BY <2>1, FlowRow DEF Waiting
    <3>2. PICK x \in FlowRecord : x = [flows[f] EXCEPT !.status = "succeeded"]
      BY <3>1 DEF FlowRecord, Terminal
    <3>3. /\ x.status = "succeeded" /\ x.cancel = flows[f].cancel
          /\ x.ready = flows[f].ready /\ x.draft = flows[f].draft
          /\ x.owner = flows[f].owner /\ x.aborted = flows[f].aborted
      BY <3>1, <3>2 DEF FlowRecord
    <3>4. RowOK(x)
      BY <3>1, <3>3 DEF RowOK
    <3>5. flows' = [flows EXCEPT ![f] = x]
      BY <2>1, <3>2 DEF Ran, SchedInv, FlowsOK
    <3> QED
      BY <3>3, <3>4, <3>5, OneFlow
  <2>2. CASE f \notin Waiting(flows)
    BY <2>2, FlowsUnchanged DEF Ran
  <2> QED
    BY <2>1, <2>2
<1>2. QueueOK(queue')
  BY TakenQueue DEF Ran, SchedInv, RestTyped, QueueOK
<1>3. RestTyped'
  BY <1>2 DEF Ran, SchedInv, RestTyped, QueueOK, restVars
<1>4. UNCHANGED schedVars
  BY DEF Ran
<1> QED
  BY <1>1, <1>3, <1>4, WorldQuiet

LEMMA RecoverInv ==
  ASSUME SchedInv, NEW lapsed, SchedRecover(lapsed)
  PROVE  SchedInv' /\ AllPlanned
<1>1. /\ flows' = Recovered(leased, lapsed) /\ steps' = StepsRecovered(leased)
      /\ queue' \in Wakings(queue, Waiting(Recovered(leased, lapsed)) \ Scheduled)
      /\ UNCHANGED <<leased, live, threads, errors, restarts>>
      /\ UNCHANGED schedVars
  BY DEF SchedRecover, Recover
<1>2. FlowsStay /\ (linked' = linked => ReadyStays)
  BY <1>1, RecoveredStays
<1>3. RestTyped
  BY DEF SchedInv
<1>4. QueueOK(queue')
  <2>1. Waiting(Recovered(leased, lapsed)) \ Scheduled \subseteq Flow
    BY DEF Waiting
  <2>2. queue \subseteq Flow
    BY <1>3 DEF RestTyped
  <2> QED
    BY <1>1, <2>1, <2>2, WakingsQueue
<1>5. steps' \in [Flow -> [Attempt -> [Step -> StepStatus]]]
  BY <1>1, <1>3, StepsRecoveredTyped
<1>6. RestTyped'
  BY <1>1, <1>3, <1>4, <1>5 DEF RestTyped, QueueOK
<1> QED
  BY <1>1, <1>2, <1>6, WorldQuiet

LEMMA IdleThread == Idle \in ThreadRecord
BY FlowAssumption DEF Idle, ThreadRecord, Attempt

\* The thread and the request lose what they had in memory.
LEMMA RestartInv ==
  ASSUME SchedInv, NEW lapsed, SchedRestart(lapsed)
  PROVE  SchedInv' /\ AllPlanned
<1> DEFINE fl == Recovered({}, lapsed)
<1>1. /\ restarts < MaxRestart /\ restarts' = restarts + 1
      /\ flows' = [f \in Flow |->
                     IF fl[f].status = "running"
                     THEN [fl[f] EXCEPT !.owner = "other"] ELSE fl[f]]
      /\ steps' = StepsRecovered({}) /\ leased' = {}
      /\ threads' = [t \in Thread |-> Idle]
      /\ queue' \in Wakings({}, Waiting(fl)) /\ UNCHANGED <<live, errors>>
  BY DEF SchedRestart, Restart
<1>2. /\ tick' = NoTick /\ call' = NoCall
      /\ UNCHANGED <<jobs, linked, missed, events>>
  BY DEF SchedRestart
<1>3. flows' = fl
  <2>1. ASSUME NEW f \in Flow
        PROVE  fl[f] = IF Deferred(f) /\ f \in lapsed THEN Abandoned(flows[f])
                       ELSE flows[f]
    BY FlowRow DEF Recovered, Running, RowOK
  <2>2. ASSUME NEW f \in Flow
        PROVE  fl[f].status # "running"
    <3>1. RowOK(fl[f])
      BY <2>1, AbandonedRow, FlowRow
    <3> QED
      BY <3>1 DEF RowOK
  <2>3. fl = [f \in Flow |-> fl[f]]
    BY DEF Recovered
  <2> HIDE DEF fl
  <2> QED
    BY <1>1, <2>2, <2>3
<1>4. FlowsStay /\ (linked' = linked => ReadyStays)
  BY <1>3, RecoveredStays
<1>5. RestTyped
  BY DEF SchedInv
<1>6. QueueOK(queue')
  <2>1. Waiting(fl) \subseteq Flow
    BY DEF Waiting
  <2> HIDE DEF fl
  <2> QED
    BY <1>1, <2>1, WakingsQueue
<1>7. steps' \in [Flow -> [Attempt -> [Step -> StepStatus]]]
  BY <1>1, <1>5, StepsRecoveredTyped
<1>8. restarts' \in 0..MaxRestart
  BY <1>1, <1>5, FlowAssumption DEF RestTyped
<1>9. RestTyped'
  BY <1>1, <1>5, <1>6, <1>7, <1>8, IdleThread DEF RestTyped, QueueOK
<1>10. JobsMove /\ JobsOK'
  BY <1>2, JobsUnchanged
<1>11. tick' \in TickState /\ Onward
  BY <1>2, IdleTick DEF Onward
<1>12. call' \in CallState /\ CallOK'
  BY <1>2, IdleCall DEF CallOK
<1>13. events' \in [EventId -> EventRecord]
  BY <1>2 DEF SchedInv, SchedTyped
<1> QED
  BY <1>2, <1>4, <1>9, <1>10, <1>11, <1>12, <1>13, QuietInv

-----------------------------------------------------------------------------
(***************************************************************************)
(* The theorems.                                                           *)
(***************************************************************************)
LEMMA SchedInitInv ==
  ASSUME SchedInit
  PROVE  SchedInv
<1>1. NoFlow \in FlowRecord /\ RowOK(NoFlow)
  BY FlowAssumption DEF NoFlow, FlowRecord, Attempt, RowOK, Terminal
<1>2. NoFlow.ready = FALSE
  BY DEF NoFlow
<1>3. FlowsOK
  BY <1>1 DEF SchedInit, Init, FlowsOK
<1>4. RestTyped
  <2>1. /\ steps \in [Flow -> [Attempt -> [Step -> StepStatus]]]
        /\ leased = {} /\ live = Draft /\ queue = {} /\ errors = 0 /\ restarts = 0
    BY DEF SchedInit, Init, StepStatus
  <2>2. threads \in [Thread -> ThreadRecord]
    BY IdleThread DEF SchedInit, Init
  <2>3. Cardinality(queue) = 0
    BY <2>1, FS_EmptySet
  <2> QED
    BY <2>1, <2>2, <2>3, FlowAssumption DEF RestTyped
<1>5. NoJob \in JobRecord /\ NoJob.pending = 0
  BY SchedulerAssumption DEF NoJob, JobRecord
<1>6. NoEvent \in EventRecord
  BY DEF NoEvent, EventRecord
<1>7. SchedTyped
  BY <1>5, <1>6, IdleTick, IdleCall DEF SchedInit, SchedTyped
<1>8. Audited
  BY <1>2 DEF SchedInit, Init, Audited
<1>9. JobsOK
  BY <1>5 DEF SchedInit, JobsOK
<1>10. TickOK /\ CallOK
  BY IdleTick, IdleCall DEF SchedInit, TickOK, CallOK
<1> QED
  BY <1>3, <1>4, <1>7, <1>8, <1>9, <1>10 DEF SchedInv

LEMMA PeopleInv ==
  ASSUME SchedInv, SchedPeople
  PROVE  SchedInv' /\ AllPlanned
BY CreateJobInv, UpdateJobInv, DeleteJobInv, RunNowInv, DropDraftInv, EmitInv,
   CancelInv DEF SchedPeople

LEMMA TickInv ==
  ASSUME SchedInv, Tick
  PROVE  SchedInv' /\ AllPlanned
BY TickPendingInv, TickDueInv, TickReadInv, TickCreateInv, TickCommitInv,
   TickWakeInv, TickAbandonInv, TickRecordInv DEF Tick

LEMMA CallStepInv ==
  ASSUME SchedInv, CallStep
  PROVE  SchedInv' /\ AllPlanned
BY CallCreateInv, CallCommitInv, CallWakeInv, CallAbortInv, TriggerJobInv,
   PersistInv, EndEventInv DEF CallStep

LEMMA StutterInv ==
  ASSUME SchedInv, UNCHANGED allVars
  PROVE  SchedInv' /\ AllPlanned
<1>1. UNCHANGED flowVars /\ UNCHANGED schedVars
  BY DEF allVars
<1>2. FlowsStay /\ (linked' = linked => ReadyStays)
  BY <1>1, FlowsUnchanged DEF flowVars
<1>3. RestTyped'
  BY <1>1, RestUnchanged DEF SchedInv, flowVars, restVars
<1> QED
  BY <1>1, <1>2, <1>3, WorldQuiet

LEMMA NextInv ==
  ASSUME SchedInv, [SchedNext]_allVars
  PROVE  SchedInv' /\ AllPlanned
BY PeopleInv, TickInv, TickErrorInv, CallStepInv, ResumeInv, ClaimExpiresInv,
   RecoverInv, RestartInv, RanInv, StutterInv DEF SchedNext

\* The invariant holds in every state the scheduler reaches.
THEOREM SchedulerInvariant == SchedSpec => []SchedInv
<1>1. SchedInit => SchedInv
  BY SchedInitInv
<1>2. SchedInv /\ [SchedNext]_allVars => SchedInv'
  BY NextInv
<1> QED
  BY <1>1, <1>2, PTL DEF SchedSpec

\* The state of the flows, jobs, events, the thread and the requests stays well
\* formed, and the queue keeps its limit.
THEOREM SchedulerTyped == SchedSpec => []SchedTypeOK
<1>1. SchedInv => SchedTypeOK
  <2>1. SUFFICES ASSUME SchedInv
                 PROVE  SchedTypeOK
    OBVIOUS
  <2>2. \A f \in Flow : Running(f) <=> flows[f].owner # "none"
    BY <2>1 DEF SchedInv, FlowsOK, RowOK, Running
  <2>3. TypeOK
    BY <2>1, <2>2 DEF SchedInv, FlowsOK, RestTyped, TypeOK, StepStatus
  <2> QED
    BY <2>1, <2>3 DEF SchedInv, SchedTyped, SchedTypeOK
<1> QED
  BY <1>1, SchedulerInvariant, PTL

\* A flow is authorized exactly when the job's audit says so, and once, however
\* often a crash, a replay, a resumed event or a taken-up occurrence comes back
\* to it.
THEOREM FlowsAuthorizedOnce == SchedSpec => []AuthorizedOnce
<1>1. SchedInv => AuthorizedOnce
  BY DEF SchedInv, Audited, AuthorizedOnce
<1> QED
  BY <1>1, SchedulerInvariant, PTL

\* No occurrence is both dispatched and recorded as failed, and nothing that
\* was dispatched is aborted.
THEOREM FailuresNotDispatched == SchedSpec => []FailedIsNotDispatched
<1>1. SchedInv => FailedIsNotDispatched
  BY DEF SchedInv, FlowsOK, RowOK, Audited, FailedIsNotDispatched
<1> QED
  BY <1>1, SchedulerInvariant, PTL

\* A due flow is dispatched for the job as it is in that moment.
THEOREM DueFlowsAsPlanned == SchedSpec => LaunchedAsPlanned
<1>1. SchedInv /\ [SchedNext]_allVars => AllPlanned
  BY NextInv
<1>2. AllPlanned =>
        \A f \in Flow :
          f.by = "schedule" /\ ~ flows[f].ready /\ flows'[f].ready =>
            /\ Enabled(f.job) /\ jobs[f.job].config.timed
            /\ jobs[f.job].config.draft = flows[f].draft
  BY DEF AllPlanned, Planned
<1> QED
  BY <1>1, <1>2, SchedulerInvariant, PTL DEF SchedSpec, LaunchedAsPlanned

=============================================================================
