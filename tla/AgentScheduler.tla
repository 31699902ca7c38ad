--------------------------- MODULE AgentScheduler ---------------------------
(***************************************************************************)
(* The jobs that start health checks (agent_v2/scheduler.py) on top of the *)
(* flows of AgentFlow.  A job starts a flow when it is due, when a person  *)
(* asks for it or when an event matches it.  Every start is two            *)
(* transactions: the flow is created deferred, then one transaction        *)
(* authorizes it, links it to the job and closes the occurrence; what      *)
(* fails in between is undone by abandoning the deferred flow, and what is *)
(* lost in a crash is taken up again from the database.                    *)
(*                                                                         *)
(* tick is the scheduler's thread, call the request that holds             *)
(* _lifecycle_lock: creating, changing and deleting a job and a whole      *)
(* run_now or emit_event hold it, of the thread only its last transaction. *)
(*                                                                         *)
(* Abstractions.  The threads of AgentFlow are one action here, Ran: a     *)
(* flow taken from the queue ends.  One person owns the jobs.  An          *)
(* occurrence is a number, and the clock the choice of the step that       *)
(* claims it.  A run a person asks for carries a client_request_id.  Rows  *)
(* that were tampered with, replays of create_job and the limits on the    *)
(* number of jobs are left out, and so is the scheduler's close.           *)
(***************************************************************************)
EXTENDS AgentFlow

CONSTANTS
  Job,
  Request,    \* the client_request_ids of runs that people ask for
  EventId,    \* business events
  MaxDue      \* bound of the model on the occurrences of a job

Occurrence(j, n) == [by |-> "schedule", job |-> j, id |-> n]
ManualRun(j, r) == [by |-> "manual", job |-> j, id |-> r]
EventRun(j, e) == [by |-> "event", job |-> j, id |-> e]

\* client_request_id of the flows: one flow per occurrence, request or event.
ASSUME SchedulerAssumption ==
  /\ MaxDue \in Nat
  /\ Flow = {Occurrence(j, n) : j \in Job, n \in 1..MaxDue}
              \union {ManualRun(j, r) : j \in Job, r \in Request}
              \union {EventRun(j, e) : j \in Job, e \in EventId}

\* timed: daily or interval, else started by events.
JobConfig == [draft: Draft, timed: BOOLEAN, enabled: BOOLEAN]

JobRecord ==
  [config: JobConfig \union {None}, deleted: BOOLEAN,
   next: 1..MaxDue + 1,     \* number of the occurrence next_run_at stands for
   pending: 0..MaxDue]      \* the claimed occurrence, 0 for none

EventRecord ==
  [status: {"none", "open", "completed"}, claimed: BOOLEAN,
   matched: SUBSET Job, succeeded: SUBSET Job, failed: SUBSET Job]

TickState ==
  [at: {"idle", "read", "create", "commit", "wake", "abandon", "record"},
   flow: Flow \union {None}, config: JobConfig \union {None}]

CallState ==
  [at: {"idle", "create", "commit", "wake", "abort", "event", "persist"},
   flow: Flow \union {None}, config: JobConfig \union {None},
   replay: BOOLEAN, event: EventId \union {None}, tried: SUBSET Job,
   done: BOOLEAN]

VARIABLES
  jobs,      \* agent_jobs
  linked,    \* how many job_flow_created events name the flow
  missed,    \* the occurrences with a job_launch_failed event
  events,    \* agent_trigger_events and agent_trigger_claims
  tick,      \* run_due_once of the scheduler's thread
  call       \* the request that holds _lifecycle_lock

flowVars == <<flows, steps, leased, live, queue, threads, errors, restarts>>
restVars == <<steps, leased, live, threads, errors, restarts>>
schedVars == <<jobs, linked, missed, events, tick, call>>
allVars == <<flowVars, schedVars>>

NoJob == [config |-> None, deleted |-> FALSE, next |-> 1, pending |-> 0]
NoEvent == [status |-> "none", claimed |-> FALSE, matched |-> {},
            succeeded |-> {}, failed |-> {}]
NoTick == [at |-> "idle", flow |-> None, config |-> None]
NoCall == [at |-> "idle", flow |-> None, config |-> None, replay |-> FALSE,
           event |-> None, tried |-> {}, done |-> FALSE]

SchedInit ==
  /\ Init
  /\ jobs = [j \in Job |-> NoJob]
  /\ linked = [f \in Flow |-> 0]
  /\ missed = {}
  /\ events = [e \in EventId |-> NoEvent]
  /\ tick = NoTick
  /\ call = NoCall

LockFree == call.at = "idle"
Alive(j) == jobs[j].config # None /\ ~ jobs[j].deleted
Enabled(j) == Alive(j) /\ jobs[j].config.enabled

(***************************************************************************)
(* Jobs and drafts.                                                        *)
(***************************************************************************)
CreateJob(j, c) ==
  /\ LockFree /\ jobs[j].config = None /\ c.draft \in live
  /\ jobs' = [jobs EXCEPT ![j].config = c]
  /\ UNCHANGED <<flowVars, linked, missed, events, tick, call>>

\* update_job drops the claimed occurrence.
UpdateJob(j, c) ==
  /\ LockFree /\ Alive(j) /\ c.draft \in live /\ c # jobs[j].config
  /\ jobs' = [jobs EXCEPT ![j].config = c, ![j].pending = 0]
  /\ UNCHANGED <<flowVars, linked, missed, events, tick, call>>

DeleteJob(j) ==
  /\ LockFree /\ Alive(j)
  /\ jobs' = [jobs EXCEPT ![j].config.enabled = FALSE, ![j].deleted = TRUE,
                          ![j].pending = 0]
  /\ UNCHANGED <<flowVars, linked, missed, events, tick, call>>

\* soft_delete, as far as flows and jobs forbid it.
DropDraft(d) ==
  /\ \A j \in Job : Enabled(j) => jobs[j].config.draft # d
  /\ DeleteDraft(d)
  /\ UNCHANGED schedVars

(***************************************************************************)
(* What the scheduler asks of the flows.                                   *)
(***************************************************************************)
\* create_flow for a request that may be known: the draft is looked at first,
\* then a known flow must be about the same draft.
MayCreate(f, d) ==
  /\ d \in live
  /\ \/ flows[f].status # "none" /\ flows[f].draft = d
     \/ flows[f].status = "none" /\ Cardinality(Active) < ActiveLimit

CreatedDeferred(f, d) ==
  IF flows[f].status = "none" THEN New(f, d, FALSE)
  ELSE UNCHANGED flowVars

\* authorize_dispatch_in_transaction on the record of a flow that is not ready.
MayAuthorize(r) == r.status = "queued" /\ ~ r.cancel

\* reopen_abandoned_deferred_in_transaction
MayReopen(f) ==
  /\ flows[f].status = "cancelled" /\ ~ flows[f].ready
  /\ flows[f].aborted /\ flows[f].cancel
  /\ \A a \in Attempt, s \in Step : steps[f][a][s] = "none"
  /\ Cardinality(Active) < ActiveLimit
Reopened(r) == [r EXCEPT !.status = "queued", !.cancel = FALSE,
                         !.aborted = FALSE]

\* abandon_deferred of the scheduler: only a flow that was never dispatchable.
Aborting(f) ==
  flows' = IF Deferred(f) THEN [flows EXCEPT ![f] = Abandoned(@)]
           ELSE flows

\* schedule_existing
WokenIfReady(f) ==
  IF flows[f].status = "queued" /\ flows[f].ready THEN Woken(f) ELSE queue

(***************************************************************************)
(* The thread: run_due_once for one job.                                   *)
(***************************************************************************)
\* Mutant of TickPending: an occurrence claimed before is not taken up.
TickPendingNever(j) == FALSE /\ UNCHANGED allVars

\* An occurrence that was claimed before and is still open.
TickPending(j) ==
  /\ tick.at = "idle" /\ Enabled(j) /\ jobs[j].config.timed
  /\ jobs[j].pending # 0
  /\ tick' = [NoTick EXCEPT !.at = "read",
                            !.flow = Occurrence(j, jobs[j].pending)]
  /\ UNCHANGED <<flowVars, jobs, linked, missed, events, call>>

\* _claim_due
TickDue(j) ==
  /\ tick.at = "idle" /\ Enabled(j) /\ jobs[j].config.timed
  /\ jobs[j].pending = 0 /\ jobs[j].next <= MaxDue
  /\ jobs' = [jobs EXCEPT ![j].pending = jobs[j].next, ![j].next = @ + 1]
  /\ tick' = [NoTick EXCEPT !.at = "read", !.flow = Occurrence(j, jobs[j].next)]
  /\ UNCHANGED <<flowVars, linked, missed, events, call>>

Pending(f) == jobs[f.job].pending = f.id

\* From here on the thread needs no more than the flow.
TickTo(at) == [NoTick EXCEPT !.at = at, !.flow = tick.flow]

\* _launch_claimed reads the job ...
TickRead ==
  LET f == tick.flow IN
  /\ tick.at = "read"
  /\ tick' = IF Alive(f.job) /\ Pending(f)
             THEN [tick EXCEPT !.at = "create", !.config = jobs[f.job].config]
             ELSE TickTo("abandon")
  /\ UNCHANGED <<flowVars, jobs, linked, missed, events, call>>

\* ... creates the flow ...
TickCreate ==
  LET d == tick.config.draft IN
  /\ tick.at = "create"
  /\ IF MayCreate(tick.flow, d)
     THEN /\ CreatedDeferred(tick.flow, d)
          /\ tick' = [tick EXCEPT !.at = "commit"]
     ELSE /\ tick' = TickTo("abandon")
          /\ UNCHANGED flowVars
  /\ UNCHANGED <<jobs, linked, missed, events, call>>

\* Mutant of StillWanted: what was read before the flow was created.
StillWantedThen(f, c) == TRUE

\* The job as it is when the flow is authorized.
StillWanted(f, c) ==
  /\ ~ jobs[f.job].deleted /\ Pending(f) /\ jobs[f.job].config = c

\* ... and authorizes it, links it and closes the occurrence at once.
TickCommit ==
  LET f == tick.flow IN
  /\ tick.at = "commit" /\ LockFree
  /\ IF flows[f].ready
     THEN /\ tick' = IF linked[f] > 0 THEN NoTick
                     ELSE TickTo("abandon")
          /\ UNCHANGED <<flows, jobs, linked>>
     ELSE IF StillWanted(f, tick.config) /\ MayAuthorize(flows[f])
     THEN /\ flows' = [flows EXCEPT ![f].ready = TRUE]
          /\ jobs' = [jobs EXCEPT ![f.job].pending = 0]
          /\ linked' = [linked EXCEPT ![f] = @ + 1]
          /\ tick' = TickTo("wake")
     ELSE /\ tick' = TickTo("abandon")
          /\ UNCHANGED <<flows, jobs, linked>>
  /\ UNCHANGED <<restVars, queue, missed, events, call>>

TickWake ==
  /\ tick.at = "wake"
  /\ queue' = WokenIfReady(tick.flow)
  /\ tick' = NoTick
  /\ UNCHANGED <<flows, restVars, jobs, linked, missed, events, call>>

\* The database refuses the read after the flow was authorized.
TickError ==
  /\ tick.at = "wake" /\ errors < MaxError
  /\ errors' = errors + 1
  /\ tick' = TickTo("abandon")
  /\ UNCHANGED <<flows, steps, leased, live, queue, threads, restarts>>
  /\ UNCHANGED <<jobs, linked, missed, events, call>>

\* _abandon_failed_occurrence
TickAbandon ==
  /\ tick.at = "abandon"
  /\ Aborting(tick.flow)
  /\ tick' = TickTo("record")
  /\ UNCHANGED <<restVars, queue, jobs, linked, missed, events, call>>

\* Mutant of Missed: whatever became of the occurrence.
MissedAnyway(f) == TRUE

\* An occurrence that was closed or dropped in the meantime is left alone.
Missed(f) == Pending(f)

\* _record_job_error
TickRecord ==
  LET f == tick.flow IN
  /\ tick.at = "record"
  /\ IF Missed(f)
     THEN /\ jobs' = [jobs EXCEPT ![f.job].pending = 0]
          /\ missed' = missed \union {f}
     ELSE UNCHANGED <<jobs, missed>>
  /\ tick' = NoTick
  /\ UNCHANGED <<flowVars, linked, events, call>>

Tick ==
  \/ \E j \in Job : TickPending(j) \/ TickDue(j)
  \/ TickRead \/ TickCreate \/ TickCommit \/ TickWake \/ TickAbandon
  \/ TickRecord

(***************************************************************************)
(* A request: run_now of a person, or of emit_event for each matched job.  *)
(***************************************************************************)
\* run_now reads the job and looks for the flow of the request.
Calling(f, c) ==
  [c EXCEPT !.at = IF flows[f].status = "none" THEN "create" ELSE "commit",
            !.flow = f, !.config = jobs[f.job].config,
            !.replay = flows[f].status # "none"]

RunNow(j, r) ==
  /\ LockFree /\ Alive(j)
  /\ call' = Calling(ManualRun(j, r), NoCall)
  /\ UNCHANGED <<flowVars, jobs, linked, missed, events, tick>>

\* From here on the request needs no more than the flow and the event.
CallTo(at) ==
  [NoCall EXCEPT !.at = at, !.flow = call.flow, !.event = call.event,
                 !.tried = call.tried]

\* How run_now returns: to the person, or to emit_event.
Return(done) ==
  call' = IF call.event = None THEN NoCall
          ELSE [CallTo("persist") EXCEPT !.done = done]

CallCreate ==
  LET d == call.config.draft IN
  /\ call.at = "create"
  /\ IF MayCreate(call.flow, d)
     THEN /\ CreatedDeferred(call.flow, d)
          /\ call' = [call EXCEPT !.at = "commit"]
     ELSE Return(FALSE) /\ UNCHANGED flowVars
  /\ UNCHANGED <<jobs, linked, missed, events, tick>>

\* Mutant of Attach: the flow is authorized before the audit is looked at.
AttachAgain(f) ==
  /\ flows' = [flows EXCEPT ![f].ready = TRUE]
  /\ linked' = [linked EXCEPT ![f] = @ + 1]

\* A flow that is authorized and linked already is left as it is.
Attach(f) ==
  LET r == IF call.replay /\ MayReopen(f) THEN Reopened(flows[f])
           ELSE flows[f]
  IN IF r.ready THEN UNCHANGED <<flows, linked>>
     ELSE /\ flows' = [flows EXCEPT ![f] = [r EXCEPT !.ready = TRUE]]
          /\ linked' = [linked EXCEPT ![f] = @ + 1]

\* The conditions of the transaction of run_now; the job's configuration may
\* have changed only since an earlier call of the same person.
MayAttach(f) ==
  /\ Alive(f.job)
  /\ IF flows[f].ready THEN linked[f] > 0
     ELSE /\ \/ jobs[f.job].config = call.config
             \/ f.by = "manual" /\ call.replay
          /\ \/ MayAuthorize(flows[f])
             \/ call.replay /\ MayReopen(f)

CallCommit ==
  LET f == call.flow IN
  /\ call.at = "commit"
  /\ IF MayAttach(f)
     THEN Attach(f) /\ call' = CallTo("wake")
     ELSE /\ IF f.by = "manual" THEN Return(FALSE)
             ELSE call' = CallTo("abort")
          /\ UNCHANGED <<flows, linked>>
  /\ UNCHANGED <<restVars, queue, jobs, missed, events, tick>>

CallWake ==
  /\ call.at = "wake"
  /\ queue' = WokenIfReady(call.flow)
  /\ Return(TRUE)
  /\ UNCHANGED <<flows, restVars, jobs, linked, missed, events, tick>>

CallAbort ==
  /\ call.at = "abort"
  /\ Aborting(call.flow)
  /\ Return(FALSE)
  /\ UNCHANGED <<restVars, queue, jobs, linked, missed, events, tick>>

(***************************************************************************)
(* Events.                                                                 *)
(***************************************************************************)
\* emit_event records a new event with the jobs that wait for it.
Emit(e, d) ==
  /\ LockFree /\ events[e].status = "none"
  /\ events' = [events EXCEPT ![e] =
       [NoEvent EXCEPT !.status = "open", !.claimed = TRUE,
          !.matched = {j \in Job : /\ Enabled(j) /\ ~ jobs[j].config.timed
                                   /\ jobs[j].config.draft = d}]]
  /\ call' = [NoCall EXCEPT !.at = "event", !.event = e]
  /\ UNCHANGED <<flowVars, jobs, linked, missed, tick>>

\* Mutant of Resume: events are not taken up again.
ResumeNever(e) == FALSE /\ UNCHANGED allVars

\* A repeated emit_event, or the scheduler's of an event that is still open;
\* a claim that has not run out keeps it away.
Resume(e) ==
  /\ LockFree /\ events[e].status = "open" /\ ~ events[e].claimed
  /\ events' = [events EXCEPT ![e].claimed = TRUE]
  /\ call' = [NoCall EXCEPT !.at = "event", !.event = e]
  /\ UNCHANGED <<flowVars, jobs, linked, missed, tick>>

ToTrigger(e) == events[e].matched \ (events[e].succeeded \union call.tried)

TriggerJob(j) ==
  LET e == call.event IN
  /\ call.at = "event" /\ j \in ToTrigger(e)
  /\ call' = LET c == [call EXCEPT !.tried = @ \union {j}] IN
       IF Alive(j) THEN Calling(EventRun(j, e), c)
       ELSE [c EXCEPT !.at = "persist", !.flow = EventRun(j, e),
                      !.done = FALSE]
  /\ UNCHANGED <<flowVars, jobs, linked, missed, events, tick>>

\* _persist_trigger_progress after each job
Persist ==
  LET e == call.event
      j == call.flow.job
  IN /\ call.at = "persist"
     /\ events' = [events EXCEPT
          ![e].succeeded = IF call.done THEN @ \union {j} ELSE @,
          ![e].failed = IF call.done THEN @ \ {j} ELSE @ \union {j}]
     /\ call' = [NoCall EXCEPT !.at = "event", !.event = e,
                               !.tried = call.tried]
     /\ UNCHANGED <<flowVars, jobs, linked, missed, tick>>

EndEvent ==
  LET e == call.event IN
  /\ call.at = "event" /\ ToTrigger(e) = {}
  /\ events' = [events EXCEPT ![e].status = "completed", ![e].claimed = FALSE]
  /\ call' = NoCall
  /\ UNCHANGED <<flowVars, jobs, linked, missed, tick>>

ClaimExpires(e) ==
  /\ events[e].claimed /\ call.event # e
  /\ events' = [events EXCEPT ![e].claimed = FALSE]
  /\ UNCHANGED <<flowVars, jobs, linked, missed, tick, call>>

CallStep ==
  \/ CallCreate \/ CallCommit \/ CallWake \/ CallAbort
  \/ \E j \in Job : TriggerJob(j)
  \/ Persist \/ EndEvent

(***************************************************************************)
(* Recovery, restarts, workers and people.                                 *)
(***************************************************************************)
\* _deferred_has_pending_parent: the scheduler will come back to the flow.
HasParent(f) ==
  \/ f.by = "schedule" /\ Alive(f.job) /\ jobs[f.job].pending # 0
  \/ f.by = "event" /\ events[f.id].status = "open"

\* Mutant of Orphans: what people asked for is left to them.
OrphansOfJobs == {f \in Flow : Deferred(f) /\ f.by # "manual" /\ ~ HasParent(f)}

Orphans == {f \in Flow : Deferred(f) /\ ~ HasParent(f)}

\* Flows that recovery may find too old: orphans, and flows of an event that
\* is open for more than a day.
MaybeOld == Orphans \union {f \in Flow : Deferred(f) /\ f.by = "event"}

SchedRecover(lapsed) == Recover(lapsed) /\ UNCHANGED schedVars

SchedRestart(lapsed) ==
  /\ Restart({}, lapsed)
  /\ tick' = NoTick /\ call' = NoCall
  /\ UNCHANGED <<jobs, linked, missed, events>>

\* A worker takes a flow from the queue and runs it, if it may be claimed.
Ran(f) ==
  /\ f \in queue /\ queue' = queue \ {f}
  /\ flows' = IF f \in Waiting(flows)
              THEN [flows EXCEPT ![f].status = "succeeded"] ELSE flows
  /\ UNCHANGED <<restVars, schedVars>>

SchedPeople ==
  \/ \E j \in Job, c \in JobConfig : CreateJob(j, c) \/ UpdateJob(j, c)
  \/ \E j \in Job : DeleteJob(j) \/ \E r \in Request : RunNow(j, r)
  \/ \E d \in Draft : DropDraft(d) \/ \E e \in EventId : Emit(e, d)
  \/ \E f \in Flow : Cancel(f) /\ UNCHANGED schedVars

SchedNext ==
  \/ SchedPeople
  \/ Tick \/ TickError \/ CallStep
  \/ \E e \in EventId : Resume(e) \/ ClaimExpires(e)
  \/ \E lapsed \in SUBSET MaybeOld : SchedRecover(lapsed) \/ SchedRestart(lapsed)
  \/ \E f \in Flow : Ran(f)

SchedSpec == SchedInit /\ [][SchedNext]_allVars

\* The thread polls and gets the lock in its turn, a request runs to its end,
\* claims run out, recovery and the workers go on.
SchedFairness ==
  /\ SF_allVars(Tick)
  /\ \A j \in Job : SF_allVars(TickPending(j))
  /\ WF_allVars(CallStep)
  /\ \A e \in EventId : SF_allVars(Resume(e)) /\ WF_allVars(ClaimExpires(e))
  /\ WF_allVars(SchedRecover(Orphans))
  /\ \A f \in Flow : SF_allVars(Ran(f))

FairSchedSpec == SchedSpec /\ SchedFairness

(***************************************************************************)
(* Properties.                                                             *)
(***************************************************************************)
SchedTypeOK ==
  /\ TypeOK
  /\ jobs \in [Job -> JobRecord]
  /\ linked \in [Flow -> Nat] /\ missed \subseteq Flow
  /\ events \in [EventId -> EventRecord]
  /\ tick \in TickState /\ call \in CallState

\* A flow is authorized exactly when the job's audit says so, and once: not
\* again when a crash, a replay, a resumed event or a taken-up occurrence
\* comes back to it.
AuthorizedOnce == \A f \in Flow : linked[f] = IF flows[f].ready THEN 1 ELSE 0

\* An occurrence that was recorded as failed was not dispatched, and what was
\* dispatched is never aborted: a launch that fails after it was committed or
\* that lost its occurrence to somebody else harms nothing.
FailedIsNotDispatched ==
  \A f \in Flow : f \in missed \/ flows[f].aborted => ~ flows[f].ready

\* A due flow is dispatched for the job as it is in that moment: not for a
\* draft, a schedule or a switch that was changed while it was being launched.
LaunchedAsPlanned ==
  [][\A f \in Flow :
       f.by = "schedule" /\ ~ flows[f].ready /\ flows'[f].ready =>
         /\ Enabled(f.job) /\ jobs[f.job].config.timed
         /\ jobs[f.job].config.draft = flows[f].draft]_allVars

\* A claimed occurrence is closed at last, although the process ends between
\* the claim, the creation of the flow and its authorization.
OccurrencesEnd ==
  \A j \in Job, n \in 1..MaxDue : jobs[j].pending = n ~> jobs[j].pending # n

\* No deferred flow holds a place for ever: it is dispatched or abandoned.
DeferredEnds == \A f \in Flow : Deferred(f) ~> ~ Deferred(f)

\* An event that was recorded is worked through to its end after a crash.
EventsEnd ==
  \A e \in EventId : events[e].status = "open" ~> events[e].status = "completed"
=============================================================================
