----------------------------- MODULE AgentFlow -----------------------------
(***************************************************************************)
(* The durable health checks of drafts (agent_v2/store.py, runtime.py):    *)
(* a flow is a row with a status, an owner, a lease and a number of        *)
(* attempts; the threads of the agent take flows from a queue in memory,   *)
(* claim them, run their steps and record the results, while people        *)
(* cancel, retry and delete drafts, leases run out, a recovery thread      *)
(* puts interrupted flows back, and the process ends and starts again.     *)
(*                                                                         *)
(* A store method is one transaction and one action.  A thread that runs a *)
(* flow calls many of them, and looks at the cancel mark in between.       *)
(*                                                                         *)
(* Abstractions.  The queue is a set: its order decides nothing but who is *)
(* first.  The runtime's set of scheduled flows is what the queue and the  *)
(* threads hold.  Time is the choice of the leases that have run out.      *)
(* Flows that were tampered with are left out, and so is what steps read.  *)
(* A process that closes is one that ends: its threads leave the flow as   *)
(* it is.                                                                  *)
(***************************************************************************)
EXTENDS Naturals, FiniteSets

CONSTANTS
  Flow,         \* flows, each the subject of one request
  Draft,        \* drafts of the enterprise
  Thread,       \* worker threads of the process
  Specialist,   \* steps that run side by side
  ActiveLimit,  \* flows that may be queued or running
  QueueLimit,   \* flows the queue in memory holds
  MaxAttempt,   \* bound of the model on attempts
  MaxError,     \* bound of the model on database errors
  MaxRestart,   \* bound of the model on restarts
  None

ASSUME FlowAssumption ==
  /\ IsFiniteSet(Flow) /\ IsFiniteSet(Specialist)
  /\ ActiveLimit \in Nat \ {0} /\ QueueLimit \in Nat \ {0}
  /\ MaxAttempt \in Nat \ {0}
  /\ MaxError \in Nat /\ MaxRestart \in Nat
  /\ None \notin Flow /\ None \notin Draft
  /\ Specialist \intersect {"prepare", "critic"} = {}

Attempt == 1..MaxAttempt
Step == Specialist \union {"prepare", "critic"}

Terminal == {"blocked", "succeeded", "failed", "cancelled"}
Retryable == {"blocked", "failed"}

\* owner: "this" process, an "other" one that ended, or none.  aborted: the
\* error code says that the flow ended before it was ever dispatched.
FlowRecord ==
  [status: Terminal \union {"none", "queued", "running"},
   draft: Draft \union {None}, ready: BOOLEAN, cancel: BOOLEAN, aborted: BOOLEAN,
   owner: {"none", "this", "other"}, attempt: Attempt]

\* What a thread is doing: at, the step of its program; todo, the part of the
\* workflow; open, the steps it started and has not ended; result, how it
\* ends a flow that went wrong.
ThreadRecord ==
  [at: {"idle", "claim", "read", "check", "write", "ending", "boundary",
        "release", "dead"},
   flow: Flow \union {None}, attempt: Attempt,
   todo: {"prepare", "prepared", "dispatch", "collect", "critic", "brief",
          "complete"},
   open: SUBSET Step, result: {"none", "cancelled", "blocked", "failed"}]

VARIABLES
  flows,    \* agent_flows
  steps,    \* agent_flow_steps: status of each step of each attempt
  leased,   \* the flows whose lease has not run out
  live,     \* the drafts that are not deleted
  queue,    \* the flows in the queue of the process
  threads,  \* what the worker threads are doing
  errors,   \* how many database errors there were
  restarts  \* how often the process started again

vars ==
  <<flows, steps, leased, live, queue, threads, errors, restarts>>

NoFlow == [status |-> "none", draft |-> None, ready |-> FALSE, cancel |-> FALSE,
           aborted |-> FALSE, owner |-> "none", attempt |-> 1]
Idle == [at |-> "idle", flow |-> None, attempt |-> 1, todo |-> "prepare",
         open |-> {}, result |-> "none"]

Init ==
  /\ flows = [f \in Flow |-> NoFlow]
  /\ steps = [f \in Flow |-> [a \in Attempt |-> [s \in Step |-> "none"]]]
  /\ leased = {}
  /\ live = Draft
  /\ queue = {}
  /\ threads = [t \in Thread |-> Idle]
  /\ errors = 0 /\ restarts = 0

Active == {f \in Flow : flows[f].status \in {"queued", "running"}}

\* _scheduled: what the queue and the threads hold.
Scheduled == queue \union ({threads[t].flow : t \in Thread} \ {None})

\* Mutant of Woken: does not look at what is scheduled already.
WokenAgain(f) ==
  IF Cardinality(queue) >= QueueLimit THEN queue ELSE queue \union {f}

\* Mutant of Woken: a full queue takes one more.
WokenUnbounded(f) == IF f \in Scheduled THEN queue ELSE queue \union {f}

\* _schedule; a full queue is left as it is, recovery comes back to the flow.
Woken(f) ==
  IF f \in Scheduled \/ Cardinality(queue) >= QueueLimit
  THEN queue ELSE queue \union {f}

(***************************************************************************)
(* What people ask for.                                                    *)
(***************************************************************************)
\* create_flow of a flow that was not asked for before.
New(f, d, ready) ==
  /\ flows[f].status = "none" /\ d \in live
  /\ Cardinality(Active) < ActiveLimit
  /\ flows' = [flows EXCEPT ![f].status = "queued", ![f].draft = d,
                            ![f].ready = ready]
  /\ queue' = IF ready THEN Woken(f) ELSE queue
  /\ UNCHANGED <<steps, leased, live, threads, errors, restarts>>

Create(f, d) == New(f, d, TRUE)

\* request_cancel
Cancel(f) ==
  /\ flows[f].status \in {"queued", "running"} /\ ~ flows[f].cancel
  /\ flows' = [flows EXCEPT ![f].cancel = TRUE,
                 ![f].status = IF @ = "queued" THEN "cancelled" ELSE @]
  /\ UNCHANGED <<steps, leased, live, queue, threads, errors, restarts>>

\* Mutant of Retry: the draft is not looked at.
RetryAny(f) ==
  /\ flows[f].status \in Retryable
  /\ Cardinality(Active) < ActiveLimit
  /\ flows[f].attempt < MaxAttempt
  /\ flows' = [flows EXCEPT ![f].status = "queued", ![f].cancel = FALSE,
                            ![f].aborted = FALSE, ![f].attempt = @ + 1]
  /\ queue' = Woken(f)
  /\ UNCHANGED <<steps, leased, live, threads, errors, restarts>>

\* retry
Retry(f) ==
  /\ flows[f].status \in Retryable
  /\ flows[f].draft \in live
  /\ Cardinality(Active) < ActiveLimit
  /\ flows[f].attempt < MaxAttempt
  /\ flows' = [flows EXCEPT ![f].status = "queued", ![f].cancel = FALSE,
                            ![f].aborted = FALSE, ![f].attempt = @ + 1]
  /\ queue' = Woken(f)
  /\ UNCHANGED <<steps, leased, live, threads, errors, restarts>>

\* soft_delete, as far as flows forbid it.
DeleteDraft(d) ==
  /\ d \in live
  /\ \A f \in Active : flows[f].draft # d
  /\ live' = live \ {d}
  /\ UNCHANGED <<flows, steps, leased, queue, threads, errors, restarts>>

(***************************************************************************)
(* A worker thread.  Holds says that the flow is still its own: running,   *)
(* of this process, in the attempt that the thread read when it claimed it.*)
(***************************************************************************)
Running(f) == flows[f].status = "running"
Own(f) == Running(f) /\ flows[f].owner = "this"
Holds(t) ==
  LET th == threads[t] IN Own(th.flow) /\ flows[th.flow].attempt = th.attempt

Ending(t, result) ==
  threads' = [threads EXCEPT ![t].at = "ending", ![t].result = result,
                            ![t].todo = "prepare"]

\* The run is over, in the way that at says.
Leaving(t, at) ==
  threads' = [threads EXCEPT
               ![t] = [Idle EXCEPT !.at = at, !.flow = threads[t].flow]]

Take(t, f) ==
  /\ threads[t].at = "idle" /\ f \in queue
  /\ queue' = queue \ {f}
  /\ threads' = [threads EXCEPT ![t] = [Idle EXCEPT !.at = "claim", !.flow = f]]
  /\ UNCHANGED <<flows, steps, leased, live, errors, restarts>>

\* claim
Claim(t) ==
  LET f == threads[t].flow
      won == /\ flows[f].status = "queued" /\ flows[f].ready
             /\ ~ flows[f].cancel
  IN /\ threads[t].at = "claim"
     /\ flows' = IF won THEN [flows EXCEPT ![f].status = "running",
                                           ![f].owner = "this"] ELSE flows
     /\ leased' = IF won THEN leased \union {f} ELSE leased
     /\ Leaving(t, IF won THEN "read" ELSE "release")
     /\ UNCHANGED <<steps, live, queue, errors, restarts>>

\* run reads the number of the attempt after the claim.
ReadClaim(t) ==
  /\ threads[t].at = "read"
  /\ threads' = [threads EXCEPT ![t].at = "check",
                                ![t].attempt = flows[threads[t].flow].attempt]
  /\ UNCHANGED <<flows, steps, leased, live, queue, errors, restarts>>

\* _raise_if_cancelled
Check(t) ==
  /\ threads[t].at = "check"
  /\ IF ~ Holds(t) THEN Ending(t, "failed")
     ELSE IF flows[threads[t].flow].cancel THEN Ending(t, "cancelled")
     ELSE threads' = [threads EXCEPT ![t].at = "write"]
  /\ UNCHANGED <<flows, steps, leased, live, queue, errors, restarts>>

SetStep(t, s, status) ==
  steps' = [steps EXCEPT ![threads[t].flow][threads[t].attempt][s] = status]

\* The steps to start at this point, and the point after the last of them.
ToStart(t) ==
  CASE threads[t].todo = "prepare" -> {"prepare"}
    [] threads[t].todo = "dispatch" -> Specialist \ threads[t].open
    [] threads[t].todo = "critic" -> {"critic"}
    [] OTHER -> {}
Started(t, s) ==
  CASE s = "prepare" -> "prepared"
    [] s = "critic" -> "brief"
    [] OTHER -> IF ToStart(t) = {s} THEN "collect" ELSE "dispatch"

\* start_step; an exception when the flow is no longer its own.
StartStep(t, s) ==
  LET f == threads[t].flow IN
  /\ threads[t].at = "write" /\ s \in ToStart(t)
  /\ IF Holds(t) /\ ~ flows[f].cancel
     THEN /\ SetStep(t, s, "running")
          /\ leased' = leased \union {f}
          /\ threads' = [threads EXCEPT
               ![t].at = IF s = "critic" THEN "write" ELSE "check",
               ![t].todo = Started(t, s), ![t].open = @ \union {s}]
     ELSE Ending(t, "failed") /\ UNCHANGED <<steps, leased>>
  /\ UNCHANGED <<flows, live, queue, errors, restarts>>

\* FrozenEvidenceRepository.capture does not find a deleted draft.
CaptureFails(t) ==
  /\ threads[t].at = "check" /\ threads[t].todo = "prepared"
  /\ flows[threads[t].flow].draft \notin live
  /\ Ending(t, "blocked")
  /\ UNCHANGED <<flows, steps, leased, live, queue, errors, restarts>>

Finishable(t) ==
  CASE threads[t].todo = "prepared" -> {"prepare"}
    [] threads[t].todo = "collect" -> threads[t].open
    [] threads[t].todo = "brief" -> {"critic"}
    [] OTHER -> {}
Finished(t, s) ==
  CASE s = "prepare" -> "dispatch"
    [] s = "critic" -> "complete"
    [] OTHER -> IF threads[t].open = {s} THEN "critic" ELSE "collect"

\* Mutant of Fenced: an attempt that was taken away still writes.
Unfenced(t, s) ==
  steps[threads[t].flow][threads[t].attempt][s] \in {"running", "failed"}

\* The guard of finish_step.
Fenced(t, s) ==
  Holds(t) /\ steps[threads[t].flow][threads[t].attempt][s] = "running"

\* finish_step; a specialist may fail, the other steps end well or raise.
FinishStep(t, s, status) ==
  LET f == threads[t].flow IN
  /\ threads[t].at = "write" /\ s \in Finishable(t)
  /\ status \in IF s \in Specialist THEN {"succeeded", "failed"}
                ELSE {"succeeded"}
  /\ IF Fenced(t, s)
     THEN /\ SetStep(t, s, status)
          /\ leased' = leased \union {f}
          /\ threads' = [threads EXCEPT ![t].at = "check", ![t].open = @ \ {s},
                                        ![t].todo = Finished(t, s)]
     ELSE Ending(t, "failed") /\ UNCHANGED <<steps, leased>>
  /\ UNCHANGED <<flows, live, queue, errors, restarts>>

\* Mutant of Ended: the end that the worker asked for.
EndedAsAsked(f, status) ==
  [flows EXCEPT ![f].status = status, ![f].owner = "none"]

\* complete: a flow that was asked to stop ends as cancelled.
Ended(f, status) ==
  [flows EXCEPT ![f].status = IF flows[f].cancel THEN "cancelled" ELSE status,
                ![f].owner = "none"]

\* Mutant of Outcome: the specialists are not counted.
OutcomeAlways(f, a) == "succeeded"

Outcome(f, a) ==
  IF \A s \in Specialist : steps[f][a][s] = "failed"
  THEN "failed" ELSE "succeeded"

Complete(t) ==
  LET f == threads[t].flow IN
  /\ threads[t].at = "write" /\ threads[t].todo = "complete"
  /\ IF Holds(t)
     THEN /\ flows' = Ended(f, Outcome(f, threads[t].attempt))
          /\ leased' = leased \ {f}
          /\ Leaving(t, "release")
     ELSE Ending(t, "failed") /\ UNCHANGED <<flows, leased>>
  /\ UNCHANGED <<steps, live, queue, errors, restarts>>

\* Anything else that raises inside the workflow.
Raise(t) ==
  /\ threads[t].at = "write"
  /\ Ending(t, "failed")
  /\ UNCHANGED <<flows, steps, leased, live, queue, errors, restarts>>

\* _finish_failed_step, _finish_inflight_steps
EndStep(t, s) ==
  /\ threads[t].at = "ending" /\ s \in threads[t].open
  /\ IF Fenced(t, s)
     THEN /\ SetStep(t, s, IF threads[t].result = "cancelled" THEN "cancelled"
                           ELSE "failed")
          /\ leased' = leased \union {threads[t].flow}
     ELSE UNCHANGED <<steps, leased>>
  /\ threads' = [threads EXCEPT ![t].open = @ \ {s}]
  /\ UNCHANGED <<flows, live, queue, errors, restarts>>

\* _complete_after_error with the attempt
EndFlow(t) ==
  /\ threads[t].at = "ending" /\ threads[t].open = {}
  /\ IF Holds(t)
     THEN /\ flows' = Ended(threads[t].flow, threads[t].result)
          /\ leased' = leased \ {threads[t].flow}
     ELSE UNCHANGED <<flows, leased>>
  /\ Leaving(t, "release")
  /\ UNCHANGED <<steps, live, queue, errors, restarts>>

\* The end of the worker loop: a flow that is queued again is woken again.
Requeued(f) ==
  IF flows[f].status = "queued" /\ Cardinality(queue) < QueueLimit
  THEN queue \union {f} ELSE queue

Release(t) ==
  /\ threads[t].at = "release"
  /\ queue' = Requeued(threads[t].flow)
  /\ threads' = [threads EXCEPT ![t] = Idle]
  /\ UNCHANGED <<flows, steps, leased, live, errors, restarts>>

\* The heartbeat of a claimed flow.
Renew(t) ==
  /\ threads[t].at \in {"check", "write", "ending"} /\ Holds(t)
  /\ leased' = leased \union {threads[t].flow}
  /\ UNCHANGED <<flows, steps, live, queue, threads, errors, restarts>>

(***************************************************************************)
(* What goes wrong: the database refuses a transaction, a lease runs out   *)
(* because its process stalled or ended, the process ends and starts again.*)
(***************************************************************************)
\* An error that no handler of the run catches ends the run.
Escape(t) ==
  /\ threads[t].at \in {"claim", "read", "ending"} /\ errors < MaxError
  /\ errors' = errors + 1
  /\ Leaving(t, "boundary")
  /\ UNCHANGED <<flows, steps, leased, live, queue, restarts>>

\* _complete_after_error without an attempt: it ends the attempt it finds.
Boundary(t) ==
  LET f == threads[t].flow IN
  /\ threads[t].at = "boundary"
  /\ IF Own(f) THEN flows' = Ended(f, "failed") /\ leased' = leased \ {f}
     ELSE UNCHANGED <<flows, leased>>
  /\ Leaving(t, "release")
  /\ UNCHANGED <<steps, live, queue, errors, restarts>>

\* Nothing catches an error there: it ends the thread, after the flow was
\* taken off the list of scheduled flows and perhaps woken.
Die(t) ==
  /\ threads[t].at \in {"boundary", "release"} /\ errors < MaxError
  /\ errors' = errors + 1
  /\ threads' = [threads EXCEPT ![t] = [Idle EXCEPT !.at = "dead"]]
  /\ queue' \in IF threads[t].at = "boundary"
                THEN {queue, Requeued(threads[t].flow)} ELSE {queue}
  /\ UNCHANGED <<flows, steps, leased, live, restarts>>

\* A recovery that would pass the bound on attempts is not modelled.
MayLapse(f) == flows[f].cancel \/ flows[f].attempt < MaxAttempt

LeaseExpires(f) ==
  /\ Running(f) /\ f \in leased /\ MayLapse(f)
  /\ leased' = leased \ {f}
  /\ UNCHANGED <<flows, steps, live, queue, threads, errors, restarts>>

\* recover_interrupted of a running flow whose lease has run out.
Interrupted(r) ==
  IF r.cancel THEN [r EXCEPT !.status = "cancelled", !.owner = "none"]
  ELSE [r EXCEPT !.status = "queued", !.owner = "none", !.attempt = @ + 1]

\* _abandon_deferred_in_transaction
Deferred(f) ==
  flows[f].status = "queued" /\ ~ flows[f].ready /\ ~ flows[f].cancel
Abandoned(r) ==
  [r EXCEPT !.status = "cancelled", !.cancel = TRUE, !.aborted = TRUE]

\* recover_interrupted, given the leases that hold and the deferred flows that
\* are too old.  The steps of an interrupted flow fail.
Recovered(held, lapsed) ==
  [f \in Flow |->
     IF Running(f) /\ f \notin held THEN Interrupted(flows[f])
     ELSE IF Deferred(f) /\ f \in lapsed THEN Abandoned(flows[f])
     ELSE flows[f]]
StepsRecovered(held) ==
  [f \in Flow |-> [a \in Attempt |-> [s \in Step |->
     IF Running(f) /\ f \notin held /\ steps[f][a][s] = "running"
     THEN "failed" ELSE steps[f][a][s]]]]

\* Mutant of Waiting: recovery wakes what it has just recovered.
WaitingInterrupted(fl) ==
  {f \in Flow : fl[f].status = "queued" /\ Running(f)}

\* The flows that recovery wakes.
Waiting(fl) ==
  {f \in Flow : fl[f].status = "queued" /\ fl[f].ready /\ ~ fl[f].cancel}

\* The wakings of ws that fill the queue q as far as it goes.
Wakings(q, ws) ==
  {r \in SUBSET (q \union ws) :
     /\ q \subseteq r /\ Cardinality(r) <= QueueLimit
     /\ r = q \union ws \/ Cardinality(r) = QueueLimit}

\* _recovery_loop
Recover(lapsed) ==
  LET fl == Recovered(leased, lapsed)
      woken == Wakings(queue, Waiting(fl) \ Scheduled)
  IN /\ flows' = fl
     /\ steps' = StepsRecovered(leased)
     /\ queue' \in woken
     /\ UNCHANGED <<leased, live, threads, errors, restarts>>

\* The process ends and starts again; start recovers before the threads run.
Restart(held, lapsed) ==
  LET fl == Recovered(held, lapsed) IN
  /\ restarts < MaxRestart /\ held \subseteq leased
  /\ \A f \in Flow : Running(f) => MayLapse(f)
  /\ restarts' = restarts + 1
  /\ flows' = [f \in Flow |->
                 IF fl[f].status = "running"
                 THEN [fl[f] EXCEPT !.owner = "other"] ELSE fl[f]]
  /\ steps' = StepsRecovered(held)
  /\ leased' = held
  /\ threads' = [t \in Thread |-> Idle]
  /\ queue' \in Wakings({}, Waiting(fl))
  /\ UNCHANGED <<live, errors>>

(***************************************************************************)
(* The specification.                                                      *)
(***************************************************************************)
People ==
  \/ \E f \in Flow : Cancel(f) \/ Retry(f)
  \/ \E d \in Draft : DeleteDraft(d) \/ \E f \in Flow : Create(f, d)

\* What a thread does of its own, whatever goes right or wrong in the flow.
Work(t) ==
  \/ Claim(t) \/ ReadClaim(t) \/ Check(t) \/ CaptureFails(t)
  \/ \E s \in Step : StartStep(t, s) \/ EndStep(t, s)
  \/ \E s \in Step, status \in {"succeeded", "failed"} :
       FinishStep(t, s, status)
  \/ Complete(t) \/ EndFlow(t) \/ Boundary(t) \/ Release(t)

Worker(t) ==
  \/ Work(t) \/ Raise(t) \/ Renew(t) \/ Escape(t) \/ Die(t)
  \/ \E f \in Flow : Take(t, f)

Next ==
  \/ People
  \/ \E t \in Thread : Worker(t)
  \/ \E f \in Flow : LeaseExpires(f)
  \/ Recover({})
  \/ \E held \in SUBSET leased : Restart(held, {})

Spec == Init /\ [][Next]_vars

\* The threads keep working, the queue is first come first served, recovery
\* runs every few seconds, and nobody renews the lease of an ended process.
Fairness ==
  /\ \A t \in Thread : WF_vars(Work(t))
  /\ \A f \in Flow : SF_vars(\E t \in Thread : Take(t, f))
  /\ \A f \in Flow : WF_vars(LeaseExpires(f) /\ flows[f].owner = "other")
  /\ WF_vars(Recover({}))

FairSpec == Spec /\ Fairness

(***************************************************************************)
(* Properties.                                                             *)
(***************************************************************************)
\* The state is well formed: exactly the running flows have an owner, and the
\* queue keeps its capacity.
TypeOK ==
  /\ flows \in [Flow -> FlowRecord]
  /\ \A f \in Flow : Running(f) <=> flows[f].owner # "none"
  /\ steps \in [Flow -> [Attempt -> [Step ->
       {"none", "running", "succeeded", "failed", "cancelled"}]]]
  /\ leased \subseteq Flow /\ live \subseteq Draft
  /\ queue \subseteq Flow /\ Cardinality(queue) <= QueueLimit
  /\ threads \in [Thread -> ThreadRecord]
  /\ errors \in 0..MaxError /\ restarts \in 0..MaxRestart

\* A flow is in the hands of one thread at most, and not in the queue then:
\* no flow is run twice at once, however often it is woken by requests,
\* recovery and the threads that drop it.
RunOnce ==
  \A t \in Thread : threads[t].flow # None =>
    /\ threads[t].flow \notin queue
    /\ \A u \in Thread \ {t} : threads[u].flow # threads[t].flow

\* Once a person asked a flow to stop it may end, but only as cancelled, in
\* whatever order the worker's end, its failure, recovery and restarts come;
\* a cancelled flow stays cancelled.
CancelIsFinal ==
  [][\A f \in Flow :
       flows[f].cancel /\ ~ flows[f].aborted =>
         /\ flows'[f].cancel
         /\ flows'[f].status \in {flows[f].status, "cancelled"}]_vars

\* In an attempt that is over no step starts, succeeds or is cancelled any
\* more: a thread that lost its lease while it was computing cannot write into
\* a flow that was requeued, retried or ended.
PastAttemptsFrozen ==
  [][\A f \in Flow : \A a \in Attempt : \A s \in Step :
       a < flows[f].attempt \/ flows[f].status \in Terminal =>
         \/ steps'[f][a][s] = steps[f][a][s]
         \/ steps[f][a][s] = "running" /\ steps'[f][a][s] = "failed"]_vars

\* A flow succeeds only as a whole: every step of its last attempt has ended,
\* the evidence and the critic well and at least one specialist too.
SucceededIsWhole ==
  \A f \in Flow : flows[f].status = "succeeded" =>
    LET ss == steps[f][flows[f].attempt] IN
    /\ ss["prepare"] = "succeeded" /\ ss["critic"] = "succeeded"
    /\ \A s \in Specialist : ss[s] \in {"succeeded", "failed"}
    /\ \E s \in Specialist : ss[s] = "succeeded"

\* Nothing queued or running is about a deleted draft, in whatever order
\* deletions, retries and recoveries come.
ActiveHasDraft == \A f \in Active : flows[f].draft \in live

\* Every flow that was accepted for dispatch comes to an end: although leases
\* run out and the process restarts, and although a flow that found the queue
\* full of another is in no queue until recovery comes back to it.
FlowsEnd ==
  \A f \in Flow :
    flows[f].status = "queued" /\ flows[f].ready ~> flows[f].status \in Terminal
=============================================================================
