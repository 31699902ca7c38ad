---------------------------- MODULE ToolHarness ----------------------------
(***************************************************************************)
(* The runs of the tool harness (harness/store.py, harness/runtime.py): a  *)
(* run is a task in which a model, or a fixed list, calls tools; a call    *)
(* that writes into the draft waits for a person's decision and is carried *)
(* out when a thread comes back to the run.  People create runs, decide    *)
(* and cancel while threads work and others edit the draft; the process    *)
(* ends and starts again.                                                  *)
(*                                                                         *)
(* A store method is one transaction and one action; what a thread knows   *)
(* in between is where it is (at) and the call it is carrying out.         *)
(*                                                                         *)
(* Abstractions.  All runs are about one draft, which is the list of who   *)
(* wrote its revisions.  What the model asks for is a choice, and so is    *)
(* whether a tool fails, an argument is refused or a budget is used up.    *)
(* A run of an account that may only read asks for no writes; the model    *)
(* service is configured all along or never.  The pending batch of the     *)
(* checkpoint is the run's waiting writes.  Left out are tampering, steps, *)
(* messages, close, the limit of 20 runs per account and the deletion of   *)
(* drafts, which active runs forbid.                                       *)
(***************************************************************************)
EXTENDS Naturals, Sequences, FiniteSets

CONSTANTS
  Run,
  Thread,        \* worker threads, 4 in the code
  ActiveLimit,   \* runs that have not ended, 200 in the code
  QueueLimit,    \* runs in the queue in memory, 200 in the code
  MaxCall,       \* the most calls a run may have, 12 in the code
  Budget,        \* max_tool_calls of each run
  MaxRevision,   \* bound of the model on revisions of the draft
  MaxFault,      \* bound of the model on database errors and restarts
  None

ASSUME HarnessAssumption ==
  /\ IsFiniteSet(Run)
  /\ ActiveLimit \in Nat \ {0} /\ QueueLimit \in Nat \ {0}
  /\ MaxCall \in Nat /\ Budget \in [Run -> 0..MaxCall]
  /\ MaxRevision \in Nat \ {0}
  /\ MaxFault \in Nat
  /\ None \notin Run

CallId == 1..MaxCall
Person == <<None, 0>>
Author == {Person} \union (Run \X CallId)

Ended == {"completed", "failed", "cancelled"}

Status == Ended \union {"none", "queued", "running", "waiting"}

\* kind: "write" stands for draft_patch, the one tool that needs approval;
\* revision: of the draft when the write was planned; code: why it failed.
CallRecord ==
  [kind: {"none", "read", "write"},
   status: {"none", "planned", "waiting", "running", "succeeded", "failed",
            "rejected"},
   approval: {"none", "pending", "approved", "rejected"},
   revision: 0..MaxRevision,
   code: {"none", "failed", "stale", "cancelled", "interrupted", "unknown",
          "invalidated"}]

\* call: the call being carried out, 0 for none.
ThreadRecord ==
  [at: {"idle", "plan", "check", "mark", "invoke", "finish", "failing",
        "raised", "release", "dead"},
   run: Run \union {None}, call: 0..MaxCall]

VARIABLES
  runs,      \* the status of each run
  calls,     \* agent_tool_calls with their agent_approvals
  log,       \* who wrote the revisions 2, 3, ... of the draft
  wanted,    \* the runs that somebody is about to schedule
  queue,     \* _run_queue
  threads,   \* what the worker threads are doing
  faults     \* how many database errors and restarts there were

vars == <<runs, calls, log, wanted, queue, threads, faults>>

NoCall == [kind |-> "none", status |-> "none", approval |-> "none",
           revision |-> 0, code |-> "none"]
Idle == [at |-> "idle", run |-> None, call |-> 0]

Init ==
  /\ runs = [r \in Run |-> "none"]
  /\ calls = [r \in Run |-> [c \in CallId |-> NoCall]]
  /\ log = <<>>
  /\ wanted = {} /\ queue = {}
  /\ threads = [t \in Thread |-> Idle]
  /\ faults = 0

Fault == faults < MaxFault /\ faults' = faults + 1

Revision == Len(log) + 1
Running(r) == runs[r] = "running"
Active == {r \in Run : runs[r] \in {"queued", "running", "waiting"}}

\* Mutant of Scheduled: a run is forgotten when a thread takes it.
ScheduledQueued == queue

\* _scheduled: the runs in the queue and in the hands of threads.
Scheduled == queue \union ({threads[t].run : t \in Thread} \ {None})

\* _mutation_lock is held from the check of a write until it was recorded.
Locked ==
  \E t \in Thread :
    /\ threads[t].at \in {"mark", "invoke", "finish", "failing"}
    /\ calls[threads[t].run][threads[t].call].kind = "write"

SetRun(r, status) == runs' = [runs EXCEPT ![r] = status]

\* _finish_run leaves a run that has ended as it is.
Finish(r, status) ==
  runs' = IF r \in Active THEN [runs EXCEPT ![r] = status] ELSE runs

(***************************************************************************)
(* People.                                                                 *)
(***************************************************************************)
\* create, up to _schedule
Create(r) ==
  /\ runs[r] = "none" /\ Cardinality(Active) < ActiveLimit
  /\ SetRun(r, "queued")
  /\ wanted' = wanted \union {r}
  /\ UNCHANGED <<calls, log, queue, threads, faults>>

\* _schedule: a run that is scheduled is left alone, a full queue fails it.
Schedule(r) ==
  /\ r \in wanted
  /\ wanted' = wanted \ {r}
  /\ IF r \in Scheduled THEN UNCHANGED <<runs, queue>>
     ELSE IF Cardinality(queue) >= QueueLimit
     THEN Finish(r, "failed") /\ UNCHANGED queue
     ELSE queue' = queue \union {r} /\ UNCHANGED runs
  /\ UNCHANGED <<calls, log, threads, faults>>

Pending(r) == {c \in CallId : calls[r][c].approval = "pending"}

\* approve with decide_approval; the last decision puts the run back.
Decide(r, c, decision) ==
  /\ c \in Pending(r) /\ runs[r] = "waiting"
  /\ calls' = [calls EXCEPT ![r][c].approval = decision,
                 ![r][c].status = IF decision = "rejected" THEN "rejected" ELSE @]
  /\ IF Pending(r) = {c}
     THEN SetRun(r, "queued") /\ wanted' = wanted \union {r}
     ELSE UNCHANGED <<runs, wanted>>
  /\ UNCHANGED <<log, queue, threads, faults>>

\* An approved write that has begun or was carried out.
Begun(r) ==
  \E c \in CallId : /\ calls[r][c].approval # "none"
                    /\ calls[r][c].status \in {"running", "succeeded"}

Cancelled(k) ==
  [k EXCEPT
     !.status = IF @ \in {"planned", "waiting", "running"} THEN "failed" ELSE @,
     !.code = IF k.status \in {"planned", "waiting", "running"}
              THEN "cancelled" ELSE @,
     !.approval = IF @ = "pending" THEN "rejected" ELSE @]

\* cancel
Cancel(r) ==
  /\ r \in Active /\ ~ Locked /\ ~ Begun(r)
  /\ SetRun(r, "cancelled")
  /\ calls' = [calls EXCEPT ![r] = [c \in CallId |-> Cancelled(calls[r][c])]]
  /\ UNCHANGED <<log, wanted, queue, threads, faults>>

\* patch_draft by a person
Edit ==
  /\ Revision < MaxRevision
  /\ log' = Append(log, Person)
  /\ UNCHANGED <<runs, calls, wanted, queue, threads, faults>>

(***************************************************************************)
(* A thread.                                                               *)
(***************************************************************************)
Goto(t, at) == threads' = [threads EXCEPT ![t].at = at]

\* Mutant of Batch: the checkpoint keeps the last call.
BatchOfOne(r) ==
  {c \in CallId : /\ calls[r][c].status = "waiting"
                  /\ \A d \in CallId : d > c => calls[r][d] = NoCall}

\* The writes of the pending batch that are neither done nor rejected.
Batch(r) == {c \in CallId : calls[r][c].status = "waiting"}

\* A thread that goes on with a run: writes to do in their order, then a turn.
Resume(t, r, todo) ==
  \/ /\ todo = {}
     /\ threads' = [threads EXCEPT ![t] = [at |-> "plan", run |-> r, call |-> 0]]
  \/ \E c \in todo :
       /\ \A d \in todo : c <= d
       /\ threads' = [threads EXCEPT ![t] = [at |-> "check", run |-> r, call |-> c]]

\* A thread takes a run from the queue and claims it; the loop then resumes
\* from the checkpoint.
Claim(t, r) ==
  /\ threads[t].at = "idle" /\ r \in queue
  /\ queue' = queue \ {r}
  /\ IF runs[r] = "queued" THEN Resume(t, r, Batch(r))
     ELSE threads' = [threads EXCEPT ![t] = [at |-> "release", run |-> r, call |-> 0]]
  /\ runs' = [runs EXCEPT ![r] = IF @ = "queued" THEN "running" ELSE @]
  /\ UNCHANGED <<calls, log, wanted, faults>>

\* Calls are numbered in the order in which they are planned.
IsNext(r, c) == \A d \in CallId : d < c <=> calls[r][d].kind # "none"

\* _plan_call with create_tool_call; a write waits, a read is carried out.
Plan(t, c, kind) ==
  LET r == threads[t].run
  IN /\ threads[t].at = "plan" /\ Running(r)
     /\ c <= Budget[r] /\ IsNext(r, c)
     /\ calls' = [calls EXCEPT ![r][c] =
          IF kind = "write"
          THEN [NoCall EXCEPT !.kind = "write", !.status = "waiting",
                              !.approval = "pending", !.revision = Revision]
          ELSE [NoCall EXCEPT !.kind = "read", !.status = "planned"]]
     /\ threads' = IF kind = "write" THEN threads
                   ELSE [threads EXCEPT ![t] = [at |-> "check", run |-> r, call |-> c]]
     /\ UNCHANGED <<runs, log, wanted, queue, faults>>

\* The end of a turn with writes: update_checkpoint to waiting_approval.
Suspend(t) ==
  LET r == threads[t].run IN
  /\ threads[t].at = "plan" /\ Pending(r) # {}
  /\ IF Running(r) THEN SetRun(r, "waiting") /\ Goto(t, "release")
     ELSE UNCHANGED runs /\ Goto(t, "raised")
  /\ UNCHANGED <<calls, log, wanted, queue, faults>>

\* The model has no more calls, or the fixed list is through.
Complete(t) ==
  LET r == threads[t].run IN
  /\ threads[t].at = "plan" /\ Pending(r) = {}
  /\ Finish(r, "completed") /\ Goto(t, "release")
  /\ UNCHANGED <<calls, log, wanted, queue, faults>>

\* _check_budget, a refused argument, a tool that is unknown, ...
Raise(t) ==
  /\ threads[t].at \in {"plan", "check", "mark"}
  /\ Goto(t, "raised")
  /\ UNCHANGED <<runs, calls, log, wanted, queue, faults>>

\* Mutant of Current: the revision is not compared.
CurrentAny(k) == TRUE

\* What was planned is about the draft as it is.
Current(k) == k.revision = Revision

\* Mutant of Accepts: whatever became of the run.
AcceptsAlways(r) == TRUE

\* finish_tool writes only into a run that is running.
Accepts(r) == Running(r)

Failed(r, c, code) ==
  calls' = IF Accepts(r)
           THEN [calls EXCEPT ![r][c].status = "failed", ![r][c].code = code]
           ELSE calls

\* The checks of _execute_call_inner, for a write with the lock.
Check(t) ==
  LET r == threads[t].run
      c == threads[t].call
      k == calls[r][c]
  IN /\ threads[t].at = "check"
     /\ k.kind = "read" \/ ~ Locked
     /\ IF r \notin Active \/ (k.kind = "write" /\ k.approval # "approved")
        THEN Goto(t, "raised") /\ UNCHANGED calls
        ELSE IF k.kind = "write" /\ ~ Current(k)
        THEN Goto(t, "raised") /\ Failed(r, c, "stale")
        ELSE Goto(t, "mark") /\ UNCHANGED calls
     /\ UNCHANGED <<runs, log, wanted, queue, faults>>

\* mark_tool_running
MayStart(r, k) ==
  /\ k.status \in {"planned", "waiting"} /\ k.approval \in {"none", "approved"}
  /\ Running(r)

Mark(t) ==
  LET r == threads[t].run
      c == threads[t].call
      k == calls[r][c]
  IN /\ threads[t].at = "mark"
     /\ IF MayStart(r, k)
        THEN /\ calls' = [calls EXCEPT ![r][c].status = "running"]
             /\ Goto(t, IF k.kind = "write" THEN "invoke" ELSE "finish")
        ELSE UNCHANGED calls /\ Goto(t, "raised")
     /\ UNCHANGED <<runs, log, wanted, queue, faults>>

\* patch_draft with expected_revision; a patch that changes nothing is not
\* written, and one may be refused.
Invoke(t) ==
  LET r == threads[t].run
      c == threads[t].call
  IN /\ threads[t].at = "invoke"
     /\ \/ /\ Current(calls[r][c]) /\ Revision < MaxRevision
           /\ log' = Append(log, <<r, c>>)
           /\ Goto(t, "finish")
        \/ /\ Current(calls[r][c])
           /\ Goto(t, "finish") /\ UNCHANGED log
        \/ Goto(t, "failing") /\ UNCHANGED log
     /\ UNCHANGED <<runs, calls, wanted, queue, faults>>

\* finish_tool with the result, and add_step, which a database error spoils.
FinishTool(t) ==
  LET r == threads[t].run
      c == threads[t].call
  IN /\ threads[t].at = "finish"
     /\ calls' = IF Accepts(r) THEN [calls EXCEPT ![r][c].status = "succeeded"]
                 ELSE calls
     /\ \/ /\ Resume(t, r, IF calls[r][c].kind = "read" THEN {} ELSE Batch(r))
           /\ UNCHANGED faults
        \/ Fault /\ Goto(t, "failing")
     /\ UNCHANGED <<runs, log, wanted, queue>>

\* The result is too large, or there is none: the tool failed.
Refuse(t) ==
  /\ threads[t].at = "finish"
  /\ Goto(t, "failing")
  /\ UNCHANGED <<runs, calls, log, wanted, queue, faults>>

\* finish_tool with the error.  The fixed list goes on after a failed read.
Fail(t) ==
  LET r == threads[t].run
      c == threads[t].call
  IN /\ threads[t].at = "failing"
     /\ Failed(r, c, "failed")
     /\ \/ Goto(t, "raised")
        \/ /\ calls[r][c].kind = "read" /\ Pending(r) = {}
           /\ Goto(t, "plan")
     /\ UNCHANGED <<runs, log, wanted, queue, faults>>

\* _fail_run
FailRun(t) ==
  /\ threads[t].at = "raised"
  /\ Finish(threads[t].run, "failed") /\ Goto(t, "release")
  /\ UNCHANGED <<calls, log, wanted, queue, faults>>

\* The end of _worker and of a turn of _worker_loop.
Release(t) ==
  /\ threads[t].at = "release"
  /\ threads' = [threads EXCEPT ![t] = Idle]
  /\ UNCHANGED <<runs, calls, log, wanted, queue, faults>>

(***************************************************************************)
(* What goes wrong.                                                        *)
(***************************************************************************)
\* The database refuses what a thread records of a tool.
Stumble(t) ==
  /\ threads[t].at \in {"finish", "failing"} /\ Fault
  /\ Goto(t, IF threads[t].at = "failing" THEN "raised" ELSE "failing")
  /\ UNCHANGED <<runs, calls, log, wanted, queue>>

\* Nothing catches an error of claim, of _fail_run or of the time account: it
\* ends the thread.
Die(t) ==
  /\ Fault
  /\ \/ threads[t].at \in {"raised", "release"} /\ UNCHANGED queue
     \/ /\ threads[t].at = "idle"
        /\ \E r \in queue : queue' = queue \ {r}
  /\ threads' = [threads EXCEPT ![t] = [Idle EXCEPT !.at = "dead"]]
  /\ UNCHANGED <<runs, calls, log, wanted>>

\* recover_interrupted on a call of a run that was running ...
Interrupted(k) ==
  IF k.status \in {"planned", "running"}
  THEN [k EXCEPT !.status = "failed",
                 !.code = IF k.approval = "none" THEN "interrupted"
                          ELSE "unknown"]
  ELSE k

\* ... and of one that waited for a decision.
Invalidated(k) ==
  [k EXCEPT !.status = IF @ = "waiting" THEN "failed" ELSE @,
            !.code = IF k.status = "waiting" THEN "invalidated" ELSE @,
            !.approval = IF @ = "pending" THEN "rejected" ELSE @]

\* The process ends and starts again; queued runs are scheduled once more.
Restart ==
  /\ Fault
  /\ runs' = [r \in Run |->
       IF runs[r] \in {"running", "waiting"} THEN "failed" ELSE runs[r]]
  /\ calls' = [r \in Run |-> [c \in CallId |->
       CASE runs[r] = "running" -> Interrupted(calls[r][c])
         [] runs[r] = "waiting" -> Invalidated(calls[r][c])
         [] OTHER -> calls[r][c]]]
  /\ wanted' = {r \in Run : runs[r] = "queued"}
  /\ queue' = {}
  /\ threads' = [t \in Thread |-> Idle]
  /\ UNCHANGED log

(***************************************************************************)
(* The specification.                                                      *)
(***************************************************************************)
People ==
  \/ \E r \in Run : \/ Create(r)
                    \/ Cancel(r)
                    \/ \E c \in CallId, decision \in {"approved", "rejected"} :
                         Decide(r, c, decision)
  \/ Edit

\* What a thread does of its own, as long as the database works.
Work(t) ==
  \/ \E c \in CallId, kind \in {"read", "write"} : Plan(t, c, kind)
  \/ Suspend(t) \/ Complete(t) \/ Check(t) \/ Mark(t) \/ Invoke(t)
  \/ FinishTool(t) \/ Fail(t) \/ FailRun(t) \/ Release(t)

Worker(t) ==
  \/ Work(t) \/ Raise(t) \/ Refuse(t) \/ Stumble(t) \/ Die(t)
  \/ \E r \in Run : Claim(t, r)

Next ==
  \/ People
  \/ \E r \in Run : Schedule(r)
  \/ \E t \in Thread : Worker(t)
  \/ Restart

Spec == Init /\ [][Next]_vars

\* The threads work, the queue is first come first served, and who is about
\* to schedule a run does.  Nothing is assumed of people.
Fairness ==
  /\ \A t \in Thread : WF_vars(Work(t))
  /\ \A r \in Run : WF_vars(Schedule(r))
  /\ \A r \in Run : SF_vars(\E t \in Thread : Claim(t, r))

FairSpec == Spec /\ Fairness

(***************************************************************************)
(* Properties.                                                             *)
(***************************************************************************)
\* The state is well formed, a run is in the hands of one thread at most and
\* not in the queue then (_scheduled), and only a run that waits for a decision,
\* or is about to, has a write pending.
TypeOK ==
  /\ runs \in [Run -> Status]
  /\ calls \in [Run -> [CallId -> CallRecord]]
  /\ log \in Seq(Author) /\ Revision <= MaxRevision
  /\ wanted \subseteq Run
  /\ queue \subseteq Run /\ Cardinality(queue) <= QueueLimit
  /\ threads \in [Thread -> ThreadRecord]
  /\ \A t, u \in Thread : threads[t].run # None =>
       /\ threads[t].run \notin queue
       /\ threads[t].run = threads[u].run => t = u
  /\ \A r \in Run : Pending(r) # {} => runs[r] \notin {"none", "queued"}
  /\ faults \in 0..MaxFault

\* A run writes into the draft only what a person has approved, once, and on
\* the revision the person saw: not after somebody else edited the draft, and
\* not again after a restart.  A call that wrote is not reported as cancelled,
\* interrupted before it began, or out of date (it may be reported as failed).
WrittenAsApproved ==
  \A i \in 1..Len(log) : log[i] # Person =>
    LET k == calls[log[i][1]][log[i][2]]
    IN /\ k.approval = "approved" /\ k.revision = i
       /\ k.status \in {"running", "succeeded", "failed"}
       /\ k.status = "failed" => k.code \in {"failed", "unknown"}

\* Once a run has ended it plans nothing, stores no result and writes nothing,
\* although threads may still be carrying out its calls.
EndedIsQuiet ==
  [][\A r \in Run : runs[r] \in Ended =>
       /\ runs'[r] = runs[r] /\ calls'[r] = calls[r]
       /\ \A i \in Len(log) + 1..Len(log') :
            log'[i] # Person => log'[i][1] # r]_vars

\* A run that is reported as completed has settled everything it planned: no
\* write waits for a decision, and none was approved and then left undone.
CompletedIsSettled ==
  \A r \in Run : runs[r] = "completed" =>
    \A c \in CallId :
      calls[r][c].status \notin {"planned", "waiting", "running"}

\* A queued run is taken up or ended while the service runs: a created run, and
\* one whose last decision was made, as the test of bound approvals expects.
QueuedIsRun ==
  \A r \in Run : runs[r] = "queued" ~> runs[r] # "queued"
=============================================================================
