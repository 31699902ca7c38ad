------------------------- MODULE ToolHarnessProofs -------------------------
(***************************************************************************)
(* What the tool harness guarantees for any number of runs, threads, calls *)
(* and revisions, and however often the database or the process fails.     *)
(***************************************************************************)
EXTENDS ToolHarness, FiniteSetTheorems, TLAPS

-----------------------------------------------------------------------------
(***************************************************************************)
(* The inductive invariant.                                                *)
(***************************************************************************)
\* Where a thread carries a call, and where it holds a run that is running.
Carrying == {"check", "mark", "invoke", "finish", "failing"}
AtWork == Carrying \union {"plan", "raised"}
Open == {"planned", "running"}

\* A thread holds a run exactly when it is not idle, knows the call it carries
\* out, and has a run that was claimed and at most ended since.
Placed(t) ==
  /\ threads[t].run = None <=> threads[t].at \in {"idle", "dead"}
  /\ threads[t].at \in Carrying => threads[t].call \in CallId
  /\ threads[t].at \in AtWork => runs[threads[t].run] \in Ended \union {"running"}

\* A call is carried out in the order of its statuses as long as nobody ends
\* the run, and nobody can while a write is carried out.
Ordered(t) ==
  LET r == threads[t].run
      k == calls[r][threads[t].call]
  IN /\ threads[t].at = "invoke" =>
          /\ Running(r)
          /\ k.kind = "write" /\ k.status = "running" /\ k.approval = "approved"
     /\ threads[t].at \in {"check", "mark"} /\ Running(r) =>
          k.status = IF k.kind = "write" THEN "waiting" ELSE "planned"
     /\ threads[t].at = "finish" /\ Running(r) => k.status = "running"

\* What waits in a turn waits for its decision.
Undecided(k) == k.status = "waiting" => k.approval = "pending"

\* A thread has one call of its run under way, and none between calls; when it
\* is planning, the approved writes are done.
Turning(t) ==
  LET r == threads[t].run IN
  threads[t].at \in Carrying \union {"plan"} /\ Running(r) =>
    /\ threads[t].at = "plan" =>
         \A c \in CallId : /\ calls[r][c].status \notin Open
                           /\ Undecided(calls[r][c])
    /\ threads[t].at \in Carrying =>
         \A c \in CallId \ {threads[t].call} :
           /\ calls[r][c].status \notin Open
           /\ calls[r][threads[t].call].kind = "read" => Undecided(calls[r][c])

\* The writes are the calls that ask for approval.
Asked(r) ==
  \A c \in CallId :
    /\ calls[r][c].kind = "write" <=> calls[r][c].approval # "none"
    /\ calls[r][c].status = "waiting" => calls[r][c].kind = "write"

Deciding(r) == Pending(r) # {} => runs[r] \notin {"none", "queued"}

\* Nothing of a run is under way that no thread holds.
AtRest(r) ==
  runs[r] \in {"none", "queued", "waiting"} =>
    \A c \in CallId : calls[r][c].status \notin Open

Settled(r) ==
  runs[r] = "completed" =>
    \A c \in CallId :
      calls[r][c].status \notin {"planned", "waiting", "running"}

ThreadOK(t) == Placed(t) /\ Ordered(t) /\ Turning(t)
RunOK(r) == Asked(r) /\ Deciding(r) /\ AtRest(r) /\ Settled(r)

Hands ==
  \A t, u \in Thread : threads[t].run # None =>
    /\ threads[t].run \notin queue
    /\ threads[t].run = threads[u].run => t = u

Typed ==
  /\ runs \in [Run -> Status]
  /\ calls \in [Run -> [CallId -> CallRecord]]
  /\ log \in Seq(Author) /\ Revision <= MaxRevision
  /\ wanted \subseteq Run
  /\ queue \subseteq Run
  /\ threads \in [Thread -> ThreadRecord]
  /\ faults \in 0..MaxFault

Inv ==
  /\ Typed /\ Hands /\ Cardinality(queue) <= QueueLimit
  /\ \A t \in Thread : ThreadOK(t)
  /\ \A r \in Run : RunOK(r)
  /\ WrittenAsApproved

\* The invariant has the type invariant in it ...
LEMMA TypeFollows == Inv => TypeOK
BY DEF Inv, TypeOK, Typed, Hands, RunOK, Deciding

\* ... and that completed runs are settled.
LEMMA SettledFollows == Inv => CompletedIsSettled
BY DEF Inv, CompletedIsSettled, RunOK, Settled

-----------------------------------------------------------------------------
(***************************************************************************)
(* What an action does to a thread and to a call, free of EXCEPT.          *)
(***************************************************************************)
Others(t) ==
  /\ threads' \in [Thread -> ThreadRecord]
  /\ \A u \in Thread \ {t} : threads'[u] = threads[u]

Moves(t, at) ==
  /\ Others(t)
  /\ threads'[t].at = at /\ threads'[t].run = threads[t].run
  /\ threads'[t].call = threads[t].call

Changes(r, c) ==
  /\ calls' \in [Run -> [CallId -> CallRecord]]
  /\ \A q \in Run, d \in CallId : q # r \/ d # c => calls'[q][d] = calls[q][d]

Records(r, c, status, code) ==
  /\ Changes(r, c)
  /\ calls'[r][c].status = status /\ calls'[r][c].code = code
  /\ calls'[r][c].kind = calls[r][c].kind
  /\ calls'[r][c].approval = calls[r][c].approval
  /\ calls'[r][c].revision = calls[r][c].revision

Carried(t, r, c) == r = threads[t].run /\ c = threads[t].call

At == {"idle", "plan", "check", "mark", "invoke", "finish", "failing",
       "raised", "release", "dead"}

\* Goto changes where a thread is, and only that.
LEMMA Goes ==
  ASSUME Typed, NEW t \in Thread, NEW at \in At, Goto(t, at)
  PROVE  Moves(t, at)
BY DEF Typed, Goto, ThreadRecord, At, Moves, Others

\* A new status of a call, as mark_tool_running and finish_tool set it.
LEMMA Succeeds ==
  ASSUME Typed, NEW r \in Run, NEW c \in CallId,
         NEW status \in {"running", "succeeded"},
         calls' = [calls EXCEPT ![r][c].status = status]
  PROVE  Records(r, c, status, calls[r][c].code)
<1>1. calls[r][c] \in CallRecord
  BY DEF Typed
<1>2. PICK k \in CallRecord : k = [calls[r][c] EXCEPT !.status = status]
  BY <1>1 DEF CallRecord
<1>3. calls' = [calls EXCEPT ![r][c] = k]
  BY <1>2 DEF Typed
<1>4. Changes(r, c) /\ calls'[r][c] = k
  BY <1>3, SMTT(30) DEF Typed, Changes
<1> QED
  BY <1>1, <1>2, <1>4 DEF Records, CallRecord

\* A failure recorded of a run that is running.
LEMMA Fails ==
  ASSUME Typed, NEW r \in Run, NEW c \in CallId, Running(r),
         NEW code \in {"failed", "stale"}, Failed(r, c, code)
  PROVE  Records(r, c, "failed", code)
<1>1. calls[r][c] \in CallRecord
  BY DEF Typed
<1>2. PICK k \in CallRecord : k = [calls[r][c] EXCEPT !.status = "failed", !.code = code]
  BY <1>1 DEF CallRecord
<1>3. calls' = [calls EXCEPT ![r][c] = k]
  BY <1>2 DEF Typed, Failed, Accepts
<1>4. Changes(r, c) /\ calls'[r][c] = k
  BY <1>3 DEF Typed, Changes
<1> QED
  BY <1>1, <1>2, <1>4 DEF Records, CallRecord

\* A thread that resumes a run carries one of its waiting writes or plans.
LEMMA Resumes ==
  ASSUME Typed, NEW t \in Thread, NEW r \in Run, NEW todo \in SUBSET CallId,
         Resume(t, r, todo)
  PROVE  /\ Others(t)
         /\ threads'[t].run = r
         /\ \/ threads'[t].at = "plan" /\ todo = {}
            \/ threads'[t].at = "check" /\ threads'[t].call \in todo
<1>1. CASE todo = {}
  <2>1. threads' = [threads EXCEPT ![t] = [at |-> "plan", run |-> r, call |-> 0]]
    BY <1>1 DEF Resume
  <2>2. Others(t) /\ threads'[t] = [at |-> "plan", run |-> r, call |-> 0]
    BY <2>1, HarnessAssumption DEF Others, Typed, ThreadRecord
  <2> QED
    BY <1>1, <2>2
<1>2. CASE todo # {}
  <2>1. PICK c \in todo :
          threads' = [threads EXCEPT ![t] = [at |-> "check", run |-> r, call |-> c]]
    BY <1>2 DEF Resume
  <2>2. Others(t) /\ threads'[t] = [at |-> "check", run |-> r, call |-> c]
    BY <2>1, HarnessAssumption DEF Others, Typed, ThreadRecord, CallId
  <2> QED
    BY <2>2
<1> QED
  BY <1>1, <1>2

\* A thread that is not idle has a run, and a call where it carries one.
LEMMA Holds ==
  ASSUME Typed, NEW t \in Thread, Placed(t), threads[t].at \notin {"idle", "dead"}
  PROVE  /\ threads[t].run \in Run
         /\ threads[t].at \in Carrying => threads[t].call \in CallId
BY DEF Typed, Placed, ThreadRecord

Planned(kind) ==
  IF kind = "write"
  THEN [NoCall EXCEPT !.kind = "write", !.status = "waiting",
                      !.approval = "pending", !.revision = Revision]
  ELSE [NoCall EXCEPT !.kind = "read", !.status = "planned"]

\* _plan_call adds one call: a write that waits or a read that is carried out.
LEMMA PlanDoes ==
  ASSUME Typed, NEW t \in Thread, Placed(t), NEW c \in CallId,
         NEW kind \in {"read", "write"}, Plan(t, c, kind)
  PROVE  \E r \in Run :
           /\ r = threads[t].run /\ threads[t].at = "plan" /\ Running(r) /\ IsNext(r, c)
           /\ Changes(r, c)
           /\ calls'[r][c].kind = kind
           /\ calls'[r][c].status = (IF kind = "write" THEN "waiting" ELSE "planned")
           /\ calls'[r][c].approval = (IF kind = "write" THEN "pending" ELSE "none")
           /\ \/ kind = "write" /\ UNCHANGED threads
              \/ /\ kind = "read" /\ Others(t)
                 /\ threads'[t].at = "check" /\ threads'[t].run = r /\ threads'[t].call = c
           /\ UNCHANGED <<runs, log, wanted, queue, faults>>
<1> DEFINE r == threads[t].run
<1>1. r \in Run
  BY Holds DEF Plan
<1>2. Planned(kind) \in CallRecord
  <2>1. Revision \in 0..MaxRevision
    BY HarnessAssumption DEF Revision, Typed
  <2>2. NoCall \in CallRecord
    BY HarnessAssumption DEF NoCall, CallRecord
  <2> QED
    BY <2>1, <2>2 DEF Planned, CallRecord
<1>3. calls' = [calls EXCEPT ![r][c] = Planned(kind)]
  BY DEF Plan, Planned
<1>4. Changes(r, c) /\ calls'[r][c] = Planned(kind)
  BY <1>1, <1>2, <1>3 DEF Changes, Typed
<1>5. /\ calls'[r][c].kind = kind
      /\ calls'[r][c].status = (IF kind = "write" THEN "waiting" ELSE "planned")
      /\ calls'[r][c].approval = (IF kind = "write" THEN "pending" ELSE "none")
  BY <1>4 DEF Planned, NoCall
<1>6. CASE kind = "read"
  <2>1. threads' = [threads EXCEPT ![t] = [at |-> "check", run |-> r, call |-> c]]
    BY <1>6 DEF Plan
  <2>2. [at |-> "check", run |-> r, call |-> c] \in ThreadRecord
    BY <1>1, HarnessAssumption DEF ThreadRecord, CallId
  <2>3. /\ Others(t)
        /\ threads'[t].at = "check" /\ threads'[t].run = r /\ threads'[t].call = c
    BY <2>1, <2>2 DEF Others, Typed
  <2> QED
    BY <1>1, <1>4, <1>6, <1>5, <2>3 DEF Plan
<1>7. CASE kind = "write"
  BY <1>1, <1>4, <1>7, <1>5 DEF Plan
<1> QED
  BY <1>6, <1>7

\* The checks before a call end the work, find the write out of date, or pass.
LEMMA CheckDoes ==
  ASSUME Typed, NEW t \in Thread, Placed(t), Check(t)
  PROVE  \E r \in Run, c \in CallId :
           /\ Carried(t, r, c) /\ threads[t].at = "check"
           /\ \/ Moves(t, "raised") /\ UNCHANGED calls
              \/ /\ Moves(t, "raised") /\ Running(r) /\ calls[r][c].kind = "write"
                 /\ Records(r, c, "failed", "stale")
              \/ /\ Moves(t, "mark") /\ UNCHANGED calls
                 /\ calls[r][c].kind = "write" => ~ Locked
           /\ UNCHANGED <<runs, log, wanted, queue, faults>>
<1> DEFINE r == threads[t].run
           c == threads[t].call
<1>1. r \in Run /\ c \in CallId /\ threads[t].at = "check"
  BY Holds DEF Check, Carrying
<1>2. ASSUME NEW at \in At, Goto(t, at)
      PROVE  Moves(t, at)
  BY <1>2, Goes
<1>3. CASE Goto(t, "mark") /\ UNCHANGED calls
  BY <1>1, <1>2, <1>3 DEF Check, Carried, At
<1>4. CASE Goto(t, "raised") /\ UNCHANGED calls
  BY <1>1, <1>2, <1>4 DEF Check, Carried, At
<1>5. CASE Goto(t, "raised") /\ calls[r][c].kind = "write" /\ Failed(r, c, "stale")
  <2>1. CASE Running(r)
    <3>1. Records(r, c, "failed", "stale")
      BY <1>1, <1>5, <2>1, Fails
    <3> QED
      BY <1>1, <1>2, <1>5, <2>1, <3>1 DEF Check, Carried, At
  <2>2. CASE ~ Running(r)
    BY <1>1, <1>2, <1>5, <2>2 DEF Check, Carried, Failed, Accepts, At
  <2> QED
    BY <2>1, <2>2
<1> QED
  BY <1>3, <1>4, <1>5 DEF Check

\* mark_tool_running starts the call of a run that is running.
LEMMA MarkDoes ==
  ASSUME Typed, NEW t \in Thread, Placed(t), Mark(t)
  PROVE  \E r \in Run, c \in CallId :
           /\ Carried(t, r, c) /\ threads[t].at = "mark"
           /\ \/ Moves(t, "raised") /\ UNCHANGED calls
              \/ /\ MayStart(r, calls[r][c])
                 /\ Moves(t, IF calls[r][c].kind = "write" THEN "invoke" ELSE "finish")
                 /\ Records(r, c, "running", calls[r][c].code)
           /\ UNCHANGED <<runs, log, wanted, queue, faults>>
<1> DEFINE r == threads[t].run
           c == threads[t].call
<1>1. r \in Run /\ c \in CallId /\ threads[t].at = "mark"
  BY Holds DEF Mark, Carrying
<1>2. ASSUME NEW at \in At, Goto(t, at)
      PROVE  Moves(t, at)
  BY <1>2, Goes
<1>3. CASE MayStart(r, calls[r][c])
  <2>1. Records(r, c, "running", calls[r][c].code)
    BY <1>1, <1>3, Succeeds DEF Mark
  <2>2. Moves(t, IF calls[r][c].kind = "write" THEN "invoke" ELSE "finish")
    BY <1>2, <1>3 DEF Mark, At
  <2> QED
    BY <1>1, <1>3, <2>1, <2>2 DEF Mark, Carried
<1>4. CASE ~ MayStart(r, calls[r][c])
  BY <1>1, <1>2, <1>4 DEF Mark, Carried, At
<1> QED
  BY <1>3, <1>4

\* The tool writes a revision for its call, or nothing.
LEMMA InvokeDoes ==
  ASSUME Typed, NEW t \in Thread, Placed(t), Invoke(t)
  PROVE  \E r \in Run, c \in CallId :
           /\ Carried(t, r, c) /\ threads[t].at = "invoke"
           /\ \/ /\ Moves(t, "finish")
                 /\ Current(calls[r][c]) /\ Revision < MaxRevision
                 /\ log' = Append(log, <<r, c>>)
              \/ (Moves(t, "finish") \/ Moves(t, "failing")) /\ UNCHANGED log
           /\ UNCHANGED <<runs, calls, wanted, queue, faults>>
<1> DEFINE r == threads[t].run
           c == threads[t].call
<1>1. r \in Run /\ c \in CallId /\ threads[t].at = "invoke"
  BY Holds DEF Invoke, Carrying
<1>2. ASSUME NEW at \in At, Goto(t, at)
      PROVE  Moves(t, at)
  BY <1>2, Goes
<1> QED
  BY <1>1, <1>2 DEF Invoke, Carried, At

\* finish_tool records the result only in a run that is running.
LEMMA FinishDoes ==
  ASSUME Typed, NEW t \in Thread, Placed(t), FinishTool(t)
  PROVE  \E r \in Run, c \in CallId :
           /\ Carried(t, r, c) /\ threads[t].at = "finish"
           /\ \/ Running(r) /\ Records(r, c, "succeeded", calls[r][c].code)
              \/ ~ Running(r) /\ UNCHANGED calls
           /\ \/ Moves(t, "failing") /\ Fault
              \/ /\ Others(t) /\ threads'[t].run = r /\ UNCHANGED faults
                 /\ \/ threads'[t].at = "plan" /\ (calls[r][c].kind = "read" \/ Batch(r) = {})
                    \/ /\ threads'[t].at = "check" /\ calls[r][c].kind # "read"
                       /\ threads'[t].call \in Batch(r)
           /\ UNCHANGED <<runs, log, wanted, queue>>
<1> DEFINE r == threads[t].run
           c == threads[t].call
           todo == IF calls[r][c].kind = "read" THEN {} ELSE Batch(r)
<1>1. r \in Run /\ c \in CallId /\ threads[t].at = "finish"
  BY Holds DEF FinishTool, Carrying
<1>2. \/ Running(r) /\ Records(r, c, "succeeded", calls[r][c].code)
      \/ ~ Running(r) /\ UNCHANGED calls
  <2>1. CASE Running(r)
    BY <1>1, <2>1, Succeeds DEF FinishTool, Accepts
  <2>2. CASE ~ Running(r)
    BY <2>2 DEF FinishTool, Accepts
  <2> QED
    BY <2>1, <2>2
<1>3. CASE Fault /\ Goto(t, "failing")
  <2>1. Moves(t, "failing")
    BY <1>3, Goes DEF At
  <2> QED
    BY <1>1, <1>2, <1>3, <2>1 DEF FinishTool, Carried
<1>4. CASE Resume(t, r, todo) /\ UNCHANGED faults
  <2>1. todo \in SUBSET CallId
    BY DEF Batch
  <2>2. /\ Others(t)
        /\ threads'[t].run = r
        /\ \/ threads'[t].at = "plan" /\ todo = {}
           \/ threads'[t].at = "check" /\ threads'[t].call \in todo
    BY <1>1, <1>4, <2>1, Resumes
  <2> QED
    BY <1>1, <1>2, <1>4, <2>2 DEF FinishTool, Carried
<1> QED
  BY <1>3, <1>4 DEF FinishTool

\* The error is recorded only in a run that is running.
LEMMA FailDoes ==
  ASSUME Typed, NEW t \in Thread, Placed(t), Fail(t)
  PROVE  \E r \in Run, c \in CallId :
           /\ Carried(t, r, c) /\ threads[t].at = "failing"
           /\ \/ Running(r) /\ Records(r, c, "failed", "failed")
              \/ ~ Running(r) /\ UNCHANGED calls
           /\ \/ Moves(t, "raised")
              \/ Moves(t, "plan") /\ calls[r][c].kind = "read" /\ Pending(r) = {}
           /\ UNCHANGED <<runs, log, wanted, queue, faults>>
<1> DEFINE r == threads[t].run
           c == threads[t].call
<1>1. r \in Run /\ c \in CallId /\ threads[t].at = "failing"
  BY Holds DEF Fail, Carrying
<1>2. \/ Running(r) /\ Records(r, c, "failed", "failed")
      \/ ~ Running(r) /\ UNCHANGED calls
  <2>1. CASE Running(r)
    BY <1>1, <2>1, Fails DEF Fail
  <2>2. CASE ~ Running(r)
    BY <2>2 DEF Fail, Failed, Accepts
  <2> QED
    BY <2>1, <2>2
<1>3. ASSUME NEW at \in At, Goto(t, at)
      PROVE  Moves(t, at)
  BY <1>3, Goes
<1> QED
  BY <1>1, <1>2, <1>3 DEF Fail, Carried, At

\* A queued run becomes running in the hands of the thread that takes it.
LEMMA ClaimDoes ==
  ASSUME Typed, NEW t \in Thread, NEW r \in Run, Claim(t, r)
  PROVE  /\ Others(t) /\ threads'[t].run = r
         /\ threads[t].at = "idle" /\ r \in queue /\ queue' = queue \ {r}
         /\ \/ /\ runs[r] # "queued" /\ threads'[t].at = "release" /\ UNCHANGED runs
            \/ /\ runs[r] = "queued" /\ runs' = [runs EXCEPT ![r] = "running"]
               /\ \/ threads'[t].at = "plan" /\ Batch(r) = {}
                  \/ threads'[t].at = "check" /\ threads'[t].call \in Batch(r)
         /\ UNCHANGED <<calls, log, wanted, faults>>
<1>1. CASE runs[r] = "queued"
  <2>1. Batch(r) \in SUBSET CallId
    BY DEF Batch
  <2>2. /\ Others(t)
        /\ threads'[t].run = r
        /\ \/ threads'[t].at = "plan" /\ Batch(r) = {}
           \/ threads'[t].at = "check" /\ threads'[t].call \in Batch(r)
    BY <1>1, <2>1, Resumes DEF Claim
  <2> QED
    BY <1>1, <2>2 DEF Claim, Typed
<1>2. CASE runs[r] # "queued"
  <2>1. threads' = [threads EXCEPT ![t] = [at |-> "release", run |-> r, call |-> 0]]
    BY <1>2 DEF Claim
  <2>2. Others(t) /\ threads'[t] = [at |-> "release", run |-> r, call |-> 0]
    BY <2>1, HarnessAssumption DEF Others, Typed, ThreadRecord
  <2> QED
    BY <1>2, <2>2 DEF Claim, Typed
<1> QED
  BY <1>1, <1>2

\* A decision changes one call.
LEMMA DecideDoes ==
  ASSUME Typed, NEW r \in Run, NEW c \in CallId,
         NEW decision \in {"approved", "rejected"}, Decide(r, c, decision)
  PROVE  /\ Changes(r, c)
         /\ calls'[r][c].kind = calls[r][c].kind
         /\ calls'[r][c].approval = decision
         /\ calls'[r][c].status =
              IF decision = "rejected" THEN "rejected" ELSE calls[r][c].status
<1>1. calls[r][c] \in CallRecord
  BY DEF Typed
<1>2. PICK k \in CallRecord :
        k = [calls[r][c] EXCEPT
               !.approval = decision,
               !.status = IF decision = "rejected" THEN "rejected" ELSE @]
  BY <1>1 DEF CallRecord
<1>3. calls' = [calls EXCEPT ![r][c] = k]
  BY <1>2 DEF Typed, Decide, CallRecord
<1>4. Changes(r, c) /\ calls'[r][c] = k
  BY <1>3 DEF Typed, Changes
<1> QED
  BY <1>1, <1>2, <1>4 DEF CallRecord

\* Every step keeps the types and the bound on revisions.
LEMMA StepTyped ==
  ASSUME Typed, \A t \in Thread : Placed(t), Next
  PROVE  Typed'
<1>1. ASSUME NEW r \in Run, Create(r)
      PROVE  Typed'
  BY <1>1, HarnessAssumption DEF Create, SetRun, Typed, Revision, Status, Ended
<1>2. ASSUME NEW r \in Run, Cancel(r)
      PROVE  Typed'
  <2>1. ASSUME NEW k \in CallRecord
        PROVE  Cancelled(k) \in CallRecord
    BY DEF Cancelled, CallRecord
  <2>2. calls' \in [Run -> [CallId -> CallRecord]]
    BY <1>2, <2>1 DEF Cancel, Typed
  <2> QED
    BY <1>2, <2>2 DEF Cancel, SetRun, Typed, Revision, Status, Ended
<1>3. ASSUME NEW r \in Run, NEW c \in CallId,
             NEW decision \in {"approved", "rejected"}, Decide(r, c, decision)
      PROVE  Typed'
  <2>1. calls' \in [Run -> [CallId -> CallRecord]]
    BY <1>3, DecideDoes DEF Changes
  <2> QED
    BY <1>3, <2>1, SMTT(30) DEF Decide, SetRun, Typed, Revision, Status, Ended
<1>4. ASSUME Edit
      PROVE  Typed'
  BY <1>4, HarnessAssumption DEF Edit, Author, Typed, Revision, Status, Ended
<1>5. ASSUME NEW r \in Run, Schedule(r)
      PROVE  Typed'
  BY <1>5, HarnessAssumption DEF Schedule, Finish, Typed, Revision, Status, Ended
<1>6. ASSUME NEW t \in Thread, NEW c \in CallId, NEW kind \in {"read", "write"},
             Plan(t, c, kind)
      PROVE  Typed'
  BY <1>6, PlanDoes DEF Changes, Others, Typed, Revision, Status, Ended
<1>7. ASSUME NEW t \in Thread, Suspend(t)
      PROVE  Typed'
  <2>1. threads' \in [Thread -> ThreadRecord]
    BY <1>7, Goes DEF Suspend, At, Moves, Others
  <2> QED
    BY <1>7, <2>1, HarnessAssumption DEF Suspend, SetRun, Typed, Revision, Status, Ended
<1>8. ASSUME NEW t \in Thread, Complete(t)
      PROVE  Typed'
  <2>1. threads' \in [Thread -> ThreadRecord]
    BY <1>8, Goes DEF Complete, At, Moves, Others
  <2> QED
    BY <1>8, <2>1, HarnessAssumption
    DEF Complete, Finish, Typed, Revision, Status, Ended
<1>9. ASSUME NEW t \in Thread, Check(t)
      PROVE  Typed'
  BY <1>9, CheckDoes DEF Moves, Others, Records, Changes, Typed, Revision, Status, Ended
<1>10. ASSUME NEW t \in Thread, Mark(t)
       PROVE  Typed'
  BY <1>10, MarkDoes DEF Moves, Others, Records, Changes, Typed, Revision, Status, Ended
<1>11. ASSUME NEW t \in Thread, Invoke(t)
       PROVE  Typed'
  <2>1. PICK r \in Run, c \in CallId :
          /\ threads' \in [Thread -> ThreadRecord]
          /\ \/ Revision < MaxRevision /\ log' = Append(log, <<r, c>>)
             \/ UNCHANGED log
          /\ UNCHANGED <<runs, calls, wanted, queue, faults>>
    BY <1>11, InvokeDoes DEF Moves, Others
  <2>2. <<r, c>> \in Author
    BY DEF Author
  <2> QED
    <3>1. ASSUME NEW a \in Author, Revision < MaxRevision, log' = Append(log, a)
          PROVE  log' \in Seq(Author) /\ Revision' <= MaxRevision
      BY <3>1, HarnessAssumption DEF Typed, Revision
    <3>2. log' \in Seq(Author) /\ Revision' <= MaxRevision
      BY <2>1, <2>2, <3>1 DEF Typed, Revision
    <3> QED
      BY <2>1, <3>2 DEF Typed
<1>12. ASSUME NEW t \in Thread, FinishTool(t)
       PROVE  Typed'
  <2>1. threads' \in [Thread -> ThreadRecord]
    BY <1>12, FinishDoes DEF Moves, Others
  <2>2. calls' \in [Run -> [CallId -> CallRecord]]
    BY <1>12, FinishDoes DEF Records, Changes, Typed
  <2> QED
    BY <1>12, <2>1, <2>2, HarnessAssumption
    DEF FinishTool, Fault, Typed, Revision, Status, Ended
<1>13. ASSUME NEW t \in Thread, Fail(t)
       PROVE  Typed'
  BY <1>13, FailDoes DEF Moves, Others, Records, Changes, Typed, Revision, Status, Ended
<1>14. ASSUME NEW t \in Thread, FailRun(t)
       PROVE  Typed'
  <2>1. threads' \in [Thread -> ThreadRecord]
    BY <1>14, Goes DEF FailRun, At, Moves, Others
  <2> QED
    BY <1>14, <2>1, HarnessAssumption
    DEF FailRun, Finish, Typed, Revision, Status, Ended
<1>15. ASSUME NEW t \in Thread, Release(t)
       PROVE  Typed'
  BY <1>15, HarnessAssumption
  DEF Release, Idle, ThreadRecord, Typed, Revision, Status, Ended
<1>16. ASSUME NEW t \in Thread, Raise(t)
       PROVE  Typed'
  <2>1. threads' \in [Thread -> ThreadRecord]
    BY <1>16, Goes DEF Raise, At, Moves, Others
  <2> QED
    BY <1>16, <2>1, HarnessAssumption DEF Raise, Typed, Revision, Status, Ended
<1>17. ASSUME NEW t \in Thread, Refuse(t)
       PROVE  Typed'
  <2>1. threads' \in [Thread -> ThreadRecord]
    BY <1>17, Goes DEF Refuse, At, Moves, Others
  <2> QED
    BY <1>17, <2>1, HarnessAssumption DEF Refuse, Typed, Revision, Status, Ended
<1>18. ASSUME NEW t \in Thread, Stumble(t)
       PROVE  Typed'
  <2>1. threads' \in [Thread -> ThreadRecord]
    BY <1>18, Goes DEF Stumble, At, Moves, Others
  <2> QED
    BY <1>18, <2>1, HarnessAssumption DEF Stumble, Fault, Typed, Revision, Status, Ended
<1>19. ASSUME NEW t \in Thread, Die(t)
       PROVE  Typed'
  BY <1>19, HarnessAssumption
  DEF Die, Idle, Fault, ThreadRecord, Typed, Revision, Status, Ended
<1>20. ASSUME NEW t \in Thread, NEW r \in Run, Claim(t, r)
       PROVE  Typed'
  BY <1>20, ClaimDoes, ZenonT(40) DEF Others, Typed, Revision, Status, Ended
<1>21. ASSUME Restart
       PROVE  Typed'
  <2>1. ASSUME NEW k \in CallRecord
        PROVE  Interrupted(k) \in CallRecord /\ Invalidated(k) \in CallRecord
    BY ZenonT(40) DEF Interrupted, Invalidated, CallRecord
  <2>2. calls' \in [Run -> [CallId -> CallRecord]]
    BY <1>21, <2>1 DEF Restart, Typed
  <2>3. Idle \in ThreadRecord
    BY HarnessAssumption DEF Idle, ThreadRecord
  <2> QED
    BY <1>21, <2>2, <2>3, HarnessAssumption
    DEF Restart, Fault, Typed, Revision, Status, Ended
<1> QED
  BY <1>1, <1>2, <1>3, <1>4, <1>5, <1>6, <1>7, <1>8, <1>9, <1>10,
     <1>11, <1>12, <1>13, <1>14, <1>15, <1>16, <1>17, <1>18, <1>19, <1>20, <1>21
  DEF Next, People, Worker, Work

-----------------------------------------------------------------------------
(***************************************************************************)
(* What a thread does concerns the run it holds.                           *)
(***************************************************************************)
Frame(t, r) ==
  /\ Others(t)
  /\ \A q \in Run \ {r} :
       runs'[q] = runs[q] /\ \A c \in CallId : calls'[q][c] = calls[q][c]

Keeps(t) ==
  /\ Frame(t, threads[t].run)
  /\ threads'[t].run \in {threads[t].run, None}
  /\ queue' \subseteq queue

Moving(t) ==
  \/ \E c \in CallId, kind \in {"read", "write"} : Plan(t, c, kind)
  \/ Suspend(t) \/ Complete(t) \/ Check(t) \/ Mark(t) \/ Invoke(t)
  \/ FinishTool(t) \/ Fail(t) \/ FailRun(t) \/ Release(t)
  \/ Raise(t) \/ Refuse(t) \/ Stumble(t) \/ Die(t)

\* A thread changes the run it holds, and no other.
LEMMA MovingKeeps ==
  ASSUME Typed, NEW t \in Thread, Placed(t), Moving(t)
  PROVE  Keeps(t)
<1>1. ASSUME NEW c \in CallId, NEW kind \in {"read", "write"}, Plan(t, c, kind)
      PROVE  Keeps(t)
  BY <1>1, PlanDoes DEF Keeps, Frame, Changes, Others, Typed
<1>2. ASSUME Suspend(t)
      PROVE  Keeps(t)
  BY <1>2, Goes DEF Suspend, At, Moves, SetRun, Keeps, Frame, Typed
<1>3. ASSUME Complete(t)
      PROVE  Keeps(t)
  BY <1>3, Goes DEF Complete, At, Moves, Finish, Keeps, Frame, Typed
<1>4. ASSUME Check(t)
      PROVE  Keeps(t)
  BY <1>4, CheckDoes DEF Keeps, Frame, Moves, Records, Changes, Carried
<1>5. ASSUME Mark(t)
      PROVE  Keeps(t)
  BY <1>5, MarkDoes DEF Keeps, Frame, Moves, Records, Changes, Carried
<1>6. ASSUME Invoke(t)
      PROVE  Keeps(t)
  BY <1>6, InvokeDoes DEF Keeps, Frame, Moves, Records, Changes, Carried
<1>7. ASSUME FinishTool(t)
      PROVE  Keeps(t)
  BY <1>7, FinishDoes DEF Keeps, Frame, Moves, Records, Changes, Carried
<1>8. ASSUME Fail(t)
      PROVE  Keeps(t)
  BY <1>8, FailDoes DEF Keeps, Frame, Moves, Records, Changes, Carried
<1>9. ASSUME FailRun(t)
      PROVE  Keeps(t)
  BY <1>9, Goes DEF FailRun, At, Moves, Finish, Keeps, Frame, Typed
<1>10. ASSUME Release(t)
       PROVE  Keeps(t)
  BY <1>10, HarnessAssumption
  DEF Release, Idle, Others, ThreadRecord, Keeps, Frame, Typed
<1>11. ASSUME Raise(t)
       PROVE  Keeps(t)
  BY <1>11, Goes DEF Raise, At, Moves, Keeps, Frame, Typed
<1>12. ASSUME Refuse(t)
       PROVE  Keeps(t)
  BY <1>12, Goes DEF Refuse, At, Moves, Keeps, Frame, Typed
<1>13. ASSUME Stumble(t)
       PROVE  Keeps(t)
  BY <1>13, Goes DEF Stumble, At, Moves, Fault, Keeps, Frame, Typed
<1>14. ASSUME Die(t)
       PROVE  Keeps(t)
  BY <1>14, HarnessAssumption DEF Die, Idle, Others, ThreadRecord, Keeps, Frame, Typed
<1> QED
  BY <1>1, <1>2, <1>3, <1>4, <1>5, <1>6, <1>7, <1>8, <1>9, <1>10,
     <1>11, <1>12, <1>13, <1>14 DEF Moving

\* A thread is as it was when neither it nor its run is concerned ...
LEMMA OtherThreads ==
  ASSUME Typed, NEW t \in Thread, NEW r \in Run \union {None}, Frame(t, r),
         NEW u \in Thread \ {t}, threads[u].run \in (Run \ {r}) \union {None},
         ThreadOK(u)
  PROVE  ThreadOK(u)'
<1>1. threads'[u] = threads[u]
  BY DEF Frame, Others
<1>2. CASE threads[u].run = None
  BY <1>1, <1>2 DEF ThreadOK, Placed, Ordered, Turning, Carrying, AtWork
<1>3. CASE threads[u].run \in Run \ {r}
  <2>1. /\ runs'[threads[u].run] = runs[threads[u].run]
        /\ \A c \in CallId : calls'[threads[u].run][c] = calls[threads[u].run][c]
    BY <1>3 DEF Frame
  <2>2. Placed(u)'
    BY <1>1, <2>1 DEF ThreadOK, Placed
  <2>3. Ordered(u)'
    BY <1>1, <2>1 DEF ThreadOK, Placed, Ordered, Carrying, Running
  <2>4. Turning(u)'
    BY <1>1, <2>1 DEF ThreadOK, Placed, Turning, Undecided, Running
  <2> QED
    BY <2>2, <2>3, <2>4 DEF ThreadOK
<1> QED
  BY <1>2, <1>3

\* ... and so is a run.
LEMMA OtherRuns ==
  ASSUME NEW q \in Run, RunOK(q), runs'[q] = runs[q],
         \A c \in CallId : calls'[q][c] = calls[q][c]
  PROVE  RunOK(q)'
BY DEF RunOK, Asked, Deciding, Pending, AtRest, Settled

\* A thread that keeps or gives up its run leaves the runs apart.
LEMMA KeptHands ==
  ASSUME Hands, NEW t \in Thread, Others(t), queue' \subseteq queue,
         threads'[t].run \in {threads[t].run, None}
  PROVE  Hands'
BY DEF Hands, Others

-----------------------------------------------------------------------------
(***************************************************************************)
(* What a thread does to itself and to the run it holds.                   *)
(***************************************************************************)
Mine(t) == \A r \in Run : r = threads[t].run => RunOK(r)'

\* A thread leaves itself and the run it holds as they should be.
LEMMA MovingOwn ==
  ASSUME Typed, NEW t \in Thread, ThreadOK(t), \A r \in Run : RunOK(r), Moving(t)
  PROVE  ThreadOK(t)' /\ Mine(t)
<1> USE DEF Mine, Carrying, AtWork, Open
<1> Placed(t)
  BY DEF ThreadOK
<1>1. ASSUME NEW c \in CallId, NEW kind \in {"read", "write"}, Plan(t, c, kind)
      PROVE  ThreadOK(t)' /\ Mine(t)
  <2>1. ThreadOK(t)'
    <3>1. Placed(t)'
      BY <1>1, PlanDoes
      DEF Changes, Placed, Running
    <3>2. Ordered(t)'
      BY <1>1, PlanDoes
      DEF Changes, ThreadOK, Placed, Ordered, Turning, Undecided, Running
    <3>3. Turning(t)'
      BY <1>1, PlanDoes
      DEF Changes, ThreadOK, Placed, Ordered, Turning, Undecided, Running
    <3> QED
      BY <3>1, <3>2, <3>3 DEF ThreadOK
  <2>2. Mine(t)
    BY <1>1, PlanDoes
    DEF Changes, RunOK, Asked, Deciding, Pending, AtRest, Settled, Running
  <2> QED
    BY <2>1, <2>2
<1>2. ASSUME Suspend(t)
      PROVE  ThreadOK(t)' /\ Mine(t)
  <2>1. CASE Running(threads[t].run)
    <3>1. Moves(t, "release") /\ runs' = [runs EXCEPT ![threads[t].run] = "waiting"]
      BY <1>2, <2>1, Goes DEF Suspend, SetRun, At
    <3>2. ThreadOK(t)'
      BY <1>2, <3>1
      DEF Suspend, Moves, ThreadOK, Placed, Ordered, Turning, Undecided, Running
    <3>3. Mine(t)
      BY <1>2, <2>1, <3>1
      DEF Suspend, Moves, Typed, ThreadOK, Turning, RunOK, Asked, Deciding, Pending,
          AtRest, Settled
    <3> QED
      BY <3>2, <3>3
  <2>2. CASE ~ Running(threads[t].run)
    <3>1. Moves(t, "raised") /\ UNCHANGED runs
      BY <1>2, <2>2, Goes DEF Suspend, At
    <3>2. ThreadOK(t)'
      BY <1>2, <3>1
      DEF Suspend, Moves, ThreadOK, Placed, Ordered, Turning, Undecided, Running
    <3>3. Mine(t)
      BY <1>2, <3>1 DEF Suspend, RunOK, Asked, Deciding, Pending, AtRest, Settled
    <3> QED
      BY <3>2, <3>3
  <2> QED
    BY <2>1, <2>2
<1>3. ASSUME Complete(t)
      PROVE  ThreadOK(t)' /\ Mine(t)
  <2>1. Moves(t, threads'[t].at) /\ threads'[t].at \in {"release"}
    BY <1>3, Goes DEF Complete, At, Moves, Finish
  <2>2. ThreadOK(t)'
    BY <1>3, <2>1
    DEF Complete, Moves, Finish, Active, Ended, Typed, ThreadOK, Placed, Ordered,
        Turning, Undecided, Running
  <2>3. Mine(t)
    BY <1>3, <2>1
    DEF Complete, Moves, Finish, Active, Ended, Typed, ThreadOK, Placed, Turning,
        Undecided, Running, RunOK, Asked, Deciding, Pending, AtRest, Settled
  <2> QED
    BY <2>2, <2>3
<1>4. ASSUME Check(t)
      PROVE  ThreadOK(t)' /\ Mine(t)
  <2>1. ThreadOK(t)'
    <3>1. Placed(t)'
      BY <1>4, CheckDoes
      DEF Carried, Moves, Records, Changes, Placed, Running
    <3>2. Ordered(t)'
      BY <1>4, CheckDoes
      DEF Carried, Moves, Records, Changes, ThreadOK, Placed, Ordered, Turning,
          Undecided, Running
    <3>3. Turning(t)'
      BY <1>4, CheckDoes, SMTT(30)
      DEF Carried, Moves, Records, Changes, ThreadOK, Placed, Ordered, Turning,
          Undecided, Running
    <3> QED
      BY <3>1, <3>2, <3>3 DEF ThreadOK
  <2>2. Mine(t)
    BY <1>4, CheckDoes
    DEF Carried, Moves, Records, Changes, ThreadOK, Placed, RunOK, Asked, Deciding,
        Pending, AtRest, Settled, Running
  <2> QED
    BY <2>1, <2>2
<1>5. ASSUME Mark(t)
      PROVE  ThreadOK(t)' /\ Mine(t)
  <2>1. ThreadOK(t)'
    <3>1. Placed(t)'
      BY <1>5, MarkDoes
      DEF Carried, Moves, Records, Changes, MayStart, RunOK, Asked, Placed, Running
    <3>2. Ordered(t)'
      BY <1>5, MarkDoes
      DEF Carried, Moves, Records, Changes, MayStart, RunOK, Asked, ThreadOK, Placed,
          Ordered, Turning, Undecided, Running
    <3>3. Turning(t)'
      BY <1>5, MarkDoes, SMTT(30)
      DEF Carried, Moves, Records, Changes, MayStart, RunOK, Asked, ThreadOK, Placed,
          Ordered, Turning, Undecided, Running
    <3> QED
      BY <3>1, <3>2, <3>3 DEF ThreadOK
  <2>2. Mine(t)
    BY <1>5, MarkDoes
    DEF Carried, Moves, Records, Changes, MayStart, RunOK, Asked, Deciding, Pending,
        AtRest, Settled, Running
  <2> QED
    BY <2>1, <2>2
<1>6. ASSUME Invoke(t)
      PROVE  ThreadOK(t)' /\ Mine(t)
  <2>1. ThreadOK(t)'
    BY <1>6, InvokeDoes
    DEF Carried, Moves, ThreadOK, Placed, Ordered, Turning, Undecided, Running
  <2>2. Mine(t)
    BY <1>6, InvokeDoes
    DEF Carried, Moves, RunOK, Asked, Deciding, Pending, AtRest, Settled, Running
  <2> QED
    BY <2>1, <2>2
<1>7. ASSUME FinishTool(t)
      PROVE  ThreadOK(t)' /\ Mine(t)
  <2>1. ThreadOK(t)'
    <3>1. Placed(t)'
      BY <1>7, FinishDoes
      DEF Carried, Moves, Records, Changes, Batch, RunOK, Asked, Placed, Running
    <3>2. Ordered(t)'
      BY <1>7, FinishDoes
      DEF Carried, Moves, Records, Changes, Batch, RunOK, Asked, ThreadOK, Placed,
          Ordered, Turning, Undecided, Running
    <3>3. Turning(t)'
      BY <1>7, FinishDoes, SMTT(30)
      DEF Carried, Moves, Records, Changes, Batch, RunOK, Asked, ThreadOK, Placed,
          Ordered, Turning, Undecided, Running
    <3> QED
      BY <3>1, <3>2, <3>3 DEF ThreadOK
  <2>2. Mine(t)
    BY <1>7, FinishDoes
    DEF Carried, Moves, Records, Changes, Batch, RunOK, Asked, RunOK, Asked, Deciding,
        Pending, AtRest, Settled, Running
  <2> QED
    BY <2>1, <2>2
<1>8. ASSUME Fail(t)
      PROVE  ThreadOK(t)' /\ Mine(t)
  <2>1. ThreadOK(t)'
    <3>1. Placed(t)'
      BY <1>8, FailDoes
      DEF Carried, Moves, Records, Changes, Pending, Placed, Running
    <3>2. Ordered(t)'
      BY <1>8, FailDoes
      DEF Carried, Moves, Records, Changes, Pending, ThreadOK, Placed, Ordered,
          Turning, Undecided, Running
    <3>3. Turning(t)'
      BY <1>8, FailDoes
      DEF Carried, Moves, Records, Changes, Pending, ThreadOK, Placed, Ordered,
          Turning, Undecided, Running
    <3> QED
      BY <3>1, <3>2, <3>3 DEF ThreadOK
  <2>2. Mine(t)
    BY <1>8, FailDoes
    DEF Carried, Moves, Records, Changes, Pending, RunOK, Asked, Deciding, Pending,
        AtRest, Settled, Running
  <2> QED
    BY <2>1, <2>2
<1>9. ASSUME FailRun(t)
      PROVE  ThreadOK(t)' /\ Mine(t)
  <2>1. Moves(t, threads'[t].at) /\ threads'[t].at \in {"release"}
    BY <1>9, Goes DEF FailRun, At, Moves, Finish
  <2>2. ThreadOK(t)'
    BY <1>9, <2>1
    DEF FailRun, Moves, Finish, Active, Ended, Typed, ThreadOK, Placed, Ordered,
        Turning, Undecided, Running
  <2>3. Mine(t)
    BY <1>9, <2>1
    DEF FailRun, Moves, Finish, Active, Ended, Typed, ThreadOK, Placed, Turning,
        Undecided, Running, RunOK, Asked, Deciding, Pending, AtRest, Settled
  <2> QED
    BY <2>2, <2>3
<1>10. ASSUME Release(t)
       PROVE  ThreadOK(t)' /\ Mine(t)
  <2>1. ThreadOK(t)'
    BY <1>10, HarnessAssumption
    DEF Release, Idle, Typed, ThreadOK, Placed, Ordered, Turning, Undecided, Running
  <2>2. Mine(t)
    BY <1>10 DEF Release, RunOK, Asked, Deciding, Pending, AtRest, Settled
  <2> QED
    BY <2>1, <2>2
<1>11. ASSUME Raise(t)
       PROVE  ThreadOK(t)' /\ Mine(t)
  <2>1. Moves(t, threads'[t].at) /\ threads'[t].at \in {"raised"}
    BY <1>11, Goes DEF Raise, At, Moves
  <2>2. ThreadOK(t)'
    BY <1>11, <2>1
    DEF Raise, Moves, Active, Ended, Typed, ThreadOK, Placed, Ordered, Turning,
        Undecided, Running
  <2>3. Mine(t)
    BY <1>11, <2>1
    DEF Raise, Moves, Active, Ended, Typed, ThreadOK, Placed, Turning, Undecided,
        Running, RunOK, Asked, Deciding, Pending, AtRest, Settled
  <2> QED
    BY <2>2, <2>3
<1>12. ASSUME Refuse(t)
       PROVE  ThreadOK(t)' /\ Mine(t)
  <2>1. Moves(t, threads'[t].at) /\ threads'[t].at \in {"failing"}
    BY <1>12, Goes DEF Refuse, At, Moves
  <2>2. ThreadOK(t)'
    BY <1>12, <2>1
    DEF Refuse, Moves, Active, Ended, Typed, ThreadOK, Placed, Ordered, Turning,
        Undecided, Running
  <2>3. Mine(t)
    BY <1>12, <2>1
    DEF Refuse, Moves, Active, Ended, Typed, ThreadOK, Placed, Turning, Undecided,
        Running, RunOK, Asked, Deciding, Pending, AtRest, Settled
  <2> QED
    BY <2>2, <2>3
<1>13. ASSUME Stumble(t)
       PROVE  ThreadOK(t)' /\ Mine(t)
  <2>1. Moves(t, threads'[t].at) /\ threads'[t].at \in {"raised", "failing"}
    BY <1>13, Goes DEF Stumble, At, Moves, Fault
  <2>2. ThreadOK(t)'
    BY <1>13, <2>1, ZenonT(40)
    DEF Stumble, Moves, Fault, Active, Ended, Typed, ThreadOK, Placed, Ordered, Turning,
        Undecided, Running
  <2>3. Mine(t)
    BY <1>13, <2>1
    DEF Stumble, Moves, Fault, Active, Ended, Typed, ThreadOK, Placed, Turning,
        Undecided, Running, RunOK, Asked, Deciding, Pending, AtRest, Settled
  <2> QED
    BY <2>2, <2>3
<1>14. ASSUME Die(t)
       PROVE  ThreadOK(t)' /\ Mine(t)
  <2>1. threads'[t].run = None /\ threads'[t].at = "dead"
    BY <1>14 DEF Die, Idle, Typed
  <2>2. ThreadOK(t)'
    BY <2>1, HarnessAssumption DEF ThreadOK, Placed, Ordered, Turning, Running
  <2>3. Mine(t)
    BY <1>14 DEF Die, RunOK, Asked, Deciding, Pending, AtRest, Settled
  <2> QED
    BY <2>2, <2>3
<1> QED
  BY <1>1, <1>2, <1>3, <1>4, <1>5, <1>6, <1>7, <1>8, <1>9, <1>10,
     <1>11, <1>12, <1>13, <1>14 DEF Moving

-----------------------------------------------------------------------------
(***************************************************************************)
(* Every step keeps the threads and the runs as they should be.            *)
(***************************************************************************)
Safe ==
  /\ Typed /\ Hands /\ Cardinality(queue) <= QueueLimit
  /\ \A t \in Thread : ThreadOK(t)
  /\ \A r \in Run : RunOK(r)

Sound ==
  /\ Hands' /\ Cardinality(queue') <= QueueLimit
  /\ \A t \in Thread : ThreadOK(t)'
  /\ \A r \in Run : RunOK(r)'

\* A queue that loses runs stays within its limit.
LEMMA Shorter ==
  ASSUME Safe, queue' \subseteq queue
  PROVE  Cardinality(queue') <= QueueLimit
<1>1. IsFiniteSet(queue)
  BY HarnessAssumption, FS_Subset DEF Safe, Typed
<1>2. IsFiniteSet(queue') /\ Cardinality(queue') <= Cardinality(queue)
  BY <1>1, FS_Subset
<1> QED
  BY <1>1, <1>2, FS_CardinalityType, HarnessAssumption DEF Safe

\* The steps of a thread that has a run.
LEMMA MovingSound ==
  ASSUME Safe, NEW t \in Thread, Moving(t)
  PROVE  Sound
<1>1. Keeps(t)
  BY MovingKeeps DEF Safe, ThreadOK
<1>2. ThreadOK(t)' /\ Mine(t)
  BY MovingOwn DEF Safe
<1>3. Hands' /\ Cardinality(queue') <= QueueLimit
  BY <1>1, KeptHands, Shorter DEF Safe, Keeps, Frame
<1>4. ASSUME NEW u \in Thread \ {t}
      PROVE  ThreadOK(u)'
  <2>1. threads[t].run \in Run \union {None} /\ threads[u].run \in Run \union {None}
    BY DEF Safe, Typed, ThreadRecord
  <2>2. threads[u].run \in (Run \ {threads[t].run}) \union {None}
    BY <2>1 DEF Safe, Hands
  <2> QED
    BY <1>1, <2>1, <2>2, OtherThreads DEF Safe, Keeps
<1>5. ASSUME NEW q \in Run
      PROVE  RunOK(q)'
  <2>1. CASE q = threads[t].run
    BY <1>2, <2>1 DEF Mine
  <2>2. CASE q # threads[t].run
    <3>1. runs'[q] = runs[q] /\ \A c \in CallId : calls'[q][c] = calls[q][c]
      BY <1>1, <2>2 DEF Keeps, Frame
    <3> QED
      BY <3>1, OtherRuns DEF Safe
  <2> QED
    BY <2>1, <2>2
<1> QED
  BY <1>2, <1>3, <1>4, <1>5 DEF Sound

\* A thread takes up a run that nobody holds, with nothing under way.
LEMMA ClaimSound ==
  ASSUME Safe, NEW t \in Thread, NEW r \in Run, Claim(t, r)
  PROVE  Sound
<1> USE DEF Carrying, AtWork, Open
<1>1. /\ Others(t) /\ threads'[t].run = r
      /\ threads[t].at = "idle" /\ r \in queue /\ queue' = queue \ {r}
      /\ \/ /\ runs[r] # "queued" /\ threads'[t].at = "release" /\ UNCHANGED runs
         \/ /\ runs[r] = "queued" /\ runs' = [runs EXCEPT ![r] = "running"]
            /\ \/ threads'[t].at = "plan" /\ Batch(r) = {}
               \/ threads'[t].at = "check" /\ threads'[t].call \in Batch(r)
      /\ UNCHANGED <<calls, log, wanted, faults>>
  BY ClaimDoes DEF Safe
<1>2. Frame(t, r)
  BY <1>1 DEF Frame, Safe, Typed
<1>3. \A u \in Thread : threads[u].run # r
  BY <1>1, HarnessAssumption DEF Safe, Hands
<1>4. Hands'
  BY <1>1, <1>3 DEF Safe, Hands, Others
<1>5. Cardinality(queue') <= QueueLimit
  BY <1>1, Shorter
<1>6. ThreadOK(t)'
  <2>1. CASE runs[r] # "queued"
    BY <1>1, <2>1, HarnessAssumption DEF ThreadOK, Placed, Ordered, Turning
  <2>2. CASE runs[r] = "queued"
    <3>1. RunOK(r) /\ runs'[r] = "running"
      BY <1>1, <2>2 DEF Safe, Typed
    <3> QED
      BY <1>1, <2>2, <3>1, HarnessAssumption
      DEF ThreadOK, Placed, Ordered, Turning, RunOK, Asked, AtRest, Deciding, Pending,
          Batch, Undecided, Running, Safe, Typed, CallRecord
  <2> QED
    BY <2>1, <2>2
<1>7. ASSUME NEW u \in Thread \ {t}
      PROVE  ThreadOK(u)'
  <2>1. threads[u].run \in (Run \ {r}) \union {None}
    BY <1>3 DEF Safe, Typed, ThreadRecord
  <2> QED
    BY <1>2, <2>1, OtherThreads DEF Safe
<1>8. ASSUME NEW q \in Run
      PROVE  RunOK(q)'
  <2>1. CASE q = r
    BY <1>1, <2>1 DEF RunOK, Asked, Deciding, Pending, AtRest, Settled, Safe, Typed
  <2>2. CASE q # r
    <3>1. runs'[q] = runs[q] /\ \A c \in CallId : calls'[q][c] = calls[q][c]
      BY <1>2, <2>2 DEF Frame
    <3> QED
      BY <3>1, OtherRuns DEF Safe
  <2> QED
    BY <2>1, <2>2
<1> QED
  BY <1>4, <1>5, <1>6, <1>7, <1>8 DEF Sound

\* What people do concerns one run, which no thread is carrying out.
LEMMA PeopleSound ==
  ASSUME Safe, NEW r \in Run, UNCHANGED <<queue, threads>>,
         \A q \in Run \ {r} :
           runs'[q] = runs[q] /\ \A c \in CallId : calls'[q][c] = calls[q][c],
         RunOK(r)',
         \A t \in Thread : threads[t].run = r => ThreadOK(t)'
  PROVE  Sound
<1>1. ASSUME NEW u \in Thread
      PROVE  ThreadOK(u)'
  <2>1. CASE threads[u].run = r
    BY <2>1
  <2>2. CASE threads[u].run = None
    BY <2>2 DEF Safe, ThreadOK, Placed, Ordered, Turning, Carrying, AtWork
  <2>3. CASE threads[u].run \in Run \ {r}
    <3>1. /\ runs'[threads[u].run] = runs[threads[u].run]
          /\ \A c \in CallId : calls'[threads[u].run][c] = calls[threads[u].run][c]
      BY <2>3
    <3>2. Placed(u)'
      BY <3>1 DEF Safe, ThreadOK, Placed
    <3>3. Ordered(u)'
      BY <3>1, SMTT(30) DEF Safe, ThreadOK, Placed, Ordered, Carrying, Running
    <3>4. Turning(u)'
      BY <3>1 DEF Safe, ThreadOK, Placed, Turning, Undecided, Running
    <3> QED
      BY <3>2, <3>3, <3>4 DEF ThreadOK
  <2> QED
    BY <2>1, <2>2, <2>3 DEF Safe, Typed, ThreadRecord
<1>2. ASSUME NEW q \in Run
      PROVE  RunOK(q)'
  <2>1. CASE q = r
    BY <2>1
  <2>2. CASE q # r
    BY <2>2, OtherRuns DEF Safe
  <2> QED
    BY <2>1, <2>2
<1> QED
  BY <1>1, <1>2 DEF Sound, Safe, Hands

\* A new run has no calls.
LEMMA CreateSound ==
  ASSUME Safe, NEW r \in Run, Create(r)
  PROVE  Sound
<1>1. runs'[r] = "queued" /\ \A q \in Run \ {r} : runs'[q] = runs[q]
  BY DEF Create, SetRun, Safe, Typed
<1>2. RunOK(r)'
  BY <1>1 DEF Create, Safe, RunOK, Asked, Deciding, Pending, AtRest, Settled, Open
<1>3. ASSUME NEW t \in Thread, threads[t].run = r
      PROVE  ThreadOK(t)'
  <2>1. threads[t].at \notin AtWork
    BY <1>3 DEF Create, Safe, ThreadOK, Placed, Ended
  <2> QED
    BY <1>3, <2>1 DEF Create, Safe, ThreadOK, Placed, Ordered, Turning, AtWork, Carrying
<1> QED
  BY <1>1, <1>2, <1>3, PeopleSound DEF Create

\* A cancel finds no write under way (_mutation_lock), and leaves nothing waiting.
LEMMA CancelSound ==
  ASSUME Safe, NEW r \in Run, Cancel(r)
  PROVE  Sound
<1>1. runs'[r] = "cancelled" /\ \A q \in Run \ {r} : runs'[q] = runs[q]
  BY DEF Cancel, SetRun, Safe, Typed
<1>2. /\ \A c \in CallId : calls'[r][c] = Cancelled(calls[r][c])
      /\ \A q \in Run \ {r}, c \in CallId : calls'[q][c] = calls[q][c]
  BY DEF Cancel, Safe, Typed
<1>3. ASSUME NEW c \in CallId
      PROVE  /\ calls'[r][c].kind = calls[r][c].kind
             /\ calls'[r][c].approval # "none" <=> calls[r][c].approval # "none"
             /\ calls'[r][c].status # "waiting"
  <2>1. calls[r][c] \in CallRecord
    BY DEF Safe, Typed
  <2> QED
    BY <1>2, <2>1, ZenonT(40) DEF Cancelled, CallRecord
<1>4. RunOK(r)'
  BY <1>1, <1>3 DEF Safe, RunOK, Asked, Deciding, Pending, AtRest, Settled
<1>5. ASSUME NEW t \in Thread, threads[t].run = r
      PROVE  ThreadOK(t)'
  <2>1. threads[t].at # "invoke"
    BY <1>5 DEF Cancel, Locked, Safe, ThreadOK, Ordered
  <2> QED
    BY <1>1, <1>5, <2>1
    DEF Cancel, Safe, ThreadOK, Placed, Ordered, Turning, Running, Ended
<1> QED
  BY <1>1, <1>2, <1>4, <1>5, PeopleSound DEF Cancel

\* The last decision leaves nothing pending in the run it puts back.
LEMMA DecideSound ==
  ASSUME Safe, NEW r \in Run, NEW c \in CallId,
         NEW decision \in {"approved", "rejected"}, Decide(r, c, decision)
  PROVE  Sound
<1>1. /\ Changes(r, c)
      /\ calls'[r][c].kind = calls[r][c].kind
      /\ calls'[r][c].approval = decision
      /\ calls'[r][c].status =
           IF decision = "rejected" THEN "rejected" ELSE calls[r][c].status
  BY DecideDoes DEF Safe
<1>2. /\ runs'[r] = IF Pending(r) = {c} THEN "queued" ELSE "waiting"
      /\ \A q \in Run \ {r} : runs'[q] = runs[q]
  BY DEF Decide, SetRun, Safe, Typed
<1>3. RunOK(r)'
  <2>1. Asked(r)'
    BY <1>1 DEF Decide, Changes, Pending, Safe, RunOK, Asked
  <2>2. Pending(r)' = Pending(r) \ {c}
    BY <1>1 DEF Changes, Pending
  <2>3. Deciding(r)' /\ Settled(r)'
    BY <1>2, <2>2 DEF Deciding, Settled
  <2>4. AtRest(r)'
    BY <1>1 DEF Decide, Changes, Safe, RunOK, AtRest, Open
  <2> QED
    BY <2>1, <2>3, <2>4 DEF RunOK
<1>4. ASSUME NEW t \in Thread, threads[t].run = r
      PROVE  ThreadOK(t)'
  <2>1. threads[t].at \notin AtWork
    BY <1>4 DEF Decide, Safe, ThreadOK, Placed, Ended
  <2> QED
    BY <1>4, <2>1 DEF Decide, Safe, ThreadOK, Placed, Ordered, Turning, AtWork, Carrying
<1>5. \A q \in Run \ {r} :
        runs'[q] = runs[q] /\ \A d \in CallId : calls'[q][d] = calls[q][d]
  BY <1>1, <1>2 DEF Changes
<1> QED
  BY <1>3, <1>4, <1>5, PeopleSound DEF Decide

\* _scheduled keeps a run out of the queue that a thread holds.
LEMMA ScheduleSound ==
  ASSUME Safe, NEW r \in Run, Schedule(r)
  PROVE  Sound
<1>1. CASE UNCHANGED <<runs, queue>>
  <2>1. Hands' /\ Cardinality(queue') <= QueueLimit
    BY <1>1 DEF Schedule, Safe, Hands
  <2>2. ASSUME NEW t \in Thread
        PROVE  ThreadOK(t)'
    BY <1>1 DEF Schedule, Safe, ThreadOK, Placed, Ordered, Turning, Running
  <2>3. ASSUME NEW q \in Run
        PROVE  RunOK(q)'
    BY <1>1 DEF Schedule, Safe, RunOK, Asked, Deciding, Pending, AtRest, Settled
  <2> QED
    BY <2>1, <2>2, <2>3 DEF Sound
<1>2. CASE r \notin Scheduled /\ Finish(r, "failed") /\ UNCHANGED queue
  <2>1. /\ runs'[r] = (IF r \in Active THEN "failed" ELSE runs[r])
        /\ \A q \in Run \ {r} : runs'[q] = runs[q]
    BY <1>2 DEF Finish, Safe, Typed
  <2>2. \A t \in Thread : threads[t].run # r
    BY <1>2, HarnessAssumption DEF Scheduled
  <2>3. RunOK(r)'
    BY <2>1 DEF Schedule, Safe, RunOK, Asked, Deciding, Pending, AtRest, Settled
  <2> QED
    BY <1>2, <2>1, <2>2, <2>3, PeopleSound DEF Schedule
<1>3. CASE /\ r \notin Scheduled /\ Cardinality(queue) < QueueLimit
           /\ queue' = queue \union {r} /\ UNCHANGED runs
  <2>1. Cardinality(queue') <= QueueLimit
    <3>1. IsFiniteSet(queue)
      BY HarnessAssumption, FS_Subset DEF Safe, Typed
    <3>2. Cardinality(queue \union {r}) =
            IF r \in queue THEN Cardinality(queue) ELSE Cardinality(queue) + 1
      BY <3>1, FS_AddElement
    <3>3. Cardinality(queue) \in Nat
      BY <3>1, FS_CardinalityType
    <3> QED
      BY <1>3, <3>2, <3>3, HarnessAssumption
  <2>2. \A t \in Thread : threads[t].run # r
    BY <1>3, HarnessAssumption DEF Scheduled
  <2>3. Hands'
    BY <1>3, <2>2 DEF Schedule, Safe, Hands
  <2>4. ASSUME NEW t \in Thread
        PROVE  ThreadOK(t)'
    BY <1>3 DEF Schedule, Safe, ThreadOK, Placed, Ordered, Turning, Running
  <2>5. ASSUME NEW q \in Run
        PROVE  RunOK(q)'
    BY <1>3 DEF Schedule, Safe, RunOK, Asked, Deciding, Pending, AtRest, Settled
  <2> QED
    BY <2>1, <2>3, <2>4, <2>5 DEF Sound
<1>4. Cardinality(queue) < QueueLimit \/ Cardinality(queue) >= QueueLimit
  <2>1. IsFiniteSet(queue)
    BY HarnessAssumption, FS_Subset DEF Safe, Typed
  <2> QED
    BY <2>1, FS_CardinalityType, HarnessAssumption
<1> QED
  BY <1>1, <1>2, <1>3, <1>4 DEF Schedule

\* recover_interrupted settles what was running or waiting.
LEMMA RestartSound ==
  ASSUME Safe, Restart
  PROVE  Sound
<1>1. \A t \in Thread : threads'[t].at = "idle" /\ threads'[t].run = None
  BY DEF Restart, Idle
<1>2. Hands' /\ \A t \in Thread : ThreadOK(t)'
  BY <1>1 DEF Hands, ThreadOK, Placed, Ordered, Turning, Carrying, AtWork
<1>3. Cardinality(queue') <= QueueLimit
  BY Shorter DEF Restart
<1>4. ASSUME NEW r \in Run
      PROVE  RunOK(r)'
  <2>1. runs'[r] = IF runs[r] \in {"running", "waiting"} THEN "failed" ELSE runs[r]
    BY DEF Restart
  <2>2. ASSUME NEW c \in CallId
        PROVE  /\ calls'[r][c].kind = calls[r][c].kind
               /\ calls'[r][c].approval # "none" <=> calls[r][c].approval # "none"
               /\ calls'[r][c].status = "waiting" => calls[r][c].status = "waiting"
               /\ runs[r] \notin {"running", "waiting"} => calls'[r][c] = calls[r][c]
    <3>1. calls[r][c] \in CallRecord
      BY DEF Safe, Typed
    <3>2. CASE runs[r] = "running"
      BY <3>1, <3>2 DEF Restart, Interrupted, CallRecord
    <3>3. CASE runs[r] = "waiting"
      BY <3>1, <3>3 DEF Restart, Invalidated, CallRecord
    <3>4. CASE runs[r] \notin {"running", "waiting"}
      BY <3>4 DEF Restart
    <3> QED
      BY <3>2, <3>3, <3>4
  <2>3. RunOK(r)
    BY DEF Safe
  <2> QED
    BY <2>1, <2>2, <2>3 DEF RunOK, Asked, Deciding, Pending, AtRest, Settled
<1> QED
  BY <1>2, <1>3, <1>4 DEF Sound

\* A person's edit concerns no run.
LEMMA EditSound ==
  ASSUME Safe, Edit
  PROVE  Sound
<1>1. UNCHANGED <<runs, calls, queue, threads>>
  BY DEF Edit
<1>2. Hands' /\ Cardinality(queue') <= QueueLimit
  BY <1>1 DEF Safe, Hands
<1>3. ASSUME NEW t \in Thread
      PROVE  ThreadOK(t)'
  BY <1>1 DEF Safe, ThreadOK, Placed, Ordered, Turning, Running
<1>4. ASSUME NEW r \in Run
      PROVE  RunOK(r)'
  BY <1>1 DEF Safe, RunOK, Asked, Deciding, Pending, AtRest, Settled
<1> QED
  BY <1>2, <1>3, <1>4 DEF Sound

\* Every step keeps the threads and the runs as they should be.
LEMMA NextSound ==
  ASSUME Safe, Next
  PROVE  Sound /\ Typed'
<1>1. Typed'
  BY StepTyped DEF Safe, ThreadOK
<1>2. ASSUME NEW t \in Thread, Worker(t)
      PROVE  Sound
  BY <1>2, MovingSound, ClaimSound DEF Worker, Work, Moving
<1>3. ASSUME Edit PROVE Sound
  BY <1>3, EditSound
<1>4. ASSUME NEW r \in Run,
             \/ Create(r) \/ Cancel(r) \/ Schedule(r)
             \/ \E c \in CallId, decision \in {"approved", "rejected"} :
                  Decide(r, c, decision)
      PROVE  Sound
  BY <1>4, CreateSound, CancelSound, DecideSound, ScheduleSound
<1> QED
  BY <1>1, <1>2, <1>3, <1>4, RestartSound DEF Next, People

-----------------------------------------------------------------------------
(***************************************************************************)
(* What was written stays approved, and is not refused or cancelled.       *)
(***************************************************************************)
\* A call that wrote revision i + 1 of the draft.
Wrote(k, i) ==
  /\ k.approval = "approved" /\ k.revision = i
  /\ k.status \in {"running", "succeeded", "failed"}
  /\ k.status = "failed" => k.code \in {"failed", "unknown"}

\* The property, said with Wrote.
LEMMA Written ==
  WrittenAsApproved <=>
    \A i \in 1..Len(log) : log[i] # Person => Wrote(calls[log[i][1]][log[i][2]], i)
BY DEF WrittenAsApproved, Wrote

Lasting ==
  \A r \in Run, c \in CallId, i \in Nat :
    Wrote(calls[r][c], i) => Wrote(calls'[r][c], i)

\* The entries that are not a person's name a call.
LEMMA Entry ==
  ASSUME Typed, NEW i \in 1..Len(log), log[i] # Person
  PROVE  log[i][1] \in Run /\ log[i][2] \in CallId
<1>1. log[i] \in Run \X CallId
  BY DEF Typed, Author
<1> QED
  BY <1>1

\* What was written stays so when the calls last and only a person writes.
LEMMA LogKept ==
  ASSUME Typed, WrittenAsApproved, Lasting,
         log' = log \/ log' = Append(log, Person)
  PROVE  WrittenAsApproved'
<1> SUFFICES ASSUME NEW i \in 1..Len(log'), log'[i] # Person
             PROVE  Wrote(calls'[log'[i][1]][log'[i][2]], i)
  BY DEF WrittenAsApproved, Wrote
<1>1. i \in 1..Len(log) /\ log'[i] = log[i]
  BY DEF Typed
<1>2. Wrote(calls[log[i][1]][log[i][2]], i)
  BY <1>1, Written
<1>3. log[i][1] \in Run /\ log[i][2] \in CallId
  BY <1>1, Entry
<1> QED
  BY <1>1, <1>2, <1>3 DEF Lasting

\* A new status keeps what was written, unless the call was still waiting.
LEMMA RecordsLast ==
  ASSUME NEW r \in Run, NEW c \in CallId, NEW status, NEW code,
         Records(r, c, status, code),
         \/ status \in {"running", "succeeded"}
         \/ status = "failed" /\ code \in {"failed", "unknown"}
         \/ calls[r][c].status = "waiting"
  PROVE  Lasting
BY DEF Lasting, Records, Changes, Wrote

\* Calls that do not change last.
LEMMA SameLasts ==
  ASSUME UNCHANGED calls
  PROVE  Lasting
BY DEF Lasting

\* A thread never plans over a call that wrote, nor calls it stale.
LEMMA MovingLasts ==
  ASSUME Safe, NEW t \in Thread, Moving(t)
  PROVE  Lasting
<1>1. Typed /\ Placed(t) /\ ThreadOK(t) /\ \A r \in Run : RunOK(r)
  BY DEF Safe, ThreadOK
<1>2. ASSUME NEW c \in CallId, NEW kind \in {"read", "write"}, Plan(t, c, kind)
      PROVE  Lasting
  <2>1. PICK r \in Run : Changes(r, c) /\ IsNext(r, c)
    BY <1>1, <1>2, PlanDoes
  <2>2. calls[r][c].kind = "none"
    BY <2>1 DEF IsNext, CallId
  <2>3. calls[r][c].approval = "none"
    BY <1>1, <2>2 DEF RunOK, Asked
  <2> QED
    BY <2>1, <2>3 DEF Lasting, Changes, Wrote
<1>3. CASE Check(t)
  <2>1. PICK r \in Run, c \in CallId :
          /\ Carried(t, r, c) /\ threads[t].at = "check"
          /\ \/ UNCHANGED calls
             \/ /\ Running(r) /\ calls[r][c].kind = "write"
                /\ Records(r, c, "failed", "stale")
    BY <1>1, <1>3, CheckDoes
  <2>2. CASE UNCHANGED calls
    BY <2>2, SameLasts
  <2>3. CASE Running(r) /\ calls[r][c].kind = "write" /\ Records(r, c, "failed", "stale")
    <3>1. calls[r][c].status = "waiting"
      BY <1>1, <2>1, <2>3 DEF ThreadOK, Ordered, Carried
    <3> QED
      BY <2>3, <3>1, RecordsLast
  <2> QED
    BY <2>1, <2>2, <2>3
<1>4. CASE Mark(t)
  <2>1. PICK r \in Run, c \in CallId :
          UNCHANGED calls \/ Records(r, c, "running", calls[r][c].code)
    BY <1>1, <1>4, MarkDoes
  <2> QED
    BY <2>1, RecordsLast, SameLasts
<1>5. CASE FinishTool(t)
  <2>1. PICK r \in Run, c \in CallId :
          UNCHANGED calls \/ Records(r, c, "succeeded", calls[r][c].code)
    BY <1>1, <1>5, FinishDoes
  <2> QED
    BY <2>1, RecordsLast, SameLasts
<1>6. CASE Fail(t)
  <2>1. PICK r \in Run, c \in CallId :
          UNCHANGED calls \/ Records(r, c, "failed", "failed")
    BY <1>1, <1>6, FailDoes
  <2> QED
    BY <2>1, RecordsLast, SameLasts
<1>7. CASE UNCHANGED calls
  BY <1>7, SameLasts
<1> QED
  BY <1>2, <1>3, <1>4, <1>5, <1>6, <1>7
  DEF Moving, Suspend, Complete, Invoke, FailRun, Release, Raise, Refuse, Stumble, Die

\* A cancel is refused once a write has begun, and decisions come before.
LEMMA PeopleLast ==
  ASSUME Safe, People
  PROVE  Lasting
<1>1. ASSUME NEW r \in Run, Cancel(r)
      PROVE  Lasting
  <2>1. /\ \A c \in CallId : calls'[r][c] = Cancelled(calls[r][c])
        /\ \A q \in Run \ {r}, c \in CallId : calls'[q][c] = calls[q][c]
    BY <1>1 DEF Cancel, Safe, Typed
  <2>2. ASSUME NEW c \in CallId, NEW i \in Nat, Wrote(calls[r][c], i)
        PROVE  Wrote(calls'[r][c], i)
    <3>1. calls[r][c].status = "failed"
      BY <1>1, <2>2 DEF Cancel, Begun, Wrote
    <3>2. calls[r][c] \in CallRecord
      BY DEF Safe, Typed
    <3> QED
      BY <2>1, <2>2, <3>1, <3>2 DEF Cancelled, Wrote, CallRecord
  <2> QED
    BY <2>1, <2>2 DEF Lasting
<1>2. ASSUME NEW r \in Run, NEW c \in CallId,
             NEW decision \in {"approved", "rejected"}, Decide(r, c, decision)
      PROVE  Lasting
  <2>1. Changes(r, c)
    BY <1>2, DecideDoes DEF Safe
  <2>2. calls[r][c].approval = "pending"
    BY <1>2 DEF Decide, Pending
  <2> QED
    BY <2>1, <2>2 DEF Lasting, Changes, Wrote
<1> QED
  BY <1>1, <1>2, SameLasts DEF People, Create, Edit

\* A restart reports a write that had begun as of unknown outcome.
LEMMA RestartLasts ==
  ASSUME Safe, Restart
  PROVE  Lasting
<1> SUFFICES ASSUME NEW r \in Run, NEW c \in CallId, NEW i \in Nat, Wrote(calls[r][c], i)
             PROVE  Wrote(calls'[r][c], i)
  BY DEF Lasting
<1>1. calls[r][c] \in CallRecord
  BY DEF Safe, Typed
<1>2. CASE runs[r] = "running"
  BY <1>1, <1>2 DEF Restart, Interrupted, Wrote, CallRecord
<1>3. CASE runs[r] = "waiting"
  BY <1>1, <1>3 DEF Restart, Invalidated, Wrote, CallRecord
<1>4. CASE runs[r] \notin {"running", "waiting"}
  BY <1>4 DEF Restart
<1> QED
  BY <1>2, <1>3, <1>4

\* The one step that writes finds its call as it was approved.
LEMMA InvokeWrites ==
  ASSUME Safe, WrittenAsApproved, NEW t \in Thread, Invoke(t)
  PROVE  WrittenAsApproved'
<1>1. PICK r \in Run, c \in CallId :
        /\ Carried(t, r, c) /\ threads[t].at = "invoke"
        /\ \/ Current(calls[r][c]) /\ log' = Append(log, <<r, c>>)
           \/ UNCHANGED log
        /\ UNCHANGED calls
  BY InvokeDoes DEF Safe, ThreadOK
<1>2. CASE UNCHANGED log
  BY <1>1, <1>2, LogKept, SameLasts DEF Safe
<1>3. CASE Current(calls[r][c]) /\ log' = Append(log, <<r, c>>)
  <2>1. Wrote(calls[r][c], Len(log) + 1)
    BY <1>1, <1>3 DEF Safe, ThreadOK, Ordered, Carried, Current, Revision, Wrote
  <2> SUFFICES ASSUME NEW i \in 1..Len(log'), log'[i] # Person
               PROVE  Wrote(calls[log'[i][1]][log'[i][2]], i)
    BY <1>1 DEF WrittenAsApproved, Wrote
  <2>2. CASE i = Len(log) + 1
    <3>1. log'[i] = <<r, c>>
      BY <1>3, <2>2 DEF Safe, Typed
    <3> QED
      BY <2>1, <2>2, <3>1
  <2>3. CASE i \in 1..Len(log)
    <3>1. log'[i] = log[i]
      BY <1>3, <2>3 DEF Safe, Typed
    <3> QED
      BY <2>3, <3>1, Written
  <2>4. i \in 1..Len(log) + 1
    BY <1>3 DEF Safe, Typed
  <2> QED
    BY <2>2, <2>3, <2>4 DEF Safe, Typed
<1> QED
  BY <1>1, <1>2, <1>3

\* Every step keeps what was written as it was approved.
LEMMA NextWrites ==
  ASSUME Safe, WrittenAsApproved, Next
  PROVE  WrittenAsApproved'
<1>1. ASSUME NEW t \in Thread, Invoke(t)
      PROVE  WrittenAsApproved'
  BY <1>1, InvokeWrites
<1>2. ASSUME Lasting, log' = log \/ log' = Append(log, Person)
      PROVE  WrittenAsApproved'
  BY <1>2, LogKept DEF Safe
<1>3. CASE People
  BY <1>2, <1>3, PeopleLast DEF People, Create, Cancel, Decide, Edit
<1>4. CASE Restart
  BY <1>2, <1>4, RestartLasts DEF Restart
<1>5. ASSUME NEW r \in Run, Schedule(r)
      PROVE  WrittenAsApproved'
  BY <1>2, <1>5, SameLasts DEF Schedule
<1>6. ASSUME NEW t \in Thread, NEW r \in Run, Claim(t, r)
      PROVE  WrittenAsApproved'
  BY <1>2, <1>6, SameLasts DEF Claim
<1>7. ASSUME NEW t \in Thread, Moving(t), ~ Invoke(t)
      PROVE  WrittenAsApproved'
  <2>1. log' = log
    BY <1>7 DEF Moving, Plan, Suspend, Complete, Check, Mark, FinishTool, Fail, FailRun,
                Release, Raise, Refuse, Stumble, Die
  <2> QED
    BY <1>2, <1>7, <2>1, MovingLasts
<1> QED
  BY <1>1, <1>3, <1>4, <1>5, <1>6, <1>7 DEF Next, Worker, Work, Moving

-----------------------------------------------------------------------------
(***************************************************************************)
(* Nothing happens to a run that has ended.                                *)
(***************************************************************************)
Quiet(r) ==
  /\ runs'[r] = runs[r]
  /\ \A c \in CallId : calls'[r][c] = calls[r][c]

\* A thread whose run has ended changes neither the run nor its calls.
LEMMA MovingQuiet ==
  ASSUME Safe, NEW t \in Thread, Moving(t), NEW r \in Run, runs[r] \in Ended
  PROVE  Quiet(r)
<1>1. Typed /\ Placed(t) /\ Keeps(t) /\ ~ Running(r) /\ r \notin Active
  BY MovingKeeps DEF Safe, ThreadOK, Ended, Running, Active
<1>2. CASE threads[t].run # r
  BY <1>1, <1>2 DEF Keeps, Frame, Quiet
<1>3. CASE threads[t].run = r
  <2>1. ASSUME NEW c \in CallId, NEW kind \in {"read", "write"}, Plan(t, c, kind)
        PROVE  Quiet(r)
    BY <1>1, <1>3, <2>1 DEF Plan
  <2>2. CASE Suspend(t)
    BY <1>1, <1>3, <2>2 DEF Suspend, Quiet
  <2>3. CASE Complete(t) \/ FailRun(t)
    BY <1>1, <1>3, <2>3 DEF Complete, FailRun, Finish, Quiet
  <2>4. CASE Check(t)
    BY <1>1, <1>3, <2>4, CheckDoes DEF Carried, Quiet
  <2>5. CASE Mark(t)
    BY <1>1, <1>3, <2>5, MarkDoes DEF Carried, MayStart, Quiet
  <2>6. CASE FinishTool(t)
    BY <1>1, <1>3, <2>6, FinishDoes DEF Carried, Quiet
  <2>7. CASE Fail(t)
    BY <1>1, <1>3, <2>7, FailDoes DEF Carried, Quiet
  <2>8. CASE UNCHANGED <<runs, calls>>
    BY <2>8 DEF Quiet
  <2> QED
    BY <2>1, <2>2, <2>3, <2>4, <2>5, <2>6, <2>7, <2>8
    DEF Moving, Invoke, Release, Raise, Refuse, Stumble, Die
<1> QED
  BY <1>2, <1>3

\* No step changes a run that has ended.
LEMMA NextQuiet ==
  ASSUME Safe, Next, NEW r \in Run, runs[r] \in Ended
  PROVE  Quiet(r)
<1>1. Typed /\ r \notin Active /\ runs[r] \notin {"none", "queued", "running", "waiting"}
  BY DEF Safe, Ended, Active
<1>2. CASE People
  <2>1. ASSUME NEW q \in Run, Create(q) PROVE Quiet(r)
    BY <1>1, <2>1 DEF Create, SetRun, Typed, Quiet
  <2>2. ASSUME NEW q \in Run, Cancel(q) PROVE Quiet(r)
    BY <1>1, <2>2 DEF Cancel, SetRun, Typed, Quiet
  <2>3. ASSUME NEW q \in Run, NEW c \in CallId,
               NEW decision \in {"approved", "rejected"}, Decide(q, c, decision)
        PROVE  Quiet(r)
    BY <1>1, <2>3 DEF Decide, SetRun, Typed, Quiet
  <2>4. CASE Edit
    BY <2>4 DEF Edit, Quiet
  <2> QED
    BY <1>2, <2>1, <2>2, <2>3, <2>4 DEF People
<1>3. ASSUME NEW q \in Run, Schedule(q)
      PROVE  Quiet(r)
  BY <1>1, <1>3 DEF Schedule, Finish, Typed, Quiet
<1>4. ASSUME NEW t \in Thread, NEW q \in Run, Claim(t, q)
      PROVE  Quiet(r)
  <2>1. UNCHANGED calls /\ runs'[r] = IF r = q /\ runs[q] = "queued" THEN "running" ELSE runs[r]
    BY <1>1, <1>4 DEF Claim, Typed
  <2> QED
    BY <1>1, <2>1 DEF Quiet
<1>5. CASE Restart
  BY <1>1, <1>5 DEF Restart, Quiet
<1> QED
  BY <1>2, <1>3, <1>4, <1>5, MovingQuiet DEF Next, Worker, Work, Moving

\* The only entry a step adds is of a person or of a run that is running.
LEMMA NextLogs ==
  ASSUME Safe, Next
  PROVE  \/ log' = log
         \/ log' = Append(log, Person)
         \/ \E r \in Run, c \in CallId : Running(r) /\ log' = Append(log, <<r, c>>)
<1>1. ASSUME NEW t \in Thread, Invoke(t)
      PROVE  \/ log' = log
             \/ \E r \in Run, c \in CallId : Running(r) /\ log' = Append(log, <<r, c>>)
  <2>1. PICK r \in Run, c \in CallId :
          /\ Carried(t, r, c) /\ threads[t].at = "invoke"
          /\ log' = Append(log, <<r, c>>) \/ UNCHANGED log
    BY <1>1, InvokeDoes DEF Safe, ThreadOK
  <2> QED
    BY <2>1 DEF Safe, ThreadOK, Ordered, Carried
<1>2. ASSUME NEW t \in Thread, Moving(t), ~ Invoke(t)
      PROVE  log' = log
  BY <1>2 DEF Moving, Plan, Suspend, Complete, Check, Mark, FinishTool, Fail, FailRun,
              Release, Raise, Refuse, Stumble, Die
<1>3. ASSUME NEW t \in Thread, NEW r \in Run, Claim(t, r)
      PROVE  log' = log
  BY <1>3 DEF Claim
<1>4. CASE People
  BY <1>4 DEF People, Create, Cancel, Decide, Edit
<1>5. CASE Restart \/ \E r \in Run : Schedule(r)
  BY <1>5 DEF Restart, Schedule
<1> QED
  BY <1>1, <1>2, <1>3, <1>4, <1>5 DEF Next, Worker, Work, Moving

-----------------------------------------------------------------------------
(***************************************************************************)
(* The invariant holds.                                                    *)
(***************************************************************************)
\* The invariant holds at the start ...
LEMMA InitInv == Init => Inv
<1> SUFFICES ASSUME Init PROVE Inv
  OBVIOUS
<1>1. Typed
  BY HarnessAssumption DEF Init, Typed, Status, Ended, CallRecord, NoCall, ThreadRecord,
     Idle, Revision
<1>2. Hands /\ Cardinality(queue) <= QueueLimit
  BY FS_EmptySet, HarnessAssumption DEF Init, Hands, Idle
<1>3. \A t \in Thread : ThreadOK(t)
  BY DEF Init, Idle, ThreadOK, Placed, Ordered, Turning, Carrying, AtWork
<1>4. \A r \in Run : RunOK(r)
  BY DEF Init, NoCall, RunOK, Asked, Deciding, Pending, AtRest, Settled, Open
<1>5. WrittenAsApproved
  BY DEF Init, WrittenAsApproved
<1> QED
  BY <1>1, <1>2, <1>3, <1>4, <1>5 DEF Inv

\* ... and is kept by every step.
LEMMA NextInv == Inv /\ [Next]_vars => Inv'
<1>1. ASSUME Inv, Next
      PROVE  Inv'
  <2>1. Safe /\ WrittenAsApproved
    BY <1>1 DEF Inv, Safe
  <2>2. Sound /\ Typed'
    BY <1>1, <2>1, NextSound
  <2>3. WrittenAsApproved'
    BY <1>1, <2>1, NextWrites
  <2> QED
    BY <2>2, <2>3 DEF Sound, Inv
<1>2. ASSUME Inv, UNCHANGED vars
      PROVE  Inv'
  <2>1. UNCHANGED <<runs, calls, log, wanted, queue, threads, faults>>
    BY <1>2 DEF vars
  <2>2. Typed' /\ Hands' /\ Cardinality(queue') <= QueueLimit
    BY <1>2, <2>1 DEF Inv, Typed, Hands, Revision
  <2>3. ASSUME NEW t \in Thread
        PROVE  ThreadOK(t)'
    BY <1>2, <2>1 DEF Inv, ThreadOK, Placed, Ordered, Turning, Running, Carrying, AtWork
  <2>4. ASSUME NEW r \in Run
        PROVE  RunOK(r)'
    BY <1>2, <2>1 DEF Inv, RunOK, Asked, Deciding, Pending, AtRest, Settled, Open
  <2>5. WrittenAsApproved'
    BY <1>2, <2>1 DEF Inv, WrittenAsApproved
  <2> QED
    BY <2>2, <2>3, <2>4, <2>5 DEF Inv
<1> QED
  BY <1>1, <1>2

\* So it holds throughout.
LEMMA Invariance == Spec => []Inv
BY InitInv, NextInv, PTL DEF Spec

\* Types, bounds and hands: a run is in the queue or in the hands of one thread,
\* and a write is pending only in a run that waits for its decision or is about
\* to, however many runs and threads there are.
THEOREM HarnessTyped == Spec => []TypeOK
BY Invariance, TypeFollows, PTL

\* Every revision a run writes is one a person approved, and saw: for any number
\* of runs, threads, edits, database errors and restarts.
THEOREM WritesAreApproved == Spec => []WrittenAsApproved
<1>1. Inv => WrittenAsApproved
  BY DEF Inv
<1> QED
  BY <1>1, Invariance, PTL

\* A completed run has nothing undecided, approved and undone, or under way.
THEOREM CompletedSettles == Spec => []CompletedIsSettled
BY Invariance, SettledFollows, PTL

\* A thread that goes on after its run was ended, by a cancel, a full queue or a
\* restart, changes neither the run nor its calls nor the draft.
THEOREM EndedStaysQuiet == Spec => EndedIsQuiet
<1> DEFINE Silent ==
      \A r \in Run : runs[r] \in Ended =>
        /\ runs'[r] = runs[r] /\ calls'[r] = calls[r]
        /\ \A i \in Len(log) + 1..Len(log') :
             log'[i] # Person => log'[i][1] # r
<1>1. ASSUME Inv, Inv', Next
      PROVE  Silent
  <2>1. Safe /\ Typed /\ Typed'
    BY <1>1 DEF Inv, Safe
  <2> SUFFICES ASSUME NEW r \in Run, runs[r] \in Ended
               PROVE  /\ runs'[r] = runs[r] /\ calls'[r] = calls[r]
                      /\ \A i \in Len(log) + 1..Len(log') :
                           log'[i] # Person => log'[i][1] # r
    OBVIOUS
  <2>2. Quiet(r)
    BY <1>1, <2>1, NextQuiet
  <2>3. runs'[r] = runs[r] /\ calls'[r] = calls[r]
    BY <2>1, <2>2 DEF Quiet, Typed
  <2>4. ASSUME NEW i \in Len(log) + 1..Len(log'), log'[i] # Person
        PROVE  log'[i][1] # r
    <3>1. CASE log' = log
      BY <2>1, <2>4, <3>1 DEF Typed
    <3>2. CASE log' = Append(log, Person)
      BY <2>1, <2>4, <3>2 DEF Typed
    <3>3. ASSUME NEW q \in Run, NEW c \in CallId, Running(q), log' = Append(log, <<q, c>>)
          PROVE  log'[i][1] # r
      <4>1. log'[i] = <<q, c>>
        BY <2>1, <2>4, <3>3 DEF Typed
      <4> QED
        BY <3>3, <4>1 DEF Running, Ended
    <3> QED
      BY <1>1, <2>1, <3>1, <3>2, <3>3, NextLogs
  <2> QED
    BY <2>3, <2>4
<1>2. ASSUME Inv, UNCHANGED vars
      PROVE  Silent
  BY <1>2 DEF vars, Inv, Typed
<1> HIDE DEF Silent
<1>3. Inv /\ Inv' /\ [Next]_vars => [Silent]_vars
  BY <1>1, <1>2
<1>4. Spec => [][Silent]_vars
  BY <1>3, Invariance, PTL DEF Spec
<1> QED
  BY <1>4 DEF EndedIsQuiet, Silent

=============================================================================
