-------------------------- MODULE AgentFlowProofs --------------------------
(***************************************************************************)
(* What the durable health checks guarantee for any number of flows,       *)
(* drafts, threads, steps and attempts, and however often leases run out,  *)
(* the database fails and the process restarts.                            *)
(***************************************************************************)
EXTENDS AgentFlow, FiniteSetTheorems, TLAPS

-----------------------------------------------------------------------------
(***************************************************************************)
(* The inductive invariant.                                                *)
(***************************************************************************)
StepStatus == {"none", "running", "succeeded", "failed", "cancelled"}
Done == {"succeeded", "failed"}

Typed ==
  /\ flows \in [Flow -> FlowRecord]
  /\ steps \in [Flow -> [Attempt -> [Step -> StepStatus]]]
  /\ leased \subseteq Flow /\ live \subseteq Draft
  /\ queue \subseteq Flow
  /\ threads \in [Thread -> ThreadRecord]
  /\ errors \in 0..MaxError /\ restarts \in 0..MaxRestart

\* The steps of a flow's attempt have not begun.
Fresh(f, a) == \A s \in Step : steps[f][a][s] = "none"

\* How far the steps of an attempt are when its thread is at this point of the
\* workflow, with these steps started and not ended.
Progress(ss, todo, open) ==
  /\ todo = "prepare" => open = {} /\ \A s \in Step : ss[s] = "none"
  /\ todo = "prepared" =>
       /\ open = {"prepare"} /\ ss["prepare"] = "running"
       /\ ss["critic"] = "none" /\ \A s \in Specialist : ss[s] = "none"
  /\ todo \notin {"prepare", "prepared"} => ss["prepare"] = "succeeded"
  /\ todo \in {"dispatch", "collect"} =>
       /\ open \subseteq Specialist /\ ss["critic"] = "none"
       /\ \A s \in open : ss[s] = "running"
  /\ todo = "dispatch" => \A s \in Specialist \ open : ss[s] = "none"
  /\ todo = "collect" => \A s \in Specialist \ open : ss[s] \in Done
  /\ todo \in {"critic", "brief", "complete"} => \A s \in Specialist : ss[s] \in Done
  /\ todo = "critic" => open = {} /\ ss["critic"] = "none"
  /\ todo = "brief" => open = {"critic"} /\ ss["critic"] = "running"
  /\ todo = "complete" => open = {} /\ ss["critic"] = "succeeded"

\* A thread has a flow exactly when it is not idle; the attempt it carries out,
\* as long as it is its own, is as far as the thread is.
ThreadOK(t) ==
  LET f == threads[t].flow IN
  /\ f = None <=> threads[t].at \in {"idle", "dead"}
  /\ threads[t].at = "ending" => threads[t].result # "none"
  /\ threads[t].at = "read" =>
       /\ threads[t].todo = "prepare" /\ threads[t].open = {}
       /\ Fresh(f, flows[f].attempt)
  /\ threads[t].at \in {"check", "write"} /\ Holds(t) =>
       Progress(steps[f][threads[t].attempt], threads[t].todo, threads[t].open)

Whole(f) ==
  flows[f].status = "succeeded" =>
    LET ss == steps[f][flows[f].attempt] IN
    /\ ss["prepare"] = "succeeded" /\ ss["critic"] = "succeeded"
    /\ \A s \in Specialist : ss[s] \in Done
    /\ \E s \in Specialist : ss[s] = "succeeded"

FlowOK(f) ==
  /\ Running(f) <=> flows[f].owner # "none"
  /\ f \in Active => flows[f].draft \in live
  /\ flows[f].cancel => flows[f].status \in {"running", "cancelled"}
  /\ Running(f) /\ f \notin leased => MayLapse(f)
  /\ \A a \in Attempt : a > flows[f].attempt => Fresh(f, a)
  /\ flows[f].status \in {"none", "queued"} => Fresh(f, flows[f].attempt)
  /\ Whole(f)

Hands ==
  \A t, u \in Thread : threads[t].flow # None =>
    /\ threads[t].flow \notin queue
    /\ threads[t].flow = threads[u].flow => t = u

Inv ==
  /\ Typed /\ Hands /\ Cardinality(queue) <= QueueLimit
  /\ \A t \in Thread : ThreadOK(t)
  /\ \A f \in Flow : FlowOK(f)

-----------------------------------------------------------------------------
(***************************************************************************)
(* What an action does to a thread, a flow and a step, free of EXCEPT.     *)
(***************************************************************************)
Others(t) ==
  /\ threads' \in [Thread -> ThreadRecord]
  /\ \A u \in Thread \ {t} : threads'[u] = threads[u]

LEMMA SetsThread ==
  ASSUME Typed, NEW t \in Thread, NEW x \in ThreadRecord,
         threads' = [threads EXCEPT ![t] = x]
  PROVE  Others(t) /\ threads'[t] = x
BY DEF Typed, Others

At == {"idle", "claim", "read", "check", "write", "ending", "boundary",
       "release", "dead"}

\* A thread that is set to a record has it, and no other thread changes.
LEMMA Sets ==
  ASSUME Typed, NEW t \in Thread, NEW x \in ThreadRecord,
         threads' = [threads EXCEPT ![t] = x]
  PROVE  Others(t) /\ threads'[t] = x
BY DEF Typed, Others

\* A flow that went wrong is ended by its thread next.
LEMMA Ends ==
  ASSUME Typed, NEW t \in Thread, NEW result \in {"cancelled", "blocked", "failed"},
         Ending(t, result)
  PROVE  /\ Others(t)
         /\ threads'[t].at = "ending" /\ threads'[t].result = result
         /\ threads'[t].flow = threads[t].flow
         /\ threads'[t].attempt = threads[t].attempt
<1>1. threads[t] \in ThreadRecord
  BY DEF Typed
<1>2. PICK x \in ThreadRecord :
        x = [threads[t] EXCEPT !.at = "ending", !.result = result, !.todo = "prepare"]
  BY <1>1 DEF ThreadRecord
<1>3. threads' = [threads EXCEPT ![t] = x]
  BY <1>2 DEF Ending, Typed
<1> QED
  BY <1>1, <1>2, <1>3 DEF Typed, Others, ThreadRecord

\* A thread that leaves the workflow keeps its flow and nothing else.
LEMMA Leaves ==
  ASSUME Typed, NEW t \in Thread, NEW at \in At, Leaving(t, at)
  PROVE  /\ Others(t)
         /\ threads'[t].at = at /\ threads'[t].flow = threads[t].flow
         /\ threads'[t].todo = "prepare" /\ threads'[t].open = {}
<1>1. threads[t].flow \in Flow \union {None}
  BY DEF Typed, ThreadRecord
<1>2. Idle \in ThreadRecord
  BY FlowAssumption DEF Idle, ThreadRecord, Attempt
<1>3. PICK x \in ThreadRecord : x = [Idle EXCEPT !.at = at, !.flow = threads[t].flow]
  BY <1>1, <1>2 DEF ThreadRecord, At
<1>4. threads' = [threads EXCEPT ![t] = x]
  BY <1>3 DEF Leaving
<1> QED
  BY <1>2, <1>3, <1>4 DEF Typed, Others, ThreadRecord, Idle

\* A new status and owner of a flow, and nothing else of it.
FlowSet(f, status, owner) ==
  /\ flows' \in [Flow -> FlowRecord]
  /\ flows'[f].status = status /\ flows'[f].owner = owner
  /\ flows'[f].draft = flows[f].draft /\ flows'[f].ready = flows[f].ready
  /\ flows'[f].cancel = flows[f].cancel /\ flows'[f].aborted = flows[f].aborted
  /\ flows'[f].attempt = flows[f].attempt
  /\ \A g \in Flow \ {f} : flows'[g] = flows[g]

StepSet(f, a, s, status) ==
  /\ steps' \in [Flow -> [Attempt -> [Step -> StepStatus]]]
  /\ steps'[f][a][s] = status
  /\ \A g \in Flow, b \in Attempt, u \in Step :
       g # f \/ b # a \/ u # s => steps'[g][b][u] = steps[g][b][u]

\* A flow is set to a status and an owner, and keeps the rest.
LEMMA SetsFlow ==
  ASSUME Typed, NEW f \in Flow, NEW status \in Terminal \union {"running"},
         NEW owner \in {"none", "this"},
         flows' = [flows EXCEPT ![f].status = status, ![f].owner = owner]
  PROVE  FlowSet(f, status, owner)
<1>1. flows[f] \in FlowRecord
  BY DEF Typed
<1>2. PICK x \in FlowRecord : x = [flows[f] EXCEPT !.status = status, !.owner = owner]
  BY <1>1 DEF FlowRecord
<1>3. flows' = [flows EXCEPT ![f] = x]
  BY <1>2 DEF Typed
<1> QED
  BY <1>1, <1>2, <1>3 DEF Typed, FlowSet, FlowRecord

\* One step of the thread's attempt is set.
LEMMA SetsStep ==
  ASSUME Typed, NEW t \in Thread, NEW f \in Flow, f = threads[t].flow,
         NEW s \in Step, NEW status \in StepStatus, SetStep(t, s, status)
  PROVE  StepSet(f, threads[t].attempt, s, status)
<1>1. threads[t].attempt \in Attempt
  BY DEF Typed, ThreadRecord
<1> QED
  BY <1>1 DEF Typed, StepSet, SetStep

\* complete ends a flow, as cancelled where it was asked to stop.
LEMMA EndsFlow ==
  ASSUME Typed, NEW f \in Flow, NEW status \in Terminal, flows' = Ended(f, status)
  PROVE  FlowSet(f, IF flows[f].cancel THEN "cancelled" ELSE status, "none")
<1>1. (IF flows[f].cancel THEN "cancelled" ELSE status) \in Terminal
  BY DEF Terminal
<1> QED
  BY <1>1, SetsFlow DEF Ended

\* A thread that is not idle has a flow.
LEMMA Holding ==
  ASSUME Typed, NEW t \in Thread, ThreadOK(t), threads[t].at \notin {"idle", "dead"}
  PROVE  threads[t].flow \in Flow /\ threads[t].attempt \in Attempt
BY DEF Typed, ThreadOK, ThreadRecord

-----------------------------------------------------------------------------
(***************************************************************************)
(* What the actions of a thread do.                                        *)
(***************************************************************************)
\* claim makes a queued flow the thread's own, or the thread drops it.
LEMMA ClaimDoes ==
  ASSUME Typed, NEW t \in Thread, ThreadOK(t), Claim(t)
  PROVE  \E f \in Flow :
           /\ f = threads[t].flow /\ threads[t].at = "claim"
           /\ Others(t) /\ threads'[t].flow = f
           /\ \/ /\ flows[f].status = "queued" /\ ~ flows[f].cancel
                 /\ threads'[t].at = "read"
                 /\ threads'[t].todo = "prepare" /\ threads'[t].open = {}
                 /\ FlowSet(f, "running", "this") /\ leased' = leased \union {f}
              \/ threads'[t].at = "release" /\ UNCHANGED <<flows, leased>>
           /\ UNCHANGED <<steps, live, queue, errors, restarts>>
<1> DEFINE f == threads[t].flow
           won == /\ flows[f].status = "queued" /\ flows[f].ready
                  /\ ~ flows[f].cancel
<1>1. f \in Flow /\ threads[t].at = "claim"
  BY Holding DEF Claim
<1>2. CASE won
  <2>1. FlowSet(f, "running", "this")
    BY <1>1, <1>2, SetsFlow DEF Claim
  <2>2. /\ Others(t) /\ threads'[t].at = "read" /\ threads'[t].flow = f
        /\ threads'[t].todo = "prepare" /\ threads'[t].open = {}
    BY <1>2, Leaves DEF Claim, At
  <2> QED
    BY <1>1, <1>2, <2>1, <2>2 DEF Claim
<1>3. CASE ~ won
  <2>1. Others(t) /\ threads'[t].at = "release" /\ threads'[t].flow = f
    BY <1>3, Leaves DEF Claim, At
  <2> QED
    BY <1>1, <1>3, <2>1 DEF Claim
<1> QED
  BY <1>2, <1>3

\* The thread reads the number of the attempt it has claimed.
LEMMA ReadClaimDoes ==
  ASSUME Typed, NEW t \in Thread, ThreadOK(t), ReadClaim(t)
  PROVE  \E f \in Flow :
           /\ f = threads[t].flow /\ threads[t].at = "read"
           /\ Others(t) /\ threads'[t].flow = f /\ threads'[t].at = "check"
           /\ threads'[t].attempt = flows[f].attempt
           /\ threads'[t].todo = threads[t].todo /\ threads'[t].open = threads[t].open
           /\ UNCHANGED <<flows, steps, leased, live, queue, errors, restarts>>
<1> DEFINE f == threads[t].flow
<1>1. f \in Flow /\ threads[t].at = "read"
  BY Holding DEF ReadClaim
<1>2. threads[t] \in ThreadRecord /\ flows[f].attempt \in Attempt
  BY <1>1 DEF Typed, FlowRecord
<1>3. PICK x \in ThreadRecord :
        x = [threads[t] EXCEPT !.at = "check", !.attempt = flows[f].attempt]
  BY <1>2 DEF ThreadRecord
<1>4. /\ x.at = "check" /\ x.flow = f /\ x.attempt = flows[f].attempt
      /\ x.todo = threads[t].todo /\ x.open = threads[t].open
  BY <1>2, <1>3 DEF ThreadRecord
<1>5. threads' = [threads EXCEPT ![t] = x]
  BY <1>3 DEF ReadClaim, Typed
<1>6. Others(t) /\ threads'[t] = x
  BY <1>5, SetsThread
<1>7. UNCHANGED <<flows, steps, leased, live, queue, errors, restarts>>
  BY DEF ReadClaim
<1> HIDE DEF f
<1>8. f = threads[t].flow
  BY DEF f
<1> QED
  BY <1>1, <1>4, <1>6, <1>7, <1>8

\* _raise_if_cancelled passes only in a flow that is still the thread's own.
LEMMA CheckDoes ==
  ASSUME Typed, NEW t \in Thread, ThreadOK(t), Check(t)
  PROVE  \E f \in Flow :
           /\ f = threads[t].flow /\ threads[t].at = "check"
           /\ Others(t) /\ threads'[t].flow = f
           /\ threads'[t].attempt = threads[t].attempt
           /\ \/ threads'[t].at = "ending" /\ threads'[t].result # "none"
              \/ /\ threads'[t].at = "write" /\ Holds(t)
                 /\ threads'[t].todo = threads[t].todo
                 /\ threads'[t].open = threads[t].open
           /\ UNCHANGED <<flows, steps, leased, live, queue, errors, restarts>>
<1> DEFINE f == threads[t].flow
<1>1. f \in Flow /\ threads[t].at = "check"
  BY Holding DEF Check
<1>2. ASSUME NEW result \in {"failed", "cancelled"}, Ending(t, result)
      PROVE  /\ Others(t) /\ threads'[t].flow = f
             /\ threads'[t].attempt = threads[t].attempt
             /\ threads'[t].at = "ending" /\ threads'[t].result # "none"
  BY <1>2, Ends
<1>3. CASE Holds(t) /\ threads' = [threads EXCEPT ![t].at = "write"]
  <2>1. threads[t] \in ThreadRecord
    BY DEF Typed
  <2>2. PICK x \in ThreadRecord : x = [threads[t] EXCEPT !.at = "write"]
    BY <2>1 DEF ThreadRecord
  <2>3. Others(t) /\ threads'[t] = x
    BY <1>3, <2>2, SetsThread DEF Typed
  <2>4. /\ x.at = "write" /\ x.flow = f /\ x.attempt = threads[t].attempt
        /\ x.todo = threads[t].todo /\ x.open = threads[t].open
    BY <2>1, <2>2 DEF ThreadRecord
  <2> QED
    BY <1>1, <1>3, <2>3, <2>4 DEF Check
<1>4. UNCHANGED <<flows, steps, leased, live, queue, errors, restarts>>
  BY DEF Check
<1>5. \/ Ending(t, "failed") \/ Ending(t, "cancelled")
      \/ Holds(t) /\ threads' = [threads EXCEPT ![t].at = "write"]
  BY DEF Check
<1> QED
  BY <1>1, <1>2, <1>3, <1>4, <1>5

\* start_step starts a step of the attempt the thread holds, or raises.
LEMMA StartDoes ==
  ASSUME Typed, NEW t \in Thread, ThreadOK(t), NEW s \in Step, StartStep(t, s)
  PROVE  \E f \in Flow :
           /\ f = threads[t].flow /\ threads[t].at = "write" /\ s \in ToStart(t)
           /\ Others(t) /\ threads'[t].flow = f
           /\ threads'[t].attempt = threads[t].attempt
           /\ \/ /\ Holds(t) /\ threads'[t].at \in {"check", "write"}
                 /\ threads'[t].todo = Started(t, s)
                 /\ threads'[t].open = threads[t].open \union {s}
                 /\ StepSet(f, threads[t].attempt, s, "running")
                 /\ leased' = leased \union {f}
              \/ /\ threads'[t].at = "ending" /\ threads'[t].result # "none"
                 /\ UNCHANGED <<steps, leased>>
           /\ UNCHANGED <<flows, live, queue, errors, restarts>>
<1> DEFINE f == threads[t].flow
<1>1. f \in Flow /\ threads[t].at = "write"
  BY Holding DEF StartStep
<1>2. CASE Holds(t) /\ ~ flows[f].cancel
  <2>1. StepSet(f, threads[t].attempt, s, "running")
    BY <1>1, <1>2, SetsStep DEF StartStep, StepStatus
  <2>2. threads[t] \in ThreadRecord
    BY DEF Typed
  <2>3. Started(t, s) \in {"prepared", "dispatch", "collect", "brief"}
    BY DEF Started
  <2>4. PICK x \in ThreadRecord :
          x = [threads[t] EXCEPT !.at = IF s = "critic" THEN "write" ELSE "check",
                                 !.todo = Started(t, s), !.open = @ \union {s}]
    BY <2>2, <2>3 DEF ThreadRecord
  <2>5. threads' = [threads EXCEPT ![t] = x]
    BY <1>2, <2>4 DEF StartStep, Typed
  <2> QED
    BY <1>1, <1>2, <2>1, <2>2, <2>4, <2>5 DEF StartStep, Typed, Others, ThreadRecord
<1>3. CASE ~ (Holds(t) /\ ~ flows[f].cancel)
  BY <1>1, <1>3, Ends DEF StartStep
<1> QED
  BY <1>2, <1>3

\* finish_step ends a running step of the attempt the thread holds, or raises.
LEMMA FinishDoes ==
  ASSUME Typed, NEW t \in Thread, ThreadOK(t), NEW s \in Step,
         NEW status \in {"succeeded", "failed"}, FinishStep(t, s, status)
  PROVE  \E f \in Flow :
           /\ f = threads[t].flow /\ threads[t].at = "write" /\ s \in Finishable(t)
           /\ s \in Specialist \/ status = "succeeded"
           /\ Others(t) /\ threads'[t].flow = f
           /\ threads'[t].attempt = threads[t].attempt
           /\ \/ /\ Holds(t) /\ threads'[t].at = "check"
                 /\ threads'[t].todo = Finished(t, s)
                 /\ threads'[t].open = threads[t].open \ {s}
                 /\ StepSet(f, threads[t].attempt, s, status)
                 /\ leased' = leased \union {f}
              \/ /\ threads'[t].at = "ending" /\ threads'[t].result # "none"
                 /\ UNCHANGED <<steps, leased>>
           /\ UNCHANGED <<flows, live, queue, errors, restarts>>
<1> DEFINE f == threads[t].flow
<1>1. f \in Flow /\ threads[t].at = "write"
  BY Holding DEF FinishStep
<1>2. CASE Fenced(t, s)
  <2>1. StepSet(f, threads[t].attempt, s, status)
    BY <1>1, <1>2, SetsStep DEF FinishStep, StepStatus
  <2>2. threads[t] \in ThreadRecord
    BY DEF Typed
  <2>3. Finished(t, s) \in {"dispatch", "complete", "critic", "collect"}
    BY DEF Finished
  <2>4. PICK x \in ThreadRecord :
          x = [threads[t] EXCEPT !.at = "check", !.open = @ \ {s},
                                 !.todo = Finished(t, s)]
    BY <2>2, <2>3 DEF ThreadRecord
  <2>5. threads' = [threads EXCEPT ![t] = x]
    BY <1>2, <2>4 DEF FinishStep, Typed
  <2> QED
    BY <1>1, <1>2, <2>1, <2>2, <2>4, <2>5
    DEF FinishStep, Typed, Others, ThreadRecord, Fenced
<1>3. CASE ~ Fenced(t, s)
  BY <1>1, <1>3, Ends DEF FinishStep
<1> QED
  BY <1>2, <1>3

\* Whatever raises in the workflow ends the flow.
LEMMA CaptureDoes ==
  ASSUME Typed, NEW t \in Thread, ThreadOK(t), CaptureFails(t) \/ Raise(t)
  PROVE  /\ threads[t].flow \in Flow
         /\ Others(t) /\ threads'[t].flow = threads[t].flow
         /\ threads'[t].at = "ending" /\ threads'[t].result # "none"
         /\ UNCHANGED <<flows, steps, leased, live, queue, errors, restarts>>
BY Holding, Ends DEF CaptureFails, Raise

\* A step that was under way is closed if the attempt is still the thread's.
LEMMA EndStepDoes ==
  ASSUME Typed, NEW t \in Thread, ThreadOK(t), NEW s \in Step, EndStep(t, s)
  PROVE  \E f \in Flow :
           /\ f = threads[t].flow /\ threads[t].at = "ending"
           /\ Others(t) /\ threads'[t].flow = f /\ threads'[t].at = "ending"
           /\ threads'[t].result = threads[t].result
           /\ \/ /\ Holds(t) /\ steps[f][threads[t].attempt][s] = "running"
                 /\ \E status \in {"cancelled", "failed"} :
                      StepSet(f, threads[t].attempt, s, status)
                 /\ leased' = leased \union {f}
              \/ UNCHANGED <<steps, leased>>
           /\ UNCHANGED <<flows, live, queue, errors, restarts>>
<1> DEFINE f == threads[t].flow
<1>1. f \in Flow /\ threads[t].at = "ending"
  BY Holding DEF EndStep
<1>2. threads[t] \in ThreadRecord
  BY DEF Typed
<1>3. PICK x \in ThreadRecord : x = [threads[t] EXCEPT !.open = @ \ {s}]
  BY <1>2 DEF ThreadRecord
<1>4. threads' = [threads EXCEPT ![t] = x]
  BY <1>3 DEF EndStep, Typed
<1>5. /\ Others(t) /\ threads'[t].flow = f /\ threads'[t].at = "ending"
      /\ threads'[t].result = threads[t].result
  BY <1>1, <1>2, <1>3, <1>4 DEF Typed, Others, ThreadRecord
<1>6. CASE Fenced(t, s)
  <2>1. PICK status \in {"cancelled", "failed"} : SetStep(t, s, status)
    BY <1>6 DEF EndStep
  <2>2. StepSet(f, threads[t].attempt, s, status)
    BY <1>1, <2>1, SetsStep DEF StepStatus
  <2> QED
    BY <1>1, <1>5, <1>6, <2>2 DEF EndStep, Fenced
<1>7. CASE ~ Fenced(t, s)
  BY <1>1, <1>5, <1>7 DEF EndStep
<1> QED
  BY <1>6, <1>7

\* _complete_after_error ends only a flow of this process.
LEMMA EndFlowDoes ==
  ASSUME Typed, NEW t \in Thread, ThreadOK(t), EndFlow(t) \/ Boundary(t)
  PROVE  \E f \in Flow :
           /\ f = threads[t].flow
           /\ Others(t) /\ threads'[t].flow = f /\ threads'[t].at = "release"
           /\ \/ /\ Own(f) /\ leased' = leased \ {f}
                 /\ \E status \in {"cancelled", "blocked", "failed"} :
                      FlowSet(f, IF flows[f].cancel THEN "cancelled" ELSE status,
                              "none")
              \/ UNCHANGED <<flows, leased>>
           /\ UNCHANGED <<steps, live, queue, errors, restarts>>
<1> DEFINE f == threads[t].flow
<1>1. f \in Flow
  BY Holding DEF EndFlow, Boundary
<1>2. Others(t) /\ threads'[t].flow = f /\ threads'[t].at = "release"
  BY Leaves DEF EndFlow, Boundary, At
<1>3. ASSUME NEW status \in {"cancelled", "blocked", "failed"},
             flows' = Ended(f, status)
      PROVE  FlowSet(f, IF flows[f].cancel THEN "cancelled" ELSE status, "none")
  BY <1>1, <1>3, EndsFlow DEF Terminal
<1>4. CASE EndFlow(t)
  <2>1. threads[t].result \in {"cancelled", "blocked", "failed"}
    BY <1>4 DEF EndFlow, ThreadOK, Typed, ThreadRecord
  <2> QED
    BY <1>1, <1>2, <1>3, <1>4, <2>1 DEF EndFlow, Holds
<1>5. CASE Boundary(t)
  BY <1>1, <1>2, <1>3, <1>5 DEF Boundary
<1> QED
  BY <1>4, <1>5

\* complete ends a flow by what its specialists came to.
LEMMA CompleteDoes ==
  ASSUME Typed, NEW t \in Thread, ThreadOK(t), Complete(t)
  PROVE  \E f \in Flow :
           /\ f = threads[t].flow /\ threads[t].at = "write"
           /\ threads[t].todo = "complete"
           /\ Others(t) /\ threads'[t].flow = f
           /\ \/ /\ Holds(t) /\ leased' = leased \ {f}
                 /\ threads'[t].at = "release"
                 /\ FlowSet(f, IF flows[f].cancel THEN "cancelled"
                               ELSE Outcome(f, threads[t].attempt), "none")
              \/ /\ threads'[t].at = "ending" /\ threads'[t].result # "none"
                 /\ UNCHANGED <<flows, leased>>
           /\ UNCHANGED <<steps, live, queue, errors, restarts>>
<1> DEFINE f == threads[t].flow
<1>1. f \in Flow /\ threads[t].at = "write" /\ threads[t].todo = "complete"
  BY Holding DEF Complete
<1>2. CASE Holds(t)
  <2>1. FlowSet(f, IF flows[f].cancel THEN "cancelled"
                   ELSE Outcome(f, threads[t].attempt), "none")
    BY <1>1, <1>2, EndsFlow DEF Complete, Outcome, Terminal
  <2>2. Others(t) /\ threads'[t].flow = f /\ threads'[t].at = "release"
    BY <1>2, Leaves DEF Complete, At
  <2> QED
    BY <1>1, <1>2, <2>1, <2>2 DEF Complete
<1>3. CASE ~ Holds(t)
  BY <1>1, <1>3, Ends DEF Complete
<1> QED
  BY <1>2, <1>3

\* A thread that is done, or dies, gives up its flow, which may be woken.
LEMMA ReleaseDoes ==
  ASSUME Typed, NEW t \in Thread, ThreadOK(t), Release(t) \/ Die(t)
  PROVE  \E f \in Flow :
           /\ f = threads[t].flow
           /\ Others(t) /\ threads'[t].flow = None
           /\ threads'[t].at \in {"idle", "dead"}
           /\ queue' \in {queue, Requeued(f)} /\ errors' \in 0..MaxError
           /\ UNCHANGED <<flows, steps, leased, live, restarts>>
<1> DEFINE f == threads[t].flow
<1>1. f \in Flow
  BY Holding DEF Release, Die
<1>2. Idle \in ThreadRecord /\ [Idle EXCEPT !.at = "dead"] \in ThreadRecord
  BY FlowAssumption DEF Idle, ThreadRecord, Attempt
<1>3. CASE Release(t)
  BY <1>1, <1>2, <1>3 DEF Release, Typed, Others, Idle
<1>4. CASE Die(t)
  BY <1>1, <1>2, <1>4, FlowAssumption DEF Die, Typed, Others, Idle
<1> QED
  BY <1>3, <1>4

\* An error that nothing in the run catches reaches the loop of the worker.
LEMMA EscapeDoes ==
  ASSUME Typed, NEW t \in Thread, ThreadOK(t), Escape(t)
  PROVE  /\ threads[t].flow \in Flow
         /\ Others(t) /\ threads'[t].flow = threads[t].flow
         /\ threads'[t].at = "boundary" /\ errors' \in 0..MaxError
         /\ UNCHANGED <<flows, steps, leased, live, queue, restarts>>
<1>1. Others(t) /\ threads'[t].flow = threads[t].flow /\ threads'[t].at = "boundary"
  BY Leaves DEF Escape, At
<1> QED
  BY <1>1, Holding, FlowAssumption DEF Escape, Typed

\* An idle thread takes a flow off the queue.
LEMMA TakeDoes ==
  ASSUME Typed, NEW t \in Thread, NEW f \in Flow, Take(t, f)
  PROVE  /\ threads[t].at = "idle" /\ f \in queue /\ queue' = queue \ {f}
         /\ Others(t) /\ threads'[t].flow = f /\ threads'[t].at = "claim"
         /\ UNCHANGED <<flows, steps, leased, live, errors, restarts>>
<1>1. Idle \in ThreadRecord
  BY FlowAssumption DEF Idle, ThreadRecord, Attempt
<1>2. PICK x \in ThreadRecord : x = [Idle EXCEPT !.at = "claim", !.flow = f]
  BY <1>1 DEF ThreadRecord
<1>3. threads' = [threads EXCEPT ![t] = x]
  BY <1>2 DEF Take
<1> QED
  BY <1>1, <1>2, <1>3 DEF Take, Typed, Others, ThreadRecord


-----------------------------------------------------------------------------
(***************************************************************************)
(* What a thread does concerns the flow it holds.                          *)
(***************************************************************************)
Moving(t) ==
  \/ Claim(t) \/ ReadClaim(t) \/ Check(t) \/ CaptureFails(t) \/ Raise(t)
  \/ \E s \in Step : StartStep(t, s) \/ EndStep(t, s)
  \/ \E s \in Step, status \in {"succeeded", "failed"} : FinishStep(t, s, status)
  \/ Complete(t) \/ EndFlow(t) \/ Boundary(t) \/ Release(t) \/ Die(t)
  \/ Escape(t) \/ Renew(t)

Frame(t, f) ==
  /\ Others(t) /\ UNCHANGED live
  /\ \A g \in Flow \ {f} :
       /\ flows'[g] = flows[g] /\ (g \in leased' <=> g \in leased)
       /\ \A a \in Attempt, s \in Step : steps'[g][a][s] = steps[g][a][s]

\* A thread keeps the state well formed ...
LEMMA MovingTyped ==
  ASSUME Typed, NEW t \in Thread, ThreadOK(t), Moving(t)
  PROVE  Typed'
<1>1. ASSUME Claim(t)
      PROVE  Typed'
  BY <1>1, ClaimDoes DEF Typed, Others, FlowSet
<1>2. ASSUME ReadClaim(t)
      PROVE  Typed'
  BY <1>2, ReadClaimDoes DEF Typed, Others
<1>3. ASSUME Check(t)
      PROVE  Typed'
  BY <1>3, CheckDoes DEF Typed, Others
<1>4. ASSUME CaptureFails(t) \/ Raise(t)
      PROVE  Typed'
  BY <1>4, CaptureDoes DEF Typed, Others
<1>5. ASSUME NEW s \in Step, StartStep(t, s)
      PROVE  Typed'
  BY <1>5, StartDoes DEF Typed, Others, StepSet
<1>6. ASSUME NEW s \in Step, EndStep(t, s)
      PROVE  Typed'
  BY <1>6, EndStepDoes DEF Typed, Others, StepSet
<1>7. ASSUME NEW s \in Step, NEW status \in {"succeeded", "failed"},
             FinishStep(t, s, status)
      PROVE  Typed'
  BY <1>7, FinishDoes DEF Typed, Others, StepSet
<1>8. ASSUME Complete(t)
      PROVE  Typed'
  BY <1>8, CompleteDoes DEF Typed, Others, FlowSet
<1>9. ASSUME EndFlow(t) \/ Boundary(t)
      PROVE  Typed'
  BY <1>9, EndFlowDoes DEF Typed, Others, FlowSet
<1>10. ASSUME Release(t) \/ Die(t)
      PROVE  Typed'
  <2>1. queue' \subseteq Flow
    BY <1>10, ReleaseDoes DEF Requeued, Typed
  <2> QED
    BY <1>10, <2>1, ReleaseDoes DEF Typed, Others
<1>11. ASSUME Escape(t)
      PROVE  Typed'
  BY <1>11, EscapeDoes DEF Typed, Others
<1>12. ASSUME Renew(t)
      PROVE  Typed'
  BY <1>12, Holding DEF Renew, Typed
<1> QED
  BY <1>1, <1>2, <1>3, <1>4, <1>5, <1>6, <1>7, <1>8, <1>9, <1>10,
     <1>11, <1>12 DEF Moving

\* ... and leaves every flow but its own, and every other thread, alone.
LEMMA MovingFrame ==
  ASSUME Typed, NEW t \in Thread, ThreadOK(t), Moving(t)
  PROVE  /\ threads[t].flow \in Flow /\ Frame(t, threads[t].flow)
         /\ \/ threads'[t].flow = threads[t].flow /\ queue' = queue
            \/ threads'[t].flow = None /\ queue' \in {queue, Requeued(threads[t].flow)}
<1>1. ASSUME Claim(t)
      PROVE  /\ threads[t].flow \in Flow /\ Frame(t, threads[t].flow)
             /\ \/ threads'[t].flow = threads[t].flow /\ queue' = queue
                \/ /\ threads'[t].flow = None
                   /\ queue' \in {queue, Requeued(threads[t].flow)}
  BY <1>1, ClaimDoes DEF Frame, FlowSet
<1>2. ASSUME ReadClaim(t)
      PROVE  /\ threads[t].flow \in Flow /\ Frame(t, threads[t].flow)
             /\ \/ threads'[t].flow = threads[t].flow /\ queue' = queue
                \/ /\ threads'[t].flow = None
                   /\ queue' \in {queue, Requeued(threads[t].flow)}
  BY <1>2, ReadClaimDoes DEF Frame
<1>3. ASSUME Check(t)
      PROVE  /\ threads[t].flow \in Flow /\ Frame(t, threads[t].flow)
             /\ \/ threads'[t].flow = threads[t].flow /\ queue' = queue
                \/ /\ threads'[t].flow = None
                   /\ queue' \in {queue, Requeued(threads[t].flow)}
  BY <1>3, CheckDoes DEF Frame
<1>4. ASSUME CaptureFails(t) \/ Raise(t)
      PROVE  /\ threads[t].flow \in Flow /\ Frame(t, threads[t].flow)
             /\ \/ threads'[t].flow = threads[t].flow /\ queue' = queue
                \/ /\ threads'[t].flow = None
                   /\ queue' \in {queue, Requeued(threads[t].flow)}
  BY <1>4, CaptureDoes DEF Frame
<1>5. ASSUME NEW s \in Step, StartStep(t, s)
      PROVE  /\ threads[t].flow \in Flow /\ Frame(t, threads[t].flow)
             /\ \/ threads'[t].flow = threads[t].flow /\ queue' = queue
                \/ /\ threads'[t].flow = None
                   /\ queue' \in {queue, Requeued(threads[t].flow)}
  BY <1>5, StartDoes DEF Frame, StepSet
<1>6. ASSUME NEW s \in Step, EndStep(t, s)
      PROVE  /\ threads[t].flow \in Flow /\ Frame(t, threads[t].flow)
             /\ \/ threads'[t].flow = threads[t].flow /\ queue' = queue
                \/ /\ threads'[t].flow = None
                   /\ queue' \in {queue, Requeued(threads[t].flow)}
  BY <1>6, EndStepDoes DEF Frame, StepSet
<1>7. ASSUME NEW s \in Step, NEW status \in {"succeeded", "failed"},
             FinishStep(t, s, status)
      PROVE  /\ threads[t].flow \in Flow /\ Frame(t, threads[t].flow)
             /\ \/ threads'[t].flow = threads[t].flow /\ queue' = queue
                \/ /\ threads'[t].flow = None
                   /\ queue' \in {queue, Requeued(threads[t].flow)}
  BY <1>7, FinishDoes DEF Frame, StepSet
<1>8. ASSUME Complete(t)
      PROVE  /\ threads[t].flow \in Flow /\ Frame(t, threads[t].flow)
             /\ \/ threads'[t].flow = threads[t].flow /\ queue' = queue
                \/ /\ threads'[t].flow = None
                   /\ queue' \in {queue, Requeued(threads[t].flow)}
  BY <1>8, CompleteDoes DEF Frame, FlowSet
<1>9. ASSUME EndFlow(t) \/ Boundary(t)
      PROVE  /\ threads[t].flow \in Flow /\ Frame(t, threads[t].flow)
             /\ \/ threads'[t].flow = threads[t].flow /\ queue' = queue
                \/ /\ threads'[t].flow = None
                   /\ queue' \in {queue, Requeued(threads[t].flow)}
  BY <1>9, EndFlowDoes DEF Frame, FlowSet
<1>10. ASSUME Release(t) \/ Die(t)
      PROVE  /\ threads[t].flow \in Flow /\ Frame(t, threads[t].flow)
             /\ \/ threads'[t].flow = threads[t].flow /\ queue' = queue
                \/ /\ threads'[t].flow = None
                   /\ queue' \in {queue, Requeued(threads[t].flow)}
  BY <1>10, ReleaseDoes DEF Frame
<1>11. ASSUME Escape(t)
      PROVE  /\ threads[t].flow \in Flow /\ Frame(t, threads[t].flow)
             /\ \/ threads'[t].flow = threads[t].flow /\ queue' = queue
                \/ /\ threads'[t].flow = None
                   /\ queue' \in {queue, Requeued(threads[t].flow)}
  BY <1>11, EscapeDoes DEF Frame
<1>12. ASSUME Renew(t)
      PROVE  /\ threads[t].flow \in Flow /\ Frame(t, threads[t].flow)
             /\ \/ threads'[t].flow = threads[t].flow /\ queue' = queue
                \/ /\ threads'[t].flow = None
                   /\ queue' \in {queue, Requeued(threads[t].flow)}
  BY <1>12, Holding DEF Renew, Frame, Others, Typed
<1> QED
  BY <1>1, <1>2, <1>3, <1>4, <1>5, <1>6, <1>7, <1>8, <1>9, <1>10,
     <1>11, <1>12 DEF Moving

LEMMA SameProgress ==
  ASSUME NEW ss, NEW rr, NEW todo, NEW open, open \subseteq Step,
         \A s \in Step : rr[s] = ss[s], Progress(ss, todo, open)
  PROVE  Progress(rr, todo, open)
BY DEF Progress, Step

\* A thread is as it should be when it and its flow do not change ...
LEMMA SameThread ==
  ASSUME Typed, NEW u \in Thread, ThreadOK(u), threads'[u] = threads[u],
         NEW f \in Flow, f = threads[u].flow, flows'[f] = flows[f],
         \A a \in Attempt, s \in Step : steps'[f][a][s] = steps[f][a][s]
  PROVE  ThreadOK(u)'
<1>1. threads[u].attempt \in Attempt /\ flows[f].attempt \in Attempt
  BY DEF Typed, ThreadRecord, FlowRecord
<1>2. threads[u].at = "read" => Fresh(threads[u].flow, flows[threads[u].flow].attempt)'
  BY <1>1 DEF ThreadOK, Fresh
<1>3. ASSUME threads[u].at \in {"check", "write"}, Holds(u)'
      PROVE  Progress(steps[threads[u].flow][threads[u].attempt],
                      threads[u].todo, threads[u].open)'
  <2>1. Progress(steps[f][threads[u].attempt], threads[u].todo, threads[u].open)
    BY <1>3 DEF ThreadOK, Holds, Own, Running
  <2>2. \A s \in Step : steps'[f][threads[u].attempt][s] =
                        steps[f][threads[u].attempt][s]
    BY <1>1
  <2>3. threads[u].open \subseteq Step
    BY DEF Typed, ThreadRecord
  <2> QED
    BY <2>1, <2>2, <2>3, SameProgress
<1>4. threads[u].at = "ending" => threads[u].result # "none"
  BY DEF ThreadOK
<1> QED
  BY <1>2, <1>3, <1>4 DEF ThreadOK

\* ... as all threads do not that hold another flow ...
LEMMA OtherThreads ==
  ASSUME Typed, NEW t \in Thread, NEW f \in Flow, Frame(t, f),
         NEW u \in Thread \ {t}, threads[u].flow # f, ThreadOK(u)
  PROVE  ThreadOK(u)'
<1>1. threads'[u] = threads[u]
  BY DEF Frame, Others
<1>2. CASE threads[u].flow = None
  BY <1>1, <1>2 DEF ThreadOK
<1>3. CASE threads[u].flow \in Flow \ {f}
  BY <1>1, <1>3, SameThread DEF Frame
<1> QED
  BY <1>2, <1>3 DEF Typed, ThreadRecord

\* ... and so is a flow that does not change.
LEMMA OtherFlows ==
  ASSUME Typed, NEW g \in Flow, FlowOK(g), flows'[g] = flows[g],
         g \in leased' <=> g \in leased, UNCHANGED live,
         \A a \in Attempt, s \in Step : steps'[g][a][s] = steps[g][a][s]
  PROVE  FlowOK(g)'
<1>1. flows[g].attempt \in Attempt
  BY DEF Typed, FlowRecord
<1>2. \A a \in Attempt : Fresh(g, a) => Fresh(g, a)'
  BY DEF Fresh
<1>3. Whole(g)'
  BY <1>1 DEF FlowOK, Whole, Step
<1> QED
  BY <1>1, <1>2, <1>3 DEF FlowOK, Running, Active, MayLapse, Fresh

-----------------------------------------------------------------------------
(***************************************************************************)
(* What a thread does to itself and to the flow it holds.                  *)
(***************************************************************************)
\* A step that starts, and one that ends, take the workflow on as it says.
LEMMA StartProgress ==
  ASSUME NEW ss \in [Step -> StepStatus], NEW st \in [Step -> StepStatus],
         NEW t \in Thread, threads[t].open \subseteq Step,
         NEW s \in ToStart(t),
         Progress(ss, threads[t].todo, threads[t].open),
         st[s] = "running", \A u \in Step \ {s} : st[u] = ss[u]
  PROVE  Progress(st, Started(t, s), threads[t].open \union {s})
<1> USE FlowAssumption DEF Step, Done
<1>1. CASE threads[t].todo = "prepare"
  BY <1>1 DEF Progress, ToStart, Started
<1>2. CASE threads[t].todo = "dispatch"
  <2>1. s \in Specialist \ threads[t].open /\ s # "prepare" /\ s # "critic"
    BY <1>2 DEF ToStart
  <2>2. CASE ToStart(t) = {s}
    <3>1. Specialist = threads[t].open \union {s}
      BY <1>2, <2>1, <2>2 DEF ToStart, Progress
    <3> QED
      BY <1>2, <2>1, <2>2, <3>1 DEF Progress, Started
  <2>3. CASE ToStart(t) # {s}
    BY <1>2, <2>1, <2>3 DEF Progress, Started
  <2> QED
    BY <2>2, <2>3
<1>3. CASE threads[t].todo = "critic"
  BY <1>3 DEF Progress, ToStart, Started
<1> QED
  BY <1>1, <1>2, <1>3 DEF ToStart

\* ... and so does a step that ends.
LEMMA FinishProgress ==
  ASSUME NEW ss \in [Step -> StepStatus], NEW st \in [Step -> StepStatus],
         NEW t \in Thread, threads[t].open \subseteq Step,
         NEW s \in Finishable(t), NEW status \in Done,
         s \in Specialist \/ status = "succeeded",
         Progress(ss, threads[t].todo, threads[t].open),
         st[s] = status, \A u \in Step \ {s} : st[u] = ss[u]
  PROVE  Progress(st, Finished(t, s), threads[t].open \ {s})
<1> USE FlowAssumption DEF Step, Done
<1>1. CASE threads[t].todo = "prepared"
  BY <1>1 DEF Progress, Finishable, Finished
<1>2. CASE threads[t].todo = "collect"
  <2>1. s \in Specialist /\ s \in threads[t].open /\ s # "prepare" /\ s # "critic"
    BY <1>2 DEF Finishable, Progress
  <2>2. CASE threads[t].open = {s}
    BY <1>2, <2>1, <2>2 DEF Progress, Finished
  <2>3. CASE threads[t].open # {s}
    BY <1>2, <2>1, <2>3 DEF Progress, Finished
  <2> QED
    BY <2>2, <2>3
<1>3. CASE threads[t].todo = "brief"
  BY <1>3 DEF Progress, Finishable, Finished
<1> QED
  BY <1>1, <1>2, <1>3 DEF Finishable

\* A step of the attempt under way concerns no other attempt.
LEMMA StepOwn ==
  ASSUME Typed, NEW f \in Flow, FlowOK(f), Own(f), NEW s \in Step, NEW status,
         StepSet(f, flows[f].attempt, s, status), leased' = leased \union {f},
         UNCHANGED <<flows, live>>
  PROVE  FlowOK(f)'
<1>1. flows[f].attempt \in Attempt
  BY DEF Typed, FlowRecord
<1>2. \A a \in Attempt : a > flows[f].attempt => Fresh(f, a)'
  BY <1>1 DEF FlowOK, Fresh, StepSet, Attempt
<1> QED
  BY <1>1, <1>2 DEF FlowOK, Own, Running, Active, Whole, MayLapse

\* An end of the flow, which is whole when it is a success.
LEMMA EndOwn ==
  ASSUME Typed, NEW f \in Flow, FlowOK(f), Own(f), NEW status \in Terminal,
         FlowSet(f, status, "none"), flows[f].cancel => status = "cancelled",
         Whole(f)', UNCHANGED <<steps, live>>
  PROVE  FlowOK(f)'
<1>1. flows[f].attempt \in Attempt
  BY DEF Typed, FlowRecord
<1> QED
  BY <1>1 DEF FlowOK, FlowSet, Terminal, Running, Active, Fresh

\* A thread leaves itself and the flow it holds as they should be.
LEMMA MovingOwn ==
  ASSUME Typed, NEW t \in Thread, ThreadOK(t), \A f \in Flow : FlowOK(f), Moving(t)
  PROVE  ThreadOK(t)' /\ \A f \in Flow : f = threads[t].flow => FlowOK(f)'
<1>1. ASSUME Claim(t)
      PROVE  ThreadOK(t)' /\ \A f \in Flow : f = threads[t].flow => FlowOK(f)'
  <2>1. PICK f \in Flow :
           /\ f = threads[t].flow
           /\ Others(t) /\ threads'[t].flow = f
           /\ \/ /\ flows[f].status = "queued" /\ ~ flows[f].cancel
                 /\ threads'[t].at = "read"
                 /\ threads'[t].todo = "prepare" /\ threads'[t].open = {}
                 /\ FlowSet(f, "running", "this") /\ leased' = leased \union {f}
              \/ threads'[t].at = "release" /\ UNCHANGED <<flows, leased>>
           /\ UNCHANGED <<steps, live>>
    BY <1>1, ClaimDoes
  <2>2. CASE UNCHANGED <<flows, leased>> /\ threads'[t].at = "release"
    <3>1. FlowOK(f)'
      BY <2>1, <2>2, OtherFlows
    <3> QED
      BY <2>1, <2>2, <3>1, FlowAssumption DEF ThreadOK
  <2>3. CASE /\ flows[f].status = "queued" /\ threads'[t].at = "read"
             /\ threads'[t].todo = "prepare" /\ threads'[t].open = {}
             /\ FlowSet(f, "running", "this") /\ leased' = leased \union {f}
    <3>0. /\ Running(f)' /\ f \in leased' /\ flows'[f].owner # "none"
          /\ flows'[f].status = "running" /\ flows'[f].cancel = flows[f].cancel
          /\ flows'[f].attempt = flows[f].attempt
          /\ flows'[f].draft = flows[f].draft /\ UNCHANGED <<steps, live>>
      BY <2>1, <2>3 DEF FlowSet, Running
    <3>1. FlowOK(f)'
      BY <2>3, <3>0 DEF FlowOK, Active, Whole, Fresh
    <3>2. Fresh(f, flows[f].attempt)'
      BY <2>1, <2>3 DEF FlowOK, FlowSet, Fresh
    <3> QED
      BY <2>1, <2>3, <3>1, <3>2, FlowAssumption DEF ThreadOK
  <2> QED
    BY <2>1, <2>2, <2>3
<1>2. ASSUME ReadClaim(t)
      PROVE  ThreadOK(t)' /\ \A f \in Flow : f = threads[t].flow => FlowOK(f)'
  <2>1. PICK f \in Flow :
           /\ f = threads[t].flow /\ threads[t].at = "read"
           /\ Others(t) /\ threads'[t].flow = f /\ threads'[t].at = "check"
           /\ threads'[t].attempt = flows[f].attempt
           /\ threads'[t].todo = threads[t].todo /\ threads'[t].open = threads[t].open
           /\ UNCHANGED <<flows, steps, leased, live, queue, errors, restarts>>
    BY <1>2, ReadClaimDoes
  <2>2. ThreadOK(t)'
    BY <2>1, FlowAssumption, ZenonT(40) DEF ThreadOK, Progress, Fresh
  <2>3. FlowOK(f)'
    BY <2>1, OtherFlows
  <2> QED
    BY <2>1, <2>2, <2>3
<1>3. ASSUME Check(t)
      PROVE  ThreadOK(t)' /\ \A f \in Flow : f = threads[t].flow => FlowOK(f)'
  <2>1. ThreadOK(t)'
    BY <1>3, CheckDoes, FlowAssumption DEF ThreadOK, Holds, Own, Running
  <2>2. ASSUME NEW f \in Flow, f = threads[t].flow
        PROVE  FlowOK(f)'
    BY <1>3, <2>2, CheckDoes, OtherFlows
  <2> QED
    BY <2>1, <2>2
<1>4. ASSUME CaptureFails(t) \/ Raise(t)
      PROVE  ThreadOK(t)' /\ \A f \in Flow : f = threads[t].flow => FlowOK(f)'
  <2>1. ThreadOK(t)'
    BY <1>4, CaptureDoes, FlowAssumption DEF ThreadOK
  <2>2. ASSUME NEW f \in Flow, f = threads[t].flow
        PROVE  FlowOK(f)'
    BY <1>4, <2>2, CaptureDoes, OtherFlows
  <2> QED
    BY <2>1, <2>2
<1>5. ASSUME NEW s \in Step, StartStep(t, s)
      PROVE  ThreadOK(t)' /\ \A f \in Flow : f = threads[t].flow => FlowOK(f)'
  <2>1. PICK f \in Flow :
           /\ f = threads[t].flow /\ threads[t].at = "write" /\ s \in ToStart(t)
           /\ Others(t) /\ threads'[t].flow = f
           /\ threads'[t].attempt = threads[t].attempt
           /\ \/ /\ Holds(t) /\ threads'[t].at \in {"check", "write"}
                 /\ threads'[t].todo = Started(t, s)
                 /\ threads'[t].open = threads[t].open \union {s}
                 /\ StepSet(f, threads[t].attempt, s, "running")
                 /\ leased' = leased \union {f}
              \/ /\ threads'[t].at = "ending" /\ threads'[t].result # "none"
                 /\ UNCHANGED <<steps, leased>>
           /\ UNCHANGED <<flows, live>>
    BY <1>5, StartDoes
  <2>2. CASE threads'[t].at = "ending" /\ UNCHANGED <<steps, leased>>
    <3>1. FlowOK(f)'
      BY <2>1, <2>2, OtherFlows
    <3> QED
      BY <2>1, <2>2, <3>1, FlowAssumption DEF ThreadOK
  <2>3. CASE Holds(t) /\ StepSet(f, threads[t].attempt, s, "running")
    <3>1. /\ threads[t].attempt = flows[f].attempt /\ Own(f)
          /\ threads[t].attempt \in Attempt
      BY <2>1, <2>3, Holding DEF Holds
    <3>2. CASE leased' = leased \union {f}
      <4>1. FlowOK(f)'
        BY <2>1, <2>3, <3>1, <3>2, StepOwn
      <4>2. Progress(steps[f][threads[t].attempt], threads[t].todo, threads[t].open)
        BY <2>1, <2>3 DEF ThreadOK
      <4>3. /\ steps[f][threads[t].attempt] \in [Step -> StepStatus]
            /\ steps'[f][threads[t].attempt] \in [Step -> StepStatus]
            /\ threads[t].open \subseteq Step
        BY <2>1, <2>3, <3>1 DEF Typed, StepSet, ThreadRecord
      <4>4. /\ steps'[f][threads[t].attempt][s] = "running"
            /\ \A u \in Step \ {s} :
                 steps'[f][threads[t].attempt][u] = steps[f][threads[t].attempt][u]
        BY <2>1, <2>3, <3>1 DEF StepSet
      <4>5. Progress(steps'[f][threads[t].attempt], Started(t, s),
                     threads[t].open \union {s})
        BY <1>5, <2>1, <4>2, <4>3, <4>4, StartProgress, StartDoes DEF Done
      <4> QED
        BY <2>1, <2>3, <4>1, <4>5, FlowAssumption DEF ThreadOK
    <3>3. CASE UNCHANGED <<steps, leased>> /\ threads'[t].at = "ending"
      BY <2>2, <3>3
    <3> QED
      BY <2>1, <3>2, <3>3
  <2> QED
    BY <2>1, <2>2, <2>3
<1>6. ASSUME NEW s \in Step, EndStep(t, s)
      PROVE  ThreadOK(t)' /\ \A f \in Flow : f = threads[t].flow => FlowOK(f)'
  <2>1. PICK f \in Flow :
           /\ f = threads[t].flow /\ threads[t].at = "ending"
           /\ Others(t) /\ threads'[t].flow = f /\ threads'[t].at = "ending"
           /\ threads'[t].result = threads[t].result
           /\ \/ /\ Holds(t)
                 /\ \E status \in {"cancelled", "failed"} :
                      StepSet(f, threads[t].attempt, s, status)
                 /\ leased' = leased \union {f}
              \/ UNCHANGED <<steps, leased>>
           /\ UNCHANGED <<flows, live>>
    BY <1>6, EndStepDoes
  <2>2. ThreadOK(t)'
    BY <2>1, FlowAssumption DEF ThreadOK
  <2>3. CASE UNCHANGED <<steps, leased>>
    BY <2>1, <2>2, <2>3, OtherFlows
  <2>4. CASE /\ Holds(t) /\ leased' = leased \union {f}
             /\ \E status \in {"cancelled", "failed"} :
                  StepSet(f, threads[t].attempt, s, status)
    BY <2>1, <2>2, <2>4, StepOwn DEF Holds
  <2> QED
    BY <2>1, <2>3, <2>4
<1>7. ASSUME NEW s \in Step, NEW status \in {"succeeded", "failed"},
             FinishStep(t, s, status)
      PROVE  ThreadOK(t)' /\ \A f \in Flow : f = threads[t].flow => FlowOK(f)'
  <2>1. PICK f \in Flow :
           /\ f = threads[t].flow /\ threads[t].at = "write" /\ s \in Finishable(t)
           /\ Others(t) /\ threads'[t].flow = f
           /\ threads'[t].attempt = threads[t].attempt
           /\ \/ /\ Holds(t) /\ threads'[t].at \in {"check", "write"}
                 /\ threads'[t].todo = Finished(t, s)
                 /\ threads'[t].open = threads[t].open \ {s}
                 /\ StepSet(f, threads[t].attempt, s, status)
                 /\ leased' = leased \union {f}
              \/ /\ threads'[t].at = "ending" /\ threads'[t].result # "none"
                 /\ UNCHANGED <<steps, leased>>
           /\ UNCHANGED <<flows, live>>
    BY <1>7, FinishDoes
  <2>2. CASE threads'[t].at = "ending" /\ UNCHANGED <<steps, leased>>
    <3>1. FlowOK(f)'
      BY <2>1, <2>2, OtherFlows
    <3> QED
      BY <2>1, <2>2, <3>1, FlowAssumption DEF ThreadOK
  <2>3. CASE Holds(t) /\ StepSet(f, threads[t].attempt, s, status)
    <3>1. /\ threads[t].attempt = flows[f].attempt /\ Own(f)
          /\ threads[t].attempt \in Attempt
      BY <2>1, <2>3, Holding DEF Holds
    <3>2. CASE leased' = leased \union {f}
      <4>1. FlowOK(f)'
        BY <2>1, <2>3, <3>1, <3>2, StepOwn
      <4>2. Progress(steps[f][threads[t].attempt], threads[t].todo, threads[t].open)
        BY <2>1, <2>3 DEF ThreadOK
      <4>3. /\ steps[f][threads[t].attempt] \in [Step -> StepStatus]
            /\ steps'[f][threads[t].attempt] \in [Step -> StepStatus]
            /\ threads[t].open \subseteq Step
        BY <2>1, <2>3, <3>1 DEF Typed, StepSet, ThreadRecord
      <4>4. /\ steps'[f][threads[t].attempt][s] = status
            /\ \A u \in Step \ {s} :
                 steps'[f][threads[t].attempt][u] = steps[f][threads[t].attempt][u]
        BY <2>1, <2>3, <3>1 DEF StepSet
      <4>5. Progress(steps'[f][threads[t].attempt], Finished(t, s),
                     threads[t].open \ {s})
        <5>1. s \in Finishable(t) /\ (s \in Specialist \/ status = "succeeded")
          BY <1>7, FinishDoes
        <5>2. status \in Done
          BY <1>7 DEF Done
        <5> QED
          BY <5>1, <5>2, <4>2, <4>3, <4>4, FinishProgress
      <4> QED
        BY <2>1, <2>3, <4>1, <4>5, FlowAssumption DEF ThreadOK
    <3>3. CASE UNCHANGED <<steps, leased>> /\ threads'[t].at = "ending"
      BY <2>2, <3>3
    <3> QED
      BY <2>1, <3>2, <3>3
  <2> QED
    BY <2>1, <2>2, <2>3
<1>8. ASSUME Complete(t)
      PROVE  ThreadOK(t)' /\ \A f \in Flow : f = threads[t].flow => FlowOK(f)'
  <2>1. PICK f \in Flow :
           /\ f = threads[t].flow /\ threads[t].at = "write"
           /\ threads[t].todo = "complete"
           /\ Others(t) /\ threads'[t].flow = f
           /\ \/ /\ Holds(t) /\ threads'[t].at = "release"
                 /\ FlowSet(f, IF flows[f].cancel THEN "cancelled"
                               ELSE Outcome(f, threads[t].attempt), "none")
              \/ /\ threads'[t].at = "ending" /\ threads'[t].result # "none"
                 /\ UNCHANGED <<flows, leased>>
           /\ UNCHANGED <<steps, live>>
    BY <1>8, CompleteDoes
  <2>2. ThreadOK(t)'
    BY <2>1, FlowAssumption DEF ThreadOK
  <2>3. CASE UNCHANGED <<flows, leased>>
    BY <2>1, <2>2, <2>3, OtherFlows
  <2>4. CASE /\ Holds(t)
             /\ FlowSet(f, IF flows[f].cancel THEN "cancelled"
                           ELSE Outcome(f, threads[t].attempt), "none")
    <3>1. threads[t].attempt = flows[f].attempt /\ Own(f)
      BY <2>1, <2>4 DEF Holds
    <3>2. Progress(steps[f][flows[f].attempt], "complete", threads[t].open)
      BY <2>1, <2>4, <3>1 DEF ThreadOK
    <3>3. Whole(f)'
      BY <2>1, <2>4, <3>1, <3>2 DEF FlowSet, Whole, Outcome, Progress, Done
    <3>4. FlowOK(f)'
      BY <2>1, <2>4, <3>1, <3>3, EndOwn DEF Terminal, Outcome
    <3> QED
      BY <2>1, <2>2, <3>4
  <2> QED
    BY <2>1, <2>3, <2>4
<1>9. ASSUME EndFlow(t) \/ Boundary(t)
      PROVE  ThreadOK(t)' /\ \A f \in Flow : f = threads[t].flow => FlowOK(f)'
  <2>1. PICK f \in Flow :
           /\ f = threads[t].flow
           /\ Others(t) /\ threads'[t].flow = f /\ threads'[t].at = "release"
           /\ \/ /\ Own(f) /\ leased' = leased \ {f}
                 /\ \E status \in {"cancelled", "blocked", "failed"} :
                      FlowSet(f, IF flows[f].cancel THEN "cancelled" ELSE status,
                              "none")
              \/ UNCHANGED <<flows, leased>>
           /\ UNCHANGED <<steps, live>>
    BY <1>9, EndFlowDoes
  <2>2. ThreadOK(t)'
    BY <2>1, FlowAssumption DEF ThreadOK
  <2>3. CASE UNCHANGED <<flows, leased>>
    BY <2>1, <2>2, <2>3, OtherFlows
  <2>4. ASSUME NEW status \in {"cancelled", "blocked", "failed"}, Own(f),
               FlowSet(f, IF flows[f].cancel THEN "cancelled" ELSE status, "none")
        PROVE  FlowOK(f)'
    <3>1. Whole(f)'
      BY <2>4 DEF FlowSet, Whole
    <3> QED
      BY <2>1, <2>4, <3>1, EndOwn DEF Terminal
  <2> QED
    BY <2>1, <2>2, <2>3, <2>4
<1>10. ASSUME Release(t) \/ Die(t)
      PROVE  ThreadOK(t)' /\ \A f \in Flow : f = threads[t].flow => FlowOK(f)'
  <2>1. ThreadOK(t)'
    BY <1>10, ReleaseDoes, FlowAssumption DEF ThreadOK
  <2>2. ASSUME NEW f \in Flow, f = threads[t].flow
        PROVE  FlowOK(f)'
    BY <1>10, <2>2, ReleaseDoes, OtherFlows
  <2> QED
    BY <2>1, <2>2
<1>11. ASSUME Escape(t)
      PROVE  ThreadOK(t)' /\ \A f \in Flow : f = threads[t].flow => FlowOK(f)'
  <2>1. ThreadOK(t)'
    BY <1>11, EscapeDoes, FlowAssumption DEF ThreadOK
  <2>2. ASSUME NEW f \in Flow, f = threads[t].flow
        PROVE  FlowOK(f)'
    BY <1>11, <2>2, EscapeDoes, OtherFlows
  <2> QED
    BY <2>1, <2>2
<1>12. ASSUME Renew(t)
      PROVE  ThreadOK(t)' /\ \A f \in Flow : f = threads[t].flow => FlowOK(f)'
  <2>1. threads[t].flow \in Flow /\ Own(threads[t].flow)
    BY <1>12, Holding DEF Renew, Holds
  <2>2. ThreadOK(t)'
    BY <1>12 DEF Renew, ThreadOK, Fresh, Holds, Own, Running
  <2>3. ASSUME NEW f \in Flow, f = threads[t].flow
        PROVE  FlowOK(f)'
    <3>1. /\ UNCHANGED <<flows, steps, live>> /\ f \in leased'
          /\ FlowOK(f)
      BY <1>12, <2>3 DEF Renew
    <3>2. Whole(f)'
      BY <3>1 DEF FlowOK, Whole
    <3>3. \A a \in Attempt : Fresh(f, a)' <=> Fresh(f, a)
      BY <3>1 DEF Fresh
    <3>4. flows[f].attempt \in Attempt
      BY DEF Typed, FlowRecord
    <3> QED
      BY <3>1, <3>2, <3>3, <3>4 DEF FlowOK, Running, Active
  <2> QED
    BY <2>2, <2>3
<1> QED
  BY <1>1, <1>2, <1>3, <1>4, <1>5, <1>6, <1>7, <1>8, <1>9, <1>10,
     <1>11, <1>12 DEF Moving

-----------------------------------------------------------------------------
(***************************************************************************)
(* Every step keeps the invariant.                                         *)
(***************************************************************************)
\* The queue is finite ...
LEMMA FiniteQueue ==
  ASSUME Typed
  PROVE  IsFiniteSet(queue) /\ Cardinality(queue) \in Nat
<1>1. IsFiniteSet(queue)
  BY FlowAssumption, FS_Subset DEF Typed
<1> QED
  BY <1>1, FS_CardinalityType

\* ... and has room for one more below its limit.
LEMMA OneMore ==
  ASSUME Typed, NEW f \in Flow, Cardinality(queue) < QueueLimit
  PROVE  Cardinality(queue \union {f}) <= QueueLimit
<1>1. Cardinality(queue \union {f}) =
        IF f \in queue THEN Cardinality(queue) ELSE Cardinality(queue) + 1
  BY FiniteQueue, FS_AddElement
<1> QED
  BY <1>1, FiniteQueue, FlowAssumption

\* A thread that has a flow keeps the invariant ...
LEMMA MovingInv ==
  ASSUME Inv, NEW t \in Thread, Moving(t)
  PROVE  Inv'
<1>1. Typed' /\ Typed /\ ThreadOK(t)
  BY MovingTyped DEF Inv
<1>2. PICK f \in Flow :
        /\ f = threads[t].flow /\ Frame(t, f)
        /\ \/ threads'[t].flow = f /\ queue' = queue
           \/ threads'[t].flow = None /\ queue' \in {queue, Requeued(f)}
  BY <1>1, MovingFrame
<1>3. ThreadOK(t)' /\ FlowOK(f)'
  BY <1>1, <1>2, MovingOwn DEF Inv
<1>4. \A u \in Thread \ {t} : threads[u].flow # f
  BY <1>2, FlowAssumption DEF Inv, Hands
<1>5. Hands'
  <2>1. \A u \in Thread \ {t} : threads'[u] = threads[u]
    BY <1>2 DEF Frame, Others
  <2> QED
    BY <1>2, <1>4, <2>1 DEF Inv, Hands, Requeued
<1>6. Cardinality(queue') <= QueueLimit
  BY <1>1, <1>2, OneMore DEF Inv, Requeued
<1>7. ASSUME NEW u \in Thread \ {t}
      PROVE  ThreadOK(u)'
  BY <1>1, <1>2, <1>4, OtherThreads DEF Inv
<1>8. ASSUME NEW g \in Flow \ {f}
      PROVE  FlowOK(g)'
  <2>1. /\ flows'[g] = flows[g] /\ (g \in leased' <=> g \in leased)
        /\ \A a \in Attempt, s \in Step : steps'[g][a][s] = steps[g][a][s]
        /\ UNCHANGED live
    BY <1>2 DEF Frame
  <2> QED
    BY <1>1, <2>1, OtherFlows DEF Inv
<1>9. (\A u \in Thread : ThreadOK(u)') /\ \A g \in Flow : FlowOK(g)'
  BY <1>3, <1>7, <1>8
<1> QED
  BY <1>1, <1>5, <1>6, <1>9 DEF Inv

\* ... and so does one that takes a flow.
LEMMA TakeInv ==
  ASSUME Inv, NEW t \in Thread, NEW f \in Flow, Take(t, f)
  PROVE  Inv'
<1>1. /\ threads[t].at = "idle" /\ f \in queue /\ queue' = queue \ {f}
      /\ Others(t) /\ threads'[t].flow = f /\ threads'[t].at = "claim"
      /\ UNCHANGED <<flows, steps, leased, live, errors, restarts>>
  BY TakeDoes DEF Inv
<1>2. Typed'
  BY <1>1 DEF Inv, Typed, Others
<1>3. \A u \in Thread : threads[u].flow # f
  BY <1>1, FlowAssumption DEF Inv, Hands
<1>4. Hands'
  BY <1>1, <1>3 DEF Inv, Hands, Others
<1>5. Cardinality(queue') <= QueueLimit
  <2>1. Cardinality(queue \ {f}) =
          IF f \in queue THEN Cardinality(queue) - 1 ELSE Cardinality(queue)
    BY FiniteQueue, FS_RemoveElement DEF Inv
  <2> QED
    BY <1>1, <2>1, FiniteQueue, FlowAssumption DEF Inv
<1>6. ThreadOK(t)'
  BY <1>1, FlowAssumption DEF ThreadOK
<1>7. Frame(t, f)
  BY <1>1 DEF Frame
<1>8. ASSUME NEW u \in Thread \ {t}
      PROVE  ThreadOK(u)'
  BY <1>3, <1>7, OtherThreads DEF Inv
<1>9. ASSUME NEW g \in Flow
      PROVE  FlowOK(g)'
  BY <1>1, OtherFlows DEF Inv
<1> QED
  BY <1>2, <1>4, <1>5, <1>6, <1>8, <1>9 DEF Inv

\* A flow that is woken is in nobody's hands, and the queue keeps its limit.
LEMMA WokenInv ==
  ASSUME Inv, NEW f \in Flow, queue' \in {queue, Woken(f)}, UNCHANGED threads
  PROVE  queue' \subseteq Flow /\ Hands' /\ Cardinality(queue') <= QueueLimit
<1>1. CASE queue' = queue
  BY <1>1 DEF Inv, Typed, Hands
<1>2. CASE /\ f \notin Scheduled /\ ~ Cardinality(queue) >= QueueLimit
           /\ queue' = queue \union {f}
  <2>1. Cardinality(queue) < QueueLimit
    BY <1>2, FiniteQueue, FlowAssumption DEF Inv
  <2>2. Cardinality(queue') <= QueueLimit
    BY <1>2, <2>1, OneMore DEF Inv
  <2>3. \A t \in Thread : threads[t].flow # f
    BY <1>2, FlowAssumption DEF Scheduled
  <2> QED
    BY <1>2, <2>2, <2>3 DEF Inv, Typed, Hands
<1> QED
  BY <1>1, <1>2 DEF Woken

\* What people do concerns one flow, which is not in the middle of its steps.
LEMMA OneFlowInv ==
  ASSUME Inv, NEW f \in Flow, queue' \in {queue, Woken(f)},
         UNCHANGED <<threads, steps, leased, live, errors, restarts>>,
         flows' \in [Flow -> FlowRecord],
         \A g \in Flow \ {f} : flows'[g] = flows[g],
         \/ ~ Running(f)'
         \/ flows'[f].owner = flows[f].owner /\ Running(f)
            /\ flows'[f].attempt = flows[f].attempt,
         Fresh(f, flows[f].attempt) => Fresh(f, flows'[f].attempt),
         FlowOK(f)'
  PROVE  Inv'
<1>1. queue' \subseteq Flow /\ Hands' /\ Cardinality(queue') <= QueueLimit
  BY WokenInv
<1>2. Typed'
  BY <1>1 DEF Inv, Typed
<1>3. ASSUME NEW t \in Thread
      PROVE  ThreadOK(t)'
  <2>1. CASE threads[t].flow # f
    <3>1. ThreadOK(t) /\ Typed
      BY DEF Inv
    <3>2. CASE threads[t].flow = None
      BY <3>1, <3>2 DEF ThreadOK
    <3>3. CASE threads[t].flow \in Flow \ {f}
      BY <3>1, <3>3, SameThread
    <3> QED
      BY <2>1, <3>1, <3>2, <3>3 DEF Typed, ThreadRecord
  <2>2. CASE threads[t].flow = f
    BY <2>2 DEF Inv, ThreadOK, Fresh, Holds, Own, Running
  <2> QED
    BY <2>1, <2>2
<1>4. ASSUME NEW g \in Flow \ {f}
      PROVE  FlowOK(g)'
  BY <1>4, OtherFlows DEF Inv
<1> QED
  BY <1>1, <1>2, <1>3, <1>4 DEF Inv

\* A new flow has a draft, and no steps yet.
LEMMA CreateInv ==
  ASSUME Inv, NEW f \in Flow, NEW d \in Draft, Create(f, d)
  PROVE  Inv'
<1>1. flows[f] \in FlowRecord
  BY DEF Inv, Typed
<1>2. PICK x \in FlowRecord :
        x = [flows[f] EXCEPT !.status = "queued", !.draft = d, !.ready = TRUE]
  BY <1>1 DEF FlowRecord
<1>3. flows' = [flows EXCEPT ![f] = x]
  BY <1>2 DEF Create, New, Inv, Typed
<1>4. /\ flows' \in [Flow -> FlowRecord] /\ flows'[f].status = "queued"
      /\ flows'[f].draft = d /\ flows'[f].attempt = flows[f].attempt
      /\ flows'[f].cancel = flows[f].cancel /\ flows'[f].owner = flows[f].owner
      /\ \A g \in Flow \ {f} : flows'[g] = flows[g]
  BY <1>1, <1>2, <1>3 DEF Inv, Typed, FlowRecord
<1>5. FlowOK(f)'
  BY <1>4 DEF Create, New, Inv, FlowOK, Running, Active, Whole, Fresh
<1> QED
  BY <1>4, <1>5, OneFlowInv DEF Create, New, Running

\* A cancel ends a queued flow, and marks a running one.
LEMMA CancelInv ==
  ASSUME Inv, NEW f \in Flow, Cancel(f)
  PROVE  Inv'
<1>1. flows[f] \in FlowRecord
  BY DEF Inv, Typed
<1>2. PICK x \in FlowRecord :
        x = [flows[f] EXCEPT !.cancel = TRUE,
                             !.status = IF @ = "queued" THEN "cancelled" ELSE @]
  BY <1>1 DEF FlowRecord, Terminal
<1>3. flows' = [flows EXCEPT ![f] = x]
  BY <1>2 DEF Cancel, Inv, Typed
<1>4. /\ flows' \in [Flow -> FlowRecord] /\ flows'[f].cancel
      /\ flows'[f].status =
           IF flows[f].status = "queued" THEN "cancelled" ELSE flows[f].status
      /\ flows'[f].draft = flows[f].draft /\ flows'[f].attempt = flows[f].attempt
      /\ flows'[f].owner = flows[f].owner
      /\ \A g \in Flow \ {f} : flows'[g] = flows[g]
  BY <1>1, <1>2, <1>3 DEF Inv, Typed, FlowRecord
<1>5. FlowOK(f)'
  BY <1>4 DEF Cancel, Inv, FlowOK, Running, Active, Whole, Fresh, MayLapse
<1> QED
  BY <1>4, <1>5, OneFlowInv DEF Cancel, Running

\* A retry begins an attempt in which nothing was started.
LEMMA RetryInv ==
  ASSUME Inv, NEW f \in Flow, Retry(f)
  PROVE  Inv'
<1>1. flows[f] \in FlowRecord /\ flows[f].attempt \in Attempt
  BY DEF Inv, Typed, FlowRecord
<1>2. flows[f].attempt + 1 \in Attempt
  BY <1>1, FlowAssumption DEF Retry, Attempt
<1>3. PICK x \in FlowRecord :
        x = [flows[f] EXCEPT !.status = "queued", !.cancel = FALSE,
                             !.aborted = FALSE, !.attempt = flows[f].attempt + 1]
  BY <1>1, <1>2 DEF FlowRecord
<1>4. flows' = [flows EXCEPT ![f] = x]
  BY <1>3 DEF Retry, Inv, Typed
<1>5. /\ flows' \in [Flow -> FlowRecord] /\ flows'[f].status = "queued"
      /\ flows'[f].draft = flows[f].draft /\ ~ flows'[f].cancel
      /\ flows'[f].attempt = flows[f].attempt + 1 /\ flows'[f].owner = flows[f].owner
      /\ \A g \in Flow \ {f} : flows'[g] = flows[g]
  BY <1>1, <1>3, <1>4 DEF Inv, Typed, FlowRecord
<1>6. flows[f].attempt + 1 > flows[f].attempt
  BY <1>1 DEF Attempt
<1>7. Fresh(f, flows[f].attempt + 1)
  BY <1>2, <1>6 DEF Inv, FlowOK
<1>8. \A a \in Attempt : a > flows[f].attempt + 1 => a > flows[f].attempt
  BY <1>1 DEF Attempt
<1>9. FlowOK(f)'
  BY <1>5, <1>7, <1>8
  DEF Retry, Retryable, Inv, FlowOK, Running, Active, Whole, Fresh
<1> QED
  BY <1>5, <1>7, <1>9, OneFlowInv DEF Retry, Running

\* A draft is deleted only when no flow is about it.
LEMMA DeleteInv ==
  ASSUME Inv, NEW d \in Draft, DeleteDraft(d)
  PROVE  Inv'
BY DEF DeleteDraft, Inv, Typed, Hands, ThreadOK, FlowOK, Running, Active, Whole, Fresh,
       MayLapse, Holds, Own

\* A lease runs out only where recovery may follow.
LEMMA LeaseInv ==
  ASSUME Inv, NEW f \in Flow, LeaseExpires(f)
  PROVE  Inv'
BY DEF LeaseExpires, Inv, Typed, Hands, ThreadOK, FlowOK, Running, Active, Whole, Fresh,
       MayLapse, Holds, Own

-----------------------------------------------------------------------------
(***************************************************************************)
(* Recovery and restarts.                                                  *)
(***************************************************************************)
\* Recovery leaves a flow alone, or takes a running one from its owner.
LEMMA RecoveredIs ==
  ASSUME Typed, NEW held \in SUBSET leased, NEW f \in Flow,
         Running(f) /\ f \notin held => MayLapse(f)
  PROVE  LET r == Recovered(held, {})[f] IN
         /\ r \in FlowRecord
         /\ \/ r = flows[f] /\ (Running(f) => f \in held)
            \/ /\ Running(f) /\ f \notin held
               /\ r.owner = "none" /\ r.draft = flows[f].draft
               /\ r.cancel = flows[f].cancel
               /\ \/ /\ flows[f].cancel /\ r.status = "cancelled"
                     /\ r.attempt = flows[f].attempt
                  \/ /\ ~ flows[f].cancel /\ r.status = "queued"
                     /\ r.attempt = flows[f].attempt + 1
<1>1. flows[f] \in FlowRecord /\ flows[f].attempt \in Attempt
  BY DEF Typed, FlowRecord
<1>2. CASE ~ (Running(f) /\ f \notin held)
  BY <1>1, <1>2 DEF Recovered
<1>3. CASE Running(f) /\ f \notin held /\ flows[f].cancel
  <2>1. PICK x \in FlowRecord :
          x = [flows[f] EXCEPT !.status = "cancelled", !.owner = "none"]
    BY <1>1 DEF FlowRecord, Terminal
  <2>2. Recovered(held, {})[f] = x
    BY <1>3, <2>1 DEF Recovered, Interrupted
  <2> QED
    BY <1>1, <1>3, <2>1, <2>2, ZenonT(40) DEF FlowRecord
<1>4. CASE Running(f) /\ f \notin held /\ ~ flows[f].cancel
  <2>1. flows[f].attempt + 1 \in Attempt
    BY <1>1, <1>4, FlowAssumption DEF MayLapse, Attempt
  <2>2. PICK x \in FlowRecord :
          x = [flows[f] EXCEPT !.status = "queued", !.owner = "none",
                               !.attempt = flows[f].attempt + 1]
    BY <1>1, <2>1 DEF FlowRecord
  <2>3. Recovered(held, {})[f] = x
    BY <1>4, <2>2 DEF Recovered, Interrupted
  <2> QED
    BY <1>1, <1>4, <2>2, <2>3 DEF FlowRecord
<1> QED
  BY <1>2, <1>3, <1>4

\* Recovery starts no step, and touches none of a flow it leaves alone.
LEMMA RecoveredSteps ==
  ASSUME Typed, NEW held \in SUBSET leased, steps' = StepsRecovered(held)
  PROVE  /\ steps' \in [Flow -> [Attempt -> [Step -> StepStatus]]]
         /\ \A f \in Flow, a \in Attempt : Fresh(f, a) => Fresh(f, a)'
         /\ \A f \in Flow, a \in Attempt, s \in Step :
              (Running(f) => f \in held) => steps'[f][a][s] = steps[f][a][s]
<1>1. ASSUME NEW f \in Flow, NEW a \in Attempt, NEW s \in Step
      PROVE  /\ steps[f][a][s] \in StepStatus
             /\ steps'[f][a][s] =
                  IF Running(f) /\ f \notin held /\ steps[f][a][s] = "running"
                  THEN "failed" ELSE steps[f][a][s]
  BY DEF Typed, StepsRecovered
<1>2. steps' \in [Flow -> [Attempt -> [Step -> StepStatus]]]
  BY DEF StepsRecovered, Typed, StepStatus
<1> QED
  BY <1>1, <1>2 DEF Fresh

\* A recovered flow is as it should be, with its owner or that owner ended.
LEMMA RecoveredFlow ==
  ASSUME Typed, NEW held \in SUBSET leased, NEW f \in Flow, FlowOK(f),
         Running(f) /\ f \notin held => MayLapse(f),
         leased' = held, UNCHANGED live, steps' = StepsRecovered(held),
         NEW r \in {Recovered(held, {})[f]},
         \/ flows'[f] = r
         \/ r.status = "running" /\ flows'[f] = [r EXCEPT !.owner = "other"]
  PROVE  flows'[f] \in FlowRecord /\ FlowOK(f)'
<1>1. /\ r \in FlowRecord /\ r.attempt \in Attempt
      /\ flows[f].attempt \in Attempt
  BY RecoveredIs DEF Typed, FlowRecord
<1>2. /\ flows'[f] \in FlowRecord
      /\ flows'[f].status = r.status /\ flows'[f].draft = r.draft
      /\ flows'[f].cancel = r.cancel /\ flows'[f].attempt = r.attempt
      /\ flows'[f].owner = IF flows'[f] = r THEN r.owner ELSE "other"
      /\ flows'[f] = r \/ r.status = "running"
  <2>1. CASE flows'[f] = r
    BY <1>1, <2>1
  <2>2. CASE r.status = "running" /\ flows'[f] = [r EXCEPT !.owner = "other"]
    BY <1>1, <2>2 DEF FlowRecord
  <2> QED
    BY <2>1, <2>2
<1>3. CASE r = flows[f] /\ (Running(f) => f \in held)
  <2>1. \A a \in Attempt, s \in Step : steps'[f][a][s] = steps[f][a][s]
    BY <1>3, RecoveredSteps
  <2>2. Running(f)' => f \in leased'
    BY <1>2, <1>3 DEF Running
  <2>3. Whole(f)'
    BY <1>1, <1>2, <1>3, <2>1 DEF FlowOK, Whole, Step
  <2>4. \A a \in Attempt : Fresh(f, a) => Fresh(f, a)'
    BY <2>1 DEF Fresh
  <2> QED
    BY <1>1, <1>2, <1>3, <2>2, <2>3, <2>4 DEF FlowOK, Running, Active
<1>4. CASE /\ Running(f) /\ f \notin held
           /\ r.owner = "none" /\ r.draft = flows[f].draft
           /\ r.cancel = flows[f].cancel
           /\ \/ /\ flows[f].cancel /\ r.status = "cancelled"
                 /\ r.attempt = flows[f].attempt
              \/ /\ ~ flows[f].cancel /\ r.status = "queued"
                 /\ r.attempt = flows[f].attempt + 1
  <2>1. \A a \in Attempt : Fresh(f, a) => Fresh(f, a)'
    BY RecoveredSteps
  <2>2. flows'[f] = r
    BY <1>2, <1>4
  <2>3. \A a \in Attempt : a > r.attempt => a > flows[f].attempt
    BY <1>1, <1>4 DEF Attempt
  <2>4. r.status = "queued" => r.attempt > flows[f].attempt
    BY <1>1, <1>4 DEF Attempt
  <2>5. r.status = "queued" => Fresh(f, r.attempt)'
    BY <1>1, <2>1, <2>4 DEF FlowOK
  <2>6. \A a \in Attempt : a > r.attempt => Fresh(f, a)'
    BY <2>1, <2>3 DEF FlowOK
  <2>7. f \in Active
    BY <1>4 DEF Active, Running
  <2> QED
    BY <1>2, <1>4, <2>2, <2>5, <2>6, <2>7 DEF FlowOK, Running, Active, Whole
<1> QED
  BY <1>2, <1>3, <1>4, RecoveredIs

\* The recovery loop keeps the invariant ...
LEMMA RecoverInv ==
  ASSUME Inv, Recover({})
  PROVE  Inv'
<1>1. /\ Typed /\ leased' = leased /\ UNCHANGED <<live, threads, errors, restarts>>
      /\ steps' = StepsRecovered(leased) /\ leased \in SUBSET leased
      /\ flows' = Recovered(leased, {})
  BY DEF Inv, Recover
<1>2. ASSUME NEW f \in Flow
      PROVE  /\ FlowOK(f) /\ (Running(f) /\ f \notin leased => MayLapse(f))
             /\ flows'[f] \in FlowRecord /\ FlowOK(f)'
  <2>1. FlowOK(f) /\ (Running(f) /\ f \notin leased => MayLapse(f))
    BY DEF Inv, FlowOK
  <2> QED
    BY <1>1, <2>1, RecoveredFlow
<1>3. flows' \in [Flow -> FlowRecord]
  BY <1>1, <1>2 DEF Recovered
<1>4. /\ queue' \subseteq Flow /\ Cardinality(queue') <= QueueLimit
      /\ \A t \in Thread : threads[t].flow \in queue' /\ threads[t].flow # None
           => threads[t].flow \in queue
  <2>1. queue' \in Wakings(queue, Waiting(Recovered(leased, {})) \ Scheduled)
    BY DEF Recover
  <2>2. Waiting(Recovered(leased, {})) \ Scheduled \subseteq Flow
    BY DEF Waiting
  <2> QED
    BY <1>1, <2>1, <2>2 DEF Wakings, Scheduled, Typed
<1>5. Typed'
  BY <1>1, <1>3, <1>4, RecoveredSteps DEF Typed
<1>6. Hands'
  BY <1>1, <1>4 DEF Inv, Hands
<1>7. ASSUME NEW t \in Thread
      PROVE  ThreadOK(t)'
  <2>1. ThreadOK(t) /\ threads' = threads
    BY <1>1 DEF Inv
  <2>2. CASE threads[t].flow = None
    BY <2>1, <2>2 DEF ThreadOK
  <2>3. ASSUME NEW f \in Flow, f = threads[t].flow
        PROVE  ThreadOK(t)'
    <3>1. PICK a \in Attempt, b \in Attempt :
            a = flows[f].attempt /\ b = flows'[f].attempt
      BY <1>1, <1>3 DEF Typed, FlowRecord
    <3>2. CASE flows'[f] = flows[f] /\ (Running(f) => f \in leased)
      <4>1. \A c \in Attempt, s \in Step : steps'[f][c][s] = steps[f][c][s]
        BY <1>1, <3>2, RecoveredSteps
      <4> QED
        BY <1>1, <2>1, <2>3, <3>2, <4>1, SameThread
    <3>3. CASE /\ flows'[f].owner = "none"
               /\ b = a \/ b = a + 1
      <4>1. ~ Holds(t)'
        BY <2>1, <2>3, <3>3 DEF Holds, Own
      <4>2. ASSUME threads[t].at = "read"
            PROVE  Fresh(f, b)'
        <5>1. Fresh(f, a)
          BY <2>1, <2>3, <3>1, <4>2 DEF ThreadOK, Fresh
        <5>2. b = a + 1 => Fresh(f, b)
          BY <1>2, <3>1 DEF FlowOK, Attempt
        <5> QED
          BY <1>1, <3>3, <5>1, <5>2, RecoveredSteps
      <4> QED
        BY <2>1, <2>3, <3>1, <4>1, <4>2 DEF ThreadOK, Fresh
    <3> QED
      BY <1>1, <1>2, <3>1, <3>2, <3>3, RecoveredIs
  <2> QED
    BY <1>1, <2>2, <2>3 DEF Typed, ThreadRecord
<1> QED
  BY <1>2, <1>4, <1>5, <1>6, <1>7 DEF Inv

\* ... and so does a restart.
LEMMA RestartInv ==
  ASSUME Inv, NEW held \in SUBSET leased, Restart(held, {})
  PROVE  Inv'
<1>1. /\ Typed /\ leased' = held /\ UNCHANGED live
      /\ steps' = StepsRecovered(held)
      /\ \A f \in Flow : Running(f) => MayLapse(f)
  BY DEF Inv, Restart
<1>2. ASSUME NEW f \in Flow
      PROVE  flows'[f] \in FlowRecord /\ FlowOK(f)'
  <2>1. PICK r \in {Recovered(held, {})[f]} : TRUE
    OBVIOUS
  <2>2. FlowOK(f)
    BY DEF Inv
  <2>3. flows'[f] = IF r.status = "running" THEN [r EXCEPT !.owner = "other"] ELSE r
    BY <2>1 DEF Restart
  <2> QED
    BY <1>1, <2>2, <2>3, RecoveredFlow
<1>3. flows' \in [Flow -> FlowRecord]
  BY <1>2 DEF Restart
<1>4. queue' \subseteq Flow /\ Cardinality(queue') <= QueueLimit
  BY DEF Restart, Wakings, Waiting
<1>5. \A t \in Thread : threads'[t] = Idle /\ Idle \in ThreadRecord
  BY FlowAssumption DEF Restart, Idle, ThreadRecord, Attempt
<1>6. threads' \in [Thread -> ThreadRecord]
  BY <1>5 DEF Restart
<1>7. restarts' \in 0..MaxRestart /\ errors' \in 0..MaxError
  BY FlowAssumption DEF Restart, Inv, Typed
<1>8. leased' \subseteq Flow
  BY <1>1 DEF Typed
<1>9. Typed'
  BY <1>1, <1>3, <1>4, <1>6, <1>7, <1>8, RecoveredSteps DEF Typed
<1>10. Hands' /\ \A t \in Thread : ThreadOK(t)'
  BY <1>5 DEF Hands, ThreadOK, Idle
<1> QED
  BY <1>2, <1>4, <1>9, <1>10 DEF Inv

-----------------------------------------------------------------------------
(***************************************************************************)
(* The invariant holds throughout.                                         *)
(***************************************************************************)
\* The invariant holds at the start ...
LEMMA InitInv == Init => Inv
<1> SUFFICES ASSUME Init
             PROVE  Inv
  OBVIOUS
<1>1. NoFlow \in FlowRecord
  BY FlowAssumption DEF NoFlow, FlowRecord, Attempt
<1>2. Idle \in ThreadRecord
  BY FlowAssumption DEF Idle, ThreadRecord, Attempt
<1>3. Typed
  BY <1>1, <1>2, FlowAssumption DEF Init, Typed, StepStatus
<1>4. Hands /\ \A t \in Thread : ThreadOK(t)
  BY DEF Init, Idle, Hands, ThreadOK
<1>5. \A f \in Flow : FlowOK(f)
  BY <1>1, FlowAssumption
  DEF Init, NoFlow, FlowOK, Fresh, Whole, Running, Active, Attempt
<1>6. Cardinality(queue) <= QueueLimit
  BY FS_EmptySet, FlowAssumption DEF Init
<1> QED
  BY <1>3, <1>4, <1>5, <1>6 DEF Inv

\* ... and is kept by every step.
LEMMA NextInv == Inv /\ [Next]_vars => Inv'
<1> SUFFICES ASSUME Inv, [Next]_vars
             PROVE  Inv'
  OBVIOUS
<1>1. CASE People
  BY <1>1, CreateInv, CancelInv, RetryInv, DeleteInv DEF People
<1>2. ASSUME NEW t \in Thread, Worker(t)
      PROVE  Inv'
  BY <1>2, MovingInv, TakeInv DEF Worker, Work, Moving
<1>3. CASE \E f \in Flow : LeaseExpires(f)
  BY <1>3, LeaseInv
<1>4. CASE Recover({})
  BY <1>4, RecoverInv
<1>5. CASE \E held \in SUBSET leased : Restart(held, {})
  BY <1>5, RestartInv
<1>6. CASE UNCHANGED vars
  <2>1. /\ UNCHANGED <<flows, steps, leased, live, queue, threads, errors, restarts>>
    BY <1>6 DEF vars
  <2>2. Typed' /\ Hands' /\ Cardinality(queue') <= QueueLimit
    BY <2>1 DEF Inv, Typed, Hands
  <2>3. \A f \in Flow : FlowOK(f)'
    BY <2>1 DEF Inv, FlowOK, Running, Active, Whole, Fresh, MayLapse
  <2>4. \A t \in Thread : ThreadOK(t)'
    <3>1. /\ \A t \in Thread : ThreadOK(t)
          /\ \A t \in Thread : Holds(t)' <=> Holds(t)
      BY <2>1 DEF Inv, Holds, Own, Running
    <3>2. \A f, a : Fresh(f, a)' <=> Fresh(f, a)
      BY <2>1 DEF Fresh
    <3> QED
      BY <2>1, <3>1, <3>2 DEF ThreadOK
  <2> QED
    BY <2>2, <2>3, <2>4 DEF Inv
<1> QED
  BY <1>1, <1>2, <1>3, <1>4, <1>5, <1>6 DEF Next

\* So it holds throughout.
LEMMA Invariance == Spec => []Inv
BY InitInv, NextInv, PTL DEF Spec

\* The state is well formed: exactly the running flows have an owner, and the
\* queue keeps its capacity.
THEOREM FlowTyped == Spec => []TypeOK
<1>1. Inv => TypeOK
  BY DEF Inv, Typed, FlowOK, TypeOK, StepStatus
<1> QED
  BY <1>1, Invariance, PTL

\* No flow is in the hands of two threads, or of a thread and the queue.
THEOREM HandledOnce == Spec => []RunOnce
<1>1. Inv => RunOnce
  BY DEF Inv, Hands, RunOnce
<1> QED
  BY <1>1, Invariance, PTL

\* A succeeded flow has all its steps, and the results they need.
THEOREM SuccessIsWhole == Spec => []SucceededIsWhole
<1>1. Inv => SucceededIsWhole
  BY DEF Inv, FlowOK, Whole, SucceededIsWhole, Done
<1> QED
  BY <1>1, Invariance, PTL

\* Nothing queued or running is about a deleted draft.
THEOREM ActiveKeepsDraft == Spec => []ActiveHasDraft
<1>1. Inv => ActiveHasDraft
  BY DEF Inv, FlowOK, ActiveHasDraft, Active
<1> QED
  BY <1>1, Invariance, PTL

-----------------------------------------------------------------------------
(***************************************************************************)
(* What a step may never do to a flow.                                     *)
(***************************************************************************)
CancelLasts(f) ==
  flows[f].cancel /\ ~ flows[f].aborted =>
    flows'[f].cancel /\ flows'[f].status \in {flows[f].status, "cancelled"}

Freezes(f) ==
  \A a \in Attempt : \A s \in Step :
    a < flows[f].attempt \/ flows[f].status \in Terminal =>
      \/ steps'[f][a][s] = steps[f][a][s]
      \/ steps[f][a][s] = "running" /\ steps'[f][a][s] = "failed"

Lawful(f) == CancelLasts(f) /\ Freezes(f)

\* A flow that does not change is lawful ...
LEMMA Untouched ==
  ASSUME NEW f \in Flow, flows'[f] = flows[f],
         \A a \in Attempt, s \in Step : steps'[f][a][s] = steps[f][a][s]
  PROVE  Lawful(f)
BY DEF Lawful, CancelLasts, Freezes

\* ... and so is a step written into the attempt of a running flow ...
LEMMA StepLawful ==
  ASSUME Typed, NEW f \in Flow, Own(f), NEW s \in Step, NEW status,
         StepSet(f, flows[f].attempt, s, status), UNCHANGED flows
  PROVE  Lawful(f)
<1>1. flows[f].attempt \in Attempt
  BY DEF Typed, FlowRecord
<1> QED
  BY <1>1 DEF Lawful, CancelLasts, Freezes, StepSet, Own, Running, Terminal, Attempt

\* ... and an end of a flow that looks at the cancel mark.
LEMMA EndLawful ==
  ASSUME NEW f \in Flow, NEW status, UNCHANGED steps,
         FlowSet(f, IF flows[f].cancel THEN "cancelled" ELSE status, "none")
  PROVE  Lawful(f)
BY DEF Lawful, CancelLasts, Freezes, FlowSet

\* A thread treats the flow it holds lawfully.
LEMMA MovingLawful ==
  ASSUME Typed, NEW t \in Thread, ThreadOK(t), Moving(t)
  PROVE  \A f \in Flow : f = threads[t].flow => Lawful(f)
<1>1. ASSUME Claim(t)
      PROVE  \A f \in Flow : f = threads[t].flow => Lawful(f)
  BY <1>1, ClaimDoes DEF Lawful, CancelLasts, Freezes, FlowSet, Running
<1>2. ASSUME ReadClaim(t)
      PROVE  \A f \in Flow : f = threads[t].flow => Lawful(f)
  BY <1>2, ReadClaimDoes, Untouched
<1>3. ASSUME Check(t)
      PROVE  \A f \in Flow : f = threads[t].flow => Lawful(f)
  BY <1>3, CheckDoes, Untouched
<1>4. ASSUME CaptureFails(t) \/ Raise(t)
      PROVE  \A f \in Flow : f = threads[t].flow => Lawful(f)
  BY <1>4, CaptureDoes, Untouched
<1>5. ASSUME NEW s \in Step, StartStep(t, s)
      PROVE  \A f \in Flow : f = threads[t].flow => Lawful(f)
  <2>1. PICK f \in Flow :
          /\ f = threads[t].flow /\ UNCHANGED flows
          /\ \/ Holds(t) /\ StepSet(f, threads[t].attempt, s, "running")
             \/ UNCHANGED steps
    BY <1>5, StartDoes
  <2>2. CASE Holds(t) /\ StepSet(f, threads[t].attempt, s, "running")
    <3>1. Own(f) /\ StepSet(f, flows[f].attempt, s, "running")
      BY <2>1, <2>2 DEF Holds
    <3> QED
      BY <2>1, <3>1, StepLawful
  <2>3. CASE UNCHANGED steps
    BY <2>1, <2>3, Untouched
  <2> QED
    BY <2>1, <2>2, <2>3
<1>6. ASSUME NEW s \in Step, EndStep(t, s)
      PROVE  \A f \in Flow : f = threads[t].flow => Lawful(f)
  <2>1. PICK f \in Flow :
          /\ f = threads[t].flow /\ UNCHANGED flows
          /\ \/ \E status \in StepStatus :
                  Holds(t) /\ StepSet(f, threads[t].attempt, s, status)
             \/ UNCHANGED steps
    BY <1>6, EndStepDoes DEF StepStatus
  <2>2. ASSUME NEW status, Holds(t), StepSet(f, threads[t].attempt, s, status)
        PROVE  Lawful(f)
    <3>1. Own(f) /\ StepSet(f, flows[f].attempt, s, status)
      BY <2>1, <2>2 DEF Holds
    <3> QED
      BY <2>1, <3>1, StepLawful
  <2>3. CASE UNCHANGED steps
    BY <2>1, <2>3, Untouched
  <2> QED
    BY <2>1, <2>2, <2>3
<1>7. ASSUME NEW s \in Step, NEW status \in {"succeeded", "failed"},
             FinishStep(t, s, status)
      PROVE  \A f \in Flow : f = threads[t].flow => Lawful(f)
  <2>1. PICK f \in Flow :
          /\ f = threads[t].flow
          /\ \/ Holds(t) /\ StepSet(f, threads[t].attempt, s, status)
             \/ UNCHANGED steps
          /\ UNCHANGED flows
    BY <1>7, FinishDoes
  <2>2. CASE Holds(t) /\ StepSet(f, threads[t].attempt, s, status)
    <3>1. Own(f) /\ StepSet(f, flows[f].attempt, s, status)
      BY <2>1, <2>2 DEF Holds
    <3> QED
      BY <2>1, <3>1, StepLawful
  <2>3. CASE UNCHANGED steps
    BY <2>1, <2>3, Untouched
  <2> QED
    BY <2>1, <2>2, <2>3
<1>8. ASSUME Complete(t)
      PROVE  \A f \in Flow : f = threads[t].flow => Lawful(f)
  <2>1. PICK f \in Flow :
          /\ f = threads[t].flow /\ UNCHANGED steps
          /\ \/ FlowSet(f, IF flows[f].cancel THEN "cancelled"
                           ELSE Outcome(f, threads[t].attempt), "none")
             \/ UNCHANGED flows
    BY <1>8, CompleteDoes
  <2>2. CASE UNCHANGED flows
    BY <2>1, <2>2, Untouched
  <2>3. ASSUME NEW result, FlowSet(f, IF flows[f].cancel THEN "cancelled" ELSE result, "none")
        PROVE  Lawful(f)
    BY <2>1, <2>3, EndLawful
  <2> QED
    BY <2>1, <2>2, <2>3
<1>9. ASSUME EndFlow(t) \/ Boundary(t)
      PROVE  \A f \in Flow : f = threads[t].flow => Lawful(f)
  <2>1. PICK f \in Flow :
          /\ f = threads[t].flow /\ UNCHANGED steps
          /\ \/ \E status \in {"cancelled", "blocked", "failed"} :
                  FlowSet(f, IF flows[f].cancel THEN "cancelled" ELSE status, "none")
             \/ UNCHANGED flows
    BY <1>9, EndFlowDoes
  <2>2. CASE UNCHANGED flows
    BY <2>1, <2>2, Untouched
  <2>3. ASSUME NEW status, FlowSet(f, IF flows[f].cancel THEN "cancelled" ELSE status, "none")
        PROVE  Lawful(f)
    BY <2>1, <2>3, EndLawful
  <2> QED
    BY <2>1, <2>2, <2>3
<1>10. ASSUME Release(t) \/ Die(t)
      PROVE  \A f \in Flow : f = threads[t].flow => Lawful(f)
  BY <1>10, ReleaseDoes, Untouched
<1>11. ASSUME Escape(t)
      PROVE  \A f \in Flow : f = threads[t].flow => Lawful(f)
  BY <1>11, EscapeDoes, Untouched
<1>12. ASSUME Renew(t)
      PROVE  \A f \in Flow : f = threads[t].flow => Lawful(f)
  BY <1>12, Untouched DEF Renew
<1> QED
  BY <1>1, <1>2, <1>3, <1>4, <1>5, <1>6, <1>7, <1>8, <1>9, <1>10,
     <1>11, <1>12 DEF Moving

\* Recovery treats a flow lawfully, whichever leases hold.
LEMMA RecoveryLawful ==
  ASSUME Typed, NEW held \in SUBSET leased, NEW f \in Flow,
         Running(f) /\ f \notin held => MayLapse(f),
         steps' = StepsRecovered(held),
         NEW r \in {Recovered(held, {})[f]},
         flows'[f].cancel = r.cancel, flows'[f].status = r.status
  PROVE  Lawful(f)
<1>1. CancelLasts(f)
  BY RecoveredIs DEF CancelLasts
<1>2. Freezes(f)
  BY DEF Freezes, StepsRecovered, Typed
<1> QED
  BY <1>1, <1>2 DEF Lawful

\* Every step does.
LEMMA NextLawful ==
  ASSUME Inv, Next, NEW f \in Flow
  PROVE  Lawful(f)
<1>1. Typed /\ FlowOK(f) /\ flows[f] \in FlowRecord
  BY DEF Inv, Typed
<1>2. ASSUME NEW g \in Flow, NEW d \in Draft, Create(g, d)
      PROVE  Lawful(f)
  BY <1>1, <1>2
  DEF Create, New, FlowOK, Lawful, CancelLasts, Freezes, Typed, FlowRecord
<1>3. ASSUME NEW g \in Flow, Cancel(g)
      PROVE  Lawful(f)
  BY <1>1, <1>3
  DEF Cancel, FlowOK, Lawful, CancelLasts, Freezes, Typed, FlowRecord
<1>4. ASSUME NEW g \in Flow, Retry(g)
      PROVE  Lawful(f)
  BY <1>1, <1>4
  DEF Retry, Retryable, FlowOK, Lawful, CancelLasts, Freezes, Typed, FlowRecord
<1>5. ASSUME NEW d \in Draft, DeleteDraft(d)
      PROVE  Lawful(f)
  BY <1>5, Untouched DEF DeleteDraft
<1>6. ASSUME NEW t \in Thread, Moving(t)
      PROVE  Lawful(f)
  <2>1. ThreadOK(t)
    BY DEF Inv
  <2>2. CASE threads[t].flow = f
    BY <1>1, <1>6, <2>1, <2>2, MovingLawful
  <2>3. CASE threads[t].flow # f
    BY <1>1, <1>6, <2>1, <2>3, MovingFrame, Untouched DEF Frame
  <2> QED
    BY <2>2, <2>3
<1>7. ASSUME NEW t \in Thread, NEW g \in Flow, Take(t, g)
      PROVE  Lawful(f)
  BY <1>7, Untouched DEF Take
<1>8. ASSUME NEW g \in Flow, LeaseExpires(g)
      PROVE  Lawful(f)
  BY <1>8, Untouched DEF LeaseExpires
<1>9. CASE Recover({})
  <2>1. steps' = StepsRecovered(leased) /\ flows'[f] = Recovered(leased, {})[f]
    BY <1>9 DEF Recover
  <2> QED
    BY <1>1, <2>1, RecoveryLawful DEF FlowOK
<1>10. ASSUME NEW held \in SUBSET leased, Restart(held, {})
       PROVE  Lawful(f)
  <2>1. PICK r \in {Recovered(held, {})[f]} : TRUE
    OBVIOUS
  <2>2. Running(f) => MayLapse(f)
    BY <1>10 DEF Restart
  <2>3. flows'[f] = IF r.status = "running" THEN [r EXCEPT !.owner = "other"] ELSE r
    BY <1>10, <2>1 DEF Restart
  <2>4. r \in FlowRecord
    BY <1>1, <2>1, <2>2, RecoveredIs
  <2>5. flows'[f].cancel = r.cancel /\ flows'[f].status = r.status
    BY <2>3, <2>4 DEF FlowRecord
  <2>6. steps' = StepsRecovered(held)
    BY <1>10 DEF Restart
  <2> QED
    BY <1>1, <2>1, <2>2, <2>5, <2>6, RecoveryLawful
<1> QED
  BY <1>2, <1>3, <1>4, <1>5, <1>6, <1>7, <1>8, <1>9, <1>10
  DEF Next, People, Worker, Work, Moving

\* A flow that was asked to stop ends as cancelled or not at all, whatever its
\* thread, recovery and restarts do in between.
THEOREM CancelStays == Spec => CancelIsFinal
<1> DEFINE Stays == \A f \in Flow :
             flows[f].cancel /\ ~ flows[f].aborted =>
               /\ flows'[f].cancel
               /\ flows'[f].status \in {flows[f].status, "cancelled"}
<1>1. Inv /\ [Next]_vars => [Stays]_vars
  BY NextLawful DEF Lawful, CancelLasts
<1> HIDE DEF Stays
<1>2. Spec => [][Stays]_vars
  BY <1>1, Invariance, PTL DEF Spec
<1> USE DEF Stays
<1> QED
  BY <1>2 DEF CancelIsFinal

\* A thread whose lease ran out while it was computing writes nothing into the
\* attempt it lost, nor into a flow that has ended.
THEOREM PastStaysFrozen == Spec => PastAttemptsFrozen
<1> DEFINE Stays == \A f \in Flow : \A a \in Attempt : \A s \in Step :
             a < flows[f].attempt \/ flows[f].status \in Terminal =>
               \/ steps'[f][a][s] = steps[f][a][s]
               \/ steps[f][a][s] = "running" /\ steps'[f][a][s] = "failed"
<1>1. Inv /\ [Next]_vars => [Stays]_vars
  BY NextLawful DEF Lawful, Freezes
<1> HIDE DEF Stays
<1>2. Spec => [][Stays]_vars
  BY <1>1, Invariance, PTL DEF Spec
<1> USE DEF Stays
<1> QED
  BY <1>2 DEF PastAttemptsFrozen

=============================================================================
