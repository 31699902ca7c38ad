------------------------- MODULE ConnectorDelivery -------------------------
(***************************************************************************)
(* The way of source snapshots from the connector service                  *)
(* (connector-service: state.py, service.py, client.py) to the machine     *)
(* draft of the agent (machine_ingestion.py, storage.py,                   *)
(* five_quantity_runtime.py).  The connector keeps a queue of observations *)
(* and sends each until the agent has answered for good.  The agent takes  *)
(* an observation as an ingestion under a lease, merges it into the draft  *)
(* of the month and completes the ingestion; between its transactions it   *)
(* may stop, lose its lease to a repeated call, or outlive its caller.     *)
(*                                                                         *)
(* Instances of the service hold one lease; one that stalled may go on     *)
(* after it lost it, up to the next renewal.  Repairs are commands an      *)
(* operator gives while no service holds the lease.                        *)
(*                                                                         *)
(* Abstractions.  One pipeline and one draft key.  A snapshot is its       *)
(* source and its revision, and a body the snapshot and the mark that asks *)
(* for the workflow.  Retry delays, ages and leases are choices of when a  *)
(* step happens.  Of a source's health only the last record counts; the    *)
(* health the agent keeps, quotas, signatures and discarded artifacts of   *)
(* files are left out.                                                     *)
(***************************************************************************)
EXTENDS Naturals, Sequences, FiniteSets

CONSTANTS
  Source,       \* sources of the pipeline
  Required,     \* those the workflow waits for
  Instance,     \* connector services
  Handler,      \* threads of the agent that serve the connector
  MaxRevision,  \* bound of the model on the snapshots of all sources
  MaxTrouble,   \* bound of the model on faults and replays
  None, Gone    \* no handler, and a handler of a process that ended

ASSUME DeliveryAssumption ==
  /\ Required \subseteq Source /\ IsFiniteSet(Source)
  /\ MaxRevision \in Nat \ {0} /\ MaxTrouble \in Nat
  /\ None \notin Instance \union Handler \union {Gone} /\ Gone \notin Handler

Revision == 1..MaxRevision
Event == Source \X Revision

\* trigger: the body asks for the workflow.  answer: why it is dead.
Observation ==
  [status: {"pending", "delivered", "dead"}, trigger: BOOLEAN,
   answer: {"none", "refused", "odd"}]

\* The last health record of a source: the revision it is bound to, 0 for an
\* empty or failed collection.
HealthRecord ==
  [bound: 0..MaxRevision, status: {"none", "pending", "delivered", "dead"}]

\* A combination of snapshots and the observation that asks for its workflow.
Generation ==
  [made: [Source -> 0..MaxRevision], by: Event,
   status: {"assigned", "completed", "failed"}]

Service ==
  [at: {"down", "idle", "prepare", "send", "wait", "mark"},
   event: Event \union {None}, trigger: BOOLEAN,
   reply: {"none", "ok", "retry", "refused", "odd"}]

\* trigger stands for request_sha256; leased, the lease has not run out.
Ingestion ==
  [status: {"none", "bound", "imported", "completed", "rejected"},
   trigger: BOOLEAN, owner: Handler \union {None, Gone}, leased: BOOLEAN]

Request ==
  [at: {"idle", "claim", "import", "reject", "dispatch", "complete"},
   event: Event \union {None}, trigger: BOOLEAN,
   caller: Instance \union {None}]

VARIABLES
  observations,  \* observations, by source and revision
  health,        \* the last row of health_deliveries of each source
  generations,   \* workflow_generations
  lease,         \* the row of leases
  services,      \* what the instances are doing
  ingestions,    \* connector_ingestions
  contributions, \* fq_machine_source_contributions: the revision merged
  draft,         \* the draft that connector_draft_bindings names
  requests,      \* what the handlers are doing
  troubles       \* how many faults and replays there were

connector == <<observations, health, generations, lease>>
agent == <<ingestions, contributions, draft>>
vars == <<connector, services, agent, requests, troubles>>

Down == [at |-> "down", event |-> None, trigger |-> FALSE, reply |-> "none"]
Free == [Down EXCEPT !.at = "idle"]
NoIngestion ==
  [status |-> "none", trigger |-> FALSE, owner |-> None, leased |-> FALSE]
NoRequest ==
  [at |-> "idle", event |-> None, trigger |-> FALSE, caller |-> None]
New == [status |-> "pending", trigger |-> FALSE, answer |-> "none"]

Init ==
  /\ observations = [s \in Source |-> <<>>]
  /\ health = [s \in Source |-> [bound |-> 0, status |-> "none"]]
  /\ generations = {}
  /\ lease = [owner |-> None, held |-> FALSE]
  /\ services = [i \in Instance |-> Down]
  /\ ingestions = [e \in Event |-> NoIngestion]
  /\ contributions = [s \in Source |-> 0]
  /\ draft = "none"
  /\ requests = [h \in Handler |-> NoRequest]
  /\ troubles = 0

Latest(s) == Len(observations[s])
MayGrow == Cardinality({e \in Event : e[2] <= Latest(e[1])}) < MaxRevision
Known(e) == e[2] <= Latest(e[1])
Obs(e) == observations[e[1]][e[2]]
Pending(e) == Known(e) /\ Obs(e).status = "pending"

(***************************************************************************)
(* The lease of the service.                                               *)
(***************************************************************************)
Leads(i) == lease.owner = i /\ lease.held

Acquire(i) ==
  /\ services[i].at = "down" /\ ~ lease.held
  /\ lease' = [owner |-> i, held |-> TRUE]
  /\ services' = [services EXCEPT ![i] = Free]
  /\ UNCHANGED <<observations, health, generations, agent, requests, troubles>>

\* A fault uses up one of the model's troubles.
Trouble == troubles < MaxTrouble /\ troubles' = troubles + 1

\* The owner ended, or stalls until its lease runs out.
LeaseLapses ==
  /\ lease.held
  /\ lease' = [lease EXCEPT !.held = FALSE]
  /\ IF services[lease.owner].at = "down" THEN UNCHANGED troubles ELSE Trouble
  /\ UNCHANGED <<observations, health, generations, services, agent, requests>>

\* close, also after a renewal that failed.
Stop(i) ==
  /\ services[i].at = "idle"
  /\ lease' = IF lease.owner = i THEN [owner |-> None, held |-> FALSE] ELSE lease
  /\ services' = [services EXCEPT ![i] = Down]
  /\ UNCHANGED <<observations, health, generations, agent, requests, troubles>>

\* Mutant of Unheard: a late answer meets the next call.
UnheardNever(i) == requests

\* Nobody waits for the call of i any more.
Unheard(i) ==
  [h \in Handler |->
     IF requests[h].caller = i THEN [requests[h] EXCEPT !.caller = None]
     ELSE requests[h]]

Crash(i) ==
  /\ services[i].at # "down"
  /\ services' = [services EXCEPT ![i] = Down]
  /\ requests' = Unheard(i)
  /\ Trouble
  /\ UNCHANGED <<connector, agent>>

(***************************************************************************)
(* Collection and health: the parts of a cycle before dispatch.            *)
(***************************************************************************)
\* register of a snapshot that changed.
Register(i, s) ==
  /\ services[i].at = "idle" /\ MayGrow
  /\ observations' = [observations EXCEPT ![s] = Append(@, New)]
  /\ UNCHANGED <<health, generations, lease, services, agent, requests, troubles>>

\* register_health of a collection: the snapshot it saw, or none.
RecordHealth(i, s, bound) ==
  /\ services[i].at = "idle" /\ bound \in {0, Latest(s)}
  /\ health[s] # [bound |-> bound, status |-> "pending"]
  /\ health' = [health EXCEPT ![s] = [bound |-> bound, status |-> "pending"]]
  /\ UNCHANGED <<observations, generations, lease, services, agent, requests,
                 troubles>>

\* dispatch_health, when the agent answers for good.
SendHealth(i, s, status) ==
  /\ services[i].at = "idle" /\ health[s].status = "pending"
  /\ health' = [health EXCEPT ![s].status = status]
  /\ IF status = "dead" THEN Trouble ELSE UNCHANGED troubles
  /\ UNCHANGED <<observations, generations, lease, services, agent, requests>>

(***************************************************************************)
(* Dispatch of an observation.                                             *)
(***************************************************************************)
Goto(i, at, reply) ==
  services' = [services EXCEPT ![i].at = at, ![i].reply = reply]

\* dispatch takes a pending observation and renews the lease.
Select(i, e) ==
  /\ services[i].at = "idle" /\ Leads(i) /\ Pending(e)
  /\ services' = [services EXCEPT ![i] = [Free EXCEPT !.at = "prepare",
                                                      !.event = e]]
  /\ UNCHANGED <<connector, agent, requests, troubles>>

Assigned == {g \in generations : g.status = "assigned"}

\* The health of the snapshot must reach the agent before it.
AwaitsHealth(e) ==
  LET r == health[e[1]] IN
  r.status = "none" \/ (r.bound = e[2] /\ r.status # "delivered")

Confirmed(s) ==
  Latest(s) > 0 /\ health[s] = [bound |-> Latest(s), status |-> "delivered"]

\* e is the last snapshot of its source, and those of the required sources
\* have arrived.
Ready(e) ==
  /\ e[2] = Latest(e[1]) /\ Confirmed(e[1])
  /\ \A s \in Required :
       /\ Confirmed(s)
       /\ s # e[1] => observations[s][Latest(s)].status = "delivered"

Delivered(s) == {r \in 1..Latest(s) : observations[s][r].status = "delivered"}
LastOf(rs) == IF rs = {} THEN 0 ELSE CHOOSE r \in rs : \A q \in rs : q <= r

\* The snapshots the agent has once e is delivered.
Made(e) ==
  [s \in Source |-> IF s = e[1] THEN e[2] ELSE LastOf(Delivered(s))]

Deferred(e) == ~ Obs(e).trigger /\ (Assigned # {} \/ AwaitsHealth(e))

\* prepare_delivery; fresh says that no health record has grown too old.
Prepare(i, fresh) ==
  LET e == services[i].event
      asks == /\ fresh /\ Ready(e)
              /\ \A g \in generations : g.made # Made(e)
      send(trigger) == services' = [services EXCEPT ![i].at = "send",
                                                    ![i].trigger = trigger]
  IN /\ services[i].at = "prepare"
     /\ IF ~ Pending(e) \/ Deferred(e)
        THEN /\ services' = [services EXCEPT ![i] = Free]
             /\ UNCHANGED <<observations, generations>>
        ELSE IF asks /\ ~ Obs(e).trigger
        THEN /\ send(TRUE)
             /\ observations' = [observations EXCEPT ![e[1]][e[2]].trigger = TRUE]
             /\ generations' = generations \union
                  {[made |-> Made(e), by |-> e, status |-> "assigned"]}
        ELSE send(Obs(e).trigger) /\ UNCHANGED <<observations, generations>>
     /\ UNCHANGED <<health, lease, agent, requests, troubles>>

Spare == {h \in Handler : requests[h].at = "idle"}

\* The call starts a thread of the agent; which one makes no difference.
Send(i) ==
  /\ services[i].at = "send" /\ Spare # {}
  /\ requests' = [requests EXCEPT
       ![CHOOSE h \in Spare : TRUE] =
         [at |-> "claim", event |-> services[i].event,
          trigger |-> services[i].trigger, caller |-> i]]
  /\ Goto(i, "wait", "none")
  /\ UNCHANGED <<connector, agent, troubles>>

\* The call does not reach the agent, or something else answers it; "odd" is
\* also the end of an observation whose pipeline was removed.
SendFails(i, reply) ==
  /\ services[i].at = "send"
  /\ Goto(i, "mark", reply)
  /\ Trouble
  /\ UNCHANGED <<connector, agent, requests>>

TimeOut(i) ==
  /\ services[i].at = "wait"
  /\ Goto(i, "mark", "retry")
  /\ requests' = Unheard(i)
  /\ Trouble
  /\ UNCHANGED <<connector, agent>>

\* Mutant of Closed: the generation is left to the next delivery.
ClosedNever(e, status) == generations

\* The generation assigned to e ends with it.
Closed(e, status) ==
  {IF g.by = e /\ g.status = "assigned" THEN [g EXCEPT !.status = status] ELSE g :
     g \in generations}

\* Only a pending observation is marked.
SetStatus(e, status, answer) ==
  observations' = IF Pending(e)
    THEN [observations EXCEPT ![e[1]][e[2]].status = status,
                              ![e[1]][e[2]].answer = answer]
    ELSE observations

\* mark_delivered, mark_retry and mark_dead
Mark(i) ==
  LET e == services[i].event
      reply == services[i].reply
  IN /\ services[i].at = "mark"
     /\ CASE reply = "ok" -> /\ SetStatus(e, "delivered", "none")
                             /\ generations' = Closed(e, "completed")
          [] reply = "retry" -> UNCHANGED <<observations, generations>>
          [] OTHER -> /\ SetStatus(e, "dead", reply)
                      /\ generations' = Closed(e, "failed")
     /\ services' = [services EXCEPT ![i] = Free]
     /\ UNCHANGED <<health, lease, agent, requests, troubles>>

(***************************************************************************)
(* Repairs.  Each command takes the lease, and so runs alone.              *)
(***************************************************************************)
Repair ==
  /\ ~ lease.held
  /\ lease' = [owner |-> None, held |-> FALSE]
  /\ UNCHANGED <<health, services, agent, requests>>

\* retry_dead takes back the mark and the generation that failed.
RetryDead(e) ==
  /\ Repair /\ UNCHANGED troubles
  /\ Known(e) /\ Obs(e).status = "dead" /\ Obs(e).answer # "refused"
  /\ observations' = [observations EXCEPT ![e[1]][e[2]] = New]
  /\ generations' = {g \in generations : ~ (g.by = e /\ g.status = "failed")}

\* supersede_dead: the same content as a new revision.
Supersede(e) ==
  /\ Repair /\ UNCHANGED troubles /\ Known(e) /\ Obs(e).status = "dead"
  /\ e[2] = Latest(e[1]) /\ MayGrow
  /\ observations' = [observations EXCEPT ![e[1]] = Append(@, New)]
  /\ UNCHANGED generations

\* replay_delivered
Replay(e) ==
  /\ Repair /\ Trouble /\ Known(e) /\ Obs(e).status = "delivered"
  /\ observations' = [observations EXCEPT ![e[1]][e[2]].status = "pending"]
  /\ UNCHANGED generations

(***************************************************************************)
(* The agent: MachineAutofillCoordinator.ingest in a handler.              *)
(***************************************************************************)
Answer(h, reply) ==
  /\ requests' = [requests EXCEPT ![h] = NoRequest]
  /\ services' = IF requests[h].caller = None THEN services
       ELSE [services EXCEPT ![requests[h].caller].at = "mark",
                             ![requests[h].caller].reply = reply]

Proceed(h, at) ==
  requests' = [requests EXCEPT ![h].at = at] /\ UNCHANGED services

Set(e, ingestion) == ingestions' = [ingestions EXCEPT ![e] = ingestion]
Ended(e, status) ==
  Set(e, [ingestions[e] EXCEPT !.status = status, !.owner = None,
                               !.leased = FALSE])

\* Mutant of Done: a merged snapshot is answered for.
DoneOnceMerged(g) == g.status \in {"imported", "completed"}

Done(g) == g.status = "completed"

\* Mutant of Taken: a lease lasts until it is released.
TakenForGood(g) == g.owner # None

Taken(g) == g.owner # None /\ g.leased

\* claim_connector_ingestion.  Another body under the same event is a
\* conflict.
Claim(h) ==
  LET e == requests[h].event
      g == ingestions[e]
      changed == g.status # "none" /\ g.trigger # requests[h].trigger
  IN /\ requests[h].at = "claim"
     /\ \/ /\ changed \/ g.status = "rejected"
           /\ Answer(h, "refused") /\ UNCHANGED ingestions
        \/ /\ ~ changed /\ Done(g)
           /\ Answer(h, "ok") /\ UNCHANGED ingestions
        \/ /\ ~ changed /\ ~ Done(g) /\ g.status # "rejected" /\ Taken(g)
           /\ Answer(h, "retry") /\ UNCHANGED ingestions
        \/ /\ ~ changed /\ ~ Done(g) /\ g.status # "rejected" /\ ~ Taken(g)
           /\ Set(e, [status |-> IF g.status = "none" THEN "bound" ELSE g.status,
                      trigger |-> requests[h].trigger,
                      owner |-> h, leased |-> TRUE])
           /\ Proceed(h, IF g.status = "imported" THEN "complete" ELSE "import")
     /\ UNCHANGED <<connector, contributions, draft, troubles>>

Owns(h, e) == ingestions[e].owner = h

\* create_or_update_machine_import.  A snapshot that could be merged is still
\* refused when its content is not that of the draft's period, subject or
\* file.  The dispatch after it is lost when the process ends, for a repeated
\* call finds the snapshot merged.
Import(h) ==
  LET e == requests[h].event
      mergeable == /\ Owns(h, e) /\ ingestions[e].status = "bound"
                   /\ contributions[e[1]] <= e[2]
                   /\ draft \in {"none", "synced"}
  IN /\ requests[h].at = "import"
     /\ \/ /\ mergeable
           /\ Set(e, [ingestions[e] EXCEPT !.status = "imported"])
           /\ contributions' = [contributions EXCEPT ![e[1]] = e[2]]
           /\ draft' = "synced"
           /\ Proceed(h, IF requests[h].trigger THEN "dispatch" ELSE "complete")
        \/ /\ Proceed(h, "reject")
           /\ UNCHANGED <<ingestions, contributions, draft>>
     /\ UNCHANGED <<connector, troubles>>

\* Mutant of MayReject: whoever holds the lease.
MayRejectUnowned(h, e) == ingestions[e].status \in {"bound", "imported"}

MayReject(h, e) == Owns(h, e) /\ ingestions[e].status \in {"bound", "imported"}

\* reject_connector_ingestion
Reject(h) ==
  LET e == requests[h].event IN
  /\ requests[h].at = "reject"
  /\ IF MayReject(h, e) THEN Ended(e, "rejected") ELSE UNCHANGED ingestions
  /\ Answer(h, "refused")
  /\ UNCHANGED <<connector, contributions, draft, troubles>>

\* The sources the workflow needs were merged and their ingestions are over.
Fresh ==
  \A s \in Required : /\ contributions[s] > 0
                      /\ ingestions[<<s, contributions[s]>>].status = "completed"

\* The automatic confirmation, and whether the checks let it pass.
Dispatch(h, passes) ==
  /\ requests[h].at = "dispatch"
  /\ draft' = IF passes /\ Fresh /\ draft \in {"synced", "edited"} THEN "closed"
              ELSE draft
  /\ Proceed(h, "complete")
  /\ UNCHANGED <<connector, ingestions, contributions, troubles>>

\* complete_connector_ingestion
Complete(h) ==
  LET e == requests[h].event IN
  /\ requests[h].at = "complete"
  /\ IF Owns(h, e) /\ ingestions[e].status = "imported"
     THEN Ended(e, "completed") /\ Answer(h, "ok")
     ELSE UNCHANGED ingestions /\ Answer(h, "refused")
  /\ UNCHANGED <<connector, contributions, draft, troubles>>

Released(g) == [g EXCEPT !.owner = None, !.leased = FALSE]

\* An error ends the request, which gives its lease back if it can.
Fail(h, released) ==
  LET e == requests[h].event IN
  /\ requests[h].at # "idle"
  /\ ingestions' = IF ~ Owns(h, e) THEN ingestions
       ELSE [ingestions EXCEPT ![e] = IF released THEN Released(@)
                                      ELSE [@ EXCEPT !.owner = Gone]]
  /\ Answer(h, "retry")
  /\ Trouble
  /\ UNCHANGED <<connector, contributions, draft>>

IngestionLapses(e) ==
  /\ ingestions[e].leased
  /\ ingestions' = [ingestions EXCEPT ![e].leased = FALSE]
  /\ UNCHANGED <<connector, services, contributions, draft, requests, troubles>>

\* The agent's process ends; calls under way break off.
AgentRestart ==
  /\ \E h \in Handler : requests[h].at # "idle"
  /\ requests' = [h \in Handler |-> NoRequest]
  /\ ingestions' = [e \in Event |->
       IF ingestions[e].owner \in Handler
       THEN [ingestions[e] EXCEPT !.owner = Gone] ELSE ingestions[e]]
  /\ services' = [i \in Instance |->
       IF services[i].at = "wait"
       THEN [services[i] EXCEPT !.at = "mark", !.reply = "retry"]
       ELSE services[i]]
  /\ Trouble
  /\ UNCHANGED <<connector, contributions, draft>>

(***************************************************************************)
(* People and the machine draft.                                           *)
(***************************************************************************)
SetDraft(from, to) ==
  /\ draft \in from /\ draft' = to
  /\ UNCHANGED <<connector, services, ingestions, contributions, requests,
                 troubles>>

EditDraft == SetDraft({"synced"}, "edited")
ResumeSync == SetDraft({"edited"}, "synced")
ConfirmDraft == SetDraft({"synced", "edited"}, "closed")
\* The next snapshot makes another draft.
DiscardDraft == SetDraft({"synced", "edited"}, "none")

ServiceStep ==
  \E i \in Instance :
    \/ Acquire(i) \/ Stop(i) \/ Crash(i) \/ TimeOut(i) \/ Mark(i)
    \/ \E s \in Source :
         \/ Register(i, s)
         \/ \E bound \in 0..MaxRevision : RecordHealth(i, s, bound)
         \/ \E status \in {"delivered", "dead"} : SendHealth(i, s, status)
    \/ \E e \in Event : Select(i, e)
    \/ \E fresh \in BOOLEAN : Prepare(i, fresh)
    \/ Send(i) \/ \E reply \in {"retry", "refused", "odd"} : SendFails(i, reply)

AgentStep ==
  \/ \E h \in Handler :
       \/ Claim(h) \/ Import(h) \/ Reject(h) \/ Complete(h)
       \/ \E b \in BOOLEAN : Dispatch(h, b) \/ Fail(h, b)
  \/ \E e \in Event : IngestionLapses(e)
  \/ AgentRestart

RepairStep == \E e \in Event : RetryDead(e) \/ Supersede(e) \/ Replay(e)

PeopleStep == EditDraft \/ ResumeSync \/ ConfirmDraft \/ DiscardDraft

Next == ServiceStep \/ LeaseLapses \/ AgentStep \/ RepairStep \/ PeopleStep

Spec == Init /\ [][Next]_vars

\* An instance that has gone on the wrong side of its lease ends, another
\* takes over; steps of a delivery and of a request are taken; the agent's
\* leases run out.
Scheduling ==
  /\ WF_vars(\E i \in Instance : Acquire(i))
  /\ WF_vars(LeaseLapses /\ services[lease.owner].at = "down")
  /\ \A i \in Instance :
       /\ WF_vars(Stop(i) /\ ~ Leads(i))
       /\ WF_vars(Send(i) \/ Mark(i) \/ \E fresh \in BOOLEAN : Prepare(i, fresh))
  /\ \A h \in Handler :
       WF_vars(Claim(h) \/ Import(h) \/ Reject(h) \/ Complete(h)
                 \/ \E passes \in BOOLEAN : Dispatch(h, passes))
  /\ \A e \in Event : WF_vars(IngestionLapses(e) /\ ingestions[e].owner = Gone)

\* A cycle sees every source and every pending observation, so none is passed
\* over for good; the agent answers for the health of the last snapshot.
Cycles ==
  /\ \A s \in Source : SF_vars(\E i \in Instance :
       \/ SendHealth(i, s, "delivered")
       \/ (health[s].status # "delivered" /\ RecordHealth(i, s, Latest(s))))
  /\ \A e \in Event : SF_vars((\E i \in Instance : Select(i, e)) /\ ~ Deferred(e))

FairSpec == Spec /\ Scheduling /\ Cycles

(***************************************************************************)
(* Properties.                                                             *)
(***************************************************************************)
TypeOK ==
  /\ \A s \in Source : /\ observations[s] \in Seq(Observation)
                        /\ Latest(s) <= MaxRevision
  /\ DOMAIN observations = Source
  /\ health \in [Source -> HealthRecord]
  /\ generations \subseteq Generation
  /\ lease \in [owner: Instance \union {None}, held: BOOLEAN]
  /\ lease.held => lease.owner # None
  /\ services \in [Instance -> Service]
  /\ ingestions \in [Event -> Ingestion]
  /\ contributions \in [Source -> 0..MaxRevision]
  /\ draft \in {"none", "synced", "edited", "closed"}
  /\ requests \in [Handler -> Request]
  /\ troubles \in 0..MaxTrouble
  /\ \A h \in Handler :  \* a call has one caller, and it waits
       requests[h].caller # None =>
         /\ services[requests[h].caller].at = "wait"
         /\ services[requests[h].caller].event = requests[h].event
         /\ \A k \in Handler \ {h} : requests[k].caller # requests[h].caller

\* One combination of snapshots is under way at a time, and the observation
\* that asks for its workflow is still to be delivered, whichever of two
\* instances prepared and marked it and whatever was repaired in between
\* (state.py prepare_delivery, mark_delivered, mark_dead, retry_dead).
AssignedIsUnderway ==
  \A g \in Assigned :
    /\ Pending(g.by) /\ Obs(g.by).trigger
    /\ \A k \in Assigned : k = g

\* What the connector counts as delivered the agent has merged and completed:
\* no lost, late or repeated answer makes it forget a snapshot
\* (client.py _send, state.py mark_delivered, storage.py
\* complete_connector_ingestion).
DeliveredIsHeld ==
  \A e \in Event : Known(e) /\ Obs(e).status = "delivered" =>
    /\ ingestions[e].status = "completed"
    /\ contributions[e[1]] >= e[2]

\* A rejected ingestion left the draft alone, though two requests may have
\* worked on it one after the other and a person changed the draft between
\* (storage.py reject_connector_ingestion).
RejectedIsWithoutEffect ==
  \A e \in Event : ingestions[e].status = "rejected" => contributions[e[1]] # e[2]

\* Every observation is delivered or set aside in the end: deferral behind a
\* generation, behind the health of its source or behind a lease of the agent
\* does not last (service.py dispatch, state.py prepare_delivery).
ObservationsEnd ==
  \A e \in Event : Pending(e) ~> ~ Pending(e)
=============================================================================
