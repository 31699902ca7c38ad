---------------------- MODULE ConnectorDeliveryProofs ----------------------
(***************************************************************************)
(* What the delivery of source snapshots guarantees for any number of      *)
(* sources, instances of the service, threads of the agent and faults.     *)
(***************************************************************************)
EXTENDS ConnectorDelivery, FiniteSetTheorems, TLAPS

-----------------------------------------------------------------------------
(***************************************************************************)
(* The inductive invariant.                                                *)
(***************************************************************************)
QueueTyped ==
  /\ observations \in [Source -> Seq(Observation)]
  /\ \A s \in Source : Latest(s) <= MaxRevision

ConnectorTyped ==
  /\ health \in [Source -> HealthRecord]
  /\ generations \subseteq Generation
  /\ lease \in [owner: Instance \union {None}, held: BOOLEAN]
  /\ lease.held => lease.owner # None
  /\ troubles \in 0..MaxTrouble

AgentTyped ==
  /\ ingestions \in [Event -> Ingestion]
  /\ contributions \in [Source -> 0..MaxRevision]
  /\ draft \in {"none", "synced", "edited", "closed"}

\* An instance that delivers has an observation.
ServicesOK ==
  /\ services \in [Instance -> Service]
  /\ \A i \in Instance : services[i].at \notin {"down", "idle"} =>
       services[i].event \in Event

\* A thread that is at work has a snapshot, and one that is not has no caller;
\* a call has one caller, and it waits for the answer about its observation.
RequestsOK ==
  /\ requests \in [Handler -> Request]
  /\ \A h \in Handler : requests[h].at # "idle" => requests[h].event \in Event
  /\ \A h \in Handler : requests[h].caller # None =>
       /\ requests[h].at # "idle"
       /\ services[requests[h].caller].at = "wait"
       /\ services[requests[h].caller].event = requests[h].event
       /\ \A k \in Handler \ {h} : requests[k].caller # requests[h].caller

\* A thread owns only the ingestion it is at work on, and as its owner knows
\* how far that is.
OwnersOK ==
  \A e \in Event, h \in Handler : ingestions[e].owner = h =>
    /\ requests[h].event = e
    /\ \/ requests[h].at \in {"import", "reject"} /\ ingestions[e].status = "bound"
       \/ requests[h].at \in {"dispatch", "complete"}
            /\ ingestions[e].status = "imported"

MergedStatus == {"imported", "completed"}

\* The revision that was merged last belongs to an ingestion that is merged,
\* and none that is merged is newer.
Merged ==
  /\ \A s \in Source : contributions[s] > 0 =>
       ingestions[<<s, contributions[s]>>].status \in MergedStatus
  /\ \A e \in Event : ingestions[e].status \in MergedStatus =>
       e[2] <= contributions[e[1]]

\* A good answer is about an ingestion that is completed, and so is what was
\* delivered.
Answered ==
  /\ \A i \in Instance : services[i].at = "mark" /\ services[i].reply = "ok" =>
       ingestions[services[i].event].status = "completed"
  /\ \A e \in Event : Known(e) /\ Obs(e).status = "delivered" =>
       ingestions[e].status = "completed"

DeliveryInv ==
  /\ QueueTyped /\ ConnectorTyped /\ AgentTyped /\ ServicesOK /\ RequestsOK
  /\ AssignedIsUnderway /\ OwnersOK /\ Merged /\ Answered

-----------------------------------------------------------------------------
(***************************************************************************)
(* Numbers of revisions.                                                   *)
(***************************************************************************)
\* Some number of a set is its largest.
LEMMA Largest ==
  ASSUME NEW n \in Nat, NEW rs, rs \subseteq 1..n, rs # {}
  PROVE  LastOf(rs) \in rs
<1> DEFINE gaps == {k \in Nat : k < n /\ n - k \in rs}
           R == OpToRel(<, Nat)
<1>1. \E k \in gaps : TRUE
  <2>1. PICK r \in rs : TRUE
    OBVIOUS
  <2>2. r \in 1..n /\ n - r \in Nat /\ n - r < n /\ n - (n - r) = r
    BY <2>1
  <2> QED
    BY <2>1, <2>2
<1>2. PICK k \in gaps : \A m \in gaps : ~ (<<m, k>> \in R)
  BY <1>1, NatLessThanWellFounded, WFMin
<1>3. k \in Nat /\ n - k \in rs /\ \A m \in gaps : ~ (m < k)
  BY <1>2 DEF OpToRel
<1>4. n - k \in rs /\ \A q \in rs : q <= n - k
  <2>1. ASSUME NEW q \in rs
        PROVE  q <= n - k
    <3>1. q \in 1..n /\ n - q \in Nat /\ n - q < n /\ n - (n - q) = q
      OBVIOUS
    <3>2. ~ (n - q < k)
      BY <1>3, <3>1
    <3> QED
      BY <1>3, <3>1, <3>2
  <2> QED
    BY <1>3, <2>1
<1> QED
  BY <1>4 DEF LastOf

LEMMA Bounds ==
  /\ MaxRevision \in Nat \ {0} /\ MaxTrouble \in Nat
  /\ None \notin Instance /\ None \notin Handler /\ Gone \notin Handler
  /\ None # Gone
BY DeliveryAssumption

LEMMA EventFields ==
  ASSUME NEW e \in Event
  PROVE  e[1] \in Source /\ e[2] \in 1..MaxRevision /\ e = <<e[1], e[2]>>
BY DEF Event, Revision

LEMMA QueueFields ==
  ASSUME QueueTyped, NEW s \in Source
  PROVE  /\ observations[s] \in Seq(Observation)
         /\ Latest(s) \in 0..MaxRevision
         /\ \A r \in 1..Latest(s) : observations[s][r] \in Observation
BY Bounds DEF QueueTyped, Latest

LEMMA KnownObs ==
  ASSUME QueueTyped, NEW e \in Event, Known(e)
  PROVE  /\ e[2] \in 1..Latest(e[1]) /\ Obs(e) \in Observation
         /\ Obs(e).trigger \in BOOLEAN
         /\ Obs(e).status \in {"pending", "delivered", "dead"}
<1>1. e[2] \in 1..Latest(e[1])
  BY EventFields, QueueFields DEF Known
<1>2. Obs(e) \in Observation
  BY <1>1, EventFields, QueueFields DEF Obs
<1> QED
  BY <1>1, <1>2 DEF Observation

\* The bound on all snapshots bounds those of a source.
LEMMA RoomToGrow ==
  ASSUME QueueTyped, MayGrow, NEW s \in Source
  PROVE  Latest(s) + 1 <= MaxRevision
<1> DEFINE seen == {e \in Event : e[2] <= Latest(e[1])}
           f == [r \in Revision |-> <<s, r>>]
<1>1. IsFiniteSet(Revision) /\ Cardinality(Revision) = MaxRevision
  BY FS_Interval, Bounds DEF Revision
<1>2. IsFiniteSet(Event)
  BY <1>1, FS_Product, DeliveryAssumption DEF Event
<1>3. IsFiniteSet(seen) /\ Cardinality(seen) \in Nat
  BY <1>2, FS_Subset, FS_CardinalityType
<1>4. Cardinality(seen) < MaxRevision
  BY DEF MayGrow
<1>5. ASSUME Latest(s) = MaxRevision
      PROVE  FALSE
  <2>1. f \in [Revision -> seen]
    BY <1>5, Bounds DEF Event, Revision
  <2>2. f \in Injection(Revision, seen)
    BY <2>1 DEF Injection, IsInjective
  <2>3. Cardinality(Revision) <= Cardinality(seen)
    BY <1>3, <2>2, FS_Injection
  <2> QED
    BY <1>1, <1>3, <1>4, <2>3, Bounds
<1> QED
  BY <1>5, QueueFields, Bounds

\* The snapshots the agent has once an observation is delivered.
LEMMA MadeTyped ==
  ASSUME QueueTyped, NEW e \in Event
  PROVE  Made(e) \in [Source -> 0..MaxRevision]
<1>1. ASSUME NEW s \in Source
      PROVE  LastOf(Delivered(s)) \in 0..MaxRevision
  <2>1. Delivered(s) \subseteq 1..Latest(s) /\ Latest(s) \in 0..MaxRevision
    BY QueueFields DEF Delivered
  <2>2. CASE Delivered(s) = {}
    BY <2>2, Bounds DEF LastOf
  <2>3. CASE Delivered(s) # {}
    <3>1. LastOf(Delivered(s)) \in Delivered(s)
      BY <2>1, <2>3, Largest
    <3> QED
      BY <2>1, <3>1, Bounds
  <2> QED
    BY <2>2, <2>3
<1>2. e[2] \in 0..MaxRevision
  BY EventFields, Bounds
<1> QED
  BY <1>1, <1>2 DEF Made

-----------------------------------------------------------------------------
(***************************************************************************)
(* The queue of observations.                                              *)
(***************************************************************************)
LEMMA NewTyped ==
  /\ New \in Observation /\ New.status = "pending"
BY DEF New, Observation

\* A snapshot that is registered is known, the others are as they were.
LEMMA Appended ==
  ASSUME QueueTyped, MayGrow, NEW s \in Source,
         observations' = [observations EXCEPT ![s] = Append(@, New)]
  PROVE  /\ QueueTyped'
         /\ \A e \in Event :
              /\ Known(e) => Known(e)' /\ Obs(e)' = Obs(e)
              /\ Known(e)' /\ ~ Known(e) => Obs(e)' = New
<1> DEFINE old == observations[s]
           q == Append(old, New)
<1>1. /\ old \in Seq(Observation) /\ Len(old) \in 0..MaxRevision
      /\ Len(old) + 1 <= MaxRevision
  BY QueueFields, RoomToGrow DEF Latest
<1>2. /\ q \in Seq(Observation) /\ Len(q) = Len(old) + 1
      /\ \A r \in 1..Len(old) : q[r] = old[r]
      /\ q[Len(old) + 1] = New
  BY <1>1, NewTyped
<1> HIDE DEF q
<1>3. /\ observations' = [observations EXCEPT ![s] = q]
      /\ observations \in [Source -> Seq(Observation)]
  BY DEF q, QueueTyped
<1>4. /\ observations' \in [Source -> Seq(Observation)]
      /\ observations'[s] = q
      /\ \A u \in Source \ {s} : observations'[u] = observations[u]
  BY <1>2, <1>3
<1>5. QueueTyped'
  BY <1>1, <1>2, <1>4 DEF QueueTyped, Latest
<1>6. ASSUME NEW e \in Event
      PROVE  /\ Known(e) => Known(e)' /\ Obs(e)' = Obs(e)
             /\ Known(e)' /\ ~ Known(e) => Obs(e)' = New
  <2>1. e[1] \in Source /\ e[2] \in 1..MaxRevision
    BY EventFields
  <2>2. CASE e[1] # s
    BY <1>4, <2>1, <2>2 DEF Known, Obs, Latest
  <2>3. CASE e[1] = s
    <3>1. Known(e) <=> e[2] <= Len(old)
      BY <2>3 DEF Known, Latest
    <3>2. Known(e)' <=> e[2] <= Len(old) + 1
      BY <1>2, <1>4, <2>3 DEF Known, Latest
    <3>3. Obs(e) = old[e[2]] /\ Obs(e)' = q[e[2]]
      BY <1>4, <2>3 DEF Obs
    <3> QED
      BY <1>1, <1>2, <2>1, <3>1, <3>2, <3>3
  <2> QED
    BY <2>2, <2>3
<1> QED
  BY <1>5, <1>6

\* An observation that is written is the only one that changes.
LEMMA Written ==
  ASSUME QueueTyped, NEW e \in Event, Known(e), NEW x \in Observation,
         observations' = [observations EXCEPT ![e[1]][e[2]] = x]
  PROVE  /\ QueueTyped'
         /\ \A d \in Event : Known(d)' <=> Known(d)
         /\ Obs(e)' = x
         /\ \A d \in Event \ {e} : Known(d) => Obs(d)' = Obs(d)
<1> DEFINE s == e[1]
           r == e[2]
           q == [observations[s] EXCEPT ![r] = x]
<1>1. s \in Source /\ r \in 1..Latest(s) /\ e = <<s, r>>
  BY EventFields, KnownObs
<1>2. /\ observations[s] \in Seq(Observation)
      /\ r \in 1..Len(observations[s]) /\ Len(observations[s]) \in Nat
  BY <1>1, QueueFields DEF Latest
<1>3. /\ q \in Seq(Observation) /\ Len(q) = Len(observations[s]) /\ q[r] = x
      /\ \A n \in 1..Len(observations[s]) : n # r => q[n] = observations[s][n]
  BY <1>2
<1>4. observations' = [observations EXCEPT ![s] = q]
  OBVIOUS
<1> HIDE DEF q
<1>5. /\ observations' \in [Source -> Seq(Observation)]
      /\ observations'[s] = q
      /\ \A u \in Source \ {s} : observations'[u] = observations[u]
  BY <1>1, <1>3, <1>4 DEF QueueTyped
<1>6. \A u \in Source : Latest(u)' = Latest(u)
  BY <1>3, <1>5 DEF Latest
<1>7. QueueTyped'
  BY <1>5, <1>6 DEF QueueTyped
<1>8. \A d \in Event : Known(d)' <=> Known(d)
  BY <1>6, EventFields DEF Known
<1>9. Obs(e)' = x
  BY <1>3, <1>5 DEF Obs
<1>10. ASSUME NEW d \in Event \ {e}, Known(d)
       PROVE  Obs(d)' = Obs(d)
  <2>1. d[1] \in Source /\ d[2] \in 1..Latest(d[1]) /\ d = <<d[1], d[2]>>
    BY <1>10, EventFields, KnownObs
  <2>2. CASE d[1] # s
    BY <1>5, <2>1, <2>2 DEF Obs
  <2>3. CASE d[1] = s
    <3>1. d[2] # r /\ d[2] \in 1..Len(observations[s])
      BY <1>1, <2>1, <2>3 DEF Latest
    <3> QED
      BY <1>3, <1>5, <2>3, <3>1 DEF Obs
  <2> QED
    BY <2>2, <2>3
<1> QED
  BY <1>7, <1>8, <1>9, <1>10

-----------------------------------------------------------------------------
(***************************************************************************)
(* What steps leave alone.                                                 *)
(***************************************************************************)
OneService(i) ==
  /\ services' \in [Instance -> Service]
  /\ \A k \in Instance \ {i} : services'[k] = services[k]

\* The threads are where they were, though nobody may wait for them any more.
RequestsStand ==
  \A h \in Handler :
    requests'[h].at = requests[h].at /\ requests'[h].event = requests[h].event

LEMMA ServiceFields ==
  ASSUME DeliveryInv, NEW i \in Instance
  PROVE  /\ services \in [Instance -> Service] /\ services[i] \in Service
         /\ services[i].event \in Event \union {None}
         /\ services[i].at \notin {"down", "idle"} => services[i].event \in Event
BY DEF DeliveryInv, ServicesOK, Service

LEMMA ServiceSet ==
  ASSUME DeliveryInv, NEW i \in Instance, NEW x \in Service,
         services' = [services EXCEPT ![i] = x],
         x.at \notin {"down", "idle"} => x.event \in Event
  PROVE  OneService(i) /\ services'[i] = x /\ ServicesOK'
<1>1. OneService(i) /\ services'[i] = x
  BY ServiceFields DEF OneService
<1>2. ServicesOK'
  BY <1>1 DEF OneService, ServicesOK, DeliveryInv
<1> QED
  BY <1>1, <1>2

LEMMA CallersStay ==
  ASSUME DeliveryInv, NEW i \in Instance, OneService(i),
         services[i].at # "wait", requests' = requests
  PROVE  RequestsOK' /\ RequestsStand
<1>1. RequestsOK
  BY DEF DeliveryInv
<1>2. \A h \in Handler : requests[h].caller \in Instance \union {None}
  BY <1>1 DEF RequestsOK, Request
<1>3. \A h \in Handler : requests[h].caller # None =>
        services'[requests[h].caller] = services[requests[h].caller]
  BY <1>1, <1>2 DEF RequestsOK, OneService
<1> QED
  BY <1>1, <1>3 DEF RequestsOK, RequestsStand

LEMMA CallerGone ==
  ASSUME DeliveryInv, NEW i \in Instance, OneService(i), requests' = Unheard(i)
  PROVE  RequestsOK' /\ RequestsStand
<1>1. RequestsOK
  BY DEF DeliveryInv
<1>2. ASSUME NEW h \in Handler
      PROVE  /\ requests'[h] \in Request
             /\ requests'[h].at = requests[h].at
             /\ requests'[h].event = requests[h].event
             /\ requests'[h].caller # None =>
                  /\ requests'[h].caller = requests[h].caller
                  /\ requests'[h].caller # i
                  /\ requests'[h].caller \in Instance
  <2>1. requests[h] \in Request
    BY <1>1 DEF RequestsOK
  <2>2. CASE requests[h].caller = i
    <3>1. requests'[h] = [requests[h] EXCEPT !.caller = None]
      BY <2>2 DEF Unheard
    <3> QED
      BY <2>1, <3>1 DEF Request
  <2>3. CASE requests[h].caller # i
    <3>1. requests'[h] = requests[h]
      BY <2>3 DEF Unheard
    <3> QED
      BY <2>1, <2>3, <3>1 DEF Request
  <2> QED
    BY <2>2, <2>3
<1>3. requests' \in [Handler -> Request]
  BY <1>2 DEF Unheard
<1>4. \A h \in Handler : requests'[h].caller # None =>
        services'[requests'[h].caller] = services[requests[h].caller]
  BY <1>2 DEF OneService
<1>5. \A h \in Handler : requests'[h].caller # None =>
        \A k \in Handler \ {h} : requests'[k].caller # requests'[h].caller
  BY <1>1, <1>2 DEF RequestsOK
<1> QED
  BY <1>1, <1>2, <1>3, <1>4, <1>5 DEF RequestsOK, RequestsStand

\* An instance that has not got a good answer, and no other delivery.
LEMMA AnswersStay ==
  ASSUME DeliveryInv, NEW i \in Instance, OneService(i), ingestions' = ingestions,
         ~ (services'[i].at = "mark" /\ services'[i].reply = "ok"),
         \A e \in Event : Known(e)' /\ Obs(e)'.status = "delivered" =>
           ingestions[e].status = "completed"
  PROVE  Answered'
<1>1. Answered
  BY DEF DeliveryInv
<1> QED
  BY <1>1 DEF Answered, OneService

LEMMA DeliveriesStay ==
  ASSUME DeliveryInv, UNCHANGED observations
  PROVE  \A e \in Event : Known(e)' /\ Obs(e)'.status = "delivered" =>
           ingestions[e].status = "completed"
BY DEF DeliveryInv, Answered, Known, Obs, Latest

LEMMA QueueStays ==
  ASSUME DeliveryInv, UNCHANGED observations
  PROVE  QueueTyped'
BY DEF DeliveryInv, QueueTyped, Latest

LEMMA AssignedStays ==
  ASSUME DeliveryInv, UNCHANGED <<observations, generations>>
  PROVE  AssignedIsUnderway'
BY DEF DeliveryInv, AssignedIsUnderway, Assigned, Pending, Known, Obs, Latest

\* What the connector does leaves the agent's side alone.
LEMMA ConnectorStep ==
  ASSUME DeliveryInv, UNCHANGED agent, RequestsStand,
         QueueTyped', ConnectorTyped', ServicesOK', RequestsOK',
         AssignedIsUnderway', Answered'
  PROVE  DeliveryInv'
<1>1. UNCHANGED <<ingestions, contributions, draft>>
  BY DEF agent
<1>2. AgentTyped'
  BY <1>1 DEF DeliveryInv, AgentTyped
<1>3. OwnersOK'
  BY <1>1 DEF DeliveryInv, OwnersOK, RequestsStand
<1>4. Merged'
  BY <1>1 DEF DeliveryInv, Merged
<1> QED
  BY <1>2, <1>3, <1>4 DEF DeliveryInv

\* What the agent does leaves the connector's tables alone.
LEMMA AgentSideStep ==
  ASSUME DeliveryInv, UNCHANGED connector, troubles' \in 0..MaxTrouble,
         AgentTyped', ServicesOK', RequestsOK', OwnersOK', Merged', Answered'
  PROVE  DeliveryInv'
<1>1. UNCHANGED <<observations, health, generations, lease>>
  BY DEF connector
<1>2. ConnectorTyped'
  BY <1>1 DEF DeliveryInv, ConnectorTyped
<1> QED
  BY <1>1, <1>2, QueueStays, AssignedStays DEF DeliveryInv

-----------------------------------------------------------------------------
(***************************************************************************)
(* The service: its lease, its cycle and a delivery.                       *)
(***************************************************************************)
LEMMA Lulls ==
  /\ Down \in Service /\ Down.at = "down"
  /\ Free \in Service /\ Free.at = "idle"
BY DEF Down, Free, Service

LEMMA TroubleTyped ==
  ASSUME DeliveryInv, Trouble \/ UNCHANGED troubles
  PROVE  troubles' \in 0..MaxTrouble
BY Bounds DEF DeliveryInv, ConnectorTyped, Trouble

\* A step of the service that touches neither queue nor generations.
LEMMA ServiceMoves ==
  ASSUME DeliveryInv, UNCHANGED <<observations, generations>>, UNCHANGED agent,
         NEW i \in Instance, OneService(i), ServicesOK',
         RequestsOK', RequestsStand,
         ~ (services'[i].at = "mark" /\ services'[i].reply = "ok"),
         health' \in [Source -> HealthRecord],
         lease' \in [owner: Instance \union {None}, held: BOOLEAN],
         lease'.held => lease'.owner # None,
         troubles' \in 0..MaxTrouble
  PROVE  DeliveryInv'
<1>1. QueueTyped' /\ AssignedIsUnderway'
  BY QueueStays, AssignedStays
<1>2. Answered'
  BY AnswersStay, DeliveriesStay DEF agent
<1>3. ConnectorTyped'
  BY DEF DeliveryInv, ConnectorTyped
<1> QED
  BY <1>1, <1>2, <1>3, ConnectorStep

LEMMA ConnectorFields ==
  ASSUME DeliveryInv
  PROVE  /\ health \in [Source -> HealthRecord] /\ generations \subseteq Generation
         /\ lease \in [owner: Instance \union {None}, held: BOOLEAN]
         /\ lease.held => lease.owner # None
BY DEF DeliveryInv, ConnectorTyped

LEMMA AcquireInv ==
  ASSUME DeliveryInv, NEW i \in Instance, Acquire(i)
  PROVE  DeliveryInv'
<1>1. OneService(i) /\ services'[i] = Free /\ ServicesOK'
  BY ServiceSet, Lulls DEF Acquire
<1>2. RequestsOK' /\ RequestsStand
  BY <1>1, CallersStay DEF Acquire
<1>3. /\ lease' \in [owner: Instance \union {None}, held: BOOLEAN]
      /\ lease'.held => lease'.owner # None
  BY Bounds DEF Acquire
<1>4. troubles' \in 0..MaxTrouble
  BY TroubleTyped DEF Acquire
<1> QED
  BY <1>1, <1>2, <1>3, <1>4, Lulls, ConnectorFields, ServiceMoves DEF Acquire

\* A step in which no instance and no thread takes part.
LEMMA Aside ==
  ASSUME DeliveryInv, UNCHANGED <<services, requests>>
  PROVE  /\ ServicesOK' /\ RequestsOK' /\ RequestsStand
BY DEF DeliveryInv, ServicesOK, RequestsOK, RequestsStand

LEMMA AsideAnswers ==
  ASSUME DeliveryInv, UNCHANGED <<services, ingestions>>,
         \A e \in Event : Known(e)' /\ Obs(e)'.status = "delivered" =>
           ingestions[e].status = "completed"
  PROVE  Answered'
BY DEF DeliveryInv, Answered

LEMMA LeaseLapsesInv ==
  ASSUME DeliveryInv, LeaseLapses
  PROVE  DeliveryInv'
<1>1. UNCHANGED <<observations, health, generations, services, agent, requests>>
  BY DEF LeaseLapses
<1>2. ServicesOK' /\ RequestsOK' /\ RequestsStand
  BY <1>1, Aside
<1>3. QueueTyped' /\ AssignedIsUnderway' /\ Answered'
  BY <1>1, QueueStays, AssignedStays, AsideAnswers, DeliveriesStay DEF agent
<1>4. troubles' \in 0..MaxTrouble
  BY TroubleTyped DEF LeaseLapses
<1>5. /\ lease' \in [owner: Instance \union {None}, held: BOOLEAN]
      /\ ~ lease'.held
  BY ConnectorFields DEF LeaseLapses
<1>6. ConnectorTyped'
  BY <1>1, <1>4, <1>5 DEF DeliveryInv, ConnectorTyped
<1> QED
  BY <1>1, <1>2, <1>3, <1>6, ConnectorStep

LEMMA StopInv ==
  ASSUME DeliveryInv, NEW i \in Instance, Stop(i)
  PROVE  DeliveryInv'
<1>1. OneService(i) /\ services'[i] = Down /\ ServicesOK'
  BY ServiceSet, Lulls DEF Stop
<1>2. RequestsOK' /\ RequestsStand
  BY <1>1, CallersStay DEF Stop
<1>3. /\ lease' \in [owner: Instance \union {None}, held: BOOLEAN]
      /\ lease'.held => lease'.owner # None
  BY ConnectorFields DEF Stop
<1>4. troubles' \in 0..MaxTrouble
  BY TroubleTyped DEF Stop
<1> QED
  BY <1>1, <1>2, <1>3, <1>4, Lulls, ConnectorFields, ServiceMoves DEF Stop

LEMMA CrashInv ==
  ASSUME DeliveryInv, NEW i \in Instance, Crash(i)
  PROVE  DeliveryInv'
<1>1. OneService(i) /\ services'[i] = Down /\ ServicesOK'
  BY ServiceSet, Lulls DEF Crash
<1>2. RequestsOK' /\ RequestsStand
  BY <1>1, CallerGone DEF Crash
<1>3. troubles' \in 0..MaxTrouble
  BY TroubleTyped DEF Crash
<1>4. UNCHANGED <<observations, health, generations, lease>> /\ UNCHANGED agent
  BY DEF Crash, connector
<1> QED
  BY <1>1, <1>2, <1>3, <1>4, Lulls, ConnectorFields, ServiceMoves

\* A snapshot that was not known is in no generation.
LEMMA AppendInv ==
  ASSUME DeliveryInv, MayGrow, NEW s \in Source,
         observations' = [observations EXCEPT ![s] = Append(@, New)],
         UNCHANGED <<services, requests, generations>>, UNCHANGED agent,
         ConnectorTyped'
  PROVE  DeliveryInv'
<1>1. /\ QueueTyped'
      /\ \A e \in Event : /\ Known(e) => Known(e)' /\ Obs(e)' = Obs(e)
                          /\ Known(e)' /\ ~ Known(e) => Obs(e)' = New
  BY Appended DEF DeliveryInv
<1>2. \A e \in Event : Known(e)' /\ Obs(e)'.status = "delivered" =>
        ingestions[e].status = "completed"
  BY <1>1, NewTyped DEF DeliveryInv, Answered
<1>3. Answered'
  BY <1>2, AsideAnswers DEF agent
<1>4. AssignedIsUnderway'
  <2>1. ASSUME NEW g \in Assigned
        PROVE  g.by \in Event /\ Pending(g.by)' /\ Obs(g.by)'.trigger
    <3>1. g \in Generation /\ Pending(g.by) /\ Obs(g.by).trigger
      BY ConnectorFields DEF Assigned, DeliveryInv, AssignedIsUnderway
    <3>2. g.by \in Event
      BY <3>1 DEF Generation
    <3> QED
      BY <1>1, <3>1, <3>2 DEF Pending
  <2>2. Assigned' = Assigned
    BY DEF Assigned
  <2> QED
    BY <2>1, <2>2 DEF AssignedIsUnderway, DeliveryInv
<1> QED
  BY <1>1, <1>3, <1>4, Aside, ConnectorStep

LEMMA RegisterInv ==
  ASSUME DeliveryInv, NEW i \in Instance, NEW s \in Source, Register(i, s)
  PROVE  DeliveryInv'
<1>1. ConnectorTyped'
  BY DEF Register, DeliveryInv, ConnectorTyped
<1> QED
  BY <1>1, AppendInv DEF Register

\* Health is recorded and sent aside of the snapshots.
LEMMA HealthInv ==
  ASSUME DeliveryInv, health' \in [Source -> HealthRecord],
         Trouble \/ UNCHANGED troubles,
         UNCHANGED <<observations, generations, lease, services, agent, requests>>
  PROVE  DeliveryInv'
<1>1. ServicesOK' /\ RequestsOK' /\ RequestsStand
  BY Aside
<1>2. QueueTyped' /\ AssignedIsUnderway' /\ Answered'
  BY QueueStays, AssignedStays, AsideAnswers, DeliveriesStay DEF agent
<1>3. troubles' \in 0..MaxTrouble
  BY TroubleTyped
<1>4. ConnectorTyped'
  BY <1>3 DEF DeliveryInv, ConnectorTyped
<1> QED
  BY <1>1, <1>2, <1>4, ConnectorStep

LEMMA RecordHealthInv ==
  ASSUME DeliveryInv, NEW i \in Instance, NEW s \in Source,
         NEW bound \in 0..MaxRevision, RecordHealth(i, s, bound)
  PROVE  DeliveryInv'
<1>1. [bound |-> bound, status |-> "pending"] \in HealthRecord
  BY DEF HealthRecord
<1>2. health' \in [Source -> HealthRecord]
  BY <1>1, ConnectorFields DEF RecordHealth
<1> QED
  BY <1>2, HealthInv DEF RecordHealth

LEMMA SendHealthInv ==
  ASSUME DeliveryInv, NEW i \in Instance, NEW s \in Source,
         NEW status \in {"delivered", "dead"}, SendHealth(i, s, status)
  PROVE  DeliveryInv'
<1>1. PICK x \in HealthRecord : x = [health[s] EXCEPT !.status = status]
  BY ConnectorFields DEF HealthRecord
<1>2. health' \in [Source -> HealthRecord]
  BY <1>1, ConnectorFields DEF SendHealth
<1> QED
  BY <1>2, HealthInv DEF SendHealth

LEMMA SelectInv ==
  ASSUME DeliveryInv, NEW i \in Instance, NEW e \in Event, Select(i, e)
  PROVE  DeliveryInv'
<1>1. PICK x \in Service :
        x = [Free EXCEPT !.at = "prepare", !.event = e]
  BY Lulls DEF Service
<1>2. x.at = "prepare" /\ x.event = e
  BY <1>1, Lulls DEF Service
<1>3. OneService(i) /\ services'[i] = x /\ ServicesOK'
  BY <1>1, <1>2, ServiceSet DEF Select
<1>4. RequestsOK' /\ RequestsStand
  BY <1>3, CallersStay DEF Select
<1>5. troubles' \in 0..MaxTrouble
  BY TroubleTyped DEF Select
<1>6. UNCHANGED <<observations, health, generations, lease>> /\ UNCHANGED agent
  BY DEF Select, connector
<1> QED
  BY <1>2, <1>3, <1>4, <1>5, <1>6, ConnectorFields, ServiceMoves

\* What becomes of an instance that goes to another point of its delivery.
LEMMA GotoDoes ==
  ASSUME DeliveryInv, NEW i \in Instance, services[i].at \notin {"down", "idle"},
         NEW at \in {"wait", "mark"}, NEW reply \in {"none", "ok", "retry", "refused", "odd"},
         Goto(i, at, reply)
  PROVE  /\ OneService(i) /\ ServicesOK'
         /\ services'[i].at = at /\ services'[i].reply = reply
         /\ services'[i].event = services[i].event
<1>1. services[i] \in Service /\ services[i].event \in Event
  BY ServiceFields
<1>2. PICK x \in Service : x = [services[i] EXCEPT !.at = at, !.reply = reply]
  BY <1>1 DEF Service
<1>3. x.at = at /\ x.reply = reply /\ x.event = services[i].event
  BY <1>1, <1>2 DEF Service
<1>4. services' = [services EXCEPT ![i] = x]
  BY <1>2, ServiceFields DEF Goto
<1> QED
  BY <1>1, <1>3, <1>4, ServiceSet

LEMMA SendFailsInv ==
  ASSUME DeliveryInv, NEW i \in Instance,
         NEW reply \in {"retry", "refused", "odd"}, SendFails(i, reply)
  PROVE  DeliveryInv'
<1>1. services[i].at = "send" /\ Goto(i, "mark", reply)
  BY DEF SendFails
<1>2. OneService(i) /\ ServicesOK' /\ services'[i].reply = reply
  BY <1>1, GotoDoes
<1>3. RequestsOK' /\ RequestsStand
  BY <1>1, <1>2, CallersStay DEF SendFails
<1>4. troubles' \in 0..MaxTrouble
  BY TroubleTyped DEF SendFails
<1>5. UNCHANGED <<observations, health, generations, lease>> /\ UNCHANGED agent
  BY DEF SendFails, connector
<1> QED
  BY <1>2, <1>3, <1>4, <1>5, ConnectorFields, ServiceMoves

LEMMA TimeOutInv ==
  ASSUME DeliveryInv, NEW i \in Instance, TimeOut(i)
  PROVE  DeliveryInv'
<1>1. services[i].at = "wait" /\ Goto(i, "mark", "retry") /\ requests' = Unheard(i)
  BY DEF TimeOut
<1>2. OneService(i) /\ ServicesOK' /\ services'[i].reply = "retry"
  BY <1>1, GotoDoes
<1>3. RequestsOK' /\ RequestsStand
  BY <1>1, <1>2, CallerGone
<1>4. troubles' \in 0..MaxTrouble
  BY TroubleTyped DEF TimeOut
<1>5. UNCHANGED <<observations, health, generations, lease>> /\ UNCHANGED agent
  BY DEF TimeOut, connector
<1> QED
  BY <1>2, <1>3, <1>4, <1>5, ConnectorFields, ServiceMoves

\* A delivery that is under way takes an observation up, or lets it wait.
LEMMA PreparedService ==
  ASSUME DeliveryInv, NEW i \in Instance, services[i].at = "prepare",
         NEW trigger \in BOOLEAN,
         \/ services' = [services EXCEPT ![i] = Free]
         \/ services' = [services EXCEPT ![i].at = "send", ![i].trigger = trigger]
  PROVE  /\ OneService(i) /\ ServicesOK' /\ services'[i].at \in {"idle", "send"}
         /\ (requests' = requests => RequestsOK' /\ RequestsStand)
<1>1. OneService(i) /\ ServicesOK' /\ services'[i].at \in {"idle", "send"}
  <2>1. CASE services' = [services EXCEPT ![i] = Free]
    BY <2>1, ServiceSet, Lulls
  <2>2. CASE services' = [services EXCEPT ![i].at = "send", ![i].trigger = trigger]
    <3>1. services[i] \in Service /\ services[i].event \in Event
      BY ServiceFields
    <3>2. PICK x \in Service :
            x = [services[i] EXCEPT !.at = "send", !.trigger = trigger]
      BY <3>1 DEF Service
    <3>3. x.at = "send" /\ x.event = services[i].event
      BY <3>1, <3>2 DEF Service
    <3>4. services' = [services EXCEPT ![i] = x]
      BY <2>2, <3>2, ServiceFields
    <3> QED
      BY <3>1, <3>3, <3>4, ServiceSet
  <2> QED
    BY <2>1, <2>2
<1>2. requests' = requests => RequestsOK' /\ RequestsStand
  BY <1>1, CallersStay
<1> QED
  BY <1>1, <1>2

\* A workflow is asked for only when none is under way.
LEMMA Asks ==
  ASSUME DeliveryInv, NEW e \in Event, Pending(e), ~ Deferred(e), ~ Obs(e).trigger,
         observations' = [observations EXCEPT ![e[1]][e[2]].trigger = TRUE],
         generations' = generations \union
           {[made |-> Made(e), by |-> e, status |-> "assigned"]}
  PROVE  /\ QueueTyped' /\ AssignedIsUnderway' /\ generations' \subseteq Generation
         /\ \A d \in Event : Known(d)' /\ Obs(d)'.status = "delivered" =>
              ingestions[d].status = "completed"
<1>1. QueueTyped /\ Known(e) /\ Obs(e).status = "pending"
  BY DEF DeliveryInv, Pending
<1>2. Obs(e) \in Observation
  BY <1>1, KnownObs
<1>3. PICK x \in Observation : x = [Obs(e) EXCEPT !.trigger = TRUE]
  BY <1>2 DEF Observation
<1>4. x.trigger = TRUE /\ x.status = "pending"
  BY <1>1, <1>2, <1>3 DEF Observation
<1>5. observations' = [observations EXCEPT ![e[1]][e[2]] = x]
  BY <1>3 DEF Obs
<1>6. /\ QueueTyped' /\ \A d \in Event : Known(d)' <=> Known(d)
      /\ Obs(e)' = x
      /\ \A d \in Event \ {e} : Known(d) => Obs(d)' = Obs(d)
  BY <1>1, <1>5, Written
<1>7. Made(e) \in [Source -> 0..MaxRevision]
  BY <1>1, MadeTyped
<1>8. PICK g \in Generation :
        g = [made |-> Made(e), by |-> e, status |-> "assigned"]
  BY <1>7 DEF Generation
<1>9. g.by = e /\ generations' = generations \union {g}
  BY <1>8
<1>10. Assigned = {}
  BY DEF Deferred
<1>11. \A k \in Assigned' : k = g
  BY <1>9, <1>10 DEF Assigned
<1>12. Pending(e)' /\ Obs(e)'.trigger
  BY <1>1, <1>4, <1>6 DEF Pending
<1>13. AssignedIsUnderway'
  BY <1>9, <1>11, <1>12 DEF AssignedIsUnderway
<1>14. generations' \subseteq Generation
  BY <1>9, ConnectorFields
<1>15. \A d \in Event : Known(d)' /\ Obs(d)'.status = "delivered" =>
         ingestions[d].status = "completed"
  BY <1>4, <1>6 DEF DeliveryInv, Answered
<1> QED
  BY <1>6, <1>13, <1>14, <1>15

LEMMA PrepareInv ==
  ASSUME DeliveryInv, NEW i \in Instance, NEW fresh \in BOOLEAN, Prepare(i, fresh)
  PROVE  DeliveryInv'
<1> DEFINE e == services[i].event
           trig == Obs(e).trigger
<1>1. /\ services[i].at = "prepare" /\ e \in Event
      /\ UNCHANGED <<health, lease, requests, troubles>> /\ UNCHANGED agent
  BY ServiceFields DEF Prepare
<1>2. troubles' \in 0..MaxTrouble
  BY <1>1, TroubleTyped
<1>3. CASE /\ services' = [services EXCEPT ![i] = Free]
           /\ UNCHANGED <<observations, generations>>
  <2>1. /\ OneService(i) /\ ServicesOK' /\ services'[i].at \in {"idle", "send"}
        /\ RequestsOK' /\ RequestsStand
    BY <1>1, <1>3, PreparedService
  <2> QED
    BY <1>1, <1>2, <1>3, <2>1, ConnectorFields, ServiceMoves
<1>4. CASE /\ Pending(e) /\ ~ Deferred(e) /\ ~ trig
           /\ services' = [services EXCEPT ![i].at = "send", ![i].trigger = TRUE]
           /\ observations' = [observations EXCEPT ![e[1]][e[2]].trigger = TRUE]
           /\ generations' = generations \union
                {[made |-> Made(e), by |-> e, status |-> "assigned"]}
  <2>1. /\ OneService(i) /\ ServicesOK' /\ services'[i].at \in {"idle", "send"}
        /\ RequestsOK' /\ RequestsStand
    BY <1>1, <1>4, PreparedService
  <2>2. /\ QueueTyped' /\ AssignedIsUnderway' /\ generations' \subseteq Generation
        /\ \A d \in Event : Known(d)' /\ Obs(d)'.status = "delivered" =>
             ingestions[d].status = "completed"
    BY <1>1, <1>4, Asks
  <2>3. ingestions' = ingestions
    BY <1>1 DEF agent
  <2>4. Answered'
    BY <2>1, <2>2, <2>3, AnswersStay
  <2>5. ConnectorTyped'
    BY <1>1, <1>2, <2>2 DEF DeliveryInv, ConnectorTyped
  <2> QED
    BY <1>1, <2>1, <2>2, <2>4, <2>5, ConnectorStep
<1>5. CASE /\ Pending(e)
           /\ services' = [services EXCEPT ![i].at = "send", ![i].trigger = trig]
           /\ UNCHANGED <<observations, generations>>
  <2>1. trig \in BOOLEAN
    BY <1>1, <1>5, KnownObs DEF DeliveryInv, Pending
  <2>2. /\ OneService(i) /\ ServicesOK' /\ services'[i].at \in {"idle", "send"}
        /\ RequestsOK' /\ RequestsStand
    BY <1>1, <1>5, <2>1, PreparedService
  <2> QED
    BY <1>1, <1>2, <1>5, <2>2, ConnectorFields, ServiceMoves
<1> QED
  BY <1>3, <1>4, <1>5 DEF Prepare

LEMMA SendInv ==
  ASSUME DeliveryInv, NEW i \in Instance, Send(i)
  PROVE  DeliveryInv'
<1>1. /\ services[i].at = "send" /\ Spare # {} /\ Goto(i, "wait", "none")
      /\ UNCHANGED connector /\ UNCHANGED agent /\ UNCHANGED troubles
  BY DEF Send
<1>2. PICK h \in Handler : h = CHOOSE k \in Spare : TRUE
  BY <1>1 DEF Spare
<1>3. requests[h].at = "idle"
  BY <1>1, <1>2 DEF Spare
<1>4. services[i] \in Service /\ services[i].event \in Event
  BY <1>1, ServiceFields
<1>5. PICK x \in Request :
        x = [at |-> "claim", event |-> services[i].event,
             trigger |-> services[i].trigger, caller |-> i]
  BY <1>4 DEF Request, Service
<1>6. x.at = "claim" /\ x.event = services[i].event /\ x.caller = i
  BY <1>5
<1>7. requests' = [requests EXCEPT ![h] = x]
  BY <1>2, <1>5 DEF Send
<1>8. /\ OneService(i) /\ ServicesOK' /\ services'[i].at = "wait"
      /\ services'[i].event = services[i].event
  BY <1>1, GotoDoes
<1>9. RequestsOK
  BY DEF DeliveryInv
<1>10. /\ requests' \in [Handler -> Request] /\ requests'[h] = x
       /\ \A k \in Handler \ {h} : requests'[k] = requests[k]
  BY <1>7, <1>9 DEF RequestsOK
<1>11. ASSUME NEW k \in Handler \ {h}, requests[k].caller # None
       PROVE  /\ requests[k].caller # i
              /\ services'[requests[k].caller] = services[requests[k].caller]
  <2>1. requests[k].caller \in Instance
    BY <1>9, <1>11 DEF RequestsOK, Request
  <2>2. requests[k].caller # i
    BY <1>1, <1>9, <1>11 DEF RequestsOK
  <2> QED
    BY <1>8, <2>1, <2>2 DEF OneService
<1>12. RequestsOK'
  <2>1. \A k \in Handler : requests'[k].at # "idle" => requests'[k].event \in Event
    BY <1>4, <1>6, <1>9, <1>10 DEF RequestsOK
  <2>2. ASSUME NEW k \in Handler \ {h}, requests'[k].caller # None
        PROVE  /\ requests'[k].at # "idle"
               /\ services'[requests'[k].caller].at = "wait"
               /\ services'[requests'[k].caller].event = requests'[k].event
               /\ \A l \in Handler \ {k} : requests'[l].caller # requests'[k].caller
    BY <1>6, <1>9, <1>10, <1>11, <2>2 DEF RequestsOK
  <2>3. /\ services'[x.caller].at = "wait" /\ services'[x.caller].event = x.event
        /\ \A l \in Handler \ {h} : requests'[l].caller # x.caller
    BY <1>6, <1>8, <1>10, <1>11, Bounds
  <2> QED
    BY <1>6, <1>10, <2>1, <2>2, <2>3 DEF RequestsOK
<1>13. UNCHANGED <<ingestions, contributions, draft>>
  BY <1>1 DEF agent
<1>14. OwnersOK'
  BY <1>3, <1>10, <1>13 DEF DeliveryInv, OwnersOK
<1>15. AgentTyped' /\ Merged'
  BY <1>13 DEF DeliveryInv, AgentTyped, Merged
<1>16. Answered'
  BY <1>1, <1>8, <1>13, AnswersStay, DeliveriesStay DEF connector
<1>17. troubles' \in 0..MaxTrouble
  BY <1>1, TroubleTyped
<1> QED
  BY <1>1, <1>8, <1>12, <1>14, <1>15, <1>16, <1>17, AgentSideStep

\* The end of a delivery concerns its observation alone.
LEMMA StatusSet ==
  ASSUME DeliveryInv, NEW e \in Event, NEW status \in {"delivered", "dead"},
         NEW answer \in {"none", "refused", "odd"}, SetStatus(e, status, answer)
  PROVE  /\ QueueTyped' /\ \A d \in Event : Known(d)' <=> Known(d)
         /\ \A d \in Event \ {e} : Known(d) => Obs(d)' = Obs(d)
         /\ Known(e) => Obs(e)'.status \in {Obs(e).status, status}
<1>1. CASE Pending(e)
  <2>1. QueueTyped /\ Known(e)
    BY <1>1 DEF DeliveryInv, Pending
  <2>2. Obs(e) \in Observation
    BY <2>1, KnownObs
  <2>3. PICK x \in Observation :
          x = [Obs(e) EXCEPT !.status = status, !.answer = answer]
    BY <2>2 DEF Observation
  <2>4. x.status = status
    BY <2>2, <2>3 DEF Observation
  <2>5. e[1] \in Source /\ e[2] \in 1..Len(observations[e[1]])
        /\ observations[e[1]] \in Seq(Observation)
    BY <2>1, EventFields, KnownObs, QueueFields DEF Latest
  <2>6. observations' = [observations EXCEPT ![e[1]][e[2]] = x]
    BY <1>1, <2>1, <2>3, <2>5 DEF SetStatus, Obs, QueueTyped
  <2> QED
    BY <2>1, <2>4, <2>6, Written
<1>2. CASE ~ Pending(e)
  <2>1. observations' = observations
    BY <1>2 DEF SetStatus
  <2> QED
    BY <2>1, QueueStays DEF Known, Obs, Latest
<1> QED
  BY <1>1, <1>2

\* Its generation ends with it.
LEMMA ClosedTyped ==
  ASSUME DeliveryInv, NEW e \in Event, NEW status \in {"completed", "failed"}
  PROVE  /\ Closed(e, status) \subseteq Generation
         /\ \A g \in Closed(e, status) : g.status = "assigned" =>
              g \in Assigned /\ g.by # e
<1>1. ASSUME NEW k \in generations, NEW g,
             g = IF k.by = e /\ k.status = "assigned"
                 THEN [k EXCEPT !.status = status] ELSE k
      PROVE  g \in Generation /\ (g.status = "assigned" => g \in Assigned /\ g.by # e)
  <2>1. k \in Generation
    BY ConnectorFields
  <2>2. CASE k.by = e /\ k.status = "assigned"
    <3>1. g = [k EXCEPT !.status = status]
      BY <1>1, <2>2
    <3> QED
      BY <2>1, <3>1 DEF Generation
  <2>3. CASE ~ (k.by = e /\ k.status = "assigned")
    BY <1>1, <2>1, <2>3 DEF Assigned
  <2> QED
    BY <2>2, <2>3
<1> QED
  BY <1>1 DEF Closed

LEMMA MarkEnds ==
  ASSUME DeliveryInv, NEW e \in Event, NEW status \in {"delivered", "dead"},
         NEW answer \in {"none", "refused", "odd"},
         NEW end \in {"completed", "failed"},
         SetStatus(e, status, answer), generations' = Closed(e, end),
         status = "delivered" => ingestions[e].status = "completed"
  PROVE  /\ QueueTyped' /\ AssignedIsUnderway' /\ generations' \subseteq Generation
         /\ \A d \in Event : Known(d)' /\ Obs(d)'.status = "delivered" =>
              ingestions[d].status = "completed"
<1>1. /\ QueueTyped' /\ \A d \in Event : Known(d)' <=> Known(d)
      /\ \A d \in Event \ {e} : Known(d) => Obs(d)' = Obs(d)
      /\ Known(e) => Obs(e)'.status \in {Obs(e).status, status}
  BY StatusSet
<1>2. /\ generations' \subseteq Generation
      /\ \A g \in Assigned' : g \in Assigned /\ g.by # e
  BY ClosedTyped DEF Assigned
<1>3. ASSUME NEW g \in Assigned'
      PROVE  Pending(g.by)' /\ Obs(g.by)'.trigger
  <2>1. g \in Assigned /\ g.by # e /\ g \in Generation
    BY <1>2 DEF Assigned
  <2>2. g.by \in Event \ {e} /\ Pending(g.by) /\ Obs(g.by).trigger
    BY <2>1 DEF Generation, DeliveryInv, AssignedIsUnderway
  <2> QED
    BY <1>1, <2>2 DEF Pending
<1>4. AssignedIsUnderway'
  BY <1>2, <1>3 DEF AssignedIsUnderway, DeliveryInv
<1>5. ASSUME NEW d \in Event, Known(d)', Obs(d)'.status = "delivered"
      PROVE  ingestions[d].status = "completed"
  <2>1. CASE d = e
    BY <1>1, <1>5, <2>1 DEF DeliveryInv, Answered
  <2>2. CASE d # e
    BY <1>1, <1>5, <2>2 DEF DeliveryInv, Answered
  <2> QED
    BY <2>1, <2>2
<1> QED
  BY <1>1, <1>2, <1>4, <1>5

LEMMA MarkInv ==
  ASSUME DeliveryInv, NEW i \in Instance, Mark(i)
  PROVE  DeliveryInv'
<1> DEFINE e == services[i].event
           reply == services[i].reply
<1>1. /\ services[i].at = "mark" /\ e \in Event
      /\ services' = [services EXCEPT ![i] = Free]
      /\ UNCHANGED <<health, lease, requests, troubles>> /\ UNCHANGED agent
  BY ServiceFields DEF Mark
<1>2. OneService(i) /\ services'[i] = Free /\ ServicesOK'
  BY <1>1, ServiceSet, Lulls
<1>3. RequestsOK' /\ RequestsStand
  BY <1>1, <1>2, CallersStay
<1>4. /\ QueueTyped' /\ AssignedIsUnderway' /\ generations' \subseteq Generation
      /\ \A d \in Event : Known(d)' /\ Obs(d)'.status = "delivered" =>
           ingestions[d].status = "completed"
  <2>1. CASE reply = "ok"
    <3>1. SetStatus(e, "delivered", "none") /\ generations' = Closed(e, "completed")
      BY <2>1 DEF Mark
    <3>2. ingestions[e].status = "completed"
      BY <1>1, <2>1 DEF DeliveryInv, Answered
    <3> QED
      BY <1>1, <3>1, <3>2, MarkEnds
  <2>2. CASE reply = "retry"
    <3>1. UNCHANGED <<observations, generations>>
      BY <2>2 DEF Mark
    <3> QED
      BY <3>1, QueueStays, AssignedStays, DeliveriesStay, ConnectorFields
  <2>3. CASE reply \notin {"ok", "retry"}
    <3>1. SetStatus(e, "dead", reply) /\ generations' = Closed(e, "failed")
      BY <2>3 DEF Mark
    <3>2. reply \in {"none", "refused", "odd"}
      BY <2>3, ServiceFields DEF Service
    <3> QED
      BY <1>1, <3>1, <3>2, MarkEnds
  <2> QED
    BY <2>1, <2>2, <2>3
<1>5. ingestions' = ingestions
  BY <1>1 DEF agent
<1>6. Answered'
  BY <1>2, <1>4, <1>5, AnswersStay, Lulls
<1>7. ConnectorTyped'
  BY <1>1, <1>4 DEF DeliveryInv, ConnectorTyped
<1> QED
  BY <1>1, <1>2, <1>3, <1>4, <1>6, <1>7, ConnectorStep

-----------------------------------------------------------------------------
(***************************************************************************)
(* Repairs.                                                                *)
(***************************************************************************)
LEMMA RepairTyped ==
  ASSUME DeliveryInv, Repair, generations' \subseteq Generation,
         Trouble \/ UNCHANGED troubles
  PROVE  ConnectorTyped'
<1>1. lease' \in [owner: Instance \union {None}, held: BOOLEAN] /\ ~ lease'.held
  BY DEF Repair
<1>2. troubles' \in 0..MaxTrouble
  BY TroubleTyped
<1>3. health' \in [Source -> HealthRecord]
  BY ConnectorFields DEF Repair
<1> QED
  BY <1>1, <1>2, <1>3 DEF ConnectorTyped

\* A repair of an observation that is not pending, and so in no generation that
\* is under way.
LEMMA RepairInv ==
  ASSUME DeliveryInv, Repair, NEW e \in Event, Known(e), ~ Pending(e),
         NEW x \in Observation, x.status # "delivered",
         observations' = [observations EXCEPT ![e[1]][e[2]] = x],
         generations' \subseteq generations, Trouble \/ UNCHANGED troubles
  PROVE  DeliveryInv'
<1>1. /\ QueueTyped' /\ \A d \in Event : Known(d)' <=> Known(d)
      /\ Obs(e)' = x
      /\ \A d \in Event \ {e} : Known(d) => Obs(d)' = Obs(d)
  BY Written DEF DeliveryInv
<1>2. UNCHANGED <<services, requests>> /\ UNCHANGED agent
  BY DEF Repair
<1>3. ConnectorTyped'
  BY RepairTyped, ConnectorFields
<1>4. ASSUME NEW g \in Assigned'
      PROVE  g \in Assigned /\ Pending(g.by)' /\ Obs(g.by)'.trigger
  <2>1. g \in Assigned /\ g \in Generation
    BY ConnectorFields DEF Assigned
  <2>2. g.by \in Event /\ Pending(g.by) /\ Obs(g.by).trigger
    BY <2>1 DEF Generation, DeliveryInv, AssignedIsUnderway
  <2>3. g.by # e
    BY <2>2
  <2> QED
    BY <1>1, <2>1, <2>2, <2>3 DEF Pending
<1>5. AssignedIsUnderway'
  BY <1>4 DEF AssignedIsUnderway, DeliveryInv
<1>6. \A d \in Event : Known(d)' /\ Obs(d)'.status = "delivered" =>
        ingestions[d].status = "completed"
  BY <1>1 DEF DeliveryInv, Answered
<1>7. Answered'
  BY <1>2, <1>6, AsideAnswers DEF agent
<1> QED
  BY <1>1, <1>2, <1>3, <1>5, <1>7, Aside, ConnectorStep

LEMMA RetryDeadInv ==
  ASSUME DeliveryInv, NEW e \in Event, RetryDead(e)
  PROVE  DeliveryInv'
BY RepairInv, NewTyped DEF RetryDead, Pending

LEMMA SupersedeInv ==
  ASSUME DeliveryInv, NEW e \in Event, Supersede(e)
  PROVE  DeliveryInv'
<1>1. ConnectorTyped'
  BY RepairTyped, ConnectorFields DEF Supersede
<1>2. e[1] \in Source
  BY EventFields
<1> QED
  BY <1>1, <1>2, AppendInv DEF Supersede, Repair

LEMMA ReplayInv ==
  ASSUME DeliveryInv, NEW e \in Event, Replay(e)
  PROVE  DeliveryInv'
<1>1. Known(e) /\ Obs(e).status = "delivered" /\ ~ Pending(e)
  BY DEF Replay, Pending
<1>2. Obs(e) \in Observation
  BY <1>1, KnownObs DEF DeliveryInv
<1>3. PICK x \in Observation : x = [Obs(e) EXCEPT !.status = "pending"]
  BY <1>2 DEF Observation
<1>4. x.status = "pending"
  BY <1>2, <1>3 DEF Observation
<1>5. observations' = [observations EXCEPT ![e[1]][e[2]] = x]
  BY <1>3 DEF Replay, Obs
<1> QED
  BY <1>1, <1>4, <1>5, RepairInv DEF Replay

-----------------------------------------------------------------------------
(***************************************************************************)
(* The agent: what a step of a thread does to its request and ingestion.   *)
(***************************************************************************)
OneIngestion(e) ==
  /\ ingestions' \in [Event -> Ingestion]
  /\ \A d \in Event \ {e} : ingestions'[d] = ingestions[d]

OneRequest(h) == \A k \in Handler \ {h} : requests'[k] = requests[k]

CompletedStays ==
  \A e \in Event :
    ingestions[e].status = "completed" => ingestions'[e].status = "completed"

MergedStays ==
  \A e \in Event :
    ingestions'[e].status \in MergedStatus <=> ingestions[e].status \in MergedStatus

LEMMA AgentFields ==
  ASSUME DeliveryInv
  PROVE  /\ ingestions \in [Event -> Ingestion]
         /\ contributions \in [Source -> 0..MaxRevision]
         /\ draft \in {"none", "synced", "edited", "closed"}
BY DEF DeliveryInv, AgentTyped

LEMMA RequestFields ==
  ASSUME DeliveryInv, NEW h \in Handler
  PROVE  /\ requests \in [Handler -> Request] /\ requests[h] \in Request
         /\ requests[h].caller \in Instance \union {None}
         /\ requests[h].trigger \in BOOLEAN
         /\ requests[h].at # "idle" =>
              /\ requests[h].event \in Event
              /\ ingestions[requests[h].event] \in Ingestion
BY AgentFields DEF DeliveryInv, RequestsOK, Request

LEMMA IngestionSet ==
  ASSUME DeliveryInv, NEW e \in Event, NEW x \in Ingestion,
         ingestions' = [ingestions EXCEPT ![e] = x]
  PROVE  OneIngestion(e) /\ ingestions'[e] = x
BY AgentFields DEF OneIngestion

\* The thread is at its end, and whoever waits for it goes on with the answer.
LEMMA Answers ==
  ASSUME DeliveryInv, NEW h \in Handler, requests[h].at # "idle",
         NEW reply \in {"ok", "retry", "refused"}, Answer(h, reply),
         CompletedStays, observations' = observations,
         reply = "ok" => ingestions'[requests[h].event].status = "completed"
  PROVE  /\ ServicesOK' /\ RequestsOK' /\ Answered'
         /\ OneRequest(h) /\ requests'[h].at = "idle"
<1>1. /\ RequestsOK /\ requests[h].caller \in Instance \union {None}
      /\ requests[h].event \in Event
  BY RequestFields DEF DeliveryInv
<1>2. /\ NoRequest \in Request /\ NoRequest.at = "idle" /\ NoRequest.caller = None
  BY DEF NoRequest, Request
<1>3. requests' = [requests EXCEPT ![h] = NoRequest]
  BY DEF Answer
<1>4. /\ requests' \in [Handler -> Request] /\ requests'[h] = NoRequest
      /\ \A k \in Handler \ {h} : requests'[k] = requests[k]
  BY <1>1, <1>2, <1>3 DEF RequestsOK
<1>5. CASE requests[h].caller = None
  <2>1. services' = services
    BY <1>5 DEF Answer
  <2>2. ServicesOK'
    BY <2>1 DEF DeliveryInv, ServicesOK
  <2>3. RequestsOK'
    BY <1>1, <1>2, <1>4, <2>1 DEF RequestsOK
  <2>4. Answered'
    <3>1. \A i \in Instance : services[i].at = "mark" => services[i].event \in Event
      BY ServiceFields
    <3> QED
      BY <2>1, <3>1
         DEF DeliveryInv, Answered, CompletedStays, Known, Obs, Latest
  <2> QED
    BY <1>2, <1>4, <2>2, <2>3, <2>4 DEF OneRequest
<1>6. CASE requests[h].caller # None
  <2> DEFINE i == requests[h].caller
  <2>1. /\ i \in Instance /\ services[i].at = "wait"
        /\ services[i].event = requests[h].event
    BY <1>1, <1>6 DEF RequestsOK
  <2>2. services[i] \in Service
    BY <2>1, ServiceFields
  <2>3. PICK x \in Service : x = [services[i] EXCEPT !.at = "mark", !.reply = reply]
    BY <2>2 DEF Service
  <2>4. x.at = "mark" /\ x.reply = reply /\ x.event = requests[h].event
    BY <2>1, <2>2, <2>3 DEF Service
  <2>5. services' = [services EXCEPT ![i] = x]
    BY <1>6, <2>1, <2>3, ServiceFields DEF Answer
  <2>6. OneService(i) /\ services'[i] = x /\ ServicesOK'
    BY <1>1, <2>1, <2>4, <2>5, ServiceSet
  <2>7. ASSUME NEW k \in Handler \ {h}, requests[k].caller # None
        PROVE  services'[requests[k].caller] = services[requests[k].caller]
    <3>1. requests[k].caller \in Instance /\ requests[k].caller # i
      BY <1>1, <1>6, <2>7 DEF RequestsOK, Request
    <3> QED
      BY <2>6, <3>1 DEF OneService
  <2>8. RequestsOK'
    BY <1>1, <1>2, <1>4, <2>7 DEF RequestsOK
  <2>9. ASSUME NEW k \in Instance, services'[k].at = "mark", services'[k].reply = "ok"
        PROVE  ingestions'[services'[k].event].status = "completed"
    <3>1. CASE k = i
      BY <2>4, <2>6, <2>9, <3>1
    <3>2. CASE k # i
      <4>1. services'[k] = services[k] /\ services[k].event \in Event
        BY <2>6, <2>9, <3>2, ServiceFields DEF OneService
      <4> QED
        BY <2>9, <4>1 DEF DeliveryInv, Answered, CompletedStays
    <3> QED
      BY <3>1, <3>2
  <2>10. Answered'
    BY <2>9 DEF DeliveryInv, Answered, CompletedStays, Known, Obs, Latest
  <2> QED
    BY <1>2, <1>4, <2>6, <2>8, <2>10 DEF OneRequest
<1> QED
  BY <1>5, <1>6

LEMMA Proceeds ==
  ASSUME DeliveryInv, NEW h \in Handler, requests[h].at # "idle",
         NEW at \in {"import", "reject", "dispatch", "complete"}, Proceed(h, at),
         CompletedStays, observations' = observations
  PROVE  /\ ServicesOK' /\ RequestsOK' /\ Answered'
         /\ OneRequest(h) /\ requests'[h].at = at
         /\ requests'[h].event = requests[h].event
<1>1. RequestsOK /\ requests[h] \in Request /\ services' = services
  BY RequestFields DEF DeliveryInv, Proceed
<1>2. PICK x \in Request : x = [requests[h] EXCEPT !.at = at]
  BY <1>1 DEF Request
<1>3. x.at = at /\ x.event = requests[h].event /\ x.caller = requests[h].caller
  BY <1>1, <1>2 DEF Request
<1>4. requests' = [requests EXCEPT ![h] = x]
  BY <1>2, RequestFields DEF Proceed
<1>5. /\ requests' \in [Handler -> Request] /\ requests'[h] = x
      /\ \A k \in Handler \ {h} : requests'[k] = requests[k]
  BY <1>1, <1>4 DEF RequestsOK
<1>6. \A k \in Handler : /\ requests'[k].caller = requests[k].caller
                         /\ requests'[k].event = requests[k].event
                         /\ requests'[k].at = "idle" <=> requests[k].at = "idle"
  BY <1>3, <1>5
<1>7. RequestsOK'
  BY <1>1, <1>5, <1>6 DEF RequestsOK
<1>8. ServicesOK'
  BY <1>1 DEF DeliveryInv, ServicesOK
<1>9. \A i \in Instance : services[i].at = "mark" => services[i].event \in Event
  BY ServiceFields
<1>10. Answered'
  BY <1>1, <1>9 DEF DeliveryInv, Answered, CompletedStays, Known, Obs, Latest
<1> QED
  BY <1>3, <1>5, <1>7, <1>8, <1>10 DEF OneRequest

\* A thread takes the ingestion of its snapshot, keeps it or gives it back.
LEMMA OwnersMove ==
  ASSUME DeliveryInv, NEW h \in Handler, NEW e \in Event, e = requests[h].event,
         OneRequest(h), OneIngestion(e),
         \/ ingestions'[e].owner \notin Handler
         \/ ingestions'[e].owner = h /\ requests'[h].event = e
            /\ \/ requests'[h].at \in {"import", "reject"}
                  /\ ingestions'[e].status = "bound"
               \/ requests'[h].at \in {"dispatch", "complete"}
                  /\ ingestions'[e].status = "imported"
         \/ ingestions' = ingestions /\ ingestions[e].owner # h
  PROVE  OwnersOK'
<1>1. SUFFICES ASSUME NEW d \in Event, NEW k \in Handler, ingestions'[d].owner = k
               PROVE  /\ requests'[k].event = d
                      /\ \/ requests'[k].at \in {"import", "reject"}
                            /\ ingestions'[d].status = "bound"
                         \/ requests'[k].at \in {"dispatch", "complete"}
                            /\ ingestions'[d].status = "imported"
  BY DEF OwnersOK
<1>2. OwnersOK
  BY DEF DeliveryInv
<1>3. CASE d # e
  <2>1. ingestions'[d] = ingestions[d] /\ k # h
    BY <1>1, <1>2, <1>3 DEF OneIngestion, OwnersOK
  <2> QED
    BY <1>1, <1>2, <2>1 DEF OwnersOK, OneRequest
<1>4. CASE d = e /\ k # h
  <2>1. ingestions' = ingestions /\ requests'[k] = requests[k]
    BY <1>1, <1>4 DEF OneRequest
  <2> QED
    BY <1>1, <1>2, <2>1 DEF OwnersOK
<1>5. CASE d = e /\ k = h
  BY <1>1, <1>5
<1> QED
  BY <1>3, <1>4, <1>5

LEMMA MergedKept ==
  ASSUME DeliveryInv, MergedStays, contributions' = contributions
  PROVE  Merged'
<1>1. \A s \in Source : contributions[s] > 0 => <<s, contributions[s]>> \in Event
  BY AgentFields, Bounds DEF Event, Revision
<1> QED
  BY <1>1 DEF DeliveryInv, Merged, MergedStays

\* Only the owner has a say in an ingestion, and it knows how far that is.
LEMMA OwnerKnows ==
  ASSUME DeliveryInv, NEW h \in Handler, NEW e \in Event, Owns(h, e)
  PROVE  /\ requests[h].event = e
         /\ requests[h].at \in {"import", "reject"} => ingestions[e].status = "bound"
         /\ requests[h].at \in {"dispatch", "complete"} =>
              ingestions[e].status = "imported"
         /\ requests[h].at \in {"import", "reject", "dispatch", "complete"}
BY DEF DeliveryInv, OwnersOK, Owns

\* A step of a thread that leaves what is merged as it is.
LEMMA ThreadStep ==
  ASSUME DeliveryInv, UNCHANGED connector, Trouble \/ UNCHANGED troubles,
         ingestions' \in [Event -> Ingestion], MergedStays,
         contributions' = contributions,
         draft' \in {"none", "synced", "edited", "closed"},
         ServicesOK', RequestsOK', OwnersOK', Answered'
  PROVE  DeliveryInv'
<1>1. troubles' \in 0..MaxTrouble
  BY TroubleTyped
<1>2. AgentTyped'
  BY AgentFields DEF AgentTyped
<1>3. Merged'
  BY MergedKept
<1> QED
  BY <1>1, <1>2, <1>3, AgentSideStep

LEMMA IngestionsUnchanged ==
  ASSUME DeliveryInv, ingestions' = ingestions
  PROVE  CompletedStays /\ MergedStays /\ ingestions' \in [Event -> Ingestion]
         /\ \A e : OneIngestion(e)
BY AgentFields DEF CompletedStays, MergedStays, OneIngestion

\* The ingestion is written by a thread that neither merges nor completes it.
LEMMA OneIngestionStays ==
  ASSUME DeliveryInv, NEW e \in Event, OneIngestion(e),
         ingestions'[e].status \in MergedStatus <=> ingestions[e].status \in MergedStatus,
         ingestions[e].status = "completed" => ingestions'[e].status = "completed"
  PROVE  CompletedStays /\ MergedStays
BY DEF OneIngestion, CompletedStays, MergedStays

\* An ingestion that a thread took.
LEMMA TakenTyped ==
  ASSUME NEW s \in {"bound", "imported"}, NEW b \in BOOLEAN, NEW h \in Handler
  PROVE  \E x \in Ingestion :
           x = [status |-> s, trigger |-> b, owner |-> h, leased |-> TRUE]
<1>1. [status |-> s, trigger |-> b, owner |-> h, leased |-> TRUE] \in Ingestion
  BY DEF Ingestion
<1> WITNESS [status |-> s, trigger |-> b, owner |-> h, leased |-> TRUE] \in Ingestion
<1> QED
  OBVIOUS

\* A claim is answered at once, or the thread takes the lease.
LEMMA ClaimInv ==
  ASSUME DeliveryInv, NEW h \in Handler, Claim(h)
  PROVE  DeliveryInv'
<1> DEFINE e == requests[h].event
           g == ingestions[e]
<1>1. /\ requests[h].at = "claim" /\ e \in Event /\ g \in Ingestion
      /\ requests[h].trigger \in BOOLEAN
      /\ UNCHANGED <<connector, contributions, draft, troubles>>
  BY RequestFields DEF Claim
<1>2. /\ observations' = observations
      /\ draft' \in {"none", "synced", "edited", "closed"}
  BY <1>1, AgentFields DEF connector
<1>3. ASSUME ingestions' = ingestions, NEW reply \in {"ok", "retry", "refused"},
             Answer(h, reply), reply = "ok" => g.status = "completed"
      PROVE  DeliveryInv'
  <2>1. /\ CompletedStays /\ MergedStays /\ ingestions' \in [Event -> Ingestion]
        /\ OneIngestion(e)
    BY <1>3, IngestionsUnchanged
  <2>2. /\ ServicesOK' /\ RequestsOK' /\ Answered' /\ OneRequest(h)
    BY <1>1, <1>2, <1>3, <2>1, Answers
  <2>3. g.owner # h
    BY <1>1, OwnerKnows DEF Owns
  <2>4. OwnersOK'
    BY <1>1, <1>3, <2>1, <2>2, <2>3, OwnersMove
  <2> QED
    BY <1>1, <1>2, <2>1, <2>2, <2>4, ThreadStep
<1>4. ASSUME ~ Done(g), g.status # "rejected",
             Set(e, [status |-> IF g.status = "none" THEN "bound" ELSE g.status,
                     trigger |-> requests[h].trigger,
                     owner |-> h, leased |-> TRUE]),
             Proceed(h, IF g.status = "imported" THEN "complete" ELSE "import")
      PROVE  DeliveryInv'
  <2>1. g.status \in {"none", "bound", "imported"}
    BY <1>1, <1>4 DEF Ingestion, Done
  <2> PICK w \in {"bound", "imported"} :
        w = IF g.status = "none" THEN "bound" ELSE g.status
    BY <2>1
  <2>2. PICK x \in Ingestion :
          x = [status |-> w, trigger |-> requests[h].trigger, owner |-> h,
               leased |-> TRUE]
    <3>1. h \in Handler /\ requests[h].trigger \in BOOLEAN
      BY <1>1
    <3> HIDE DEF e, g
    <3> QED
      BY ONLY <3>1, w \in {"bound", "imported"}, TakenTyped
  <2>3. x = [status |-> IF g.status = "none" THEN "bound" ELSE g.status,
             trigger |-> requests[h].trigger, owner |-> h, leased |-> TRUE]
    BY <2>2
  <2>4. /\ x.status = IF g.status = "none" THEN "bound" ELSE g.status
        /\ x.owner = h
    BY <2>2
  <2>5. OneIngestion(e) /\ ingestions'[e] = x
    <3>1. Set(e, x)
      BY <1>4, <2>3
    <3> QED
      BY <1>1, <3>1, IngestionSet DEF Set
  <2>6. CompletedStays /\ MergedStays
    BY <1>1, <2>1, <2>4, <2>5, OneIngestionStays DEF MergedStatus
  <2>7. /\ ServicesOK' /\ RequestsOK' /\ Answered' /\ OneRequest(h)
        /\ requests'[h].at = IF g.status = "imported" THEN "complete" ELSE "import"
        /\ requests'[h].event = e
    BY <1>1, <1>2, <1>4, <2>6, Proceeds
  <2>8. OwnersOK'
    BY <1>1, <2>1, <2>4, <2>5, <2>7, OwnersMove
  <2>9. ingestions' \in [Event -> Ingestion]
    BY <2>5 DEF OneIngestion
  <2> QED
    BY <1>1, <1>2, <2>6, <2>7, <2>8, <2>9, ThreadStep
<1>5. \/ /\ Answer(h, "refused") /\ UNCHANGED ingestions
      \/ /\ Done(g) /\ Answer(h, "ok") /\ UNCHANGED ingestions
      \/ /\ Answer(h, "retry") /\ UNCHANGED ingestions
      \/ /\ ~ Done(g) /\ g.status # "rejected"
         /\ Set(e, [status |-> IF g.status = "none" THEN "bound" ELSE g.status,
                    trigger |-> requests[h].trigger,
                    owner |-> h, leased |-> TRUE])
         /\ Proceed(h, IF g.status = "imported" THEN "complete" ELSE "import")
  BY DEF Claim
<1> QED
  BY <1>3, <1>4, <1>5 DEF Done

\* The snapshot that is merged is the newest, and its ingestion is merged with it.
LEMMA MergesInv ==
  ASSUME DeliveryInv, NEW h \in Handler, requests[h].at = "import",
         NEW e \in Event, e = requests[h].event,
         Owns(h, e), ingestions[e].status = "bound", contributions[e[1]] <= e[2],
         Set(e, [ingestions[e] EXCEPT !.status = "imported"]),
         contributions' = [contributions EXCEPT ![e[1]] = e[2]],
         draft' = "synced",
         NEW at \in {"dispatch", "complete"}, Proceed(h, at),
         UNCHANGED <<connector, troubles>>
  PROVE  DeliveryInv'
<1>1. ingestions[e] \in Ingestion /\ e[1] \in Source /\ e[2] \in 1..MaxRevision
      /\ e = <<e[1], e[2]>>
  BY AgentFields, EventFields
<1>2. PICK x \in Ingestion : x = [ingestions[e] EXCEPT !.status = "imported"]
  BY <1>1 DEF Ingestion
<1>3. x.status = "imported" /\ x.owner = h
  BY <1>1, <1>2 DEF Ingestion, Owns
<1>4. OneIngestion(e) /\ ingestions'[e] = x
  BY <1>2, IngestionSet DEF Set
<1>5. CompletedStays
  BY <1>4 DEF OneIngestion, CompletedStays
<1>6. observations' = observations
  BY DEF connector
<1>7. /\ ServicesOK' /\ RequestsOK' /\ Answered' /\ OneRequest(h)
      /\ requests'[h].at = at /\ requests'[h].event = e
  BY <1>5, <1>6, Proceeds
<1>8. OwnersOK'
  BY <1>3, <1>4, <1>7, OwnersMove
<1>9. /\ contributions' \in [Source -> 0..MaxRevision]
      /\ contributions'[e[1]] = e[2]
      /\ \A s \in Source \ {e[1]} : contributions'[s] = contributions[s]
  BY <1>1, AgentFields, Bounds
<1>10. AgentTyped'
  BY <1>4, <1>9 DEF AgentTyped, OneIngestion
<1>11. ASSUME NEW s \in Source, contributions'[s] > 0
       PROVE  ingestions'[<<s, contributions'[s]>>].status \in MergedStatus
  <2>1. CASE s = e[1]
    BY <1>1, <1>3, <1>4, <1>9, <2>1 DEF MergedStatus
  <2>2. CASE s # e[1]
    <3>1. contributions'[s] = contributions[s] /\ contributions[s] \in 1..MaxRevision
      BY <1>9, <1>11, <2>2, AgentFields, Bounds
    <3>2. <<s, contributions[s]>> \in Event \ {e}
      BY <2>2, <3>1 DEF Event, Revision
    <3> QED
      BY <1>4, <1>11, <3>1, <3>2 DEF OneIngestion, DeliveryInv, Merged
  <2> QED
    BY <2>1, <2>2
<1>12. ASSUME NEW d \in Event, ingestions'[d].status \in MergedStatus
       PROVE  d[2] <= contributions'[d[1]]
  <2>1. d[1] \in Source /\ d[2] \in 1..MaxRevision
    BY EventFields
  <2>2. CASE d = e
    BY <1>1, <1>9, <2>2
  <2>3. CASE d # e
    <3>1. d[2] <= contributions[d[1]]
      BY <1>4, <1>12, <2>3 DEF OneIngestion, DeliveryInv, Merged
    <3>2. contributions[d[1]] \in 0..MaxRevision
      BY <2>1, AgentFields
    <3> QED
      BY <1>1, <1>9, <2>1, <3>1, <3>2, Bounds
  <2> QED
    BY <2>2, <2>3
<1>13. Merged'
  BY <1>11, <1>12 DEF Merged
<1>14. troubles' \in 0..MaxTrouble
  BY TroubleTyped
<1> QED
  BY <1>7, <1>8, <1>10, <1>13, <1>14, AgentSideStep

LEMMA ImportInv ==
  ASSUME DeliveryInv, NEW h \in Handler, Import(h)
  PROVE  DeliveryInv'
<1> DEFINE e == requests[h].event
<1>1. /\ requests[h].at = "import" /\ e \in Event
      /\ UNCHANGED <<connector, troubles>>
  BY RequestFields DEF Import
<1>2. CASE /\ Owns(h, e) /\ ingestions[e].status = "bound"
           /\ contributions[e[1]] <= e[2]
           /\ Set(e, [ingestions[e] EXCEPT !.status = "imported"])
           /\ contributions' = [contributions EXCEPT ![e[1]] = e[2]]
           /\ draft' = "synced"
           /\ Proceed(h, IF requests[h].trigger THEN "dispatch" ELSE "complete")
  BY <1>1, <1>2, MergesInv
<1>3. CASE /\ Proceed(h, "reject")
           /\ UNCHANGED <<ingestions, contributions, draft>>
  <2>1. /\ CompletedStays /\ MergedStays /\ ingestions' \in [Event -> Ingestion]
        /\ OneIngestion(e)
    BY <1>3, IngestionsUnchanged
  <2>2. observations' = observations
    BY <1>1 DEF connector
  <2>3. /\ ServicesOK' /\ RequestsOK' /\ Answered' /\ OneRequest(h)
        /\ requests'[h].at = "reject" /\ requests'[h].event = e
    BY <1>1, <1>3, <2>1, <2>2, Proceeds
  <2>4. ingestions[e].owner = h => ingestions[e].status = "bound"
    BY <1>1, OwnerKnows DEF Owns
  <2>5. OwnersOK'
    BY <1>1, <1>3, <2>1, <2>3, <2>4, OwnersMove
  <2>6. draft' \in {"none", "synced", "edited", "closed"}
    BY <1>3, AgentFields
  <2> QED
    BY <1>1, <1>3, <2>1, <2>3, <2>5, <2>6, ThreadStep
<1> QED
  BY <1>2, <1>3 DEF Import

\* A thread is done with an ingestion: it is nobody's, or was not its own.
LEMMA LeavesInv ==
  ASSUME DeliveryInv, NEW h \in Handler, requests[h].at # "idle",
         NEW e \in Event, e = requests[h].event,
         \/ ingestions' = ingestions /\ ingestions[e].owner # h
         \/ \E x \in Ingestion :
              /\ ingestions' = [ingestions EXCEPT ![e] = x]
              /\ x.owner \notin Handler
              /\ x.status \in MergedStatus <=> ingestions[e].status \in MergedStatus
              /\ ingestions[e].status = "completed" => x.status = "completed",
         NEW reply \in {"ok", "retry", "refused"}, Answer(h, reply),
         reply = "ok" => ingestions'[e].status = "completed",
         UNCHANGED <<connector, contributions, draft>>,
         Trouble \/ UNCHANGED troubles
  PROVE  DeliveryInv'
<1>1. /\ CompletedStays /\ MergedStays /\ OneIngestion(e)
      /\ \/ ingestions'[e].owner \notin Handler
         \/ ingestions' = ingestions /\ ingestions[e].owner # h
  <2>1. CASE ingestions' = ingestions /\ ingestions[e].owner # h
    BY <2>1, IngestionsUnchanged
  <2>2. CASE \E x \in Ingestion :
               /\ ingestions' = [ingestions EXCEPT ![e] = x]
               /\ x.owner \notin Handler
               /\ x.status \in MergedStatus <=> ingestions[e].status \in MergedStatus
               /\ ingestions[e].status = "completed" => x.status = "completed"
    <3>1. PICK x \in Ingestion :
               /\ ingestions' = [ingestions EXCEPT ![e] = x]
               /\ x.owner \notin Handler
               /\ x.status \in MergedStatus <=> ingestions[e].status \in MergedStatus
               /\ ingestions[e].status = "completed" => x.status = "completed"
      BY <2>2
    <3>2. OneIngestion(e) /\ ingestions'[e] = x
      BY <3>1, IngestionSet
    <3> QED
      BY <3>1, <3>2, OneIngestionStays
  <2> QED
    BY <2>1, <2>2
<1>2. /\ observations' = observations
      /\ draft' \in {"none", "synced", "edited", "closed"}
  BY AgentFields DEF connector
<1>3. /\ ServicesOK' /\ RequestsOK' /\ Answered' /\ OneRequest(h)
  BY <1>1, <1>2, Answers
<1>4. OwnersOK'
  BY <1>1, <1>3, OwnersMove
<1>5. ingestions' \in [Event -> Ingestion]
  BY <1>1 DEF OneIngestion
<1> QED
  BY <1>1, <1>2, <1>3, <1>4, <1>5, ThreadStep

\* The owner that rejects has merged nothing.
LEMMA RejectInv ==
  ASSUME DeliveryInv, NEW h \in Handler, Reject(h)
  PROVE  DeliveryInv'
<1> DEFINE e == requests[h].event
<1>1. /\ requests[h].at = "reject" /\ e \in Event /\ ingestions[e] \in Ingestion
      /\ Answer(h, "refused")
      /\ UNCHANGED <<connector, contributions, draft, troubles>>
  BY RequestFields DEF Reject
<1>2. Owns(h, e) => ingestions[e].status = "bound"
  BY <1>1, OwnerKnows
<1>3. CASE MayReject(h, e)
  <2>1. PICK x \in Ingestion :
          x = [ingestions[e] EXCEPT !.status = "rejected", !.owner = None,
                                    !.leased = FALSE]
    BY <1>1 DEF Ingestion
  <2>2. x.status = "rejected" /\ x.owner = None
    BY <1>1, <2>1 DEF Ingestion
  <2>3. ingestions' = [ingestions EXCEPT ![e] = x]
    BY <1>3, <2>1 DEF Reject, Ended, Set
  <2>4. ingestions[e].status = "bound"
    BY <1>2, <1>3 DEF MayReject
  <2>5. /\ x.owner \notin Handler
        /\ x.status \in MergedStatus <=> ingestions[e].status \in MergedStatus
        /\ ingestions[e].status = "completed" => x.status = "completed"
    BY <2>2, <2>4, Bounds DEF MergedStatus
  <2> QED
    BY <1>1, <2>3, <2>5, LeavesInv
<1>4. CASE ~ MayReject(h, e)
  <2>1. ingestions' = ingestions
    BY <1>4 DEF Reject
  <2>2. ingestions[e].owner # h
    BY <1>2, <1>4 DEF MayReject, Owns
  <2> QED
    BY <1>1, <2>1, <2>2, LeavesInv
<1> QED
  BY <1>3, <1>4

LEMMA CompleteInv ==
  ASSUME DeliveryInv, NEW h \in Handler, Complete(h)
  PROVE  DeliveryInv'
<1> DEFINE e == requests[h].event
<1>1. /\ requests[h].at = "complete" /\ e \in Event /\ ingestions[e] \in Ingestion
      /\ UNCHANGED <<connector, contributions, draft, troubles>>
  BY RequestFields DEF Complete
<1>2. Owns(h, e) => ingestions[e].status = "imported"
  BY <1>1, OwnerKnows
<1>3. CASE Owns(h, e)
  <2>1. PICK x \in Ingestion :
          x = [ingestions[e] EXCEPT !.status = "completed", !.owner = None,
                                    !.leased = FALSE]
    BY <1>1 DEF Ingestion
  <2>2. x.status = "completed" /\ x.owner = None
    BY <1>1, <2>1 DEF Ingestion
  <2>3. ingestions' = [ingestions EXCEPT ![e] = x] /\ Answer(h, "ok")
    BY <1>2, <1>3, <2>1 DEF Complete, Ended, Set
  <2>4. /\ x.owner \notin Handler
        /\ x.status \in MergedStatus <=> ingestions[e].status \in MergedStatus
        /\ ingestions[e].status = "completed" => x.status = "completed"
    BY <1>2, <1>3, <2>2, Bounds DEF MergedStatus
  <2>5. ingestions'[e].status = "completed"
    BY <1>1, <2>2, <2>3, IngestionSet
  <2> QED
    BY <1>1, <2>3, <2>4, <2>5, LeavesInv
<1>4. CASE ~ Owns(h, e)
  <2>1. ingestions' = ingestions /\ Answer(h, "refused")
    BY <1>4 DEF Complete
  <2>2. ingestions[e].owner # h
    BY <1>4 DEF Owns
  <2> QED
    BY <1>1, <2>1, <2>2, LeavesInv
<1> QED
  BY <1>3, <1>4

LEMMA FailInv ==
  ASSUME DeliveryInv, NEW h \in Handler, NEW released \in BOOLEAN, Fail(h, released)
  PROVE  DeliveryInv'
<1> DEFINE e == requests[h].event
           left == IF released THEN Released(ingestions[e])
                   ELSE [ingestions[e] EXCEPT !.owner = Gone]
<1>1. /\ requests[h].at # "idle" /\ e \in Event /\ ingestions[e] \in Ingestion
      /\ Answer(h, "retry") /\ Trouble
      /\ UNCHANGED <<connector, contributions, draft>>
  BY RequestFields DEF Fail
<1>2. CASE Owns(h, e)
  <2>1. PICK x \in Ingestion : x = left
    BY <1>1 DEF Ingestion, Released
  <2>2. x.status = ingestions[e].status /\ x.owner \in {None, Gone}
    BY <1>1, <2>1 DEF Ingestion, Released
  <2>3. ingestions' = [ingestions EXCEPT ![e] = x]
    BY <1>2, <2>1 DEF Fail
  <2>4. x.owner \notin Handler
    BY <2>2, Bounds
  <2> QED
    BY <1>1, <2>2, <2>3, <2>4, LeavesInv
<1>3. CASE ~ Owns(h, e)
  <2>1. ingestions' = ingestions
    BY <1>3 DEF Fail
  <2>2. ingestions[e].owner # h
    BY <1>3 DEF Owns
  <2> QED
    BY <1>1, <2>1, <2>2, LeavesInv
<1> QED
  BY <1>2, <1>3

LEMMA DispatchInv ==
  ASSUME DeliveryInv, NEW h \in Handler, NEW passes \in BOOLEAN, Dispatch(h, passes)
  PROVE  DeliveryInv'
<1> DEFINE e == requests[h].event
<1>1. /\ requests[h].at = "dispatch" /\ e \in Event /\ Proceed(h, "complete")
      /\ UNCHANGED <<connector, ingestions, contributions, troubles>>
  BY RequestFields DEF Dispatch
<1>2. /\ CompletedStays /\ MergedStays /\ ingestions' \in [Event -> Ingestion]
      /\ OneIngestion(e)
  BY <1>1, IngestionsUnchanged
<1>3. /\ observations' = observations
      /\ draft' \in {"none", "synced", "edited", "closed"}
  BY <1>1, AgentFields DEF connector, Dispatch
<1>4. /\ ServicesOK' /\ RequestsOK' /\ Answered' /\ OneRequest(h)
      /\ requests'[h].at = "complete" /\ requests'[h].event = e
  BY <1>1, <1>2, <1>3, Proceeds
<1>5. ingestions[e].owner = h => ingestions[e].status = "imported"
  BY <1>1, OwnerKnows DEF Owns
<1>6. OwnersOK'
  BY <1>1, <1>2, <1>4, <1>5, OwnersMove
<1> QED
  BY <1>1, <1>2, <1>3, <1>4, <1>6, ThreadStep

-----------------------------------------------------------------------------
(***************************************************************************)
(* Leases that run out, the end of the agent's process, and people.        *)
(***************************************************************************)
LEMMA IngestionLapsesInv ==
  ASSUME DeliveryInv, NEW e \in Event, IngestionLapses(e)
  PROVE  DeliveryInv'
<1>1. UNCHANGED <<connector, services, contributions, draft, requests, troubles>>
  BY DEF IngestionLapses
<1>2. PICK x \in Ingestion : x = [ingestions[e] EXCEPT !.leased = FALSE]
  BY AgentFields DEF Ingestion
<1>3. x.status = ingestions[e].status /\ x.owner = ingestions[e].owner
  BY <1>2, AgentFields DEF Ingestion
<1>4. OneIngestion(e) /\ ingestions'[e] = x
  BY <1>2, IngestionSet DEF IngestionLapses
<1>5. \A d \in Event : /\ ingestions'[d].status = ingestions[d].status
                       /\ ingestions'[d].owner = ingestions[d].owner
  BY <1>3, <1>4 DEF OneIngestion
<1>6. MergedStays /\ ingestions' \in [Event -> Ingestion]
  BY <1>4, <1>5 DEF MergedStays, OneIngestion
<1>7. ServicesOK' /\ RequestsOK'
  BY <1>1, Aside
<1>8. OwnersOK'
  BY <1>1, <1>5 DEF DeliveryInv, OwnersOK
<1>9. Answered'
  <2>1. \A i \in Instance : services[i].at = "mark" => services[i].event \in Event
    BY ServiceFields
  <2>2. services' = services /\ observations' = observations
    BY <1>1 DEF connector
  <2> QED
    BY <1>5, <2>1, <2>2 DEF DeliveryInv, Answered, Known, Obs, Latest
<1>10. draft' \in {"none", "synced", "edited", "closed"}
  BY <1>1, AgentFields
<1> QED
  BY <1>1, <1>6, <1>7, <1>8, <1>9, <1>10, ThreadStep

\* No thread owns anything any more, and no call is answered.
LEMMA AgentRestartInv ==
  ASSUME DeliveryInv, AgentRestart
  PROVE  DeliveryInv'
<1>1. /\ requests' = [h \in Handler |-> NoRequest]
      /\ Trouble /\ UNCHANGED <<connector, contributions, draft>>
  BY DEF AgentRestart
<1>2. ASSUME NEW e \in Event
      PROVE  /\ ingestions'[e] \in Ingestion
             /\ ingestions'[e].status = ingestions[e].status
             /\ ingestions'[e].owner \notin Handler
  <2>1. ingestions[e] \in Ingestion
    BY AgentFields
  <2>2. CASE ingestions[e].owner \in Handler
    <3>1. ingestions'[e] = [ingestions[e] EXCEPT !.owner = Gone]
      BY <2>2 DEF AgentRestart
    <3> QED
      BY <2>1, <3>1, Bounds DEF Ingestion
  <2>3. CASE ingestions[e].owner \notin Handler
    <3>1. ingestions'[e] = ingestions[e]
      BY <2>3 DEF AgentRestart
    <3> QED
      BY <2>1, <2>3, <3>1
  <2> QED
    BY <2>2, <2>3
<1>3. ASSUME NEW i \in Instance
      PROVE  /\ services'[i] \in Service
             /\ services'[i].event = services[i].event
             /\ services'[i].at \in {"down", "idle"} <=>
                  services[i].at \in {"down", "idle"}
             /\ services'[i] = services[i] \/ services'[i].reply = "retry"
  <2>1. services[i] \in Service
    BY ServiceFields
  <2>2. CASE services[i].at = "wait"
    <3>1. services'[i] = [services[i] EXCEPT !.at = "mark", !.reply = "retry"]
      BY <2>2 DEF AgentRestart
    <3> QED
      BY <2>1, <2>2, <3>1 DEF Service
  <2>3. CASE services[i].at # "wait"
    <3>1. services'[i] = services[i]
      BY <2>3 DEF AgentRestart
    <3> QED
      BY <2>1, <3>1
  <2> QED
    BY <2>2, <2>3
<1>4. ingestions' \in [Event -> Ingestion] /\ MergedStays
  BY <1>2 DEF AgentRestart, MergedStays
<1>5. services' \in [Instance -> Service]
  BY <1>3 DEF AgentRestart
<1>6. ServicesOK'
  BY <1>3, <1>5 DEF DeliveryInv, ServicesOK
<1>7. NoRequest \in Request /\ NoRequest.at = "idle" /\ NoRequest.caller = None
  BY DEF NoRequest, Request
<1>8. RequestsOK'
  BY <1>1, <1>7 DEF RequestsOK
<1>9. OwnersOK'
  BY <1>2 DEF OwnersOK
<1>10. Answered'
  <2>1. \A i \in Instance : services[i].at = "mark" => services[i].event \in Event
    BY ServiceFields
  <2>2. observations' = observations
    BY <1>1 DEF connector
  <2>3. ASSUME NEW i \in Instance, services'[i].at = "mark", services'[i].reply = "ok"
        PROVE  ingestions'[services'[i].event].status = "completed"
    <3>1. services'[i] = services[i] /\ services[i].event \in Event
      BY <1>3, <2>1, <2>3
    <3> QED
      BY <1>2, <2>3, <3>1 DEF DeliveryInv, Answered
  <2> QED
    BY <1>2, <2>2, <2>3 DEF DeliveryInv, Answered, Known, Obs, Latest
<1>11. draft' \in {"none", "synced", "edited", "closed"}
  BY <1>1, AgentFields
<1> QED
  BY <1>1, <1>4, <1>6, <1>8, <1>9, <1>10, <1>11, ThreadStep

LEMMA SetDraftInv ==
  ASSUME DeliveryInv, NEW from, NEW to \in {"none", "synced", "edited", "closed"},
         SetDraft(from, to)
  PROVE  DeliveryInv'
<1>1. /\ draft' = to
      /\ UNCHANGED <<connector, services, ingestions, contributions, requests,
                     troubles>>
  BY DEF SetDraft
<1>2. MergedStays /\ ingestions' \in [Event -> Ingestion]
  BY <1>1, IngestionsUnchanged
<1>3. ServicesOK' /\ RequestsOK'
  BY <1>1, Aside
<1>4. OwnersOK'
  BY <1>1 DEF DeliveryInv, OwnersOK
<1>5. Answered'
  BY <1>1, AsideAnswers, DeliveriesStay DEF connector
<1> QED
  BY <1>1, <1>2, <1>3, <1>4, <1>5, ThreadStep

-----------------------------------------------------------------------------
(***************************************************************************)
(* The theorems.                                                           *)
(***************************************************************************)
LEMMA InitInv ==
  ASSUME Init
  PROVE  DeliveryInv
<1>1. \A s \in Source : observations[s] = <<>> /\ Latest(s) = 0
  BY DEF Init, Latest
<1>2. <<>> \in Seq(Observation)
  OBVIOUS
<1>3. QueueTyped
  <2>1. observations \in [Source -> Seq(Observation)]
    BY <1>2 DEF Init
  <2> QED
    BY <1>1, <2>1, Bounds DEF QueueTyped
<1>4. [bound |-> 0, status |-> "none"] \in HealthRecord
  BY Bounds DEF HealthRecord
<1>5. ConnectorTyped
  BY <1>4, Bounds DEF Init, ConnectorTyped
<1>6. NoIngestion \in Ingestion /\ NoIngestion.status = "none"
      /\ NoIngestion.owner = None
  BY DEF NoIngestion, Ingestion
<1>7. AgentTyped
  BY <1>6, Bounds DEF Init, AgentTyped
<1>8. ServicesOK
  BY Lulls DEF Init, ServicesOK
<1>9. NoRequest \in Request /\ NoRequest.at = "idle" /\ NoRequest.caller = None
  BY DEF NoRequest, Request
<1>10. RequestsOK
  BY <1>9 DEF Init, RequestsOK
<1>11. AssignedIsUnderway
  BY DEF Init, AssignedIsUnderway, Assigned
<1>12. OwnersOK
  BY <1>6, Bounds DEF Init, OwnersOK
<1>13. Merged
  BY <1>6 DEF Init, Merged, MergedStatus
<1>14. \A e \in Event : ~ Known(e)
  BY <1>1, EventFields DEF Known
<1>15. Answered
  BY <1>14, Lulls DEF Init, Answered
<1> QED
  BY <1>3, <1>5, <1>7, <1>8, <1>10, <1>11, <1>12, <1>13, <1>15 DEF DeliveryInv

LEMMA ServiceStepInv ==
  ASSUME DeliveryInv, ServiceStep
  PROVE  DeliveryInv'
BY AcquireInv, StopInv, CrashInv, TimeOutInv, MarkInv, RegisterInv,
   RecordHealthInv, SendHealthInv, SelectInv, PrepareInv, SendInv, SendFailsInv
   DEF ServiceStep

LEMMA AgentStepInv ==
  ASSUME DeliveryInv, AgentStep
  PROVE  DeliveryInv'
BY ClaimInv, ImportInv, RejectInv, CompleteInv, DispatchInv, FailInv,
   IngestionLapsesInv, AgentRestartInv DEF AgentStep

LEMMA RepairStepInv ==
  ASSUME DeliveryInv, RepairStep
  PROVE  DeliveryInv'
BY RetryDeadInv, SupersedeInv, ReplayInv DEF RepairStep

LEMMA PeopleStepInv ==
  ASSUME DeliveryInv, PeopleStep
  PROVE  DeliveryInv'
BY SetDraftInv DEF PeopleStep, EditDraft, ResumeSync, ConfirmDraft, DiscardDraft

LEMMA StutterInv ==
  ASSUME DeliveryInv, UNCHANGED vars
  PROVE  DeliveryInv'
<1>1. /\ UNCHANGED connector /\ UNCHANGED agent
      /\ UNCHANGED <<services, requests, troubles>>
  BY DEF vars
<1>2. UNCHANGED <<observations, health, generations, lease>>
      /\ UNCHANGED <<ingestions, contributions, draft>>
  BY <1>1 DEF connector, agent
<1>3. health' \in [Source -> HealthRecord]
  BY <1>2, ConnectorFields
<1> QED
  BY <1>1, <1>2, <1>3, HealthInv

LEMMA NextInv ==
  ASSUME DeliveryInv, [Next]_vars
  PROVE  DeliveryInv'
BY ServiceStepInv, LeaseLapsesInv, AgentStepInv, RepairStepInv, PeopleStepInv,
   StutterInv DEF Next

\* The invariant holds in every state the delivery reaches.
THEOREM DeliveryInvariant == Spec => []DeliveryInv
<1>1. Init => DeliveryInv
  BY InitInv
<1>2. DeliveryInv /\ [Next]_vars => DeliveryInv'
  BY NextInv
<1> QED
  BY <1>1, <1>2, PTL DEF Spec

\* The tables of the connector and of the agent stay well formed, and every
\* call has one caller, who waits for the answer about its observation.
THEOREM DeliveryTyped == Spec => []TypeOK
<1>1. DeliveryInv => TypeOK
  <2>1. SUFFICES ASSUME DeliveryInv
                 PROVE  TypeOK
    OBVIOUS
  <2>2. /\ \A s \in Source : /\ observations[s] \in Seq(Observation)
                             /\ Latest(s) <= MaxRevision
        /\ DOMAIN observations = Source
    BY <2>1 DEF DeliveryInv, QueueTyped
  <2>3. /\ health \in [Source -> HealthRecord] /\ generations \subseteq Generation
        /\ lease \in [owner: Instance \union {None}, held: BOOLEAN]
        /\ lease.held => lease.owner # None
        /\ troubles \in 0..MaxTrouble
    BY <2>1 DEF DeliveryInv, ConnectorTyped
  <2>4. /\ services \in [Instance -> Service] /\ requests \in [Handler -> Request]
        /\ \A h \in Handler :
             requests[h].caller # None =>
               /\ services[requests[h].caller].at = "wait"
               /\ services[requests[h].caller].event = requests[h].event
               /\ \A k \in Handler \ {h} : requests[k].caller # requests[h].caller
    BY <2>1 DEF DeliveryInv, ServicesOK, RequestsOK
  <2> QED
    BY <2>1, <2>2, <2>3, <2>4, AgentFields DEF TypeOK
<1> QED
  BY <1>1, DeliveryInvariant, PTL

\* One combination of snapshots is under way at a time, and the observation
\* that asks for its workflow is still to be delivered.
THEOREM GenerationsUnderway == Spec => []AssignedIsUnderway
<1>1. DeliveryInv => AssignedIsUnderway
  BY DEF DeliveryInv
<1> QED
  BY <1>1, DeliveryInvariant, PTL

\* What the connector counts as delivered the agent has merged and completed.
THEOREM DeliveriesHeld == Spec => []DeliveredIsHeld
<1>1. DeliveryInv => DeliveredIsHeld
  <2>1. SUFFICES ASSUME DeliveryInv, NEW e \in Event, Known(e),
                        Obs(e).status = "delivered"
                 PROVE  /\ ingestions[e].status = "completed"
                        /\ contributions[e[1]] >= e[2]
    BY DEF DeliveredIsHeld
  <2>2. ingestions[e].status = "completed"
    BY <2>1 DEF DeliveryInv, Answered
  <2>3. e[2] <= contributions[e[1]]
    BY <2>1, <2>2 DEF DeliveryInv, Merged, MergedStatus
  <2>4. e[2] \in 1..MaxRevision /\ contributions[e[1]] \in 0..MaxRevision
    BY <2>1, EventFields, AgentFields
  <2> QED
    BY <2>2, <2>3, <2>4, Bounds
<1> QED
  BY <1>1, DeliveryInvariant, PTL

\* A rejected ingestion left the draft alone.
THEOREM RejectionsHarmless == Spec => []RejectedIsWithoutEffect
<1>1. DeliveryInv => RejectedIsWithoutEffect
  <2>1. SUFFICES ASSUME DeliveryInv, NEW e \in Event,
                        ingestions[e].status = "rejected",
                        contributions[e[1]] = e[2]
                 PROVE  FALSE
    BY DEF RejectedIsWithoutEffect
  <2>2. e[1] \in Source /\ e[2] > 0 /\ e = <<e[1], e[2]>>
    BY EventFields, Bounds
  <2>3. ingestions[<<e[1], contributions[e[1]]>>].status \in MergedStatus
    BY <2>1, <2>2 DEF DeliveryInv, Merged
  <2> QED
    BY <2>1, <2>2, <2>3 DEF MergedStatus
<1> QED
  BY <1>1, DeliveryInvariant, PTL

=============================================================================
