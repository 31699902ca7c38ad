----------------------- MODULE RegulatoryStoreProofs -----------------------
(***************************************************************************)
(* What the platform's store guarantees for every set of mines, messages,  *)
(* keys, periods and categories.                                           *)
(***************************************************************************)
EXTENDS RegulatoryStore, FiniteSetTheorems, SequenceTheorems,
        WellFoundedInduction, TLAPS

-----------------------------------------------------------------------------
(***************************************************************************)
(* Refused messages.                                                       *)
(***************************************************************************)
\* A refused message is not in the inbox, and another message holds its key.
Refused == \A m \in conflicts : m \notin inbox /\ ~ KeyFree(m)

\* The inbox only grows, and by a message whose key was free.
InboxStep ==
  \/ inbox' = inbox
  \/ \E m \in Inbound : KeyFree(m) /\ inbox' = inbox \union {m}

\* Every step extends the inbox by at most one message, whose key is free.
LEMMA StepOfInbox == ASSUME [Next]_vars PROVE InboxStep
<1>1. ASSUME NEW m \in Submissions, NEW d \in Decision,
             NEW cats \in SUBSET Category, Submit(m, d, cats)
      PROVE  InboxStep
  BY <1>1 DEF Submit, InboxStep, inbox, Inbound
<1>2. ASSUME NEW m \in Inbound, KeyConflict(m) PROVE InboxStep
  BY <1>2 DEF KeyConflict, InboxStep, inbox
<1>3. ASSUME NEW m \in Responses, Respond(m) \/ RespondAgain(m) PROVE InboxStep
  BY <1>3 DEF Respond, RespondAgain, InboxStep, inbox, Inbound
<1>4. ASSUME NEW m \in Acks, Acknowledge(m) PROVE InboxStep
  BY <1>4 DEF Acknowledge, InboxStep, inbox, Inbound
<1>5. ASSUME NEW mine \in Mine, NEW after \in 0..Len(outbox),
             PollNext(mine, after)
      PROVE  InboxStep
  BY <1>5 DEF PollNext, InboxStep, inbox
<1>6. ASSUME NEW s \in filed, GetReport(s) PROVE InboxStep
  BY <1>6 DEF GetReport, InboxStep, inbox
<1>7. CASE UNCHANGED vars
  BY <1>7 DEF vars, InboxStep, inbox
<1> QED BY <1>1, <1>2, <1>3, <1>4, <1>5, <1>6, <1>7 DEF Next

LEMMA StepOfConflicts ==
  ASSUME [Next]_vars
  PROVE  \/ conflicts' = conflicts
         \/ \E m \in Inbound : /\ m \notin inbox /\ ~ KeyFree(m)
                               /\ conflicts' = conflicts \union {m}
                               /\ inbox' = inbox
  BY DEF Next, Submit, KeyConflict, Respond, RespondAgain, Acknowledge,
         PollNext, GetReport, vars, inbox

LEMMA RefusedStep == ASSUME Refused, [Next]_vars PROVE Refused'
<1> SUFFICES ASSUME NEW m \in conflicts' PROVE m \notin inbox' /\ ~ KeyFree(m)'
  BY DEF Refused
<1>1. \A x : ~ KeyFree(x) => ~ KeyFree(x)'
  BY StepOfInbox DEF InboxStep, KeyFree
<1>2. CASE m \in conflicts
  BY <1>1, <1>2, StepOfInbox DEF Refused, InboxStep
<1>3. CASE m \notin conflicts
  BY <1>1, <1>3, StepOfConflicts
<1> QED BY <1>2, <1>3

LEMMA ConflictsStep ==
  ASSUME Refused, conflicts \subseteq Inbound, [Next]_vars
  PROVE  Refused' /\ conflicts' \subseteq Inbound \ inbox'
<1>1. Refused'
  BY RefusedStep
<1>2. conflicts' \subseteq Inbound
  BY StepOfConflicts
<1> QED BY <1>1, <1>2 DEF Refused

-----------------------------------------------------------------------------
(***************************************************************************)
(* Workflows are chains.  LinearWorkflow is not inductive by itself: that  *)
(* two revisions of a workflow never share a number rests on ids naming    *)
(* one submission, on the direct predecessor being in the same workflow,   *)
(* mine and period, on no predecessor having two successors, and on a      *)
(* workflow being named by its first submission.                           *)
(***************************************************************************)
UniqueIds == \A a, b \in filed : a.id = b.id => a = b

\* A workflow carries the id of its first submission.
NamedByRoot ==
  /\ \A a \in filed : a.rev = 1 => a.corr = a.id
  /\ \A a \in filed : \E r \in filed : r.id = a.corr

Continues(a, p) ==
  /\ a.pred = Ref(p)
  /\ a.corr = p.corr /\ a.mine = p.mine /\ a.period = p.period
  /\ a.rev = p.rev + 1

PredecessorFiled == \A a \in filed : a.rev > 1 => \E p \in filed : Continues(a, p)

OneSuccessor ==
  \A a, b \in filed : (a.rev > 1 /\ b.rev > 1 /\ a.pred = b.pred) => a = b

ChainInv ==
  /\ filed \subseteq Submissions
  /\ UniqueIds
  /\ NamedByRoot
  /\ PredecessorFiled
  /\ OneSuccessor
  /\ LinearWorkflow

\* A submission that may be filed next.
Fileable(m) ==
  /\ m \in Submissions
  /\ SubmissionLineageOk(m) /\ KeyFree(m) /\ IdFree(m) /\ RevisionOk(m)

LEMMA SubmissionFacts ==
  ASSUME NEW m \in Submissions
  PROVE  /\ m.rev \in Nat \ {0}
         /\ (m.rev = 1) <=> (m.pred = NoId)
         /\ m.id \in MessageId /\ m.corr \in MessageId /\ m.body \in Body
         /\ m.pred \in Reference \union {NoId}
         /\ Ref(m) \in Reference
  BY MessageAssumption DEF SubmissionType, Ref, Reference

\* Every step files at most one submission, and only one that may be.
LEMMA StepOfFiled ==
  ASSUME [Next]_vars
  PROVE  \/ filed' = filed
         \/ \E m \in Submissions : Fileable(m) /\ filed' = filed \union {m}
<1>1. ASSUME NEW m \in Submissions, NEW d \in Decision,
             NEW cats \in SUBSET Category, Submit(m, d, cats)
      PROVE  Fileable(m) /\ filed' = filed \union {m}
  BY <1>1 DEF Submit, Fileable
<1>2. CASE UNCHANGED vars
  BY <1>2 DEF vars
<1> QED BY <1>1, <1>2 DEF Next, KeyConflict, Respond, RespondAgain, Acknowledge,
           PollNext, GetReport

\* A revision continues a filed submission that nothing else continues.
LEMMA FileableContinues ==
  ASSUME ChainInv, NEW m, Fileable(m), m.rev > 1
  PROVE  \E p \in filed : /\ Continues(m, p)
                          /\ \A x \in filed : x.pred # Ref(p)
<1>1. PICK p \in filed : /\ m.pred = Ref(p) /\ p.mine = m.mine
                         /\ p.corr = m.corr /\ m.rev = p.rev + 1
  BY SubmissionFacts DEF Fileable, SubmissionLineageOk
<1>2. PICK q \in filed : m.pred = Ref(q) /\ q.period = m.period
  BY DEF Fileable, RevisionOk
<1>3. p = q
  BY <1>1, <1>2 DEF Ref, ChainInv, UniqueIds
<1>4. \A x \in filed : x.pred # Ref(p)
  BY <1>1 DEF Fileable, RevisionOk
<1> QED BY <1>1, <1>2, <1>3, <1>4 DEF Continues

\* A first submission names a workflow no filed submission belongs to.
LEMMA FileableRoot ==
  ASSUME ChainInv, NEW m, Fileable(m), m.rev = 1
  PROVE  /\ m.corr = m.id
         /\ \A a \in filed : a.corr # m.id
<1>1. \A a \in filed : a.id # m.id
  BY DEF Fileable, IdFree, inbox
<1> QED BY <1>1 DEF Fileable, SubmissionLineageOk, ChainInv, NamedByRoot

LEMMA ChainStep == ASSUME ChainInv, [Next]_vars PROVE ChainInv'
<1>1. CASE filed' = filed
  BY <1>1 DEF ChainInv, UniqueIds, NamedByRoot, PredecessorFiled, OneSuccessor,
              LinearWorkflow, SameWorkflow
<1>2. ASSUME NEW m \in Submissions, Fileable(m), filed' = filed \union {m}
      PROVE  ChainInv'
  <2>1. filed \subseteq Submissions /\ filed' \subseteq Submissions
    BY <1>2 DEF ChainInv
  <2>2. \A a \in filed : a.id # m.id
    BY <1>2 DEF Fileable, IdFree, inbox
  <2>3. UniqueIds'
    BY <1>2, <2>2 DEF ChainInv, UniqueIds
  <2>4. NamedByRoot'
    <3>1. m.rev = 1 => m.corr = m.id
      BY <1>2, FileableRoot
    <3>2. \E r \in filed' : r.id = m.corr
      <4>1. CASE m.rev = 1 BY <4>1, <3>1, <1>2
      <4>2. CASE m.rev # 1
        <5>1. m.rev > 1 BY <4>2, SubmissionFacts
        <5>2. PICK p \in filed : Continues(m, p)
          BY <5>1, <1>2, FileableContinues
        <5> QED BY <5>2, <1>2 DEF Continues, ChainInv, NamedByRoot
      <4> QED BY <4>1, <4>2
    <3> QED BY <3>1, <3>2, <1>2 DEF ChainInv, NamedByRoot
  <2>5. PredecessorFiled'
    <3>1. ASSUME m.rev > 1 PROVE \E p \in filed' : Continues(m, p)
      BY <3>1, <1>2, FileableContinues
    <3> QED BY <3>1, <1>2 DEF ChainInv, PredecessorFiled, Continues, Ref
  <2>6. OneSuccessor'
    <3>1. ASSUME NEW b \in filed, m.rev > 1 PROVE b.pred # m.pred
      BY <3>1, <1>2 DEF Fileable, RevisionOk
    <3> QED BY <3>1, <1>2 DEF ChainInv, OneSuccessor
  <2>7. LinearWorkflow'
    <3>1. ASSUME NEW a \in filed, SameWorkflow(a, m)
          PROVE  m.rev # a.rev /\ a.mine = m.mine /\ a.period = m.period
      <4>1. m.rev > 1
        <5>1. m.rev # 1 BY <3>1, <1>2, FileableRoot DEF SameWorkflow
        <5> QED BY <5>1, SubmissionFacts
      <4>2. PICK p \in filed : /\ Continues(m, p)
                               /\ \A x \in filed : x.pred # Ref(p)
        BY <4>1, <1>2, FileableContinues
      <4>3. SameWorkflow(a, p)
        BY <3>1, <4>2 DEF Continues, SameWorkflow
      <4>4. a.mine = m.mine /\ a.period = m.period
        BY <4>2, <4>3 DEF Continues, ChainInv, LinearWorkflow
      <4>5. ASSUME a.rev = m.rev PROVE FALSE
        <5>1. PICK q \in filed : Continues(a, q)
          BY <4>5, <4>1 DEF ChainInv, PredecessorFiled
        <5>2. SameWorkflow(q, p) /\ q.rev = p.rev
          BY <5>1, <4>2, <4>3, <4>5, <2>1, SubmissionFacts
             DEF Continues, SameWorkflow
        <5>3. q = p
          BY <5>2 DEF ChainInv, LinearWorkflow
        <5> QED BY <5>1, <5>3, <4>2 DEF Continues
      <4> QED BY <4>4, <4>5
    <3>2. m.rev > 1 => \E p \in filed' : SameWorkflow(p, m) /\ p.rev = m.rev - 1
      <4> SUFFICES ASSUME m.rev > 1
                   PROVE  \E p \in filed' : SameWorkflow(p, m) /\ p.rev = m.rev - 1
        OBVIOUS
      <4>1. PICK p \in filed : Continues(m, p) BY <1>2, FileableContinues
      <4> QED BY <4>1, <2>1, <1>2, SubmissionFacts DEF Continues, SameWorkflow
    <3>3. ASSUME NEW a \in filed', NEW b \in filed', SameWorkflow(a, b)
          PROVE  (a.rev = b.rev => a = b) /\ a.mine = b.mine /\ a.period = b.period
      BY <3>1, <3>3, <1>2 DEF ChainInv, LinearWorkflow, SameWorkflow
    <3>4. ASSUME NEW a \in filed', a.rev > 1
          PROVE  \E p \in filed' : SameWorkflow(p, a) /\ p.rev = a.rev - 1
      BY <3>2, <3>4, <1>2 DEF ChainInv, LinearWorkflow
    <3> QED BY <3>3, <3>4 DEF LinearWorkflow, SameWorkflow
  <2> QED BY <2>1, <2>3, <2>4, <2>5, <2>6, <2>7 DEF ChainInv
<1> QED BY <1>1, <1>2, StepOfFiled

LEMMA ChainInvariant == Spec => []ChainInv
<1>1. Init => ChainInv
  BY DEF Init, ChainInv, UniqueIds, NamedByRoot, PredecessorFiled, OneSuccessor,
         LinearWorkflow
<1>2. ChainInv /\ [Next]_vars => ChainInv'
  BY ChainStep
<1> QED BY <1>1, <1>2, PTL DEF Spec

\* Whatever submissions the agents of any number of mines may present, every
\* workflow stays one unforked chain within one mine and one period.
THEOREM WorkflowsAreLinear == Spec => []LinearWorkflow
<1>1. ChainInv => LinearWorkflow
  BY DEF ChainInv
<1> QED BY <1>1, ChainInvariant, PTL

-----------------------------------------------------------------------------
(***************************************************************************)
(* Type correctness.  A report that may be delivered is of a filed         *)
(* submission because runs exist of filed submissions only; a refused      *)
(* message is not accepted later because its key stays taken.              *)
(***************************************************************************)
RunOfFiled == \A i \in MessageId : run[i] # NoRun <=> \E s \in filed : s.id = i

TypeInv == TypeOK /\ Refused /\ RunOfFiled /\ IsFiniteSet(filed)

LEMMA ResponseFacts ==
  ASSUME NEW m \in Responses
  PROVE  m.id \in MessageId /\ m.mine \in Mine /\ m.wire \in WireId
         /\ m.report \in MessageId /\ m.cats \subseteq Category
  BY MessageAssumption DEF ResponseType

LEMMA EntryType ==
  ASSUME NEW o \in Seq(OutboxEntry), NEW e \in OutboxEntry
  PROVE  o \o <<e>> \in Seq(OutboxEntry)
  OBVIOUS

\* Only findings of filed submissions can be resolved, so they are finite.
LEMMA ResolvableFinite ==
  ASSUME filed \subseteq Submissions, IsFiniteSet(filed), NEW m
  PROVE  Resolvable(m) \subseteq Finding /\ IsFiniteSet(Resolvable(m))
<1> DEFINE Ids == {s.id : s \in filed}
<1>1. IsFiniteSet(Ids)
  <2> DEFINE id == [s \in filed |-> s.id]
  <2>1. id \in Surjection(filed, Ids)
    BY DEF Surjection
  <2> QED BY <2>1, FS_Surjection
<1>2. IsFiniteSet(Ids \X Category)
  BY <1>1, CategoryAssumption, FS_Product
<1>3. Resolvable(m) \subseteq Ids \X Category
  BY DEF Resolvable, FindingsOf, Lineage
<1>4. Ids \subseteq MessageId
  BY SubmissionFacts
<1> QED BY <1>2, <1>3, <1>4, FS_Subset DEF Finding

LEMMA NoticesType ==
  ASSUME NEW S, S \subseteq Finding, IsFiniteSet(S),
         NEW q \in Orderings(S), NEW mine \in Mine
  PROVE  Notices(q, mine) \in Seq(OutboxEntry)
<1>1. Cardinality(S) \in Nat
  BY FS_CardinalityType
<1>2. q \in [1..Cardinality(S) -> S]
  BY DEF Orderings
<1>3. \A i \in DOMAIN q :
        [kind |-> "finding_resolved", mine |-> mine, ref |-> q[i]] \in OutboxEntry
  BY <1>2 DEF OutboxEntry
<1> QED BY <1>1, <1>2, <1>3 DEF Notices

LEMMA TypeStep == ASSUME TypeInv, [Next]_vars PROVE TypeInv'
<1> USE DEF TypeInv, TypeOK, RunOfFiled
<1>0. Refused' /\ conflicts' \subseteq Inbound \ inbox'
  BY ConflictsStep
<1> USE <1>0
<1>1. ASSUME NEW m \in Submissions, NEW d \in Decision,
             NEW cats \in SUBSET Category, Submit(m, d, cats)
      PROVE  TypeInv'
  <2> USE <1>1
  <2>1. m.id \in MessageId /\ m.mine \in Mine
    BY MessageAssumption DEF SubmissionType
  <2>2. filed' = filed \union {m} /\ run' = [run EXCEPT ![m.id] = d]
    BY DEF Submit
  <2>3. IsFiniteSet(filed')
    BY <2>2, FS_AddElement
  <2>4. run' \in [MessageId -> Decision \union {NoRun}]
    BY <2>1, <2>2
  <2>5. d # NoRun
    BY DEF Decision, Normal, Risk, Insufficient, NoRun
  <2>6. RunOfFiled'
    BY <2>1, <2>2, <2>5
  <2>7. Entry("analysis_report_available", m.mine, m.id) \in Seq(OutboxEntry)
    BY <2>1 DEF Entry, OutboxEntry
  <2>8. CASE d = Risk
    <3>1. IssueFindings(m, cats)
      BY <2>8 DEF Submit
    <3>2. [type |-> "issued", by |-> NoId] \in Event
      BY DEF Event
    <3>3. events' \in [Finding -> Seq(Event)]
      BY <3>1, <3>2 DEF IssueFindings
    <3>4. outbox' \in Seq(OutboxEntry)
      BY <3>1, <2>7 DEF IssueFindings
    <3> QED BY <2>2, <2>3, <2>4, <2>6, <3>3, <3>4 DEF Submit
  <2>9. CASE d # Risk
    <3>1. ResolvePredecessors(m)
      BY <2>9 DEF Submit
    <3>2. [type |-> "resolved_by_revision", by |-> m.id] \in Event
      BY <2>1 DEF Event
    <3>3. events' \in [Finding -> Seq(Event)]
      BY <3>1, <3>2 DEF ResolvePredecessors
    <3>4. PICK q \in Orderings(Resolvable(m)) :
            outbox' = outbox \o Notices(q, m.mine)
                        \o Entry("analysis_report_available", m.mine, m.id)
      BY <3>1 DEF ResolvePredecessors
    <3>5. Notices(q, m.mine) \in Seq(OutboxEntry)
      BY <2>1, ResolvableFinite, NoticesType
    <3>6. outbox' \in Seq(OutboxEntry)
      BY <3>4, <3>5, <2>7
    <3> QED BY <2>2, <2>3, <2>4, <2>6, <3>3, <3>6 DEF Submit
  <2> QED BY <2>8, <2>9
<1>2. ASSUME NEW m \in Inbound, KeyConflict(m) PROVE TypeInv'
  BY <1>2 DEF KeyConflict
<1>3. ASSUME NEW m \in Responses, Respond(m) PROVE TypeInv'
  <2>1. [type |-> "explanation_recorded", by |-> m.wire] \in Event
    BY ResponseFacts DEF Event
  <2>2. events' \in [Finding -> Seq(Event)]
    BY <1>3, <2>1 DEF Respond
  <2>3. Entry("response_recorded", m.mine, m.wire) \in Seq(OutboxEntry)
    BY ResponseFacts DEF Entry, OutboxEntry
  <2>4. outbox' \in Seq(OutboxEntry)
    BY <1>3, <2>3 DEF Respond
  <2> QED BY <1>3, <2>2, <2>4 DEF Respond
<1>4. ASSUME NEW m \in Responses, RespondAgain(m) PROVE TypeInv'
  BY <1>4 DEF RespondAgain
<1>5. ASSUME NEW m \in Acks, Acknowledge(m) PROVE TypeInv'
  BY <1>5 DEF Acknowledge
<1>6. ASSUME NEW mine \in Mine, NEW after \in 0..Len(outbox),
             PollNext(mine, after)
      PROVE  TypeInv'
  <2>1. PICK i \in after + 1 .. Len(outbox) :
          /\ IsRiskReport(i, mine)
          /\ delivered' = delivered \union {outbox[i].ref}
    BY <1>6 DEF PollNext
  <2>2. outbox[i] \in OutboxEntry
    BY <2>1
  <2>3. outbox[i].ref \in MessageId
    BY <2>1, <2>2 DEF IsRiskReport, OutboxEntry
  <2>4. \E s \in filed : s.id = outbox[i].ref
    BY <2>1, <2>3 DEF IsRiskReport, Risk, NoRun
  <2>5. UNCHANGED <<filed, answered, acked, conflicts, run, events, outbox>>
    BY <1>6 DEF PollNext
  <2>6. delivered' \subseteq {s.id : s \in filed'}
    BY <2>1, <2>4, <2>5
  <2>7. RunOfFiled' /\ IsFiniteSet(filed')
    BY <2>5
  <2> QED BY <2>5, <2>6, <2>7
<1>7. ASSUME NEW s \in filed, GetReport(s) PROVE TypeInv'
  <2>1. /\ UNCHANGED <<filed, answered, acked, conflicts, run, events, outbox>>
        /\ delivered' = delivered \union {s.id}
    BY <1>7 DEF GetReport
  <2>2. delivered' \subseteq {r.id : r \in filed'}
    BY <2>1
  <2>3. RunOfFiled' /\ IsFiniteSet(filed')
    BY <2>1
  <2> QED BY <2>1, <2>2, <2>3
<1>8. CASE UNCHANGED vars
  BY <1>8 DEF vars
<1> QED BY <1>1, <1>2, <1>3, <1>4, <1>5, <1>6, <1>7, <1>8 DEF Next

LEMMA TypeInvariant == Spec => []TypeInv
<1>1. Init => TypeInv
  BY FS_EmptySet DEF Init, TypeInv, TypeOK, RunOfFiled, Refused
<1>2. TypeInv /\ [Next]_vars => TypeInv'
  BY TypeStep
<1> QED BY <1>1, <1>2, PTL DEF Spec

\* Every variable keeps its type; a delivered report is of a filed submission.
THEOREM TypeCorrect == Spec => []TypeOK
<1>1. TypeInv => TypeOK
  BY DEF TypeInv
<1> QED BY <1>1, TypeInvariant, PTL

-----------------------------------------------------------------------------
(***************************************************************************)
(* The lineage query.  Walking predecessors from a submission reaches      *)
(* exactly the earlier revisions of its workflow.  The library's induction *)
(* principles are out of reach here, so the descent is a minimal           *)
(* counterexample among the natural numbers.                               *)
(***************************************************************************)
LEMMA LeastNatural ==
  ASSUME NEW S \in SUBSET Nat, S # {}
  PROVE  \E x \in S : \A y \in S : x <= y
<1>1. PICK b \in S : TRUE
  OBVIOUS
<1> DEFINE N == 0..b
<1> DEFINE T == {0..x : x \in {y \in S : y <= b}}
<1>2. IsFiniteSet(N)
  BY FS_Interval
<1>3. T \subseteq SUBSET N /\ T # {}
  BY <1>1
<1>4. IsWellFoundedOn(StrictSubsetOrdering(N), SUBSET N)
  <2>1. SUBSET N = FiniteSubsetsOf(N)
    BY <1>2, FS_FiniteSubsetsOfFinite
  <2> QED BY <2>1, FS_StrictSubsetOrderingWellFounded
<1>5. PICK t \in T : \A u \in T : ~ (<<u, t>> \in StrictSubsetOrdering(N))
  <2> HIDE DEF T, N
  <2> QED BY <1>3, <1>4, WFMin
<1>6. PICK x \in S : x <= b /\ t = 0..x
  BY DEF T
<1>7. ASSUME NEW y \in S, y < x PROVE FALSE
  <2>1. 0..y \in T
    BY <1>6, <1>7
  <2>2. (0..y) \subseteq t /\ 0..y # t /\ t \in SUBSET N
    BY <1>6, <1>7
  <2>3. <<0..y, t>> \in StrictSubsetOrdering(N)
    BY <2>2 DEF StrictSubsetOrdering
  <2> QED BY <2>1, <2>3, <1>5
<1> QED BY <1>6, <1>7

\* A set closed under predecessors holds every earlier revision.
LEMMA RevisionsBelow ==
  ASSUME ChainInv, NEW p \in filed, NEW S \in SUBSET filed,
         p \in S, ClosedUnderPred(S), NEW r \in 1..p.rev
  PROVE  \E b \in S : SameWorkflow(b, p) /\ b.rev = r
<1> DEFINE Reached(d) == \E b \in S : SameWorkflow(b, p) /\ b.rev = p.rev - d
<1> DEFINE Missing == {d \in 0 .. p.rev - 1 : ~ Reached(d)}
<1>1. p.rev \in Nat /\ p.rev >= 1
  BY SubmissionFacts DEF ChainInv
<1>2. ASSUME Missing # {} PROVE FALSE
  <2>1. Missing \in SUBSET Nat
    BY <1>1
  <2>2. PICK d \in Missing : \A y \in Missing : d <= y
    BY <1>2, <2>1, LeastNatural
  <2>3. Reached(0)
    BY <1>1 DEF SameWorkflow
  <2>4. d \in 1 .. p.rev - 1 /\ ~ Reached(d)
    BY <1>1, <2>2, <2>3
  <2>5. Reached(d - 1)
    BY <1>1, <2>2, <2>4
  <2>6. PICK b \in S : SameWorkflow(b, p) /\ b.rev = p.rev - (d - 1)
    BY <2>5
  <2>7. b.rev > 1
    BY <1>1, <2>4, <2>6
  <2>8. PICK y \in filed : Continues(b, y)
    BY <2>7 DEF ChainInv, PredecessorFiled
  <2>9. y \in S
    BY <2>8 DEF ClosedUnderPred, Continues
  <2>10. y.rev \in Nat
    BY SubmissionFacts DEF ChainInv
  <2>11. SameWorkflow(y, p) /\ y.rev = p.rev - d
    BY <1>1, <2>4, <2>6, <2>8, <2>10 DEF Continues, SameWorkflow
  <2> QED BY <2>4, <2>9, <2>11
<1>3. p.rev - r \in 0 .. p.rev - 1 /\ p.rev - (p.rev - r) = r
  BY <1>1
<1>4. Reached(p.rev - r)
  BY <1>2, <1>3
<1> QED BY <1>3, <1>4

\* The recursive ancestor query returns the revisions up to its start.
LEMMA LineageIsEarlierRevisions ==
  ASSUME ChainInv, NEW p \in filed
  PROVE  Lineage(p) = {a \in filed : SameWorkflow(a, p) /\ a.rev <= p.rev}
<1> DEFINE Earlier == {a \in filed : SameWorkflow(a, p) /\ a.rev <= p.rev}
<1>1. \A a \in filed : a.rev \in Nat \ {0} /\ ((a.rev = 1) <=> (a.pred = NoId))
  BY SubmissionFacts DEF ChainInv
<1>2. Lineage(p) \subseteq Earlier
  <2>1. p \in Earlier
    BY <1>1 DEF SameWorkflow
  <2>2. ASSUME NEW x \in Earlier, NEW y \in filed, x.pred = Ref(y)
        PROVE  y \in Earlier
    <3>1. x.pred # NoId
      BY <2>2, MessageAssumption, SubmissionFacts DEF ChainInv
    <3>2. x.rev > 1
      BY <1>1, <3>1
    <3>3. PICK q \in filed : Continues(x, q)
      BY <3>2 DEF ChainInv, PredecessorFiled
    <3>4. q = y
      BY <2>2, <3>3 DEF Continues, Ref, ChainInv, UniqueIds
    <3> QED BY <1>1, <3>3, <3>4 DEF Continues, SameWorkflow
  <2>3. ClosedUnderPred(Earlier)
    BY <2>2 DEF ClosedUnderPred
  <2> QED BY <2>1, <2>3 DEF Lineage
<1>3. ASSUME NEW a \in Earlier, NEW S \in SUBSET filed, p \in S, ClosedUnderPred(S)
      PROVE  a \in S
  <2>1. a.rev \in 1..p.rev
    BY <1>1
  <2>2. PICK b \in S : SameWorkflow(b, p) /\ b.rev = a.rev
    BY <1>3, <2>1, RevisionsBelow
  <2>3. a = b
    BY <2>2 DEF ChainInv, LinearWorkflow, SameWorkflow
  <2> QED BY <2>2, <2>3
<1>4. Earlier \subseteq Lineage(p)
  BY <1>3 DEF Lineage
<1> QED BY <1>2, <1>4

\* A revision that may be filed comes after every filed one of its workflow.
LEMMA FileableIsLast ==
  ASSUME ChainInv, NEW m, Fileable(m), NEW s \in filed, SameWorkflow(s, m)
  PROVE  m.rev > 1 /\ s.rev < m.rev
<1>1. m.rev \in Nat \ {0} /\ \A a \in filed : a.rev \in Nat \ {0}
  BY SubmissionFacts DEF Fileable, ChainInv
<1>2. m.rev > 1
  BY <1>1, FileableRoot DEF SameWorkflow
<1>3. PICK p \in filed : Continues(m, p) /\ \A x \in filed : x.pred # Ref(p)
  BY <1>2, FileableContinues
<1>4. ASSUME s.rev > p.rev PROVE FALSE
  <2>1. ClosedUnderPred(filed)
    BY DEF ClosedUnderPred
  <2>2. p.rev + 1 \in 1..s.rev
    BY <1>1, <1>4
  <2>3. PICK b \in filed : SameWorkflow(b, s) /\ b.rev = p.rev + 1
    BY <2>1, <2>2, RevisionsBelow
  <2>4. b.rev > 1
    BY <1>1, <2>3
  <2>5. PICK q \in filed : Continues(b, q)
    BY <2>4 DEF ChainInv, PredecessorFiled
  <2>6. SameWorkflow(q, p) /\ q.rev = p.rev
    BY <1>1, <1>3, <2>3, <2>5 DEF Continues, SameWorkflow
  <2>7. q = p
    BY <2>6 DEF ChainInv, LinearWorkflow
  <2> QED BY <1>3, <2>5, <2>7 DEF Continues
<1> QED BY <1>1, <1>2, <1>3, <1>4 DEF Continues

OpenFindings(s) == {f \in FindingsOf(s) : ~ Resolved(f)}

\* A revision resolves every open finding of its workflow and no other.
LEMMA ResolvesWholeWorkflow ==
  ASSUME ChainInv, NEW m, Fileable(m)
  PROVE  Resolvable(m) = UNION {OpenFindings(s) : s \in {a \in filed : SameWorkflow(a, m)}}
<1> DEFINE Mates == {a \in filed : SameWorkflow(a, m)}
<1>1. m.rev \in Nat \ {0} /\ \A a \in filed : a.rev \in Nat \ {0}
  BY SubmissionFacts DEF Fileable, ChainInv
<1>2. UNION {Lineage(p) : p \in {x \in filed : m.pred = Ref(x)}} = Mates
  <2>1. CASE m.rev > 1
    <3>1. PICK p \in filed : Continues(m, p)
      BY <2>1, FileableContinues
    <3>2. {x \in filed : m.pred = Ref(x)} = {p}
      BY <3>1 DEF Continues, Ref, ChainInv, UniqueIds
    <3>3. \A a \in Mates : a.rev <= p.rev
      BY <1>1, <3>1, FileableIsLast DEF Continues
    <3>4. Lineage(p) = Mates
      BY <3>1, <3>3, LineageIsEarlierRevisions DEF Continues, SameWorkflow
    <3> QED BY <3>2, <3>4
  <2>2. CASE m.rev = 1
    <3>1. Mates = {}
      BY <2>2, FileableIsLast
    <3>2. \A x \in filed : m.pred # Ref(x)
      BY <2>2, MessageAssumption, SubmissionFacts DEF Fileable, ChainInv
    <3> QED BY <3>1, <3>2
  <2> QED BY <1>1, <2>1, <2>2
<1> QED BY <1>2 DEF Resolvable, OpenFindings

-----------------------------------------------------------------------------
(***************************************************************************)
(* Findings.                                                               *)
(***************************************************************************)
\* Only a submission analysed as a risk has findings.
FindingsOfRisk == \A f \in Finding : events[f] # <<>> => run[f[1]] = Risk

\* The rule the code follows: every later revision that is no risk clears the
\* findings, one that lacked data included.
ClearedWithoutRisk ==
  \A s \in filed : \A f \in FindingsOf(s) :
    Resolved(f) <=> \E t \in filed : /\ SameWorkflow(t, s) /\ t.rev > s.rev
                                    /\ run[t.id] # Risk

FindingInv == TypeInv /\ ChainInv /\ FindingsOfRisk /\ ClearedWithoutRisk

\* What an appended event adds to an event log.
LEMMA EventAppended ==
  ASSUME NEW e \in Seq(Event), NEW x, NEW kind
  PROVE  (\E i \in 1..Len(Append(e, x)) : Append(e, x)[i].type = kind)
           <=> (\E i \in 1..Len(e) : e[i].type = kind) \/ x.type = kind
<1>1. Len(Append(e, x)) = Len(e) + 1 /\ Len(e) \in Nat
  OBVIOUS
<1>2. \A i \in 1..Len(e) : Append(e, x)[i] = e[i]
  OBVIOUS
<1>3. Append(e, x)[Len(e) + 1] = x
  OBVIOUS
<1> HIDE DEF Event
<1>4. ASSUME NEW i \in 1..Len(Append(e, x)), Append(e, x)[i].type = kind
      PROVE  (\E j \in 1..Len(e) : e[j].type = kind) \/ x.type = kind
  <2>1. CASE i \in 1..Len(e) BY <2>1, <1>2, <1>4
  <2>2. CASE i = Len(e) + 1 BY <2>2, <1>3, <1>4
  <2> QED BY <1>1, <2>1, <2>2
<1>5. ASSUME NEW j \in 1..Len(e), e[j].type = kind
      PROVE  \E i \in 1..Len(Append(e, x)) : Append(e, x)[i].type = kind
  <2>1. j \in 1..Len(Append(e, x)) BY <1>1
  <2> QED BY <2>1, <1>2, <1>5
<1>6. ASSUME x.type = kind
      PROVE  \E i \in 1..Len(Append(e, x)) : Append(e, x)[i].type = kind
  <2>1. Len(e) + 1 \in 1..Len(Append(e, x)) BY <1>1
  <2> QED BY <2>1, <1>3, <1>6
<1> QED BY <1>4, <1>5, <1>6

LEMMA HasEventStep ==
  ASSUME TypeInv, NEW f \in Finding, NEW x, NEW kind,
         events'[f] = Append(events[f], x)
  PROVE  HasEvent(f, kind)' <=> HasEvent(f, kind) \/ x.type = kind
<1>1. events[f] \in Seq(Event)
  BY DEF TypeInv, TypeOK
<1> QED BY <1>1, EventAppended DEF HasEvent

LEMMA HasEventSame ==
  ASSUME NEW f, NEW kind, events'[f] = events[f]
  PROVE  HasEvent(f, kind)' <=> HasEvent(f, kind)
  BY DEF HasEvent

\* A finding with an event log is of a filed submission.
LEMMA FindingsOfFiled ==
  ASSUME FindingInv, NEW f \in Finding, events[f] # <<>>
  PROVE  \E s \in filed : s.id = f[1]
  BY DEF FindingInv, FindingsOfRisk, TypeInv, RunOfFiled, Finding, Risk, NoRun

LEMMA HasEventNonempty ==
  ASSUME NEW f, NEW kind, HasEvent(f, kind)
  PROVE  events[f] # <<>>
  BY DEF HasEvent

LEMMA FindingsAreFindings ==
  ASSUME NEW s \in Submissions
  PROVE  \A f \in FindingsOf(s) : f \in Finding /\ f[1] = s.id /\ Issued(f)
  BY SubmissionFacts DEF FindingsOf, Finding

\* Steps that file nothing and issue or resolve nothing.
LEMMA QuietStep ==
  ASSUME FindingInv, TypeInv', ChainInv', filed' = filed, run' = run,
         \A f \in Finding : /\ Issued(f)' <=> Issued(f)
                            /\ Resolved(f)' <=> Resolved(f)
                            /\ events'[f] = <<>> <=> events[f] = <<>>
  PROVE  FindingInv'
<1>1. FindingsOfRisk'
  BY DEF FindingInv, FindingsOfRisk
<1>2. ASSUME NEW s \in filed', NEW f \in FindingsOf(s)'
      PROVE  Resolved(f)' <=> \E t \in filed' : /\ SameWorkflow(t, s)
                                               /\ t.rev > s.rev
                                               /\ run'[t.id] # Risk
  <2>1. s \in Submissions
    BY DEF FindingInv, ChainInv
  <2>2. f \in {s.id} \X Category /\ Issued(f)'
    BY DEF FindingsOf
  <2>3. f \in Finding /\ f \in FindingsOf(s)
    BY <2>1, <2>2, SubmissionFacts DEF Finding, FindingsOf
  <2> QED BY <2>3 DEF FindingInv, ClearedWithoutRisk
<1>3. ClearedWithoutRisk'
  BY <1>2 DEF ClearedWithoutRisk, SameWorkflow
<1> QED BY <1>1, <1>3 DEF FindingInv

LEMMA RespondQuiet ==
  ASSUME FindingInv, NEW m \in Responses, Respond(m), NEW f \in Finding
  PROVE  /\ Issued(f)' <=> Issued(f)
         /\ Resolved(f)' <=> Resolved(f)
         /\ events'[f] = <<>> <=> events[f] = <<>>
<1> DEFINE x == [type |-> "explanation_recorded", by |-> m.wire]
<1>1. CASE f[1] = m.report /\ f[2] \in m.cats
  <2>1. events'[f] = Append(events[f], x)
    BY <1>1 DEF Respond
  <2>2. f = <<m.report, f[2]>>
    BY <1>1 DEF Finding
  <2>3. Issued(f)
    BY <1>1, <2>2 DEF Respond
  <2>4. events[f] # <<>>
    BY <2>3, HasEventNonempty DEF Issued
  <2>5. events[f] \in Seq(Event)
    BY DEF FindingInv, TypeInv, TypeOK
  <2>6. events'[f] # <<>>
    BY <2>1, <2>5
  <2>7. x.type # "issued" /\ x.type # "resolved_by_revision"
    OBVIOUS
  <2> QED BY <2>1, <2>4, <2>6, <2>7, HasEventStep
          DEF Issued, Resolved, FindingInv
<1>2. CASE ~ (f[1] = m.report /\ f[2] \in m.cats)
  <2>1. events'[f] = events[f]
    BY <1>2 DEF Respond
  <2> QED BY <2>1, HasEventSame DEF Issued, Resolved
<1> QED BY <1>1, <1>2

LEMMA QuietSame ==
  ASSUME events' = events, NEW f
  PROVE  /\ Issued(f)' <=> Issued(f)
         /\ Resolved(f)' <=> Resolved(f)
         /\ events'[f] = <<>> <=> events[f] = <<>>
  BY DEF Issued, Resolved, HasEvent

\* Nothing has been said about a submission that is not filed yet.
LEMMA FileableIsNew ==
  ASSUME FindingInv, NEW m, Fileable(m)
  PROVE  /\ \A s \in filed : s.id # m.id
         /\ \A f \in Finding : f[1] = m.id => events[f] = <<>>
<1>1. \A s \in filed : s.id # m.id
  BY DEF Fileable, IdFree, inbox
<1> QED BY <1>1, FindingsOfFiled

\* A risk revision opens its own findings and touches no other.
LEMMA RiskStep ==
  ASSUME FindingInv, TypeInv', ChainInv', NEW m \in Submissions,
         NEW cats \in SUBSET Category, Submit(m, Risk, cats)
  PROVE  FindingInv'
<1> DEFINE x == [type |-> "issued", by |-> NoId]
<1> DEFINE Own(f) == f[1] = m.id /\ f[2] \in cats
<1>1. Fileable(m) /\ filed' = filed \union {m} /\ m.id \in MessageId
  BY SubmissionFacts DEF Submit, Fileable
<1>2. run' = [run EXCEPT ![m.id] = Risk] /\ run \in [MessageId -> Decision \union {NoRun}]
  BY DEF Submit, FindingInv, TypeInv, TypeOK
<1>3. /\ \A s \in filed : s.id # m.id
      /\ \A f \in Finding : f[1] = m.id => events[f] = <<>>
  BY <1>1, FileableIsNew
<1>4. \A f \in Finding : events'[f] = IF Own(f) THEN Append(events[f], x) ELSE events[f]
  BY DEF Submit, IssueFindings
<1>5. ASSUME NEW f \in Finding
      PROVE  /\ Issued(f)' <=> Issued(f) \/ Own(f)
             /\ Resolved(f)' <=> Resolved(f)
             /\ events'[f] # <<>> => run'[f[1]] = Risk
  <2>1. x.type = "issued" /\ x.type # "resolved_by_revision"
    OBVIOUS
  <2>2. CASE Own(f)
    <3>1. events'[f] = Append(events[f], x)
      BY <2>2, <1>4
    <3> QED BY <2>1, <2>2, <3>1, <1>1, <1>2, HasEventStep
            DEF Issued, Resolved, FindingInv
  <2>3. CASE ~ Own(f)
    <3>1. events'[f] = events[f]
      BY <2>3, <1>4
    <3>2. f[1] \in MessageId
      BY DEF Finding
    <3>3. run[f[1]] = Risk => run'[f[1]] = Risk
      BY <1>1, <1>2, <3>2
    <3> QED BY <2>3, <3>1, <3>3, HasEventSame
            DEF Issued, Resolved, FindingInv, FindingsOfRisk
  <2> QED BY <2>2, <2>3
<1>6. \A t \in filed : run'[t.id] = run[t.id] /\ t \in Submissions
  BY <1>1, <1>2, <1>3, SubmissionFacts DEF FindingInv, ChainInv
<1>7. run'[m.id] = Risk
  BY <1>1, <1>2
<1>8. ASSUME NEW s \in filed', NEW f \in FindingsOf(s)'
      PROVE  Resolved(f)' <=> \E t \in filed' : /\ SameWorkflow(t, s)
                                               /\ t.rev > s.rev
                                               /\ run'[t.id] # Risk
  <2>1. f \in {s.id} \X Category /\ Issued(f)' /\ s \in Submissions
    BY <1>1, <1>6 DEF FindingsOf
  <2>2. f \in Finding /\ f[1] = s.id
    BY <2>1, SubmissionFacts DEF Finding
  <2>3. CASE s \in filed
    <3>1. f \in FindingsOf(s)
      BY <2>1, <2>2, <2>3, <1>3, <1>5 DEF FindingsOf
    <3>2. Resolved(f) <=> \E t \in filed : /\ SameWorkflow(t, s) /\ t.rev > s.rev
                                           /\ run[t.id] # Risk
      BY <2>3, <3>1 DEF FindingInv, ClearedWithoutRisk
    <3> QED BY <2>2, <3>2, <1>1, <1>5, <1>6, <1>7
  <2>4. CASE s = m
    <3>1. ~ Resolved(f)'
      BY <2>2, <2>4, <1>3, <1>5, HasEventNonempty DEF Resolved
    <3>2. \A t \in filed : SameWorkflow(t, m) => ~ (t.rev > m.rev)
      BY <1>1, <1>6, FileableIsLast, SubmissionFacts DEF FindingInv
    <3>3. ~ (m.rev > m.rev)
      BY SubmissionFacts
    <3> QED BY <2>4, <3>1, <3>2, <3>3, <1>1
  <2> QED BY <2>3, <2>4, <1>1
<1>9. ClearedWithoutRisk'
  BY <1>8 DEF ClearedWithoutRisk, SameWorkflow
<1>10. FindingsOfRisk'
  BY <1>5 DEF FindingsOfRisk
<1> QED BY <1>9, <1>10 DEF FindingInv

\* A revision without risk resolves all open findings of its workflow.
LEMMA ClearStep ==
  ASSUME FindingInv, TypeInv', ChainInv', NEW m \in Submissions,
         NEW d \in Decision, d # Risk, Submit(m, d, {})
  PROVE  FindingInv'
<1> DEFINE x == [type |-> "resolved_by_revision", by |-> m.id]
<1> DEFINE Mates == {a \in filed : SameWorkflow(a, m)}
<1>1. Fileable(m) /\ filed' = filed \union {m} /\ m.id \in MessageId
  BY SubmissionFacts DEF Submit, Fileable
<1>2. run' = [run EXCEPT ![m.id] = d] /\ run \in [MessageId -> Decision \union {NoRun}]
  BY DEF Submit, FindingInv, TypeInv, TypeOK
<1>3. /\ \A s \in filed : s.id # m.id
      /\ \A f \in Finding : f[1] = m.id => events[f] = <<>>
  BY <1>1, FileableIsNew
<1>4. \A f \in Finding :
        events'[f] = IF f \in Resolvable(m) THEN Append(events[f], x) ELSE events[f]
  BY DEF Submit, ResolvePredecessors
<1>5. Resolvable(m) = UNION {OpenFindings(s) : s \in Mates}
  BY <1>1, ResolvesWholeWorkflow DEF FindingInv
<1>6. \A t \in filed : run'[t.id] = run[t.id] /\ t \in Submissions
  BY <1>1, <1>2, <1>3, SubmissionFacts DEF FindingInv, ChainInv
<1>7. \A f \in Resolvable(m) : f \in Finding /\ f[1] # m.id /\ events[f] # <<>>
  BY <1>3, <1>5, <1>6, FindingsAreFindings, HasEventNonempty
     DEF OpenFindings, Issued
<1>8. ASSUME NEW f \in Finding
      PROVE  /\ Issued(f)' <=> Issued(f)
             /\ Resolved(f)' <=> Resolved(f) \/ f \in Resolvable(m)
             /\ events'[f] # <<>> => run'[f[1]] = Risk
  <2>1. x.type # "issued" /\ x.type = "resolved_by_revision"
    OBVIOUS
  <2>2. f[1] \in MessageId
    BY DEF Finding
  <2>3. events[f] # <<>> => run'[f[1]] = Risk
    BY <1>2, <1>3, <2>2 DEF FindingInv, FindingsOfRisk
  <2>4. CASE f \in Resolvable(m)
    <3>1. events'[f] = Append(events[f], x)
      BY <2>4, <1>4
    <3> QED BY <2>1, <2>3, <2>4, <3>1, <1>7, HasEventStep
            DEF Issued, Resolved, FindingInv
  <2>5. CASE f \notin Resolvable(m)
    <3>1. events'[f] = events[f]
      BY <2>5, <1>4
    <3> QED BY <2>3, <2>5, <3>1, HasEventSame DEF Issued, Resolved
  <2> QED BY <2>4, <2>5
<1>9. run'[m.id] # Risk
  BY <1>1, <1>2
<1>10. ASSUME NEW s \in filed', NEW f \in FindingsOf(s)'
       PROVE  Resolved(f)' <=> \E t \in filed' : /\ SameWorkflow(t, s)
                                                /\ t.rev > s.rev
                                                /\ run'[t.id] # Risk
  <2>1. f \in {s.id} \X Category /\ Issued(f)' /\ s \in Submissions
    BY <1>1, <1>6 DEF FindingsOf
  <2>2. f \in Finding /\ f[1] = s.id /\ Issued(f)
    BY <2>1, <1>8, SubmissionFacts DEF Finding
  <2>3. s # m
    BY <2>2, <1>3, HasEventNonempty DEF Issued
  <2>4. s \in filed /\ f \in FindingsOf(s)
    BY <2>1, <2>2, <2>3, <1>1 DEF FindingsOf
  <2>5. Resolved(f) <=> \E t \in filed : /\ SameWorkflow(t, s) /\ t.rev > s.rev
                                         /\ run[t.id] # Risk
    BY <2>4 DEF FindingInv, ClearedWithoutRisk
  <2>6. CASE SameWorkflow(s, m)
    <3>1. Resolved(f)'
      BY <2>2, <2>4, <2>6, <1>5, <1>8 DEF OpenFindings
    <3>2. SameWorkflow(m, s) /\ m.rev > s.rev
      <4>1. s.rev < m.rev
        BY <2>4, <2>6, <1>1, FileableIsLast DEF FindingInv
      <4> QED BY <4>1, <2>6, <1>6, <2>4, SubmissionFacts DEF SameWorkflow
    <3> QED BY <3>1, <3>2, <1>1, <1>9
  <2>7. CASE ~ SameWorkflow(s, m)
    <3>1. f \notin Resolvable(m)
      <4> SUFFICES ASSUME f \in Resolvable(m) PROVE FALSE
        OBVIOUS
      <4>1. PICK a \in Mates : f \in FindingsOf(a)
        BY <1>5 DEF OpenFindings
      <4>2. a.id = s.id
        BY <2>2, <4>1, <1>6, FindingsAreFindings
      <4> QED BY <2>4, <2>7, <4>1, <4>2 DEF FindingInv, ChainInv, UniqueIds
    <3>2. ~ SameWorkflow(m, s)
      BY <2>7 DEF SameWorkflow
    <3> QED BY <2>2, <2>5, <3>1, <3>2, <1>1, <1>6, <1>8
  <2> QED BY <2>6, <2>7
<1>11. ClearedWithoutRisk'
  BY <1>10 DEF ClearedWithoutRisk, SameWorkflow
<1>12. FindingsOfRisk'
  BY <1>8 DEF FindingsOfRisk
<1> QED BY <1>11, <1>12 DEF FindingInv

LEMMA FindingStep ==
  ASSUME FindingInv, TypeInv', ChainInv', [Next]_vars
  PROVE  FindingInv'
<1>1. ASSUME NEW m \in Submissions, NEW d \in Decision,
             NEW cats \in SUBSET Category, Submit(m, d, cats)
      PROVE  FindingInv'
  <2>1. CASE d = Risk
    BY <1>1, <2>1, RiskStep
  <2>2. CASE d # Risk
    <3>1. cats = {}
      BY <1>1, <2>2 DEF Submit
    <3> QED BY <1>1, <2>2, <3>1, ClearStep
  <2> QED BY <2>1, <2>2
<1>2. ASSUME NEW m \in Responses, Respond(m) PROVE FindingInv'
  <2>1. filed' = filed /\ run' = run
    BY <1>2 DEF Respond
  <2> QED BY <1>2, <2>1, RespondQuiet, QuietStep
<1>3. CASE /\ filed' = filed /\ run' = run /\ events' = events
  BY <1>3, QuietSame, QuietStep
<1> QED BY <1>1, <1>2, <1>3 DEF Next, vars, KeyConflict, RespondAgain,
           Acknowledge, PollNext, GetReport

LEMMA FindingInvariant == Spec => []FindingInv
<1>1. Init /\ TypeInv /\ ChainInv => FindingInv
  BY DEF Init, FindingInv, FindingsOfRisk, ClearedWithoutRisk
<1>2. FindingInv /\ TypeInv' /\ ChainInv' /\ [Next]_vars => FindingInv'
  BY FindingStep
<1> QED BY <1>1, <1>2, TypeInvariant, ChainInvariant, PTL DEF Spec

\* No finding stays open behind a later normal candidate of its workflow and,
\* unless a later revision lacked data, none is cleared without one: for any
\* number of revisions, forks presented and categories, and whatever is said
\* in between.
THEOREM FindingsClearedByReanalysis == Spec => []ClearedByReanalysis
<1>1. FindingInv => ClearedByReanalysis
  <2> SUFFICES ASSUME FindingInv, NEW s \in filed, NEW f \in FindingsOf(s)
               PROVE  /\ (\E t \in Later(s) : run[t.id] = Normal) => Resolved(f)
                      /\ Resolved(f) /\ (\A t \in Later(s) : run[t.id] # Insufficient)
                           => \E t \in Later(s) : run[t.id] = Normal
    BY DEF ClearedByReanalysis
  <2>1. Resolved(f) <=> \E t \in Later(s) : run[t.id] # Risk
    BY DEF FindingInv, ClearedWithoutRisk, Later
  <2>2. \A t \in Later(s) : run[t.id] \in Decision
    <3>1. \A t \in filed : t.id \in MessageId
      BY SubmissionFacts DEF FindingInv, ChainInv
    <3> QED BY <3>1 DEF FindingInv, TypeInv, TypeOK, RunOfFiled, Later
  <2> QED BY <2>1, <2>2 DEF Decision, Normal, Risk
<1> QED BY <1>1, FindingInvariant, PTL

-----------------------------------------------------------------------------
(***************************************************************************)
(* Responses.                                                              *)
(***************************************************************************)
\* Every step accepts at most one response.
LEMMA StepOfAnswered ==
  ASSUME [Next]_vars
  PROVE  \/ answered' = answered
         \/ \E m \in Responses : /\ Respond(m) \/ RespondAgain(m)
                                 /\ ResponseLineageOk(m)
                                 /\ answered' = answered \union {m}
                                 /\ filed' = filed
  BY DEF Next, Submit, KeyConflict, Respond, RespondAgain, Acknowledge,
         PollNext, GetReport, vars

\* A correction a response may name is a later revision of the workflow of
\* the report it answers.
LEMMA AcceptedCorrection ==
  ASSUME ChainInv, NEW m, ResponseLineageOk(m), m.corrected # NoId
  PROVE  \E c, s \in filed : /\ c.id = m.corrected /\ s.id = m.report
                             /\ SameWorkflow(c, s) /\ c.rev > s.rev
                             /\ c.mine = m.mine /\ c.period = s.period
<1>1. PICK c \in filed : /\ c.id = m.corrected
                         /\ c.mine = m.mine /\ c.corr = m.corr
                         /\ \E s \in Reported(m) : IsStrictDescendant(c, s)
  BY DEF ResponseLineageOk
<1>2. PICK s \in Reported(m) : IsStrictDescendant(c, s)
  BY <1>1
<1>3. PICK r \in Reported(m) : r.corr = m.corr
  BY DEF ResponseLineageOk, QuotesIssuedReport
<1>4. s \in filed /\ s.id = m.report /\ r = s
  BY <1>2, <1>3 DEF Reported, ChainInv, UniqueIds
<1>5. SameWorkflow(c, s) /\ c.rev > s.rev
  BY <1>1, <1>2, <1>3, <1>4 DEF SameWorkflow, IsStrictDescendant
<1>6. c.period = s.period
  BY <1>4, <1>5 DEF ChainInv, LinearWorkflow
<1> QED BY <1>1, <1>4, <1>5, <1>6

\* A response that claims a correction names a later revision of the workflow
\* it answers, whatever was filed and answered before or after.
THEOREM CorrectionsAreLaterRevisions == Spec => []CorrectedIsLaterRevision
<1>1. Init => CorrectedIsLaterRevision
  BY DEF Init, CorrectedIsLaterRevision
<1>2. ChainInv /\ CorrectedIsLaterRevision /\ [Next]_vars
        => CorrectedIsLaterRevision'
  <2> SUFFICES ASSUME ChainInv, CorrectedIsLaterRevision, [Next]_vars,
                      NEW m \in answered', m.corrected # NoId
               PROVE  \E c, s \in filed' :
                        /\ c.id = m.corrected /\ s.id = m.report
                        /\ SameWorkflow(c, s) /\ c.rev > s.rev
                        /\ c.mine = m.mine /\ c.period = s.period
    BY DEF CorrectedIsLaterRevision, SameWorkflow
  <2>1. filed \subseteq filed'
    BY StepOfFiled
  <2>2. CASE m \in answered
    BY <2>1, <2>2 DEF CorrectedIsLaterRevision
  <2>3. CASE m \notin answered
    <3>1. ResponseLineageOk(m)
      BY <2>3, StepOfAnswered
    <3> QED BY <3>1, <2>1, AcceptedCorrection
  <2> QED BY <2>2, <2>3
<1> QED BY <1>1, <1>2, ChainInvariant, PTL DEF Spec
-----------------------------------------------------------------------------
(***************************************************************************)
(* Response batches.  A wire id no accepted response carries has left no   *)
(* trace; one that some response carries has left exactly one in each      *)
(* finding of its batch, and one in the outbox.                            *)
(***************************************************************************)
\* The explanation events of the batch w in the log of a finding.
Written(f, w) ==
  {i \in 1..Len(events[f]) :
     events[f][i] = [type |-> "explanation_recorded", by |-> w]}

Noted(w) == Positions("response_recorded", w)

SameBatch == \A x, y \in answered : x.wire = y.wire => Batch(x) = Batch(y)

UnheardWithoutTrace ==
  \A w \in WireId : (\A x \in answered : x.wire # w) =>
    Noted(w) = {} /\ \A f \in Finding : Written(f, w) = {}

HeardOnce ==
  \A x \in answered :
    /\ \E i : Noted(x.wire) = {i}
    /\ \A c \in x.cats : \E i : Written(<<x.report, c>>, x.wire) = {i}

BatchInv == SameBatch /\ UnheardWithoutTrace /\ HeardOnce

\* Other entries behind those of the outbox leave a batch's entry alone.
LEMMA OneMore ==
  ASSUME NEW S, NEW p \in Seq(S), NEW q \in Seq(S), Len(q) = 1
  PROVE  /\ p \o q \in Seq(S) /\ Len(p \o q) = Len(p) + 1
         /\ \A i \in 1..Len(p) : (p \o q)[i] = p[i]
         /\ (p \o q)[Len(p) + 1] = q[1]
<1>1. Len(p) \in Nat
  OBVIOUS
<1>2. /\ p \o q \in Seq(S) /\ Len(p \o q) = Len(p) + Len(q)
      /\ \A i \in 1 .. Len(p) + Len(q) :
           (p \o q)[i] = IF i <= Len(p) THEN p[i] ELSE q[i - Len(p)]
  BY ConcatProperties
<1> DEFINE n == Len(p)
<1>3. (p \o q)[n + 1] = IF n + 1 <= n THEN p[n + 1] ELSE q[n + 1 - n]
  BY <1>1, <1>2
<1>4. ~ (n + 1 <= n) /\ n + 1 - n = 1
  BY <1>1
<1>5. \A i \in 1..Len(p) : (p \o q)[i] = p[i]
  BY <1>1, <1>2
<1> QED BY <1>2, <1>3, <1>4, <1>5

LEMMA NotedAfter ==
  ASSUME TypeOK, NEW q \in Seq(OutboxEntry), outbox' = outbox \o q, NEW w,
         \A i \in 1..Len(q) : q[i].kind # "response_recorded" \/ q[i].ref # w
  PROVE  Noted(w)' = Noted(w)
<1>1. outbox \in Seq(OutboxEntry) BY DEF TypeOK
<1>2. Len(outbox') = Len(outbox) + Len(q) BY <1>1
<1>3. \A i \in 1..Len(outbox) : outbox'[i] = outbox[i] BY <1>1
<1>4. \A i \in 1..Len(outbox') : i \notin 1..Len(outbox) =>
        i - Len(outbox) \in 1..Len(q) /\ outbox'[i] = q[i - Len(outbox)]
  BY <1>1, <1>2
<1>5. 1..Len(outbox) \subseteq 1..Len(outbox') BY <1>1, <1>2
<1> QED BY <1>3, <1>4, <1>5 DEF Noted, Positions

\* Another event behind those of a finding leaves its explanations alone.
LEMMA WrittenAfter ==
  ASSUME TypeOK, NEW f \in Finding, NEW e \in Event, NEW w,
         events'[f] = Append(events[f], e) \/ events'[f] = events[f],
         e # [type |-> "explanation_recorded", by |-> w]
  PROVE  Written(f, w)' = Written(f, w)
<1>1. events[f] \in Seq(Event) BY DEF TypeOK
<1>2. CASE events'[f] = Append(events[f], e)
  <2>1. Len(events'[f]) = Len(events[f]) + 1 BY <1>1, <1>2
  <2>2. \A i \in 1..Len(events[f]) : events'[f][i] = events[f][i] BY <1>1, <1>2
  <2>3. events'[f][Len(events[f]) + 1] = e BY <1>1, <1>2
  <2>4. 1..Len(events'[f]) = 1..Len(events[f]) \union {Len(events[f]) + 1}
    BY <1>1, <2>1
  <2> QED BY <2>2, <2>3, <2>4 DEF Written
<1>3. CASE events'[f] = events[f] BY <1>3 DEF Written
<1> QED BY <1>2, <1>3

\* A step that accepts no response adds no trace of one.
LEMMA BatchQuiet ==
  ASSUME BatchInv, TypeOK, answered' = answered,
         \A w \in WireId : Noted(w)' = Noted(w)
                           /\ \A f \in Finding : Written(f, w)' = Written(f, w)
  PROVE  BatchInv'
<1>1. SameBatch' BY DEF BatchInv, SameBatch, Batch
<1>2. UnheardWithoutTrace' BY DEF BatchInv, UnheardWithoutTrace
<1>3. HeardOnce'
  <2> SUFFICES ASSUME NEW x \in answered
               PROVE  /\ \E i : Noted(x.wire)' = {i}
                      /\ \A c \in x.cats :
                           \E i : Written(<<x.report, c>>, x.wire)' = {i}
    BY DEF HeardOnce
  <2>1. x.wire \in WireId /\ \A c \in x.cats : <<x.report, c>> \in Finding
    BY ResponseFacts DEF TypeOK, Finding
  <2>2. \E i : Noted(x.wire) = {i}
    BY DEF BatchInv, HeardOnce
  <2>3. ASSUME NEW c \in x.cats
        PROVE  \E i : Written(<<x.report, c>>, x.wire)' = {i}
    <3>1. PICK i : Written(<<x.report, c>>, x.wire) = {i}
      BY DEF BatchInv, HeardOnce
    <3> QED BY <3>1, <2>1
  <2> QED BY <2>1, <2>2, <2>3
<1> QED BY <1>1, <1>2, <1>3 DEF BatchInv
\* A batch heard for the first time leaves its one trace.
LEMMA NewBatchStep ==
  ASSUME BatchInv, TypeOK, NEW m \in Responses, Respond(m)
  PROVE  BatchInv'
<1>1. /\ m.wire \in WireId /\ m.report \in MessageId /\ m.mine \in Mine
      /\ m.cats \subseteq Category
  BY ResponseFacts
<1>2. \A x \in answered : x.wire # m.wire /\ x.wire \in WireId
  BY ResponseFacts DEF Respond, TypeOK
<1>3. answered' = answered \union {m} BY DEF Respond
<1> DEFINE said == [type |-> "explanation_recorded", by |-> m.wire]
           entry == [kind |-> "response_recorded", mine |-> m.mine, ref |-> m.wire]
           batch == {f \in Finding : f[1] = m.report /\ f[2] \in m.cats}
<1>4. said \in Event BY <1>1 DEF Event
<1>5. /\ \A f \in batch : events'[f] = Append(events[f], said)
      /\ \A f \in Finding \ batch : events'[f] = events[f]
  BY DEF Respond
<1>6. entry \in OutboxEntry /\ outbox' = outbox \o <<entry>>
  BY <1>1 DEF OutboxEntry, Respond, Entry
<1>7. ASSUME NEW w \in WireId, w # m.wire
      PROVE  Noted(w)' = Noted(w) /\ \A f \in Finding : Written(f, w)' = Written(f, w)
  <2>1. Noted(w)' = Noted(w)
    <3>1. <<entry>> \in Seq(OutboxEntry) BY <1>6
    <3>2. \A i \in 1..Len(<<entry>>) : <<entry>>[i].ref # w BY <1>7
    <3> HIDE DEF entry
    <3> QED BY <3>1, <3>2, <1>6, NotedAfter
  <2>2. ASSUME NEW f \in Finding PROVE Written(f, w)' = Written(f, w)
    <3>1. said # [type |-> "explanation_recorded", by |-> w] BY <1>7
    <3>2. events'[f] = Append(events[f], said) \/ events'[f] = events[f]
      BY <1>5
    <3> HIDE DEF said
    <3> QED BY <3>1, <3>2, <1>4, WrittenAfter
  <2> QED BY <2>1, <2>2
<1>8. \E i : Noted(m.wire)' = {i}
  <2>1. Noted(m.wire) = {} BY <1>1, <1>2 DEF BatchInv, UnheardWithoutTrace
  <2>2. outbox \in Seq(OutboxEntry) BY DEF TypeOK
  <2>3. /\ Len(outbox') = Len(outbox) + 1 /\ Len(outbox) \in Nat
        /\ \A i \in 1..Len(outbox) : outbox'[i] = outbox[i]
        /\ outbox'[Len(outbox) + 1] = entry
    BY <2>2, <1>6
  <2>4. 1..Len(outbox') = 1..Len(outbox) \union {Len(outbox) + 1}
    BY <2>3
  <2>5. Noted(m.wire)' = {Len(outbox) + 1}
    BY <2>1, <2>3, <2>4 DEF Noted, Positions
  <2> QED BY <2>5
<1>9. ASSUME NEW c \in m.cats
      PROVE  \E i : Written(<<m.report, c>>, m.wire)' = {i}
  <2> DEFINE f == <<m.report, c>>
  <2>1. f \in Finding /\ f \in batch BY <1>1 DEF Finding
  <2>2. Written(f, m.wire) = {}
    BY <1>1, <1>2, <2>1 DEF BatchInv, UnheardWithoutTrace
  <2>3. events[f] \in Seq(Event) /\ events'[f] = Append(events[f], said)
    BY <1>5, <2>1 DEF TypeOK
  <2> HIDE DEF f
  <2>4. /\ Len(events'[f]) = Len(events[f]) + 1 /\ Len(events[f]) \in Nat
        /\ \A i \in 1..Len(events[f]) : events'[f][i] = events[f][i]
        /\ events'[f][Len(events[f]) + 1] = said
    BY <2>3
  <2>5. 1..Len(events'[f]) = 1..Len(events[f]) \union {Len(events[f]) + 1}
    BY <2>4
  <2>6. Written(f, m.wire)' = {Len(events[f]) + 1}
    BY <2>2, <2>4, <2>5 DEF Written
  <2> QED BY <2>6 DEF f
<1>10. SameBatch'
  BY <1>2, <1>3 DEF BatchInv, SameBatch, Batch
<1>11. UnheardWithoutTrace'
  <2> SUFFICES ASSUME NEW w \in WireId, \A x \in answered' : x.wire # w
               PROVE  /\ Noted(w)' = {}
                      /\ \A f \in Finding : Written(f, w)' = {}
    BY DEF UnheardWithoutTrace
  <2>1. w # m.wire /\ \A x \in answered : x.wire # w BY <1>3
  <2>2. Noted(w) = {} /\ \A f \in Finding : Written(f, w) = {}
    BY <2>1 DEF BatchInv, UnheardWithoutTrace
  <2> QED BY <2>1, <2>2, <1>7
<1>12. HeardOnce'
  <2> SUFFICES ASSUME NEW x \in answered'
               PROVE  /\ \E i : Noted(x.wire)' = {i}
                      /\ \A c \in x.cats :
                           \E i : Written(<<x.report, c>>, x.wire)' = {i}
    BY DEF HeardOnce
  <2>1. CASE x = m BY <2>1, <1>8, <1>9
  <2>2. CASE x \in answered
    <3>1. x.wire \in WireId /\ x.wire # m.wire BY <2>2, <1>2
    <3>2. \A c \in x.cats : <<x.report, c>> \in Finding
      BY <2>2, ResponseFacts DEF TypeOK, Finding
    <3>3. \E i : Noted(x.wire) = {i} BY <2>2 DEF BatchInv, HeardOnce
    <3>4. ASSUME NEW c \in x.cats
          PROVE  \E i : Written(<<x.report, c>>, x.wire)' = {i}
      <4>1. PICK i : Written(<<x.report, c>>, x.wire) = {i}
        BY <2>2 DEF BatchInv, HeardOnce
      <4> QED BY <4>1, <3>1, <3>2, <1>7
    <3> QED BY <3>1, <3>3, <3>4, <1>7
  <2> QED BY <2>1, <2>2, <1>3
<1> QED BY <1>10, <1>11, <1>12 DEF BatchInv
\* A batch heard again in a new envelope leaves no other trace.
LEMMA RepeatedBatchStep ==
  ASSUME BatchInv, TypeOK, NEW m \in Responses, RespondAgain(m)
  PROVE  BatchInv'
<1>1. PICK y \in answered : y.wire = m.wire /\ Batch(y) = Batch(m)
  BY DEF RespondAgain
<1>2. y.report = m.report /\ y.cats = m.cats
  BY <1>1 DEF Batch
<1>3. answered' = answered \union {m} BY DEF RespondAgain
<1>4. \A w : Noted(w)' = Noted(w) /\ \A f : Written(f, w)' = Written(f, w)
  BY DEF RespondAgain, Noted, Positions, Written
<1>5. SameBatch'
  BY <1>1, <1>3 DEF BatchInv, SameBatch, Batch
<1>6. UnheardWithoutTrace'
  BY <1>3, <1>4 DEF BatchInv, UnheardWithoutTrace
<1>7. HeardOnce'
  <2> SUFFICES ASSUME NEW x \in answered'
               PROVE  /\ \E i : Noted(x.wire)' = {i}
                      /\ \A c \in x.cats :
                           \E i : Written(<<x.report, c>>, x.wire)' = {i}
    BY DEF HeardOnce
  <2>1. PICK z \in answered :
          z.wire = x.wire /\ z.report = x.report /\ z.cats = x.cats
    BY <1>1, <1>2, <1>3
  <2>2. \E i : Noted(z.wire) = {i} BY DEF BatchInv, HeardOnce
  <2>3. ASSUME NEW c \in x.cats
        PROVE  \E i : Written(<<x.report, c>>, x.wire)' = {i}
    <3>1. PICK i : Written(<<z.report, c>>, z.wire) = {i}
      BY <2>1 DEF BatchInv, HeardOnce
    <3> QED BY <3>1, <2>1, <1>4
  <2> QED BY <2>1, <2>2, <2>3, <1>4
<1> QED BY <1>5, <1>6, <1>7 DEF BatchInv

\* An analysis adds no trace of a batch.
LEMMA SubmitWithoutBatch ==
  ASSUME BatchInv, TypeInv, NEW m \in Submissions, NEW d \in Decision,
         NEW cats \in SUBSET Category, Submit(m, d, cats)
  PROVE  BatchInv'
<1>1. m.id \in MessageId /\ m.mine \in Mine
  BY MessageAssumption DEF SubmissionType
<1>2. answered' = answered BY DEF Submit
<1>3. TypeOK /\ filed \subseteq Submissions /\ IsFiniteSet(filed)
  BY DEF TypeInv, TypeOK
<1> DEFINE report == Entry("analysis_report_available", m.mine, m.id)
<1>4. report \in Seq(OutboxEntry) /\ Len(report) = 1
      /\ report[1].kind # "response_recorded"
  BY <1>1 DEF Entry, OutboxEntry
<1> HIDE DEF report
<1>5. ASSUME NEW w \in WireId PROVE Noted(w)' = Noted(w)
  <2>1. CASE d = Risk
    <3>1. outbox' = outbox \o report
      BY <2>1 DEF Submit, IssueFindings, report
    <3> QED BY <3>1, <1>3, <1>4, NotedAfter
  <2>2. CASE d # Risk
    <3>1. PICK q \in Orderings(Resolvable(m)) :
            outbox' = outbox \o Notices(q, m.mine) \o report
      BY <2>2 DEF Submit, ResolvePredecessors, report
    <3> DEFINE N == Notices(q, m.mine)
    <3>2. N \in Seq(OutboxEntry)
      BY <1>1, <1>3, ResolvableFinite, NoticesType
    <3>3. \A i \in 1..Len(N) : N[i].kind = "finding_resolved"
      BY <3>2 DEF Notices
    <3>4. outbox \in Seq(OutboxEntry) /\ outbox' = outbox \o N \o report
      BY <3>1, <1>3 DEF TypeOK
    <3> HIDE DEF N
    <3>5. outbox' = outbox \o (N \o report) /\ N \o report \in Seq(OutboxEntry)
      BY <3>2, <3>4, <1>4, ConcatAssociative
    <3>6. ASSUME NEW i \in 1..Len(N \o report)
          PROVE  (N \o report)[i].kind # "response_recorded"
      <4>1. /\ Len(N \o report) = Len(N) + 1 /\ Len(N) \in Nat
            /\ \A k \in 1..Len(N) : (N \o report)[k] = N[k]
            /\ (N \o report)[Len(N) + 1] = report[1]
        BY <3>2, <1>4, OneMore
      <4>2. i \in 1..Len(N) \/ i = Len(N) + 1
        BY <4>1
      <4>3. CASE i \in 1..Len(N)
        BY <4>1, <4>3, <3>3
      <4>4. CASE i = Len(N) + 1
        BY <4>1, <4>4, <1>4
      <4> QED BY <4>2, <4>3, <4>4
    <3> QED BY <3>5, <3>6, <1>3, NotedAfter
  <2> QED BY <2>1, <2>2
<1>6. ASSUME NEW w \in WireId, NEW f \in Finding
      PROVE  Written(f, w)' = Written(f, w)
  <2>1. CASE d = Risk
    <3> DEFINE e == [type |-> "issued", by |-> NoId]
    <3>1. e \in Event /\ e # [type |-> "explanation_recorded", by |-> w]
      BY DEF Event
    <3>2. events'[f] = Append(events[f], e) \/ events'[f] = events[f]
      BY <2>1 DEF Submit, IssueFindings
    <3> HIDE DEF e
    <3> QED BY <3>1, <3>2, <1>3, WrittenAfter
  <2>2. CASE d # Risk
    <3> DEFINE e == [type |-> "resolved_by_revision", by |-> m.id]
    <3>1. e \in Event /\ e # [type |-> "explanation_recorded", by |-> w]
      BY <1>1 DEF Event
    <3>2. events'[f] = Append(events[f], e) \/ events'[f] = events[f]
      BY <2>2 DEF Submit, ResolvePredecessors
    <3> HIDE DEF e
    <3> QED BY <3>1, <3>2, <1>3, WrittenAfter
  <2> QED BY <2>1, <2>2
<1> QED BY <1>2, <1>3, <1>5, <1>6, BatchQuiet

LEMMA BatchStep == ASSUME BatchInv, TypeInv, [Next]_vars PROVE BatchInv'
<1>1. TypeOK BY DEF TypeInv
<1>2. ASSUME NEW m \in Submissions, NEW d \in Decision,
             NEW cats \in SUBSET Category, Submit(m, d, cats)
      PROVE  BatchInv'
  BY <1>2, SubmitWithoutBatch
<1>3. ASSUME NEW m \in Responses, Respond(m) PROVE BatchInv'
  BY <1>1, <1>3, NewBatchStep
<1>4. ASSUME NEW m \in Responses, RespondAgain(m) PROVE BatchInv'
  BY <1>1, <1>4, RepeatedBatchStep
<1>5. CASE answered' = answered /\ events' = events /\ outbox' = outbox
  BY <1>1, <1>5, BatchQuiet DEF Noted, Positions, Written
<1> QED BY <1>2, <1>3, <1>4, <1>5 DEF Next, vars, KeyConflict, Acknowledge,
           PollNext, GetReport

\* However often a batch of explanations is sent again, and in however many
\* envelopes: each finding it explains records it once, and it is announced
\* once.
THEOREM BatchesTakeEffectOnce == Spec => []BatchTakesEffectOnce
<1>1. Init => BatchInv
  <2> SUFFICES ASSUME Init PROVE BatchInv OBVIOUS
  <2>1. answered = {} /\ outbox = <<>> /\ \A f \in Finding : events[f] = <<>>
    BY DEF Init
  <2>2. \A w : Noted(w) = {} BY <2>1 DEF Noted, Positions
  <2>3. \A f \in Finding : \A w : Written(f, w) = {} BY <2>1 DEF Written
  <2> QED BY <2>1, <2>2, <2>3
          DEF BatchInv, SameBatch, UnheardWithoutTrace, HeardOnce
<1>2. BatchInv /\ TypeInv /\ [Next]_vars => BatchInv'
  BY BatchStep
<1>3. BatchInv => BatchTakesEffectOnce
  <2> SUFFICES ASSUME BatchInv, NEW x \in answered
               PROVE  /\ Cardinality(Noted(x.wire)) = 1
                      /\ \A c \in x.cats :
                           Cardinality(Written(<<x.report, c>>, x.wire)) = 1
    BY DEF BatchTakesEffectOnce, BatchInv, SameBatch, Noted, Written
  <2>1. \A S : (\E i : S = {i}) => Cardinality(S) = 1
    BY FS_Singleton
  <2> QED BY <2>1 DEF BatchInv, HeardOnce
<1> QED BY <1>1, <1>2, <1>3, TypeInvariant, PTL DEF Spec
-----------------------------------------------------------------------------
(***************************************************************************)
(* The order of the outbox.  Reports are of filed submissions and notices  *)
(* of resolved findings, so a submission that may be filed has neither;    *)
(* what an analysis appends therefore stands behind all it has to follow.  *)
(***************************************************************************)
ReportsOf(s) == Positions("analysis_report_available", s.id)
NoticesOf(f) == Positions("finding_resolved", f)

EntriesKnown ==
  \A i \in 1..Len(outbox) :
    /\ outbox[i].kind = "analysis_report_available" =>
         \E s \in filed : s.id = outbox[i].ref
    /\ outbox[i].kind = "finding_resolved" =>
         \E f \in Finding : f = outbox[i].ref /\ Resolved(f)

ReportedOnce == \A s \in filed : \E i : ReportsOf(s) = {i}

ResolvedBy(f, t) ==
  \E e \in 1..Len(events[f]) :
    events[f][e] = [type |-> "resolved_by_revision", by |-> t.id]

InOrder ==
  \A s, t \in filed : (SameWorkflow(s, t) /\ s.rev < t.rev) =>
    \A i \in ReportsOf(s), j \in ReportsOf(t) :
      /\ i < j
      /\ \A f \in FindingsOf(s) : \A n \in NoticesOf(f) :
           /\ i < n
           /\ ResolvedBy(f, t) => n < j

OutboxInv == EntriesKnown /\ ReportedOnce /\ InOrder

\* The outbox and the entries an analysis puts behind it: its notices, in
\* front of its report.
Appended(q, m) ==
  /\ outbox' = outbox \o q
  /\ q \in Seq(OutboxEntry) /\ Len(q) >= 1
  /\ q[Len(q)].kind = "analysis_report_available" /\ q[Len(q)].ref = m.id
  /\ \A i \in 1..(Len(q) - 1) : /\ q[i].kind = "finding_resolved"
                                /\ q[i].ref \in Resolvable(m)

LEMMA SubmitAppends ==
  ASSUME FindingInv, NEW m \in Submissions, NEW d \in Decision,
         NEW cats \in SUBSET Category, Submit(m, d, cats)
  PROVE  \E q : Appended(q, m) /\ (d = Risk => Len(q) = 1)
<1>1. m.id \in MessageId /\ m.mine \in Mine
  BY MessageAssumption DEF SubmissionType
<1>2. TypeOK /\ filed \subseteq Submissions /\ IsFiniteSet(filed)
  BY DEF FindingInv, TypeInv, TypeOK
<1> DEFINE report == Entry("analysis_report_available", m.mine, m.id)
<1>3. report \in Seq(OutboxEntry) /\ Len(report) = 1
      /\ report[1].kind = "analysis_report_available" /\ report[1].ref = m.id
  BY <1>1 DEF Entry, OutboxEntry
<1>4. CASE d = Risk
  <2>1. outbox' = outbox \o report
    BY <1>4 DEF Submit, IssueFindings
  <2> HIDE DEF report
  <2>2. Appended(report, m)
    BY <2>1, <1>3 DEF Appended
  <2> QED BY <2>2, <1>3
<1>5. CASE d # Risk
  <2>1. PICK q \in Orderings(Resolvable(m)) :
          outbox' = outbox \o Notices(q, m.mine) \o report
    BY <1>5 DEF Submit, ResolvePredecessors
  <2> DEFINE N == Notices(q, m.mine)
  <2>2. N \in Seq(OutboxEntry) /\ Len(N) \in Nat
    <3>1. N \in Seq(OutboxEntry)
      BY <1>1, <1>2, ResolvableFinite, NoticesType
    <3> HIDE DEF N
    <3> QED BY <3>1
  <2>3. \A i \in 1..Len(N) : N[i].kind = "finding_resolved"
                             /\ N[i].ref \in Resolvable(m)
    <3>1. q \in [1..Cardinality(Resolvable(m)) -> Resolvable(m)]
      BY DEF Orderings
    <3>2. Cardinality(Resolvable(m)) \in Nat
      BY <1>2, ResolvableFinite, FS_CardinalityType
    <3>3. Len(N) = Cardinality(Resolvable(m))
      BY <3>1, <3>2 DEF Notices
    <3> QED BY <3>1, <3>3 DEF Notices
  <2>4. outbox \in Seq(OutboxEntry) /\ outbox' = outbox \o N \o report
    BY <2>1, <1>2 DEF TypeOK
  <2> HIDE DEF N, report
  <2>5. outbox' = outbox \o (N \o report)
    BY <2>2, <2>4, <1>3, ConcatAssociative
  <2>6. /\ N \o report \in Seq(OutboxEntry)
        /\ Len(N \o report) = Len(N) + 1
        /\ (N \o report)[Len(N) + 1] = report[1]
        /\ \A i \in 1..Len(N) : (N \o report)[i] = N[i]
    <3>1. /\ N \o report \in Seq(OutboxEntry)
          /\ Len(N \o report) = Len(N) + 1
      <4>1. N \o report \in Seq(OutboxEntry)
        BY <2>2, <1>3, ConcatProperties
      <4>2. Len(N \o report) = Len(N) + Len(report)
        BY <2>2, <1>3, ConcatProperties
      <4> QED BY <4>1, <4>2, <1>3
    <3>2. \A i \in 1..(Len(N) + 1) :
            (N \o report)[i] = IF i <= Len(N) THEN N[i] ELSE report[i - Len(N)]
      <4>1. \A i \in 1..Len(N) + Len(report) :
              (N \o report)[i]
                = IF i <= Len(N) THEN N[i] ELSE report[i - Len(N)]
        BY <2>2, <1>3, ConcatProperties
      <4> QED BY <4>1, <1>3
    <3> QED BY <2>2, <3>1, <3>2
  <2>7. Appended(N \o report, m)
    BY <2>2, <2>3, <2>5, <2>6, <1>3 DEF Appended
  <2> QED BY <2>7, <1>5
<1> QED BY <1>4, <1>5
\* An event that is not of t's analysis leaves alone what t resolved.
LEMMA ResolvedBySame ==
  ASSUME TypeOK, NEW f \in Finding, NEW e \in Event, NEW t,
         events'[f] = Append(events[f], e) \/ events'[f] = events[f],
         e # [type |-> "resolved_by_revision", by |-> t.id]
  PROVE  ResolvedBy(f, t)' <=> ResolvedBy(f, t)
<1>1. events[f] \in Seq(Event) BY DEF TypeOK
<1>2. CASE events'[f] = Append(events[f], e)
  <2>1. Len(events'[f]) = Len(events[f]) + 1 BY <1>1, <1>2
  <2>2. \A i \in 1..Len(events[f]) : events'[f][i] = events[f][i] BY <1>1, <1>2
  <2>3. events'[f][Len(events[f]) + 1] = e BY <1>1, <1>2
  <2>4. 1..Len(events'[f]) = 1..Len(events[f]) \union {Len(events[f]) + 1}
    BY <1>1, <2>1
  <2> QED BY <2>2, <2>3, <2>4 DEF ResolvedBy
<1>3. CASE events'[f] = events[f] BY <1>3 DEF ResolvedBy
<1> QED BY <1>2, <1>3

\* What an analysis does to the logs of findings.
LEMMA SubmitLogs ==
  ASSUME FindingInv, NEW m \in Submissions, NEW d \in Decision,
         NEW cats \in SUBSET Category, Submit(m, d, cats), NEW f \in Finding
  PROVE  /\ Resolved(f) \/ (d # Risk /\ f \in Resolvable(m)) => Resolved(f)'
         /\ f[1] # m.id /\ Issued(f)' => Issued(f)
         /\ \A t \in filed : ResolvedBy(f, t)' <=> ResolvedBy(f, t)
<1>1. TypeOK /\ TypeInv /\ events[f] \in Seq(Event)
  BY DEF FindingInv, TypeInv, TypeOK
<1>2. m.id \in MessageId /\ \A s \in filed : s.id # m.id
  BY SubmissionFacts DEF Submit, IdFree, inbox
<1>3. CASE d = Risk
  <2> DEFINE x == [type |-> "issued", by |-> NoId]
  <2>1. x \in Event /\ \A i : x # [type |-> "resolved_by_revision", by |-> i]
    BY DEF Event
  <2>2. events'[f] = Append(events[f], x) \/ events'[f] = events[f]
    BY <1>3 DEF Submit, IssueFindings
  <2>3. f[1] # m.id => events'[f] = events[f]
    BY <1>3 DEF Submit, IssueFindings
  <2> HIDE DEF x
  <2>4. Resolved(f) => Resolved(f)'
    BY <1>1, <2>2, HasEventStep, HasEventSame DEF Resolved
  <2> QED BY <1>1, <1>3, <2>1, <2>2, <2>3, <2>4, ResolvedBySame, HasEventSame
          DEF Issued
<1>4. CASE d # Risk
  <2> DEFINE x == [type |-> "resolved_by_revision", by |-> m.id]
  <2>1. /\ x \in Event /\ x.type # "issued" /\ x.type = "resolved_by_revision"
        /\ \A t \in filed : x # [type |-> "resolved_by_revision", by |-> t.id]
    BY <1>2 DEF Event
  <2>2. events'[f] = Append(events[f], x) \/ events'[f] = events[f]
    BY <1>4 DEF Submit, ResolvePredecessors
  <2>5. f \in Resolvable(m) => events'[f] = Append(events[f], x)
    BY <1>4 DEF Submit, ResolvePredecessors
  <2> HIDE DEF x
  <2>3. Resolved(f) \/ f \in Resolvable(m) => Resolved(f)'
    BY <1>1, <2>1, <2>2, <2>5, HasEventStep, HasEventSame DEF Resolved
  <2>4. Issued(f)' => Issued(f)
    BY <1>1, <2>1, <2>2, HasEventStep, HasEventSame DEF Issued
  <2> QED BY <1>1, <2>1, <2>2, <2>3, <2>4, ResolvedBySame
<1> QED BY <1>3, <1>4

LEMMA ResolvableFacts ==
  ASSUME FindingInv, NEW m, NEW f \in Resolvable(m)
  PROVE  f \in Finding /\ events[f] # <<>> /\ ~ Resolved(f)
<1>1. PICK a \in filed : f \in FindingsOf(a) /\ ~ Resolved(f)
  BY DEF Resolvable, Lineage
<1>2. a \in Submissions
  BY DEF FindingInv, ChainInv
<1> QED BY <1>1, <1>2, FindingsAreFindings, HasEventNonempty DEF Issued

LEMMA SubmitInOrder ==
  ASSUME OutboxInv, FindingInv, NEW m \in Submissions, NEW d \in Decision,
         NEW cats \in SUBSET Category, Submit(m, d, cats)
  PROVE  OutboxInv'
<1>1. Fileable(m) /\ filed' = filed \union {m} /\ m.id \in MessageId
      /\ \A s \in filed : s.id # m.id
  BY SubmissionFacts DEF Submit, Fileable, IdFree, inbox
<1>2. PICK q : Appended(q, m) /\ (d = Risk => Len(q) = 1)
  BY SubmitAppends
<1>3. PICK L \in Nat, K \in Nat \ {0} : L = Len(outbox) /\ K = Len(q)
  <2>1. outbox \in Seq(OutboxEntry) BY DEF FindingInv, TypeInv, TypeOK
  <2> QED BY <2>1, <1>2 DEF Appended
<1>4. /\ Len(outbox') = L + K
      /\ \A i \in 1..(L + K) :
           outbox'[i] = IF i <= L THEN outbox[i] ELSE q[i - L]
  <2>1. outbox \in Seq(OutboxEntry) BY DEF FindingInv, TypeInv, TypeOK
  <2>2. q \in Seq(OutboxEntry) /\ outbox' = outbox \o q BY <1>2 DEF Appended
  <2> QED BY <2>1, <2>2, <1>3, ConcatProperties
<1>5. \A i \in 1..L : i \in 1..(L + K) /\ outbox'[i] = outbox[i]
  BY <1>3, <1>4
<1>6. L + K \in 1..(L + K) /\ L + K > L
      /\ outbox'[L + K].kind = "analysis_report_available"
      /\ outbox'[L + K].ref = m.id
  <2>1. ~ (L + K <= L) /\ (L + K) - L = K /\ L + K \in 1..(L + K)
    BY <1>3
  <2>2. outbox'[L + K] = q[K]
    BY <2>1, <1>4
  <2> QED BY <2>1, <2>2, <1>2, <1>3 DEF Appended
<1>7. ASSUME NEW i \in 1..(L + K), i \notin 1..L, i # L + K
      PROVE  /\ i \in (L + 1)..(L + K - 1) /\ d # Risk
             /\ outbox'[i].kind = "finding_resolved"
             /\ outbox'[i].ref \in Resolvable(m)
  <2>1. /\ i \in (L + 1)..(L + K - 1) /\ ~ (i <= L) /\ i - L \in 1..(K - 1)
        /\ K # 1
    BY <1>3, <1>7
  <2>2. outbox'[i] = q[i - L]
    BY <2>1, <1>4
  <2> QED BY <2>1, <2>2, <1>2, <1>3 DEF Appended
<1>8. ASSUME NEW s \in filed PROVE ReportsOf(s)' = ReportsOf(s)
  <2>1. \A i \in 1..(L + K) : i \notin 1..L =>
          ~ (outbox'[i].kind = "analysis_report_available" /\ outbox'[i].ref = s.id)
    BY <1>1, <1>6, <1>7
  <2> QED BY <2>1, <1>3, <1>4, <1>5 DEF ReportsOf, Positions
<1>9. ReportsOf(m)' = {L + K}
  <2>1. \A i \in 1..L :
          ~ (outbox[i].kind = "analysis_report_available" /\ outbox[i].ref = m.id)
    BY <1>1, <1>3 DEF OutboxInv, EntriesKnown
  <2>2. \A i \in 1..(L + K) : i # L + K =>
          ~ (outbox'[i].kind = "analysis_report_available" /\ outbox'[i].ref = m.id)
    BY <2>1, <1>5, <1>7
  <2> QED BY <2>2, <1>4, <1>6 DEF ReportsOf, Positions
<1>10. ASSUME NEW f \in Finding, NEW n, n \in NoticesOf(f)'
       PROVE  \/ n \in NoticesOf(f)
              \/ n \in (L + 1)..(L + K - 1) /\ f \in Resolvable(m)
  <2>1. n \in 1..(L + K) /\ outbox'[n].kind = "finding_resolved"
        /\ outbox'[n].ref = f
    BY <1>4, <1>10 DEF NoticesOf, Positions
  <2>2. CASE n \in 1..L
    BY <2>1, <2>2, <1>3, <1>5 DEF NoticesOf, Positions
  <2>3. CASE n \notin 1..L
    BY <2>1, <2>3, <1>6, <1>7
  <2> QED BY <2>2, <2>3
<1>11. EntriesKnown'
  <2> SUFFICES ASSUME NEW i \in 1..(L + K)
               PROVE  /\ outbox'[i].kind = "analysis_report_available" =>
                           \E s \in filed' : s.id = outbox'[i].ref
                      /\ outbox'[i].kind = "finding_resolved" =>
                           \E f \in Finding : f = outbox'[i].ref /\ Resolved(f)'
    BY <1>4 DEF EntriesKnown
  <2>1. CASE i \in 1..L
    BY <2>1, <1>1, <1>3, <1>5, SubmitLogs DEF OutboxInv, EntriesKnown
  <2>2. CASE i = L + K
    BY <2>2, <1>1, <1>6
  <2>3. CASE i \notin 1..L /\ i # L + K
    BY <2>3, <1>7, ResolvableFacts, SubmitLogs
  <2> QED BY <2>1, <2>2, <2>3
<1>12. ReportedOnce'
  BY <1>1, <1>8, <1>9 DEF OutboxInv, ReportedOnce, ReportsOf
<1>13. InOrder'
  <2> SUFFICES ASSUME NEW s \in filed', NEW t \in filed',
                      SameWorkflow(s, t), s.rev < t.rev,
                      NEW i, i \in ReportsOf(s)', NEW j, j \in ReportsOf(t)'
               PROVE  /\ i < j
                      /\ \A f \in FindingsOf(s)' : \A n \in NoticesOf(f)' :
                           /\ i < n
                           /\ ResolvedBy(f, t)' => n < j
    BY DEF InOrder, SameWorkflow, ReportsOf
  <2>1. s \in filed
    <3>1. s = m => t \in filed /\ SameWorkflow(t, m)
      BY <1>1, SubmissionFacts DEF SameWorkflow
    <3>2. \A x \in filed : SameWorkflow(x, m) => x.rev < m.rev
      BY <1>1, FileableIsLast DEF FindingInv
    <3>3. m.rev \in Nat /\ \A x \in filed : x.rev \in Nat
      BY SubmissionFacts DEF FindingInv, ChainInv
    <3> QED BY <1>1, <3>1, <3>2, <3>3
  <2>2. s \in Submissions /\ i \in ReportsOf(s) /\ i \in 1..L
    BY <2>1, <1>3, <1>8 DEF FindingInv, ChainInv, ReportsOf, Positions
  <2>3. ASSUME NEW f, f \in FindingsOf(s)'
        PROVE  f \in Finding /\ f \in FindingsOf(s)
    <3>1. f \in {s.id} \X Category /\ Issued(f)'
      BY <2>3 DEF FindingsOf
    <3>2. f \in Finding /\ f[1] # m.id
      BY <1>1, <2>1, <2>2, <3>1, SubmissionFacts DEF Finding
    <3> QED BY <3>1, <3>2, SubmitLogs DEF FindingsOf
  <2>4. CASE t \in filed
    <3>1. j \in ReportsOf(t)
      BY <2>4, <1>8
    <3>2. i < j
      BY <2>1, <2>2, <2>4, <3>1 DEF OutboxInv, InOrder
    <3>3. ASSUME NEW f, f \in FindingsOf(s)', NEW n, n \in NoticesOf(f)'
          PROVE  i < n /\ (ResolvedBy(f, t)' => n < j)
      <4>1. f \in Finding /\ f \in FindingsOf(s)
        BY <2>3, <3>3
      <4>2. ResolvedBy(f, t)' <=> ResolvedBy(f, t)
        BY <2>4, <4>1, SubmitLogs
      <4>3. CASE n \in NoticesOf(f)
        BY <2>1, <2>2, <2>4, <3>1, <4>1, <4>2, <4>3 DEF OutboxInv, InOrder
      <4>4. CASE n \in (L + 1)..(L + K - 1) /\ f \in Resolvable(m)
        <5>1. ~ ResolvedBy(f, t)
          BY <4>4, ResolvableFacts DEF Resolved, HasEvent, ResolvedBy
        <5> QED BY <2>2, <4>2, <4>4, <5>1, <1>3
      <4> QED BY <3>3, <4>1, <4>3, <4>4, <1>10
    <3> QED BY <3>2, <3>3
  <2>5. CASE t = m
    <3>1. j = L + K
      BY <2>5, <1>9
    <3>2. ASSUME NEW f, f \in FindingsOf(s)', NEW n, n \in NoticesOf(f)'
          PROVE  i < n /\ n < j
      <4>1. f \in Finding /\ f \in FindingsOf(s)
        BY <2>3, <3>2
      <4>2. CASE n \in NoticesOf(f)
        <5>1. n \in 1..L /\ Resolved(f)
          BY <4>2, <1>3 DEF NoticesOf, Positions, OutboxInv, EntriesKnown
        <5>2. PICK x \in filed : SameWorkflow(x, s) /\ x.rev > s.rev
          BY <5>1, <4>1, <2>1 DEF FindingInv, ClearedWithoutRisk
        <5>3. PICK k \in ReportsOf(x) : TRUE
          BY DEF OutboxInv, ReportedOnce
        <5>4. SameWorkflow(s, x) /\ s.rev < x.rev
          <6>1. s.rev \in Nat /\ x.rev \in Nat
            BY <2>2, SubmissionFacts DEF FindingInv, ChainInv
          <6> QED BY <6>1, <5>2 DEF SameWorkflow
        <5>5. i < n
          BY <2>1, <2>2, <4>1, <4>2, <5>3, <5>4 DEF OutboxInv, InOrder
        <5> QED BY <5>1, <5>5, <3>1, <1>3
      <4>3. CASE n \in (L + 1)..(L + K - 1)
        BY <4>3, <3>1, <2>2, <1>3
      <4> QED BY <3>2, <4>1, <4>2, <4>3, <1>10
    <3> QED BY <3>1, <3>2, <2>2, <1>3
  <2> QED BY <2>4, <2>5, <1>1
<1> QED BY <1>11, <1>12, <1>13 DEF OutboxInv
\* Nor does anything else put an entry where it may not stand.
LEMMA OthersInOrder ==
  ASSUME OutboxInv, FindingInv, filed' = filed,
         \A i \in 1..Len(outbox') :
           \/ i \in 1..Len(outbox) /\ outbox'[i] = outbox[i]
           \/ outbox'[i].kind = "response_recorded",
         \A i \in 1..Len(outbox) : i \in 1..Len(outbox') /\ outbox'[i] = outbox[i],
         \A f \in Finding : /\ Issued(f)' <=> Issued(f)
                            /\ Resolved(f)' <=> Resolved(f)
                            /\ \A t : ResolvedBy(f, t)' <=> ResolvedBy(f, t)
  PROVE  OutboxInv'
<1>1. \A s : ReportsOf(s)' = ReportsOf(s)
  BY DEF ReportsOf, Positions
<1>2. \A f : NoticesOf(f)' = NoticesOf(f)
  BY DEF NoticesOf, Positions
<1>3. ASSUME NEW s \in filed
      PROVE  FindingsOf(s)' = FindingsOf(s) /\ FindingsOf(s) \subseteq Finding
  <2>1. s.id \in MessageId
    BY SubmissionFacts DEF FindingInv, ChainInv
  <2>2. {s.id} \X Category \subseteq Finding
    BY <2>1 DEF Finding
  <2> QED BY <2>2 DEF FindingsOf
<1>4. EntriesKnown'
  BY DEF OutboxInv, EntriesKnown
<1>5. ReportedOnce'
  BY <1>1 DEF OutboxInv, ReportedOnce
<1>6. InOrder'
  <2> SUFFICES ASSUME NEW s \in filed, NEW t \in filed,
                      SameWorkflow(s, t), s.rev < t.rev,
                      NEW i \in ReportsOf(s), NEW j \in ReportsOf(t)
               PROVE  /\ i < j
                      /\ \A f \in FindingsOf(s)' : \A n \in NoticesOf(f)' :
                           /\ i < n
                           /\ ResolvedBy(f, t)' => n < j
    BY <1>1 DEF InOrder, SameWorkflow
  <2>1. /\ i < j
        /\ \A f \in FindingsOf(s) : \A n \in NoticesOf(f) :
             i < n /\ (ResolvedBy(f, t) => n < j)
    BY DEF OutboxInv, InOrder
  <2> QED BY <2>1, <1>2, <1>3
<1> QED BY <1>4, <1>5, <1>6 DEF OutboxInv

LEMMA OutboxStep ==
  ASSUME OutboxInv, FindingInv, [Next]_vars
  PROVE  OutboxInv'
<1>1. outbox \in Seq(OutboxEntry) /\ TypeOK
  BY DEF FindingInv, TypeInv, TypeOK
<1>2. ASSUME NEW m \in Responses, Respond(m) PROVE OutboxInv'
  <2> DEFINE x == [type |-> "explanation_recorded", by |-> m.wire]
             e == [kind |-> "response_recorded", mine |-> m.mine, ref |-> m.wire]
  <2>1. x \in Event /\ \A i : x # [type |-> "resolved_by_revision", by |-> i]
    BY ResponseFacts DEF Event
  <2>2. \A f \in Finding : events'[f] = Append(events[f], x) \/ events'[f] = events[f]
    BY <1>2 DEF Respond
  <2>3. outbox' = Append(outbox, e) /\ e.kind = "response_recorded"
    <3>1. outbox' = outbox \o <<e>>
      BY <1>2 DEF Respond, Entry
    <3>2. \A s \in Seq(OutboxEntry) : s \o <<e>> = Append(s, e)
      <4> HIDE DEF e
      <4> QED BY AppendIsConcat
    <3> QED BY <3>1, <3>2, <1>1
  <2> HIDE DEF x, e
  <2>4. \A f \in Finding : \A t : ResolvedBy(f, t)' <=> ResolvedBy(f, t)
    BY <2>1, <2>2, <1>1, ResolvedBySame
  <2>5. filed' = filed
    BY <1>2 DEF Respond
  <2>6. /\ Len(outbox') = Len(outbox) + 1 /\ Len(outbox) \in Nat
        /\ outbox'[Len(outbox) + 1] = e
        /\ \A i \in 1..Len(outbox) : outbox'[i] = outbox[i]
    BY <2>3, <1>1
  <2>7. \A i \in 1..Len(outbox') : i \in 1..Len(outbox) \/ i = Len(outbox) + 1
    BY <2>6
  <2>8. \A i \in 1..Len(outbox) : i \in 1..Len(outbox')
    BY <2>6
  <2> QED BY <1>2, <2>3, <2>4, <2>5, <2>6, <2>7, <2>8, RespondQuiet, OthersInOrder
<1>3. CASE filed' = filed /\ events' = events /\ outbox' = outbox
  <2>1. \A f, t : ResolvedBy(f, t)' <=> ResolvedBy(f, t)
    BY <1>3 DEF ResolvedBy
  <2> QED BY <1>3, <2>1, QuietSame, OthersInOrder
<1> QED BY <1>2, <1>3, SubmitInOrder DEF Next, vars, KeyConflict, RespondAgain,
           Acknowledge, PollNext, GetReport

\* A mine that reads its outbox by cursor meets its workflows in order, for
\* workflows of any length: every submission is reported once and after its
\* predecessors, and the notice that a finding is resolved comes after the
\* report that opened it and before the report that resolved it.
THEOREM OutboxIsInLineageOrder == Spec => []OutboxFollowsLineage
<1>1. Init => OutboxInv
  <2> SUFFICES ASSUME Init PROVE OutboxInv OBVIOUS
  <2>1. filed = {} /\ 1..Len(outbox) = {}
    BY DEF Init
  <2> QED BY <2>1 DEF OutboxInv, EntriesKnown, ReportedOnce, InOrder
<1>2. OutboxInv /\ FindingInv /\ [Next]_vars => OutboxInv'
  BY OutboxStep
<1>3. OutboxInv => OutboxFollowsLineage
  <2> SUFFICES ASSUME OutboxInv PROVE OutboxFollowsLineage OBVIOUS
  <2>1. \A S : (\E i : S = {i}) => Cardinality(S) = 1
    BY FS_Singleton
  <2>2. \A s \in filed : Cardinality(ReportsOf(s)) = 1
    BY <2>1 DEF OutboxInv, ReportedOnce
  <2> QED BY <2>2 DEF OutboxInv, InOrder, OutboxFollowsLineage, ReportsOf,
             NoticesOf, ResolvedBy
<1> QED BY <1>1, <1>2, <1>3, FindingInvariant, PTL DEF Spec
=============================================================================
