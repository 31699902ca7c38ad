------------------------- MODULE StoreLedgerProofs -------------------------
(***************************************************************************)
(* The store implements the ledger, for every set of mines, messages, keys *)
(* periods and categories.                                                 *)
(***************************************************************************)
EXTENDS StoreImplementsLedger, RegulatoryStoreProofs

-----------------------------------------------------------------------------
(***************************************************************************)
(* The state that get_finding folds is read off the log: it is cleared     *)
(* when the log holds a resolution, whatever follows.                      *)
(***************************************************************************)
LEMMA ClearedByResolution ==
  ASSUME NEW log \in Seq(Event)
  PROVE  StateAfter(log) = "cleared_by_reanalysis"
           <=> \E i \in 1..Len(log) : log[i].type = "resolved_by_revision"
<1> DEFINE
      said(n, kind) == \E i \in 1..n : log[i].type = kind
      next(g, n) ==
        IF n = 0 THEN "open"
        ELSE IF log[n].type = "explanation_recorded" /\ g[n - 1] = "open"
             THEN "explanation_recorded"
             ELSE IF log[n].type = "resolved_by_revision"
                  THEN "cleared_by_reanalysis"
                  ELSE g[n - 1]
      direct == [n \in 0..Len(log) |->
                   IF said(n, "resolved_by_revision")
                   THEN "cleared_by_reanalysis"
                   ELSE IF said(n, "explanation_recorded")
                        THEN "explanation_recorded" ELSE "open"]
      after == CHOOSE g : g = [n \in 0..Len(log) |-> next(g, n)]
<1>1. Len(log) \in Nat
  OBVIOUS
<1>2. StateAfter(log) = after[Len(log)]
  BY DEF StateAfter
<1>3. direct = [n \in 0..Len(log) |-> next(direct, n)]
  <2> SUFFICES ASSUME NEW n \in 0..Len(log) PROVE direct[n] = next(direct, n)
    OBVIOUS
  <2>1. CASE n = 0
    BY <2>1, <1>1
  <2>2. CASE n # 0
    <3>1. n - 1 \in 0..Len(log) /\ n \in 1..Len(log)
      BY <2>2, <1>1
    <3>2. 1..n = 1..(n - 1) \union {n}
      BY <3>1, <1>1
    <3>3. \A kind : said(n, kind) <=> said(n - 1, kind) \/ log[n].type = kind
      BY <3>2
    <3> HIDE DEF said
    <3> QED BY <2>2, <3>1, <3>3
  <2> QED BY <2>1, <2>2
<1>4. after = [n \in 0..Len(log) |-> next(after, n)]
  <2> HIDE DEF direct, next
  <2> QED BY <1>3
<1> HIDE DEF after
<1> DEFINE Wrong == {n \in 0..Len(log) :
                       ~ (after[n] = "cleared_by_reanalysis"
                            <=> said(n, "resolved_by_revision"))}
<1>5. ASSUME Wrong # {} PROVE FALSE
  <2>1. PICK n \in Wrong : \A y \in Wrong : n <= y
    <3>1. Wrong \in SUBSET Nat
      BY <1>1
    <3> HIDE DEF Wrong
    <3> QED BY <3>1, <1>5, LeastNatural
  <2>2. n # 0
    BY <2>1, <1>1, <1>4
  <2>3. n - 1 \in 0..Len(log) /\ n - 1 \notin Wrong
    <3> HIDE DEF said
    <3> QED BY <2>1, <2>2, <1>1
  <2>4. 1..n = 1..(n - 1) \union {n}
    BY <2>1, <2>2, <1>1
  <2>5. said(n, "resolved_by_revision")
          <=> said(n - 1, "resolved_by_revision")
              \/ log[n].type = "resolved_by_revision"
    BY <2>4
  <2>6. after[n] = next(after, n)
    <3> HIDE DEF next, said
    <3> QED BY <1>4, <2>1
  <2> HIDE DEF said
  <2> QED BY <2>1, <2>2, <2>3, <2>5, <2>6
<1>6. Len(log) \notin Wrong /\ Len(log) \in 0..Len(log)
  BY <1>1, <1>5
<1> QED BY <1>2, <1>6
\* So it is open until a resolution is recorded for it.
LEMMA OpenUnlessResolved ==
  ASSUME TypeOK, NEW f \in Finding
  PROVE  Open(f) <=> ~ Resolved(f)
<1>1. events[f] \in Seq(Event)
  BY DEF TypeOK
<1> QED BY <1>1, ClearedByResolution DEF Open, FindingState, Resolved, HasEvent

LEMMA OpenUnlessResolvedNext ==
  ASSUME TypeOK', NEW f \in Finding
  PROVE  Open(f)' <=> ~ Resolved(f)'
<1>1. events'[f] \in Seq(Event)
  BY DEF TypeOK
<1> QED BY <1>1, ClearedByResolution DEF Open, FindingState, Resolved, HasEvent

-----------------------------------------------------------------------------
(***************************************************************************)
(* The revisions of a workflow are counted: those accepted so far are 1 to *)
(* their number, and so the next one is its successor.                     *)
(***************************************************************************)
Counted ==
  \A wf \in Workflows :
    {s.rev : s \in RevisionsOf(wf)} = 1..Cardinality(RevisionsOf(wf))

LEMMA RevisionsFinite ==
  ASSUME TypeInv, NEW wf
  PROVE  /\ IsFiniteSet(RevisionsOf(wf))
         /\ Cardinality(RevisionsOf(wf)) \in Nat
<1>1. RevisionsOf(wf) \subseteq filed
  BY DEF RevisionsOf
<1>2. IsFiniteSet(RevisionsOf(wf))
  BY <1>1, FS_Subset DEF TypeInv
<1> QED BY <1>2, FS_CardinalityType

\* A revision that may be filed is the next one of its workflow.
LEMMA FileableIsNext ==
  ASSUME TypeInv, ChainInv, Counted, NEW m \in Submissions, Fileable(m)
  PROVE  m.rev = Cardinality(RevisionsOf(m.corr)) + 1
<1> DEFINE R == RevisionsOf(m.corr)
           n == Cardinality(R)
<1>1. n \in Nat
  BY RevisionsFinite
<1>2. {s.rev : s \in R} = 1..n
  BY DEF Counted, Workflows
<1>3. m.rev \in Nat \ {0} /\ \A s \in filed : s.rev \in Nat \ {0}
  BY SubmissionFacts DEF ChainInv
<1>4. \A s \in R : s \in filed /\ SameWorkflow(s, m)
  BY DEF RevisionsOf, SameWorkflow
<1> HIDE DEF n
<1>5. CASE m.rev = 1
  <2>1. R = {}
    BY <1>5, <1>4, FileableIsLast
  <2>2. 1..n = {}
    BY <1>2, <2>1
  <2> QED BY <1>1, <1>5, <2>2 DEF n
<1>6. CASE m.rev > 1
  <2>1. PICK p \in filed : Continues(m, p)
    BY <1>6, FileableContinues
  <2>2. p \in R /\ m.rev = p.rev + 1
    BY <2>1 DEF Continues, RevisionsOf
  <2>3. p.rev \in 1..n
    BY <1>2, <2>2
  <2>4. ASSUME p.rev # n PROVE FALSE
    <3>1. n \in 1..n /\ n > p.rev
      BY <1>1, <2>3, <2>4
    <3>2. PICK s \in R : s.rev = n
      BY <1>2, <3>1
    <3>3. s.rev < m.rev
      BY <1>4, FileableIsLast
    <3> QED BY <1>1, <2>2, <2>3, <3>1, <3>2, <3>3
  <2> QED BY <2>2, <2>4 DEF n
<1> QED BY <1>3, <1>5, <1>6

LEMMA RevisionsGrow ==
  ASSUME NEW m, filed' = filed \union {m}
  PROVE  \A wf : RevisionsOf(wf)' = IF wf = m.corr
                                    THEN RevisionsOf(wf) \union {m}
                                    ELSE RevisionsOf(wf)
  BY DEF RevisionsOf

LEMMA CountGrows ==
  ASSUME TypeInv, NEW m, m \notin filed, filed' = filed \union {m}
  PROVE  Cardinality(RevisionsOf(m.corr))' = Cardinality(RevisionsOf(m.corr)) + 1
<1>1. m \notin RevisionsOf(m.corr)
  BY DEF RevisionsOf
<1>2. RevisionsOf(m.corr)' = RevisionsOf(m.corr) \union {m}
  BY RevisionsGrow
<1>3. Cardinality(RevisionsOf(m.corr) \union {m})
        = Cardinality(RevisionsOf(m.corr)) + 1
  BY <1>1, RevisionsFinite, FS_AddElement
<1> QED BY <1>2, <1>3

LEMMA CountedStep ==
  ASSUME TypeInv, ChainInv, Counted, [Next]_vars
  PROVE  Counted'
<1>1. CASE filed' = filed
  BY <1>1 DEF Counted, RevisionsOf
<1>2. ASSUME NEW m \in Submissions, Fileable(m), filed' = filed \union {m}
      PROVE  Counted'
  <2>1. m \notin filed
    BY <1>2 DEF Fileable, IdFree, inbox
  <2> DEFINE n == Cardinality(RevisionsOf(m.corr))
  <2>2. n \in Nat /\ m.rev = n + 1 /\ Cardinality(RevisionsOf(m.corr))' = n + 1
    BY <1>2, <2>1, RevisionsFinite, FileableIsNext, CountGrows
  <2>3. {s.rev : s \in RevisionsOf(m.corr)} = 1..n
    BY DEF Counted, Workflows
  <2>4. RevisionsOf(m.corr)' = RevisionsOf(m.corr) \union {m}
    BY <1>2, RevisionsGrow
  <2> HIDE DEF n
  <2>5. {s.rev : s \in RevisionsOf(m.corr)'} = 1..n \union {n + 1}
    BY <2>2, <2>3, <2>4
  <2>6. 1..n \union {n + 1} = 1..(n + 1)
    BY <2>2
  <2>7. ASSUME NEW wf \in Workflows
        PROVE  {s.rev : s \in RevisionsOf(wf)'} = 1..Cardinality(RevisionsOf(wf)')
    <3>1. CASE wf = m.corr
      BY <3>1, <2>2, <2>5, <2>6
    <3>2. CASE wf # m.corr
      <4>1. RevisionsOf(wf)' = RevisionsOf(wf)
        BY <3>2, <1>2, RevisionsGrow
      <4> QED BY <4>1 DEF Counted
    <3> QED BY <3>1, <3>2
  <2> QED BY <2>7 DEF Counted
<1> QED BY <1>1, <1>2, StepOfFiled

\* What the ledger reads needs no more than this.
LedgerInv == FindingInv /\ Counted

LEMMA LedgerInvariant == Spec => []LedgerInv
<1>1. Init => Counted
  <2> SUFFICES ASSUME Init PROVE Counted OBVIOUS
  <2>1. \A wf : RevisionsOf(wf) = {}
    BY DEF Init, RevisionsOf
  <2>2. Cardinality({}) = 0
    BY FS_EmptySet
  <2> QED BY <2>1, <2>2 DEF Counted
<1>2. FindingInv /\ Counted /\ [Next]_vars => Counted'
  BY CountedStep DEF FindingInv
<1> QED BY <1>1, <1>2, FindingInvariant, PTL DEF Spec, LedgerInv
-----------------------------------------------------------------------------
(***************************************************************************)
(* The history: an analysis appends its decision to that of its workflow.  *)
(***************************************************************************)
\* Revisions of a workflow have different numbers, so one is read off its own.
LEMMA RunOfRevision ==
  ASSUME ChainInv, NEW wf, NEW s \in RevisionsOf(wf)
  PROVE  RunOf(wf, s.rev) = run[s.id]
<1>1. \A x \in RevisionsOf(wf) : x.rev = s.rev => x = s
  BY DEF RevisionsOf, ChainInv, LinearWorkflow, SameWorkflow
<1> QED BY <1>1 DEF RunOf

LEMMA RunOfRevisionNext ==
  ASSUME ChainInv', NEW wf, NEW s, s \in RevisionsOf(wf)'
  PROVE  RunOf(wf, s.rev)' = run'[s.id]
<1>1. \A x \in RevisionsOf(wf)' : x.rev = s.rev => x = s
  BY DEF RevisionsOf, ChainInv, LinearWorkflow, SameWorkflow
<1> QED BY <1>1 DEF RunOf

\* What every analysis changes.
LEMMA Analysed ==
  ASSUME LedgerInv, NEW m \in Submissions, NEW d \in Decision,
         NEW cats \in SUBSET Category, Submit(m, d, cats)
  PROVE  /\ Fileable(m) /\ filed' = filed \union {m} /\ m.id \in MessageId
         /\ m \notin filed /\ run'[m.id] = d
         /\ \A s \in filed : s.id # m.id /\ run'[s.id] = run[s.id]
         /\ \A f \in Finding : f[1] = m.id => events[f] = <<>>
<1>1. Fileable(m) /\ filed' = filed \union {m} /\ m.id \in MessageId
  BY SubmissionFacts DEF Submit, Fileable
<1>2. run' = [run EXCEPT ![m.id] = d] /\ run \in [MessageId -> Decision \union {NoRun}]
  BY DEF Submit, LedgerInv, FindingInv, TypeInv, TypeOK
<1>3. /\ \A s \in filed : s.id # m.id
      /\ \A f \in Finding : f[1] = m.id => events[f] = <<>>
  BY <1>1, FileableIsNew DEF LedgerInv
<1>4. \A s \in filed : s.id \in MessageId
  BY SubmissionFacts DEF LedgerInv, FindingInv, ChainInv
<1> QED BY <1>1, <1>2, <1>3, <1>4

LEMMA HistoryStep ==
  ASSUME LedgerInv, ChainInv', NEW m \in Submissions, NEW d \in Decision,
         NEW cats \in SUBSET Category, Submit(m, d, cats),
         NEW wf \in Workflows
  PROVE  HistoryOf(wf)' = IF wf = m.corr THEN Append(HistoryOf(wf), d)
                                         ELSE HistoryOf(wf)
<1>1. /\ Fileable(m) /\ filed' = filed \union {m} /\ m \notin filed
      /\ run'[m.id] = d
      /\ \A s \in filed : s.id # m.id /\ run'[s.id] = run[s.id]
  BY Analysed
<1>2. TypeInv /\ ChainInv /\ Counted
  BY DEF LedgerInv, FindingInv
<1>3. PICK n \in Nat : /\ n = Cardinality(RevisionsOf(wf))
                       /\ {s.rev : s \in RevisionsOf(wf)} = 1..n
  BY <1>2, RevisionsFinite DEF Counted
<1>4. HistoryOf(wf) = [r \in 1..n |-> RunOf(wf, r)]
  BY <1>3 DEF HistoryOf
<1>5. ASSUME NEW r \in 1..n
      PROVE  RunOf(wf, r)' = RunOf(wf, r)
  <2>1. PICK s \in RevisionsOf(wf) : s.rev = r
    BY <1>3
  <2>2. s \in RevisionsOf(wf)' /\ s \in filed
    BY <1>1, RevisionsGrow DEF RevisionsOf
  <2>3. RunOf(wf, s.rev) = run[s.id]
    BY <1>2, RunOfRevision
  <2>4. RunOf(wf, s.rev)' = run'[s.id]
    BY <2>2, RunOfRevisionNext
  <2> QED BY <1>1, <2>1, <2>2, <2>3, <2>4
<1>6. CASE wf # m.corr
  <2>1. RevisionsOf(wf)' = RevisionsOf(wf)
    BY <1>1, <1>6, RevisionsGrow
  <2>2. HistoryOf(wf)' = [r \in 1..n |-> RunOf(wf, r)']
    BY <2>1, <1>3 DEF HistoryOf
  <2> QED BY <2>2, <1>5, <1>6, <1>4
<1>7. CASE wf = m.corr
  <2>1. m.rev = n + 1 /\ Cardinality(RevisionsOf(wf))' = n + 1
    BY <1>1, <1>2, <1>3, <1>7, FileableIsNext, CountGrows
  <2>2. m \in RevisionsOf(wf)'
    BY <1>1, <1>7, RevisionsGrow
  <2>3. RunOf(wf, n + 1)' = d
    BY <1>1, <2>1, <2>2, RunOfRevisionNext
  <2>4. HistoryOf(wf)' = [r \in 1..(n + 1) |-> RunOf(wf, r)']
    BY <2>1 DEF HistoryOf
  <2>5. Len(HistoryOf(wf)) = n
    BY <1>4
  <2>6. Append(HistoryOf(wf), d)
          = [r \in 1..(n + 1) |-> IF r = n + 1 THEN d ELSE RunOf(wf, r)]
    BY <1>4, <2>5
  <2>7. \A r \in 1..(n + 1) :
          RunOf(wf, r)' = IF r = n + 1 THEN d ELSE RunOf(wf, r)
    BY <1>5, <2>3
  <2> QED BY <1>7, <2>4, <2>6, <2>7
<1> QED BY <1>6, <1>7
-----------------------------------------------------------------------------
(***************************************************************************)
(* The open revisions: an analysis without risk closes all of its workflow *)
(* and no other, and one with a risk adds its own.                         *)
(***************************************************************************)
HasOpen(t) ==
  \E f \in Finding : f[1] = t.id /\ Issued(f) /\ ~ Resolved(f)

LEMMA OpenRevisions ==
  ASSUME TypeInv, NEW wf
  PROVE  OpenOf(wf) = {s.rev : s \in {t \in RevisionsOf(wf) : HasOpen(t)}}
<1>1. ASSUME NEW t \in RevisionsOf(wf)
      PROVE  (\E f \in FindingsOf(t) : Open(f)) <=> HasOpen(t)
  <2>1. t \in Submissions /\ t.id \in MessageId
    BY SubmissionFacts DEF TypeInv, TypeOK, RevisionsOf
  <2>2. \A f : f \in FindingsOf(t) <=> f \in Finding /\ f[1] = t.id /\ Issued(f)
    BY <2>1 DEF FindingsOf, Finding
  <2> QED BY <2>2, OpenUnlessResolved DEF TypeInv, HasOpen
<1> QED BY <1>1 DEF OpenOf

LEMMA OpenRevisionsNext ==
  ASSUME TypeInv', NEW wf
  PROVE  OpenOf(wf)' = {s.rev : s \in {t \in RevisionsOf(wf)' : HasOpen(t)'}}
<1>1. ASSUME NEW t, t \in RevisionsOf(wf)'
      PROVE  (\E f \in FindingsOf(t)' : Open(f)') <=> HasOpen(t)'
  <2>1. t \in Submissions /\ t.id \in MessageId
    BY <1>1, SubmissionFacts DEF TypeInv, TypeOK, RevisionsOf
  <2>2. \A f : f \in FindingsOf(t)' <=> f \in Finding /\ f[1] = t.id /\ Issued(f)'
    BY <2>1 DEF FindingsOf, Finding
  <2> QED BY <2>2, OpenUnlessResolvedNext DEF TypeInv, HasOpen
<1> QED BY <1>1 DEF OpenOf

\* The logs of a submission's findings decide whether it has an open one.
LEMMA HasOpenSame ==
  ASSUME NEW t, \A f \in Finding : f[1] = t.id => events'[f] = events[f]
  PROVE  HasOpen(t)' <=> HasOpen(t)
  BY HasEventSame DEF HasOpen, Issued, Resolved

LEMMA RiskOpens ==
  ASSUME LedgerInv, NEW m \in Submissions, NEW cats \in SUBSET Category,
         Submit(m, Risk, cats)
  PROVE  HasOpen(m)' /\ \A t \in filed : HasOpen(t)' <=> HasOpen(t)
<1> DEFINE x == [type |-> "issued", by |-> NoId]
<1>1. /\ m.id \in MessageId /\ \A s \in filed : s.id # m.id
      /\ \A f \in Finding : f[1] = m.id => events[f] = <<>>
  BY Analysed DEF Decision
<1>2. cats # {} /\ \A f \in Finding :
        events'[f] = IF f[1] = m.id /\ f[2] \in cats
                     THEN Append(events[f], x) ELSE events[f]
  BY DEF Submit, IssueFindings
<1>3. HasOpen(m)'
  <2>1. PICK c \in cats : TRUE
    BY <1>2
  <2> DEFINE f == <<m.id, c>>
  <2>2. f \in Finding /\ f[1] = m.id /\ events[f] = <<>>
    BY <1>1 DEF Finding
  <2>3. events'[f] = Append(events[f], x)
    BY <1>2, <2>2
  <2>4. ~ Resolved(f)
    BY <2>2, HasEventNonempty DEF Resolved
  <2> HIDE DEF f
  <2>5. x.type = "issued" /\ x.type # "resolved_by_revision"
    OBVIOUS
  <2>6. Issued(f)' /\ ~ Resolved(f)'
    BY <2>2, <2>3, <2>4, <2>5, HasEventStep
       DEF Issued, Resolved, LedgerInv, FindingInv
  <2> QED BY <2>2, <2>6 DEF HasOpen
<1>4. ASSUME NEW t \in filed PROVE HasOpen(t)' <=> HasOpen(t)
  BY <1>1, <1>2, HasOpenSame
<1> QED BY <1>3, <1>4

LEMMA ReanalysisCloses ==
  ASSUME LedgerInv, NEW m \in Submissions, NEW d \in Decision, d # Risk,
         NEW cats \in SUBSET Category, Submit(m, d, cats)
  PROVE  /\ ~ HasOpen(m)'
         /\ \A t \in filed : HasOpen(t)' <=> HasOpen(t) /\ ~ SameWorkflow(t, m)
<1> DEFINE x == [type |-> "resolved_by_revision", by |-> m.id]
<1>1. /\ Fileable(m) /\ m.id \in MessageId /\ \A s \in filed : s.id # m.id
      /\ \A f \in Finding : f[1] = m.id => events[f] = <<>>
  BY Analysed
<1>2. \A f \in Finding :
        events'[f] = IF f \in Resolvable(m) THEN Append(events[f], x)
                                            ELSE events[f]
  BY DEF Submit, ResolvePredecessors
<1>3. Resolvable(m)
        = UNION {OpenFindings(s) : s \in {a \in filed : SameWorkflow(a, m)}}
  BY <1>1, ResolvesWholeWorkflow DEF LedgerInv, FindingInv
<1>4. filed \subseteq Submissions /\ UniqueIds /\ TypeInv
  BY DEF LedgerInv, FindingInv, ChainInv
<1>5. ASSUME NEW s \in filed, NEW f \in Finding, f[1] = s.id
      PROVE  f \in Resolvable(m)
               <=> SameWorkflow(s, m) /\ Issued(f) /\ ~ Resolved(f)
  <2>1. ASSUME NEW a \in filed, f \in FindingsOf(a) PROVE a = s
    BY <2>1, <1>4, <1>5, FindingsAreFindings DEF UniqueIds
  <2>2. f \in FindingsOf(s) <=> Issued(f)
    BY <1>5 DEF FindingsOf, Finding
  <2> QED BY <1>3, <2>1, <2>2 DEF OpenFindings
<1>6. ~ HasOpen(m)'
  <2> SUFFICES ASSUME NEW f \in Finding, f[1] = m.id PROVE ~ Issued(f)'
    BY DEF HasOpen
  <2>1. f \notin Resolvable(m)
    BY <1>1, <1>3, <1>4, FindingsAreFindings DEF OpenFindings
  <2>2. events'[f] = <<>>
    BY <1>1, <1>2, <2>1
  <2> QED BY <2>2 DEF Issued, HasEvent
<1>7. ASSUME NEW t \in filed
      PROVE  HasOpen(t)' <=> HasOpen(t) /\ ~ SameWorkflow(t, m)
  <2>1. CASE ~ SameWorkflow(t, m)
    <3>1. \A f \in Finding : f[1] = t.id => events'[f] = events[f]
      BY <1>2, <1>5, <2>1
    <3> QED BY <3>1, <2>1, HasOpenSame
  <2>2. CASE SameWorkflow(t, m)
    <3> SUFFICES ASSUME NEW f \in Finding, f[1] = t.id, Issued(f)'
                 PROVE  Resolved(f)'
      BY <2>2 DEF HasOpen
    <3>1. x.type # "issued" /\ x.type = "resolved_by_revision"
      OBVIOUS
    <3>2. CASE f \in Resolvable(m)
      <4>1. events'[f] = Append(events[f], x)
        BY <1>2, <3>2
      <4> QED BY <4>1, <3>1, <1>4, HasEventStep DEF Resolved
    <3>3. CASE f \notin Resolvable(m)
      <4>1. events'[f] = events[f]
        BY <1>2, <3>3
      <4>2. Issued(f)
        BY <4>1, HasEventSame DEF Issued
      <4>3. Resolved(f)
        BY <1>5, <2>2, <3>3, <4>2
      <4> QED BY <4>1, <4>3, HasEventSame DEF Resolved
    <3> QED BY <3>2, <3>3
  <2> QED BY <2>1, <2>2
<1> QED BY <1>6, <1>7

LEMMA OpenStep ==
  ASSUME LedgerInv, TypeInv', NEW m \in Submissions, NEW d \in Decision,
         NEW cats \in SUBSET Category, Submit(m, d, cats),
         NEW wf \in Workflows
  PROVE  OpenOf(wf)' =
           IF wf # m.corr THEN OpenOf(wf)
           ELSE IF d = Risk THEN OpenOf(wf) \union {Len(HistoryOf(wf)) + 1}
           ELSE {}
<1>1. Fileable(m) /\ filed' = filed \union {m}
  BY Analysed
<1>2. TypeInv /\ ChainInv /\ Counted
  BY DEF LedgerInv, FindingInv
<1>3. \A t \in RevisionsOf(wf) :
        t \in filed /\ (SameWorkflow(t, m) <=> wf = m.corr)
  BY DEF RevisionsOf, SameWorkflow
<1>4. /\ OpenOf(wf) = {s.rev : s \in {t \in RevisionsOf(wf) : HasOpen(t)}}
      /\ OpenOf(wf)' = {s.rev : s \in {t \in RevisionsOf(wf)' : HasOpen(t)'}}
  BY <1>2, OpenRevisions, OpenRevisionsNext
<1>5. CASE wf # m.corr
  <2>1. RevisionsOf(wf)' = RevisionsOf(wf)
    BY <1>1, <1>5, RevisionsGrow
  <2>2. \A t \in RevisionsOf(wf) : HasOpen(t)' <=> HasOpen(t)
    BY <1>3, <1>5, RiskOpens, ReanalysisCloses
  <2> QED BY <1>4, <1>5, <2>1, <2>2
<1>6. CASE wf = m.corr
  <2>1. RevisionsOf(wf)' = RevisionsOf(wf) \union {m}
    BY <1>1, <1>6, RevisionsGrow
  <2>2. CASE d = Risk
    <3>1. HasOpen(m)' /\ \A t \in RevisionsOf(wf) : HasOpen(t)' <=> HasOpen(t)
      BY <1>3, <2>2, RiskOpens
    <3>2. OpenOf(wf)' = OpenOf(wf) \union {m.rev}
      BY <1>4, <2>1, <3>1
    <3>3. m.rev = Len(HistoryOf(wf)) + 1
      <4>1. PICK n \in Nat : n = Cardinality(RevisionsOf(wf))
        BY <1>2, RevisionsFinite
      <4>2. Len(HistoryOf(wf)) = n
        BY <4>1 DEF HistoryOf
      <4> QED BY <1>1, <1>2, <1>6, <4>1, <4>2, FileableIsNext
    <3> QED BY <1>6, <2>2, <3>2, <3>3
  <2>3. CASE d # Risk
    <3>1. ~ HasOpen(m)' /\ \A t \in RevisionsOf(wf) : ~ HasOpen(t)'
      BY <1>3, <1>6, <2>3, ReanalysisCloses
    <3> QED BY <1>4, <1>6, <2>1, <2>3, <3>1
  <2> QED BY <2>2, <2>3
<1> QED BY <1>5, <1>6
-----------------------------------------------------------------------------
(***************************************************************************)
(* The refinement.                                                         *)
(***************************************************************************)
\* The analysis of a submission is the ledger's analysis of its workflow.
LEMMA SubmitAnalyses ==
  ASSUME LedgerInv, TypeInv', ChainInv', NEW m \in Submissions,
         NEW d \in Decision, NEW cats \in SUBSET Category, Submit(m, d, cats)
  PROVE  Ledger!Analyse(m.corr, d) /\ m.corr \in Workflows
<1>1. m.corr \in Workflows
  BY DEF Workflows
<1>2. \A wf \in Workflows :
        HistoryOf(wf)' = IF wf = m.corr THEN Append(HistoryOf(wf), d)
                                        ELSE HistoryOf(wf)
  BY HistoryStep
<1>3. \A wf \in Workflows :
        OpenOf(wf)' =
          IF wf # m.corr THEN OpenOf(wf)
          ELSE IF d = Risk THEN OpenOf(wf) \union {Len(HistoryOf(wf)) + 1}
          ELSE {}
  BY OpenStep
<1> DEFINE history == [wf \in Workflows |-> HistoryOf(wf)]
           open == [wf \in Workflows |-> OpenOf(wf)]
<1>4. history' = [history EXCEPT ![m.corr] = Append(@, d)]
  BY <1>1, <1>2
<1>5. CASE d = Risk
  <2>1. open' = [open EXCEPT ![m.corr] = @ \union {Len(history[m.corr]) + 1}]
    BY <1>1, <1>3, <1>5
  <2> QED BY <1>1, <1>4, <1>5, <2>1 DEF Ledger!Analyse
<1>6. CASE d # Risk
  <2>1. open' = [open EXCEPT ![m.corr] = {}]
    BY <1>1, <1>3, <1>6
  <2> QED BY <1>1, <1>4, <1>6, <2>1 DEF Ledger!Analyse
<1> QED BY <1>5, <1>6

\* Steps without an analysis leave the ledger alone.
LEMMA OthersStutter ==
  ASSUME LedgerInv, TypeInv', filed' = filed, run' = run,
         \A f \in Finding : /\ Issued(f)' <=> Issued(f)
                            /\ Resolved(f)' <=> Resolved(f)
  PROVE  \A wf \in Workflows : /\ HistoryOf(wf)' = HistoryOf(wf)
                               /\ OpenOf(wf)' = OpenOf(wf)
<1>1. \A wf : RevisionsOf(wf)' = RevisionsOf(wf)
  BY DEF RevisionsOf
<1>2. ASSUME NEW wf PROVE HistoryOf(wf)' = HistoryOf(wf)
  <2>1. Cardinality(RevisionsOf(wf))' = Cardinality(RevisionsOf(wf))
    BY <1>1
  <2>2. \A r : RunOf(wf, r)' = RunOf(wf, r)
    BY <1>1 DEF RunOf
  <2> QED BY <2>1, <2>2 DEF HistoryOf
<1>3. \A t : HasOpen(t)' <=> HasOpen(t)
  BY DEF HasOpen
<1>4. ASSUME NEW wf PROVE OpenOf(wf)' = OpenOf(wf)
  <2>1. OpenOf(wf) = {s.rev : s \in {t \in RevisionsOf(wf) : HasOpen(t)}}
    BY OpenRevisions DEF LedgerInv, FindingInv
  <2>2. OpenOf(wf)' = {s.rev : s \in {t \in RevisionsOf(wf)' : HasOpen(t)'}}
    BY OpenRevisionsNext
  <2> QED BY <2>1, <2>2, <1>1, <1>3
<1> QED BY <1>2, <1>4

LEMMA LedgerStep ==
  ASSUME LedgerInv, TypeInv', ChainInv', [Next]_vars
  PROVE  \/ Ledger!Next
         \/ UNCHANGED <<[wf \in Workflows |-> HistoryOf(wf)],
                        [wf \in Workflows |-> OpenOf(wf)]>>
<1>1. ASSUME NEW m \in Submissions, NEW d \in Decision,
             NEW cats \in SUBSET Category, Submit(m, d, cats)
      PROVE  Ledger!Next
  BY <1>1, SubmitAnalyses DEF Ledger!Next
<1>2. ASSUME NEW m \in Responses, Respond(m)
      PROVE  \A wf \in Workflows : /\ HistoryOf(wf)' = HistoryOf(wf)
                                   /\ OpenOf(wf)' = OpenOf(wf)
  <2>1. filed' = filed /\ run' = run
    BY <1>2 DEF Respond
  <2> QED BY <1>2, <2>1, RespondQuiet, OthersStutter DEF LedgerInv
<1>3. ASSUME filed' = filed, run' = run, events' = events
      PROVE  \A wf \in Workflows : /\ HistoryOf(wf)' = HistoryOf(wf)
                                   /\ OpenOf(wf)' = OpenOf(wf)
  BY <1>3, QuietSame, OthersStutter
<1>4. \/ \E m \in Submissions, d \in Decision, cats \in SUBSET Category :
           Submit(m, d, cats)
      \/ \E m \in Responses : Respond(m)
      \/ filed' = filed /\ run' = run /\ events' = events
  BY DEF Next, vars, KeyConflict, RespondAgain, Acknowledge, PollNext, GetReport
<1> QED BY <1>1, <1>2, <1>3, <1>4

\* Every behaviour of the store, whatever messages its mines present, is one
\* of the ledger: revisions are analysed one after the other, a risk opens a
\* finding and closes none, a normal candidate closes all findings of its
\* workflow, and nothing but an analysis opens or closes one.
THEOREM StoreImplementsTheLedger == Spec => LedgerSpec
<1>1. Init => Ledger!Init
  <2> SUFFICES ASSUME Init PROVE Ledger!Init OBVIOUS
  <2>1. \A wf : RevisionsOf(wf) = {}
    BY DEF Init, RevisionsOf
  <2>2. Cardinality({}) = 0
    BY FS_EmptySet
  <2>3. ASSUME NEW wf PROVE HistoryOf(wf) = <<>> /\ OpenOf(wf) = {}
    <3>1. Cardinality(RevisionsOf(wf)) = 0
      BY <2>1, <2>2
    <3>2. 1..0 = {}
      OBVIOUS
    <3>3. HistoryOf(wf) = <<>>
      BY <3>1, <3>2 DEF HistoryOf
    <3> QED BY <2>1, <3>3 DEF OpenOf
  <2> QED BY <2>3 DEF Ledger!Init
<1>2. LedgerInv /\ TypeInv' /\ ChainInv' /\ [Next]_vars
        => [Ledger!Next]_<<[wf \in Workflows |-> HistoryOf(wf)],
                           [wf \in Workflows |-> OpenOf(wf)]>>
  BY LedgerStep
<1> QED BY <1>1, <1>2, LedgerInvariant, TypeInvariant, ChainInvariant, PTL
        DEF Spec, LedgerSpec, Ledger!Spec
============================================================================
