-------------------------- MODULE RegulatoryStore --------------------------
(***************************************************************************)
(* The V2/V3 intake of the regulatory platform: the append-only store      *)
(* (regulatory_v2_store.py) together with the machine routes that guard it *)
(* (regulatory_v2_http.py) and the lineage contract (exchange_v2.py).      *)
(*                                                                         *)
(* Every route runs inside one controlled_write_scope: a re-entrant lock   *)
(* around one BEGIN IMMEDIATE transaction, so a route is one action here.  *)
(* A route that raises rolls its transaction back and is a stuttering      *)
(* step; the one exception is the idempotency conflict, whose audit event  *)
(* is committed (KeyConflict).  Exact resends of an accepted message       *)
(* return the stored receipt and change nothing: also stuttering steps.    *)
(*                                                                         *)
(* Abstractions.  An agent is identified with its mine (create_server      *)
(* binds each agent to one mine, permanently).  The ids the platform draws *)
(* (run, finding, report) are named by what they are unique for: a run and *)
(* a report by the submission, a finding by submission and category.  The  *)
(* verdict of analyze_five_quantity is a nondeterministic Decision.        *)
(* Signatures, nonces and the clock are left out: messages here are the    *)
(* authenticated ones about periods that have closed.                      *)
(***************************************************************************)
EXTENDS Integers, Sequences, FiniteSets

CONSTANTS
  Mine,         \* mines; each has exactly one enterprise agent
  MessageId,    \* message_id of inbound messages (= submission_id)
  Key,          \* idempotency keys
  Period,       \* reporting periods
  Body,         \* submission payloads / response texts
  Category,     \* categories a risk decision may group its reasons into
  WireId,       \* response_id chosen by the agent for a response batch
  NoId,         \* absent predecessor, cause or corrected submission
  Submissions,  \* the submission messages an agent may ever present
  Responses,    \* the enterprise_risk_response messages
  Acks          \* the risk_delivery_ack messages

Normal == "normal_candidate"
Risk == "risk"
Insufficient == "insufficient_data"
Decision == {Normal, Risk, Insufficient}
NoRun == "no_run"

\* A message reference carries the payload hash of the message it names.
Reference == MessageId \X Body
Cause == {"submission", "response", "report"} \X MessageId

SubmissionType ==
  [id: MessageId, key: Key, mine: Mine, rev: Nat \ {0},
   pred: Reference \union {NoId}, corr: MessageId,
   cause: Cause \union {NoId}, period: Period, body: Body]

ResponseType ==
  [id: MessageId, key: Key, mine: Mine, wire: WireId, report: MessageId,
   rev: Nat \ {0}, pred: MessageId \union {NoId},
   cats: SUBSET Category \ {{}}, corrected: MessageId \union {NoId},
   corr: MessageId, body: Body]

AckType ==
  [id: MessageId, key: Key, mine: Mine, report: MessageId, corr: MessageId]

\* Model values and tuples are told apart by NoId being none of them.
ASSUME MessageAssumption ==
  /\ NoId \notin MessageId /\ NoId \notin Reference /\ NoId \notin Cause
  /\ Submissions \subseteq SubmissionType
  /\ Responses \subseteq ResponseType
  /\ Acks \subseteq AckType
  /\ \A m \in Submissions \union Responses : (m.rev = 1) <=> (m.pred = NoId)

\* _finding_groups sorts the reasons of a risk into a fixed list of groups.
ASSUME CategoryAssumption == IsFiniteSet(Category)

\* The three contracts are distinct message types.
ASSUME DisjointAssumption ==
  /\ Submissions \intersect Responses = {}
  /\ Submissions \intersect Acks = {}
  /\ Responses \intersect Acks = {}

Inbound == Submissions \union Responses \union Acks
Finding == MessageId \X Category

Event ==
  [type: {"issued"}, by: {NoId}]
    \union [type: {"explanation_recorded"}, by: WireId]
    \union [type: {"resolved_by_revision"}, by: MessageId]

OutboxEntry ==
  [kind: {"analysis_report_available"}, mine: Mine, ref: MessageId]
    \union [kind: {"finding_resolved"}, mine: Mine, ref: Finding]
    \union [kind: {"response_recorded"}, mine: Mine, ref: WireId]

VARIABLES
  filed,      \* accepted submissions
  answered,   \* accepted response messages
  acked,      \* accepted delivery acknowledgements
  conflicts,  \* messages whose idempotency conflict was committed to the audit
  run,        \* decision of the analysis run of each submission
  events,     \* event log of each finding; empty while it does not exist
  outbox,     \* the platform outbox; the cursor is the position in it
  delivered   \* submissions whose report message is recorded as outbound

vars == <<filed, answered, acked, conflicts, run, events, outbox, delivered>>

inbox == filed \union answered \union acked

(***************************************************************************)
(* Lookups.                                                                *)
(***************************************************************************)
Ref(s) == <<s.id, s.body>>

\* The submission whose report an answer or an acknowledgement quotes.
Reported(m) == {s \in filed : s.id = m.report /\ s.mine = m.mine}

\* The recursive query over supersedes_submission_id, as the least set that
\* holds the start and is closed under direct predecessors.
ClosedUnderPred(S) == \A x \in S, y \in filed : x.pred = Ref(y) => y \in S
Lineage(s) ==
  {a \in filed : \A S \in SUBSET filed :
                    (s \in S /\ ClosedUnderPred(S)) => a \in S}

\* Mutant of IsStrictDescendant: any other submission of the workflow passes.
IsAnotherSubmission(c, a) == c # a

IsStrictDescendant(c, a) == c # a /\ c.rev > a.rev /\ a \in Lineage(c)

HasEvent(f, kind) == \E i \in 1..Len(events[f]) : events[f][i].type = kind
Issued(f) == HasEvent(f, "issued")
Resolved(f) == HasEvent(f, "resolved_by_revision")

FindingsOf(s) == {f \in {s.id} \X Category : Issued(f)}

\* Mutant of FindingState: reads the state off the last event.
LastEventState(f) ==
  IF events[f][Len(events[f])].type = "resolved_by_revision"
  THEN "cleared_by_reanalysis" ELSE "open"

\* get_finding folds the event log: an explanation moves only an open
\* finding, and only a resolution clears one.
StateAfter(log) ==
  LET after[n \in 0..Len(log)] ==
        IF n = 0 THEN "open"
        ELSE IF log[n].type = "explanation_recorded" /\ after[n - 1] = "open"
             THEN "explanation_recorded"
             ELSE IF log[n].type = "resolved_by_revision"
                  THEN "cleared_by_reanalysis"
                  ELSE after[n - 1]
  IN after[Len(log)]

FindingState(f) == StateAfter(events[f])

(***************************************************************************)
(* Guards shared by the routes.                                            *)
(***************************************************************************)
\* v2_inbox_commands: one command per (sender, idempotency key).
KeyFree(m) == \A x \in inbox : ~ (x.mine = m.mine /\ x.key = m.key)

\* v2_exchange_messages: one envelope per message_id.
IdFree(m) == \A x \in inbox : x.id # m.id

\* A correction names its trigger: a message of the same mine and workflow.
CauseOk(m) ==
  \/ \E x \in filed : /\ m.cause = <<"submission", x.id>>
                      /\ x.mine = m.mine /\ x.corr = m.corr
  \/ \E x \in answered : /\ m.cause = <<"response", x.id>>
                         /\ x.mine = m.mine /\ x.corr = m.corr
  \/ \E x \in filed : /\ m.cause = <<"report", x.id>> /\ x.id \in delivered
                      /\ x.mine = m.mine /\ x.corr = m.corr

\* _validate_submission_lineage with validate_exchange_lineage.
SubmissionLineageOk(m) ==
  IF m.rev = 1
  THEN m.corr = m.id /\ m.cause = NoId
  ELSE /\ \E p \in filed : /\ m.pred = Ref(p)
                           /\ p.mine = m.mine /\ p.corr = m.corr
                           /\ m.rev = p.rev + 1
       /\ CauseOk(m)

\* Mutant of RevisionOk: a predecessor may be superseded twice.
ForkingRevisionOk(m) ==
  m.rev > 1 => \E p \in filed : m.pred = Ref(p) /\ p.period = m.period

\* _validate_revision: what the store itself demands of a revision.
RevisionOk(m) ==
  m.rev > 1 =>
    /\ \E p \in filed : m.pred = Ref(p) /\ p.period = m.period
    /\ \A x \in filed : x.pred # m.pred

\* Both answers to a report quote its message as the platform issued it.
QuotesIssuedReport(m) ==
  \E s \in Reported(m) : s.id \in delivered /\ s.corr = m.corr

\* _validate_response_lineage and _validate_corrected_submission_references.
ResponseLineageOk(m) ==
  /\ QuotesIssuedReport(m)
  /\ m.rev > 1 => \E x \in answered : /\ x.id = m.pred /\ x.mine = m.mine
                                      /\ x.report = m.report
                                      /\ x.corr = m.corr /\ m.rev = x.rev + 1
  /\ m.corrected # NoId =>
       \E c \in filed : /\ c.id = m.corrected
                        /\ c.mine = m.mine /\ c.corr = m.corr
                        /\ \E s \in Reported(m) : IsStrictDescendant(c, s)

RouteAccepts(m) ==
  \/ m \in Submissions /\ SubmissionLineageOk(m)
  \/ m \in Responses /\ ResponseLineageOk(m)
  \/ m \in Acks /\ QuotesIssuedReport(m)

\* The response batch a wire id stands for; the reference to a corrected
\* submission enters it only as a flag.
Batch(m) == [report |-> m.report, mine |-> m.mine, cats |-> m.cats,
             body |-> m.body, planned |-> m.corrected # NoId]

(***************************************************************************)
(* Actions.                                                                *)
(***************************************************************************)
Init ==
  /\ filed = {} /\ answered = {} /\ acked = {} /\ conflicts = {}
  /\ run = [i \in MessageId |-> NoRun]
  /\ events = [f \in Finding |-> <<>>]
  /\ outbox = <<>>
  /\ delivered = {}

Entry(kind, mine, ref) == <<[kind |-> kind, mine |-> mine, ref |-> ref]>>

\* SQL returns the rows of an unordered query in any order.
Orderings(S) ==
  {q \in [1..Cardinality(S) -> S] : \A i, j \in DOMAIN q : q[i] = q[j] => i = j}

Notices(q, mine) ==
  [i \in DOMAIN q |-> [kind |-> "finding_resolved", mine |-> mine, ref |-> q[i]]]

\* Mutant of Resolvable: looks at the direct predecessor only.
DirectlyResolvable(m) ==
  UNION {{f \in FindingsOf(a) : ~ Resolved(f)} :
           a \in {x \in filed : m.pred = Ref(x)}}

\* Findings a non-risk revision m resolves: those of every submission it
\* supersedes, directly or not, that no earlier revision resolved.
Resolvable(m) ==
  UNION {{f \in FindingsOf(a) : ~ Resolved(f)} :
           a \in UNION {Lineage(p) : p \in {x \in filed : m.pred = Ref(x)}}}

IssueFindings(m, cats) ==
  /\ cats # {}
  /\ events' = [f \in Finding |->
                  IF f[1] = m.id /\ f[2] \in cats
                  THEN Append(events[f], [type |-> "issued", by |-> NoId])
                  ELSE events[f]]
  /\ outbox' = outbox \o Entry("analysis_report_available", m.mine, m.id)

\* Mutant of ResolvePredecessors: announces the report before the notices.
ReportThenResolve(m) ==
  /\ events' = [f \in Finding |->
                  IF f \in Resolvable(m)
                  THEN Append(events[f], [type |-> "resolved_by_revision",
                                          by |-> m.id])
                  ELSE events[f]]
  /\ \E q \in Orderings(Resolvable(m)) :
       outbox' = outbox \o Entry("analysis_report_available", m.mine, m.id)
                   \o Notices(q, m.mine)

ResolvePredecessors(m) ==
  /\ events' = [f \in Finding |->
                  IF f \in Resolvable(m)
                  THEN Append(events[f], [type |-> "resolved_by_revision",
                                          by |-> m.id])
                  ELSE events[f]]
  /\ \E q \in Orderings(Resolvable(m)) :
       outbox' = outbox \o Notices(q, m.mine)
                   \o Entry("analysis_report_available", m.mine, m.id)

\* submit_and_analyze of a new submission: the intake, the analysis run, the
\* findings it opens or resolves and its report are one transaction.  The
\* row lookup on (mine, key) repeats KeyFree: every wire submission row was
\* written together with its inbox command.
Submit(m, d, cats) ==
  /\ SubmissionLineageOk(m)
  /\ KeyFree(m) /\ IdFree(m)
  /\ RevisionOk(m)
  /\ filed' = filed \union {m}
  /\ run' = [run EXCEPT ![m.id] = d]
  /\ IF d = Risk THEN IssueFindings(m, cats)
                 ELSE cats = {} /\ ResolvePredecessors(m)
  /\ UNCHANGED <<answered, acked, conflicts, delivered>>

\* A key reused for another message: the transaction is committed with the
\* audit event of the refusal and nothing else.
KeyConflict(m) ==
  /\ RouteAccepts(m)
  /\ ~ KeyFree(m) /\ m \notin inbox
  /\ conflicts' = conflicts \union {m}
  /\ UNCHANGED <<filed, answered, acked, run, events, outbox, delivered>>

\* Mutant of Respond: treats every message as a new batch.
RespondAnew(m) ==
  /\ ResponseLineageOk(m)
  /\ KeyFree(m) /\ IdFree(m)
  /\ \A c \in m.cats : Issued(<<m.report, c>>)
  /\ answered' = answered \union {m}
  /\ events' = [f \in Finding |->
                  IF f[1] = m.report /\ f[2] \in m.cats
                  THEN Append(events[f], [type |-> "explanation_recorded",
                                          by |-> m.wire])
                  ELSE events[f]]
  /\ outbox' = outbox \o Entry("response_recorded", m.mine, m.wire)
  /\ UNCHANGED <<filed, acked, conflicts, run, delivered>>

\* record_enterprise_response_batch, the first message with its wire id.
Respond(m) ==
  /\ ResponseLineageOk(m)
  /\ KeyFree(m) /\ IdFree(m)
  /\ \A x \in answered : x.wire # m.wire
  /\ \A c \in m.cats : Issued(<<m.report, c>>)
  /\ answered' = answered \union {m}
  /\ events' = [f \in Finding |->
                  IF f[1] = m.report /\ f[2] \in m.cats
                  THEN Append(events[f], [type |-> "explanation_recorded",
                                          by |-> m.wire])
                  ELSE events[f]]
  /\ outbox' = outbox \o Entry("response_recorded", m.mine, m.wire)
  /\ UNCHANGED <<filed, acked, conflicts, run, delivered>>

\* The same batch in a new envelope is accepted as a replay of its receipt.
RespondAgain(m) ==
  /\ ResponseLineageOk(m)
  /\ KeyFree(m) /\ IdFree(m)
  /\ \E x \in answered : x.wire = m.wire /\ Batch(x) = Batch(m)
  /\ answered' = answered \union {m}
  /\ UNCHANGED <<filed, acked, conflicts, run, events, outbox, delivered>>

\* Mutant of Acknowledge: does not look its idempotency key up.
AcknowledgeAnyKey(m) ==
  /\ QuotesIssuedReport(m)
  /\ IdFree(m)
  /\ acked' = acked \union {m}
  /\ UNCHANGED <<filed, answered, conflicts, run, events, outbox, delivered>>

\* record_delivery_ack; an acknowledgement has no effect on any decision.
Acknowledge(m) ==
  /\ QuotesIssuedReport(m)
  /\ KeyFree(m) /\ IdFree(m)
  /\ acked' = acked \union {m}
  /\ UNCHANGED <<filed, answered, conflicts, run, events, outbox, delivered>>

\* Mutant of IsRiskReport: takes every outbox entry of the mine for a report.
IsAnyEntry(i, mine) == outbox[i].mine = mine

IsRiskReport(i, mine) ==
  /\ outbox[i].kind = "analysis_report_available"
  /\ outbox[i].mine = mine
  /\ run[outbox[i].ref] = Risk

\* GET analysis-reports/next: the first response-required report of the mine
\* behind the cursor; its signed message is recorded when first issued.
PollNext(mine, after) ==
  \E i \in after + 1 .. Len(outbox) :
    /\ IsRiskReport(i, mine)
    /\ \A j \in after + 1 .. i - 1 : ~ IsRiskReport(j, mine)
    /\ delivered' = delivered \union {outbox[i].ref}
    /\ UNCHANGED <<filed, answered, acked, conflicts, run, events, outbox>>

\* GET analysis-reports/<id>: any report of the mine, risk or not.
GetReport(s) ==
  /\ delivered' = delivered \union {s.id}
  /\ UNCHANGED <<filed, answered, acked, conflicts, run, events, outbox>>

Next ==
  \/ \E m \in Submissions, d \in Decision, cats \in SUBSET Category :
       Submit(m, d, cats)
  \/ \E m \in Inbound : KeyConflict(m)
  \/ \E m \in Responses : Respond(m)
  \/ \E m \in Responses : RespondAgain(m)
  \/ \E m \in Acks : Acknowledge(m)
  \/ \E mine \in Mine, after \in 0..Len(outbox) : PollNext(mine, after)
  \/ \E s \in filed : GetReport(s)

Spec == Init /\ [][Next]_vars

(***************************************************************************)
(* Properties.                                                             *)
(***************************************************************************)
\* Type correctness.  A message refused for a reused idempotency key is never
\* an accepted one, not even later, and only filed submissions have reports.
TypeOK ==
  /\ filed \subseteq Submissions
  /\ answered \subseteq Responses
  /\ acked \subseteq Acks
  /\ conflicts \subseteq Inbound \ inbox
  /\ run \in [MessageId -> Decision \union {NoRun}]
  /\ events \in [Finding -> Seq(Event)]
  /\ outbox \in Seq(OutboxEntry)
  /\ delivered \subseteq {s.id : s \in filed}

SameWorkflow(a, b) == a.corr = b.corr

\* A workflow is one chain: whatever forks, reused ids or foreign
\* predecessors agents present, no two accepted submissions of a workflow
\* have the same revision, none is missing below the last, and all are of
\* one mine and one reporting period (_validate_revision together with
\* _validate_submission_lineage).
LinearWorkflow ==
  /\ \A a, b \in filed : SameWorkflow(a, b) =>
       /\ a.rev = b.rev => a = b
       /\ a.mine = b.mine /\ a.period = b.period
  /\ \A a \in filed : a.rev > 1 =>
       \E p \in filed : SameWorkflow(p, a) /\ p.rev = a.rev - 1

Later(s) == {t \in filed : SameWorkflow(t, s) /\ t.rev > s.rev}

\* No finding stays open behind a later revision of its workflow that is a
\* normal candidate, however many risk revisions lie between; and as long as
\* no later revision lacked data, none is cleared without such a revision
\* (submit_and_analyze with _resolve_predecessor_findings).  What a revision
\* with insufficient data clears is ResolvedOnlyByNormalCandidate's subject.
ClearedByReanalysis ==
  \A s \in filed : \A f \in FindingsOf(s) :
    /\ (\E t \in Later(s) : run[t.id] = Normal) => Resolved(f)
    /\ Resolved(f) /\ (\A t \in Later(s) : run[t.id] # Insufficient)
         => \E t \in Later(s) : run[t.id] = Normal

\* The store's docstring: only a normal-candidate revision resolves a finding.
\* Its code resolves on every decision that is not a risk.
ResolvedOnlyByNormalCandidate ==
  \A f \in Finding : \A i \in 1..Len(events[f]) :
    events[f][i].type = "resolved_by_revision" => run[events[f][i].by] = Normal

Positions(kind, ref) ==
  {i \in 1..Len(outbox) : outbox[i].kind = kind /\ outbox[i].ref = ref}

\* A mine that reads its outbox by cursor sees its workflows in order: every
\* submission has one report, a revision's report follows those of the
\* revisions before it, and the notice that a finding is resolved stands
\* between the report that opened it and the report that cleared it.
OutboxFollowsLineage ==
  /\ \A s \in filed :
       Cardinality(Positions("analysis_report_available", s.id)) = 1
  /\ \A s, t \in filed : (SameWorkflow(s, t) /\ s.rev < t.rev) =>
       \A i \in Positions("analysis_report_available", s.id),
          j \in Positions("analysis_report_available", t.id) :
         /\ i < j
         /\ \A f \in FindingsOf(s) : \A n \in Positions("finding_resolved", f) :
              /\ i < n
              /\ (\E e \in 1..Len(events[f]) :
                    events[f][e] = [type |-> "resolved_by_revision", by |-> t.id])
                   => n < j

\* A response that names a corrected submission names a later revision of
\* the very submission its report is about, in the same reporting period.
CorrectedIsLaterRevision ==
  \A m \in answered : m.corrected # NoId =>
    \E c, s \in filed : /\ c.id = m.corrected /\ s.id = m.report
                        /\ SameWorkflow(c, s) /\ c.rev > s.rev
                        /\ c.mine = m.mine /\ c.period = s.period

\* A response batch takes effect once: all messages with one response_id carry
\* the same batch, and a finding has one explanation event for it however
\* often the batch is sent again in new envelopes.
BatchTakesEffectOnce ==
  /\ \A x, y \in answered : x.wire = y.wire => Batch(x) = Batch(y)
  /\ \A x \in answered :
       /\ Cardinality(Positions("response_recorded", x.wire)) = 1
       /\ \A c \in x.cats : Cardinality({i \in 1..Len(events[<<x.report, c>>]) :
              events[<<x.report, c>>][i]
                = [type |-> "explanation_recorded", by |-> x.wire]}) = 1

============================================================================
