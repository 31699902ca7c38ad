--------------------------- MODULE AgentExchange ---------------------------
(***************************************************************************)
(* The exchange of the enterprise agent with the regulator                 *)
(* (five_quantity_runtime.py): drafts and their review by two people, the  *)
(* outbox and the threads that empty it, the inbox of risk reports with    *)
(* its cursor, and the responses written to them.                          *)
(*                                                                         *)
(* A store method is one SQLite transaction, so one action.  A runtime     *)
(* method is several: ingest_bytes imports, records its check and confirms *)
(* in turn; confirm_draft reads the draft first and enqueues later;        *)
(* process_outbox_once claims a batch and then calls the network message   *)
(* by message; poll_analysis_once reads the cursor, calls the network and  *)
(* stores what came back.  The exchange loop and the HTTP threads run      *)
(* these in any interleaving.                                              *)
(*                                                                         *)
(* Here the platform may answer a message with its receipt or an error and *)
(* a poll with the first report behind the cursor or nothing, at any time. *)
(*                                                                         *)
(* Abstractions.  A draft is named by the file it was imported from (the   *)
(* import is unique by content hash), a correction by its predecessor; a   *)
(* message by what it is about: every draft, report and response sends at  *)
(* most one.  Retry times are a choice of the rows that are due.  Drafts   *)
(* that connectors keep in step with their sources are left out.           *)
(***************************************************************************)
EXTENDS Integers, Sequences, FiniteSets

CONSTANTS
  Draft,        \* drafts
  Report,       \* risk reports
  Feed,         \* the reports of this mine, in cursor order
  Actor,        \* people with an account on the agent
  Body,         \* what a draft or a response may say
  PeriodOf,     \* the reporting period a draft's text is about
  Worker,       \* threads that run the exchange: the loop and HTTP threads
  Configs,      \* configurations the agent may be started with
  BatchLimit,   \* rows one claim takes
  MaxRevision,  \* bound of the model on edits
  System,       \* "system-watcher", the actor of the directory watcher
  None          \* absent actor, draft, reading

\* four_eyes_required, and the accounts that may prepare but not confirm.
Config == [fourEyes: BOOLEAN, preparers: SUBSET Actor]

\* Who confirmed which revision of a text.
Confirmation == [by: Actor \union {System}, rev: 1..MaxRevision]

\* The feed holds every report once.
ASSUME AgentAssumption ==
  /\ Configs \subseteq Config /\ Configs # {}
  /\ Feed \in Seq(Report)
  /\ \A i, j \in 1..Len(Feed) : Feed[i] = Feed[j] => i = j
  /\ BatchLimit \in Nat \ {0} /\ MaxRevision \in Nat \ {0}
  /\ System \notin Actor /\ Actor \intersect Worker = {}
  /\ None \notin Actor \union {System} \union Draft \union Body
  /\ None \notin Confirmation

Submission(d) == <<"submission", d>>
DeliveryAck(r) == <<"delivery_ack", r>>
RiskResponse(r) == <<"risk_response", r>>
Message == ({"submission"} \X Draft)
             \union ({"delivery_ack", "risk_response"} \X Report)

DraftRecord ==
  [status: {"absent", "ready_review", "queued", "submitted", "discarded"},
   rev: 0..MaxRevision, body: Body \union {None},
   editor: Actor \union {System, None},
   preparer: Actor \union {None}, preparedRev: 0..MaxRevision,
   pred: Draft \union {None}, subrev: Nat, corr: Draft \union {None},
   conf: Confirmation \union {None}]

ImportRecord ==
  [mode: {"none", "manual_import", "direct_collection"},
   status: {"none", "ready_review", "automatic_ready", "needs_review",
            "discarded"}]

ResponseRecord ==
  [status: {"absent", "draft", "queued", "submitted"},
   rev: 0..MaxRevision, body: Body \union {None},
   editor: Actor \union {None}, conf: Confirmation \union {None}]

\* Who reads a text to confirm it: a person, or a thread that imports a file.
Reader == Actor \union Worker

VARIABLES
  config,     \* configuration of the running process
  drafts,     \* fq_drafts
  imports,    \* fq_imports of each draft
  responses,  \* fq_responses, one per report
  inbox,      \* fq_inbox: status and cursor of each report
  cursor,     \* fq_settings.analysis_cursor; 0 is none
  rows,       \* status of each fq_outbox row
  order,      \* fq_outbox in order of created_at
  letter,     \* the signed text of each outbox message
  reading,    \* what a reader that is confirming has read
  watching,   \* watched file a thread is importing
  batch,      \* messages a worker has claimed and not yet handled
  calling,    \* whether a worker is in the network call of the oldest one
  polling     \* cursor a worker's poll was sent with

outbox == <<rows, order, letter>>
received == <<inbox, cursor>>
work == <<batch, calling, polling>>
vars == <<config, drafts, imports, responses, received, outbox, reading,
          watching, work>>

NoDraft == [status |-> "absent", rev |-> 0, body |-> None, editor |-> None,
            preparer |-> None, preparedRev |-> 0, pred |-> None, subrev |-> 0,
            corr |-> None, conf |-> None]
NoResponse == [status |-> "absent", rev |-> 0, body |-> None, editor |-> None,
               conf |-> None]
NotPolling == -1

Init ==
  /\ config \in Configs
  /\ drafts = [d \in Draft |-> NoDraft]
  /\ imports = [d \in Draft |-> [mode |-> "none", status |-> "none"]]
  /\ responses = [r \in Report |-> NoResponse]
  /\ inbox = [r \in Report |-> [status |-> "none", at |-> 0]]
  /\ cursor = 0
  /\ rows = [m \in Message |-> "none"]
  /\ order = <<>>
  /\ letter = [m \in Message |-> None]
  /\ reading = [x \in Reader |-> None]
  /\ watching = [w \in Worker |-> None]
  /\ batch = [w \in Worker |-> {}]
  /\ calling = [w \in Worker |-> FALSE]
  /\ polling = [w \in Worker |-> NotPolling]

(***************************************************************************)
(* Drafts.                                                                 *)
(***************************************************************************)
\* _assert_human_preparer
MayPrepare(a) == config.fourEyes => a \in config.preparers

NewDraft(b, editor, preparer) ==
  [NoDraft EXCEPT !.status = "ready_review", !.rev = 1, !.body = b,
                  !.editor = editor, !.preparer = preparer,
                  !.preparedRev = IF preparer = None THEN 0 ELSE 1,
                  !.subrev = 1]

Received(d, mode) ==
  imports' = [imports EXCEPT ![d] = [mode |-> mode, status |-> "ready_review"]]

\* create_import of a file a person uploads.
Import(d, a, b) ==
  /\ drafts[d].status = "absent"
  /\ MayPrepare(a)
  /\ drafts' = [drafts EXCEPT ![d] =
                  NewDraft(b, a, IF a \in config.preparers THEN a ELSE None)]
  /\ Received(d, "manual_import")
  /\ UNCHANGED <<config, responses, received, outbox, reading, watching, work>>

\* A correction keeps the period of the message it corrects.
KeepsPeriod(d, b) ==
  drafts[d].pred # None =>
    PeriodOf[b] = PeriodOf[letter[Submission(drafts[d].pred)]]

\* Mutant of EditDraft: does not look at the status.
EditAnyDraft(d, a, b) ==
  /\ drafts[d].status # "absent"
  /\ drafts[d].rev < MaxRevision
  /\ MayPrepare(a) /\ KeepsPeriod(d, b)
  /\ drafts' = [drafts EXCEPT ![d].status = "ready_review",
                              ![d].rev = @ + 1, ![d].body = b,
                              ![d].editor = a, ![d].preparer = a,
                              ![d].preparedRev = drafts[d].rev + 1,
                              ![d].conf = None]
  /\ UNCHANGED <<config, imports, responses, received, outbox, reading, watching,
                 work>>

\* replace_draft, by someone who saw the current revision.
EditDraft(d, a, b) ==
  /\ drafts[d].status = "ready_review"
  /\ drafts[d].rev < MaxRevision
  /\ MayPrepare(a) /\ KeepsPeriod(d, b)
  /\ drafts' = [drafts EXCEPT ![d].rev = @ + 1, ![d].body = b,
                              ![d].editor = a, ![d].preparer = a,
                              ![d].preparedRev = drafts[d].rev + 1,
                              ![d].conf = None]
  /\ UNCHANGED <<config, imports, responses, received, outbox, reading, watching,
                 work>>

\* discard_draft: a correction cannot be discarded.
Discard(d) ==
  /\ drafts[d].status = "ready_review" /\ drafts[d].pred = None
  /\ drafts[d].rev < MaxRevision
  /\ drafts' = [drafts EXCEPT ![d].status = "discarded", ![d].rev = @ + 1]
  /\ imports' = [imports EXCEPT ![d].status = "discarded"]
  /\ UNCHANGED <<config, responses, received, outbox, reading, watching, work>>

\* Mutant of Correct: looks for no successor and no later revision.
ForkingCorrect(s, d, a) ==
  /\ drafts[s].status = "submitted" /\ drafts[d].status = "absent"
  /\ MayPrepare(a)
  /\ drafts' = [drafts EXCEPT ![d] =
                  [NewDraft(letter[Submission(s)], a, a) EXCEPT
                     !.pred = s, !.corr = drafts[s].corr,
                     !.subrev = drafts[s].subrev + 1]]
  /\ Received(d, "manual_import")
  /\ UNCHANGED <<config, responses, received, outbox, reading, watching, work>>

\* create_correction_draft: the unique successor d of the submitted draft s,
\* with the text that was signed.
Correct(s, d, a) ==
  /\ drafts[s].status = "submitted" /\ drafts[d].status = "absent"
  /\ MayPrepare(a)
  /\ \A e \in Draft : drafts[e].pred # s
  /\ \A e \in Draft : drafts[e].corr = drafts[s].corr
                        => drafts[e].subrev <= drafts[s].subrev
  /\ drafts' = [drafts EXCEPT ![d] =
                  [NewDraft(letter[Submission(s)], a, a) EXCEPT
                     !.pred = s, !.corr = drafts[s].corr,
                     !.subrev = drafts[s].subrev + 1]]
  /\ Received(d, "manual_import")
  /\ UNCHANGED <<config, responses, received, outbox, reading, watching, work>>

(***************************************************************************)
(* Confirming: the text is read in one transaction and queued in another.  *)
(***************************************************************************)
Document(m) == IF m[1] = "submission" THEN drafts[m[2]] ELSE responses[m[2]]

\* The reads of confirm_draft and confirm_response.  The accounts of
\* human_preparer_actor_ids are those without permission to confirm.
Read(x, m) ==
  /\ reading[x] = None
  /\ IF x \in Actor THEN x \notin config.preparers
     ELSE /\ watching[x] # None /\ watching[x].checked
          /\ m = Submission(watching[x].of)
  /\ m[1] # "delivery_ack"
  /\ Document(m).status \in {"ready_review", "draft"}
  /\ reading' = [reading EXCEPT ![x] = [of |-> m, rev |-> Document(m).rev,
                                        body |-> Document(m).body]]
  /\ UNCHANGED <<config, drafts, imports, responses, received, outbox, watching,
                 work>>

\* Mutant of HasRead: the revision is not compared.
HasReadAny(x, m) ==
  /\ reading[x] # None
  /\ reading[x].of = m

HasRead(x, m) ==
  /\ reading[x] # None
  /\ reading[x].of = m
  /\ reading[x].rev = Document(m).rev

Enqueue(m, text) ==
  /\ rows' = [rows EXCEPT ![m] = "queued"]
  /\ order' = Append(order, m)
  /\ letter' = [letter EXCEPT ![m] = text]

\* Mutant of IndependentOf: forgets that a named person prepares a draft.
NotTheEditor(a, draft) == config.fourEyes => a # draft.editor

\* _assert_independent_actor with require_human_preparer.
IndependentOf(a, draft) ==
  config.fourEyes =>
    /\ a # draft.editor
    /\ draft.preparer # None /\ draft.preparedRev = draft.rev
    /\ a # draft.preparer

\* The idempotency key of the submission a draft becomes.
FilingKey(d) == <<d, drafts[d].subrev>>

\* The thread that imported the file goes on to the sending of it.
Confirmed(x) ==
  /\ reading' = [reading EXCEPT ![x] = None]
  /\ watching' = [w \in Worker |-> IF w = x THEN None ELSE watching[w]]

\* confirm_and_enqueue, by a person or in the name of the watcher.
ConfirmDraft(x, d) ==
  LET draft == drafts[d]
      by == IF x \in Worker THEN System ELSE x
  IN
  /\ HasRead(x, Submission(d))
  /\ draft.status = "ready_review"
  /\ draft.subrev > 1 =>
       /\ drafts[draft.pred].status = "submitted"
       /\ drafts[draft.pred].subrev + 1 = draft.subrev
       /\ drafts[draft.pred].corr = draft.corr
       /\ KeepsPeriod(d, reading[x].body)
  /\ IndependentOf(by, draft)
  /\ reading[x].body = draft.body
  /\ \A e \in Draft \ {d} : rows[Submission(e)] # "none"
                                => FilingKey(e) # FilingKey(d)
  /\ drafts' = [drafts EXCEPT ![d].status = "queued",
                              ![d].conf = [by |-> by, rev |-> draft.rev],
                              ![d].corr = IF draft.subrev = 1 THEN d ELSE @]
  /\ Enqueue(Submission(d), reading[x].body)
  /\ Confirmed(x)
  /\ UNCHANGED <<config, imports, responses, received, work>>

\* A person's confirmation that finds a condition unmet changes nothing.
GiveUp(a) ==
  /\ reading[a] # None
  /\ reading' = [reading EXCEPT ![a] = None]
  /\ UNCHANGED <<config, drafts, imports, responses, received, outbox, watching,
                 work>>

(***************************************************************************)
(* The directory watcher: ingest_bytes of a file it found.  The loop and   *)
(* the scans that people ask for may run at the same time.                 *)
(***************************************************************************)
Busy(w) == watching[w] # None \/ batch[w] # {} \/ polling[w] # NotPolling

Watch(w, d) == watching' = [watching EXCEPT ![w] = [of |-> d, checked |-> FALSE]]

\* Mutant of ImportWatched: the watcher counts as the preparer.
WatcherPrepares(w, d, b) ==
  /\ ~ Busy(w)
  /\ drafts[d].status = "absent"
  /\ drafts' = [drafts EXCEPT ![d] = NewDraft(b, System, System)]
  /\ Received(d, "direct_collection")
  /\ Watch(w, d)
  /\ UNCHANGED <<config, responses, received, outbox, reading, work>>

\* create_import of a file that is new.
ImportWatched(w, d, b) ==
  /\ ~ Busy(w)
  /\ drafts[d].status = "absent"
  /\ drafts' = [drafts EXCEPT ![d] = NewDraft(b, System, None)]
  /\ Received(d, "direct_collection")
  /\ Watch(w, d)
  /\ UNCHANGED <<config, responses, received, outbox, reading, work>>

\* The file was imported before and its automatic sending not decided
\* against: an interrupted pass is resumed.
ResumeWatched(w, d) ==
  /\ ~ Busy(w)
  /\ imports[d].mode = "direct_collection"
  /\ imports[d].status \in {"ready_review", "automatic_ready"}
  /\ drafts[d].status = "ready_review"
  /\ Watch(w, d)
  /\ UNCHANGED <<config, drafts, imports, responses, received, outbox, reading,
                 work>>

\* annotate_automatic_review: the check of the file, never passed where two
\* people must review.
CheckWatched(w, passed) ==
  /\ watching[w] # None /\ ~ watching[w].checked
  /\ passed => ~ config.fourEyes
  /\ imports' = [imports EXCEPT ![watching[w].of].status =
                   IF passed THEN "automatic_ready" ELSE "needs_review"]
  /\ watching' = [watching EXCEPT ![w] =
                    IF passed THEN [@ EXCEPT !.checked = TRUE] ELSE None]
  /\ UNCHANGED <<config, drafts, responses, received, outbox, reading, work>>

\* The confirmation in the watcher's name failed.
HoldWatched(w) ==
  /\ watching[w] # None /\ watching[w].checked
  /\ imports' = [imports EXCEPT ![watching[w].of].status = "needs_review"]
  /\ Confirmed(w)
  /\ UNCHANGED <<config, drafts, responses, received, outbox, work>>

\* Another thread has confirmed the draft: its queue entry is returned.
AlreadyConfirmed(w) ==
  /\ watching[w] # None /\ watching[w].checked
  /\ drafts[watching[w].of].status \in {"queued", "submitted"}
  /\ Confirmed(w)
  /\ UNCHANGED <<config, drafts, imports, responses, received, outbox, work>>

(***************************************************************************)
(* Responses.                                                              *)
(***************************************************************************)
\* create_response: one per stored report.
CreateResponse(r, a, b) ==
  /\ inbox[r].status # "none" /\ responses[r].status = "absent"
  /\ responses' = [responses EXCEPT ![r] =
                     [NoResponse EXCEPT !.status = "draft", !.rev = 1,
                                        !.body = b, !.editor = a]]
  /\ UNCHANGED <<config, drafts, imports, received, outbox, reading, watching,
                 work>>

\* Mutant of EditResponse: does not look at the status.
EditAnyResponse(r, a, b) ==
  /\ responses[r].status # "absent"
  /\ responses[r].rev < MaxRevision
  /\ responses' = [responses EXCEPT ![r].status = "draft", ![r].rev = @ + 1,
                                    ![r].body = b, ![r].editor = a,
                                    ![r].conf = None]
  /\ UNCHANGED <<config, drafts, imports, received, outbox, reading, watching,
                 work>>

\* replace_response
EditResponse(r, a, b) ==
  /\ responses[r].status = "draft"
  /\ responses[r].rev < MaxRevision
  /\ responses' = [responses EXCEPT ![r].rev = @ + 1, ![r].body = b,
                                    ![r].editor = a, ![r].conf = None]
  /\ UNCHANGED <<config, drafts, imports, received, outbox, reading, watching,
                 work>>

\* confirm_response_and_enqueue: the text that was read becomes the response.
ConfirmResponse(a, r) ==
  /\ HasRead(a, RiskResponse(r))
  /\ responses[r].status = "draft"
  /\ config.fourEyes => a # responses[r].editor
  /\ responses' = [responses EXCEPT
                     ![r].status = "queued", ![r].body = reading[a].body,
                     ![r].conf = [by |-> a, rev |-> responses[r].rev]]
  /\ Enqueue(RiskResponse(r), reading[a].body)
  /\ Confirmed(a)
  /\ UNCHANGED <<config, drafts, imports, received, work>>

(***************************************************************************)
(* The outbox.                                                             *)
(***************************************************************************)
\* Mutant of FourEyesFailure: does not compare the people.
IncompleteApproval(m) ==
  /\ config.fourEyes
  /\ m[1] # "delivery_ack"
  /\ ~ /\ Document(m).status = "queued"
       /\ Document(m).conf # None
       /\ Document(m).conf.rev = Document(m).rev

\* _outbox_four_eyes_failure: the persisted approval does not let m be sent.
FourEyesFailure(m) ==
  /\ config.fourEyes
  /\ m[1] # "delivery_ack"
  /\ ~ /\ Document(m).status = "queued"
       /\ Document(m).conf # None
       /\ Document(m).conf.rev = Document(m).rev
       /\ Document(m).conf.by # Document(m).editor
       /\ m[1] = "submission" =>
            /\ drafts[m[2]].preparer \in config.preparers
            /\ drafts[m[2]].preparedRev = drafts[m[2]].rev
            /\ drafts[m[2]].conf.by # drafts[m[2]].preparer

\* The row of m was created before that of n.
Older(m, n) ==
  \E i, j \in 1..Len(order) : i < j /\ order[i] = m /\ order[j] = n

\* The oldest of the candidates, as many as a claim takes.
Oldest(taken, candidates) ==
  /\ taken \subseteq candidates
  /\ Cardinality(taken) <= BatchLimit
  /\ taken # candidates => Cardinality(taken) = BatchLimit
  /\ \A m \in taken, n \in candidates \ taken : Older(m, n)

\* Mutant of Claim: the rows are not marked.
ClaimUnmarked(w, candidates) ==
  \E taken \in SUBSET candidates :
    /\ ~ Busy(w)
    /\ taken # {} /\ Oldest(taken, candidates)
    /\ \A m \in taken : ~ FourEyesFailure(m)
    /\ rows' = rows
    /\ batch' = [batch EXCEPT ![w] = taken]
    /\ UNCHANGED <<config, drafts, imports, responses, received, order, letter,
                   reading, watching, calling, polling>>

\* due_outbox: one message without its approval stops the whole queue.
Claim(w, candidates) ==
  \E taken \in SUBSET candidates :
    /\ ~ Busy(w)
    /\ taken # {} /\ Oldest(taken, candidates)
    /\ \A m \in taken : ~ FourEyesFailure(m)
    /\ rows' = [m \in Message |-> IF m \in taken THEN "sending" ELSE rows[m]]
    /\ batch' = [batch EXCEPT ![w] = taken]
    /\ UNCHANGED <<config, drafts, imports, responses, received, order, letter,
                   reading, watching, calling, polling>>

\* A queued row is due at once, a failed one when its delay is over.
ClaimDue(w) ==
  \E due \in SUBSET {m \in Message : rows[m] = "failed"} :
    Claim(w, due \union {m \in Message : rows[m] = "queued"})

\* process_outbox_once of one draft ("send now") does not wait for the delay.
ClaimDraft(w, d) ==
  Claim(w, {m \in {Submission(d)} : rows[m] \in {"queued", "failed"}})

\* assert_outbox_sendable
Sendable(m) == rows[m] = "sending" /\ ~ FourEyesFailure(m)

\* The message of its batch that a thread handles next.
IsNext(w, m) == m \in batch[w] /\ \A n \in batch[w] \ {m} : Older(m, n)

\* process_outbox_once, one message: the check, then the network.
Call(w) ==
  \E m \in Message :
    /\ IsNext(w, m) /\ ~ calling[w]
    /\ Sendable(m)
    /\ calling' = [calling EXCEPT ![w] = TRUE]
    /\ UNCHANGED <<config, drafts, imports, responses, received, outbox,
                   reading, watching, batch, polling>>

Handled(w, m) ==
  /\ batch' = [batch EXCEPT ![w] = @ \ {m}]
  /\ calling' = [calling EXCEPT ![w] = FALSE]

\* Mutant of Record: the cursor is left where it is.
RecordWithoutCursor(m) ==
  \/ /\ m[1] = "submission"
     /\ drafts' = [drafts EXCEPT ![m[2]].status = "submitted"]
     /\ UNCHANGED <<responses, inbox, cursor>>
  \/ /\ m[1] = "delivery_ack"
     /\ inbox' = [inbox EXCEPT ![m[2]].status = "acknowledged"]
     /\ UNCHANGED <<drafts, responses, cursor>>
  \/ /\ m[1] = "risk_response"
     /\ responses' = [responses EXCEPT ![m[2]].status = "submitted"]
     /\ UNCHANGED <<drafts, inbox, cursor>>

\* What outbox_succeeded writes about the document of m.
Record(m) ==
  \/ /\ m[1] = "submission"
     /\ drafts' = [drafts EXCEPT ![m[2]].status = "submitted"]
     /\ UNCHANGED <<responses, inbox, cursor>>
  \/ /\ m[1] = "delivery_ack"
     /\ inbox' = [inbox EXCEPT ![m[2]].status = "acknowledged"]
     /\ cursor' = inbox[m[2]].at
     /\ UNCHANGED <<drafts, responses>>
  \/ /\ m[1] = "risk_response"
     /\ responses' = [responses EXCEPT ![m[2]].status = "submitted"]
     /\ UNCHANGED <<drafts, inbox, cursor>>

\* outbox_succeeded, with a verified receipt.
Succeed(w) ==
  \E m \in Message :
    /\ IsNext(w, m) /\ calling[w]
    /\ rows' = [rows EXCEPT ![m] = "succeeded"]
    /\ Record(m)
    /\ Handled(w, m)
    /\ UNCHANGED <<config, imports, order, letter, reading, watching, polling>>

\* outbox_failed: the approval is gone, or the call ended in an error.
Fail(w) ==
  \E m \in Message :
    /\ IsNext(w, m)
    /\ calling[w] \/ ~ Sendable(m)
    /\ rows' = [rows EXCEPT ![m] = "failed"]
    /\ Handled(w, m)
    /\ UNCHANGED <<config, drafts, imports, responses, received, order, letter,
                   reading, watching, polling>>

(***************************************************************************)
(* The inbox.                                                              *)
(***************************************************************************)
\* poll_analysis_once sends the cursor it reads now.
StartPoll(w) ==
  /\ ~ Busy(w)
  /\ polling' = [polling EXCEPT ![w] = cursor]
  /\ UNCHANGED <<config, drafts, imports, responses, received, outbox, reading,
                 watching, batch, calling>>

\* Mutant of Store: a report that is there already is stored again.
StoreAgain(r, at) ==
  /\ inbox' = [inbox EXCEPT ![r] = [status |-> "stored", at |-> at]]
  /\ rows' = [rows EXCEPT ![DeliveryAck(r)] = "queued"]
  /\ order' = Append(SelectSeq(order, LAMBDA m : m # DeliveryAck(r)),
                     DeliveryAck(r))

\* store_report_with_ack; a report already stored is dropped.
Store(r, at) ==
  IF inbox[r].status # "none"
  THEN UNCHANGED <<inbox, rows, order>>
  ELSE /\ inbox' = [inbox EXCEPT ![r] = [status |-> "stored", at |-> at]]
       /\ rows' = [rows EXCEPT ![DeliveryAck(r)] = "queued"]
       /\ order' = Append(order, DeliveryAck(r))

\* The platform answers a poll with the first report behind its cursor.
AnswerPoll(w) ==
  /\ polling[w] \in 0 .. Len(Feed) - 1
  /\ Store(Feed[polling[w] + 1], polling[w] + 1)
  /\ polling' = [polling EXCEPT ![w] = NotPolling]
  /\ UNCHANGED <<config, drafts, imports, responses, cursor, letter, reading,
                 watching, batch, calling>>

\* No report, or no answer.
EndPoll(w) ==
  /\ polling[w] # NotPolling
  /\ polling' = [polling EXCEPT ![w] = NotPolling]
  /\ UNCHANGED <<config, drafts, imports, responses, received, outbox, reading,
                 watching, batch, calling>>

(***************************************************************************)
(* The process ends and starts again, maybe with another configuration.    *)
(***************************************************************************)
\* Mutant of Recovered: the rows are left as they are.
NotRecovered == rows

\* The rows as _initialize leaves them.
Recovered ==
  [m \in Message |-> IF rows[m] = "sending" THEN "failed" ELSE rows[m]]

Restart ==
  /\ config' \in Configs
  /\ rows' = Recovered
  /\ reading' = [x \in Reader |-> None]
  /\ watching' = [w \in Worker |-> None]
  /\ batch' = [w \in Worker |-> {}]
  /\ calling' = [w \in Worker |-> FALSE]
  /\ polling' = [w \in Worker |-> NotPolling]
  /\ UNCHANGED <<drafts, imports, responses, received, order, letter>>

Drafting ==
  \/ \E d \in Draft, a \in Actor, b \in Body : Import(d, a, b) \/ EditDraft(d, a, b)
  \/ \E d \in Draft : Discard(d)
  \/ \E s, d \in Draft, a \in Actor : Correct(s, d, a)
  \/ \E x \in Reader, m \in Message : Read(x, m)
  \/ \E x \in Reader, d \in Draft : ConfirmDraft(x, d)
  \/ \E a \in Actor : GiveUp(a)

Watching ==
  \E w \in Worker :
    \/ \E d \in Draft, b \in Body : ImportWatched(w, d, b)
    \/ \E d \in Draft : ResumeWatched(w, d)
    \/ \E passed \in BOOLEAN : CheckWatched(w, passed)
    \/ HoldWatched(w)
    \/ AlreadyConfirmed(w)

Responding ==
  \/ \E r \in Report, a \in Actor, b \in Body :
       CreateResponse(r, a, b) \/ EditResponse(r, a, b)
  \/ \E a \in Actor, r \in Report : ConfirmResponse(a, r)

Exchange ==
  \E w \in Worker : \/ ClaimDue(w) \/ \E d \in Draft : ClaimDraft(w, d)
                    \/ Call(w) \/ Succeed(w) \/ Fail(w)
                    \/ StartPoll(w) \/ AnswerPoll(w) \/ EndPoll(w)

Next == Drafting \/ Watching \/ Responding \/ Exchange \/ Restart

Spec == Init /\ [][Next]_vars

\* A busy thread ends what it does, one way or the other.
Finish(w) ==
  \/ \E passed \in BOOLEAN : CheckWatched(w, passed)
  \/ HoldWatched(w) \/ AlreadyConfirmed(w)
  \/ Fail(w)
  \/ EndPoll(w)

\* The exchange loop runs for as long as the process does.  The delay of a
\* failed row ends, the process is not killed at every single step, and the
\* platform does not fail every call: it accepts one now and then.
Fairness ==
  /\ WF_vars(\E w \in Worker : Finish(w))
  /\ SF_vars(\E w \in Worker : ClaimDue(w))
  /\ SF_vars(\E w \in Worker : Call(w))
  /\ SF_vars(\E w \in Worker : Succeed(w))
  /\ SF_vars(\E w \in Worker : StartPoll(w))
  /\ SF_vars(\E w \in Worker : AnswerPoll(w))

FairSpec == Spec /\ Fairness

(***************************************************************************)
(* Properties.                                                             *)
(***************************************************************************)
\* Type correctness.
TypeOK ==
  /\ config \in Configs
  /\ drafts \in [Draft -> DraftRecord]
  /\ imports \in [Draft -> ImportRecord]
  /\ responses \in [Report -> ResponseRecord]
  /\ inbox \in [Report -> [status: {"none", "stored", "acknowledged"}, at: Nat]]
  /\ cursor \in Nat
  /\ rows \in [Message -> {"none", "queued", "sending", "failed", "succeeded"}]
  /\ order \in Seq(Message)
  /\ letter \in [Message -> Body \union {None}]
  /\ reading \in [Reader -> [of: Message, rev: 1..MaxRevision, body: Body]
                              \union {None}]
  /\ watching \in [Worker -> [of: Draft, checked: BOOLEAN] \union {None}]
  /\ batch \in [Worker -> SUBSET Message]
  /\ calling \in [Worker -> BOOLEAN]
  /\ polling \in [Worker -> Nat \union {NotPolling}]

\* From its confirmation on, a draft or a response says what its signed
\* message says and what its confirmation was about, whatever people edit or
\* discard while the message waits, fails and is sent again (replace_draft,
\* discard_draft, replace_response, outbox_failed); it is submitted exactly
\* when its message is.
QueuedIsFrozen ==
  \A m \in Message : (m[1] # "delivery_ack" /\ rows[m] # "none") =>
    /\ Document(m).status \in {"queued", "submitted"}
    /\ Document(m).body = letter[m]
    /\ Document(m).conf # None /\ Document(m).conf.rev = Document(m).rev
    /\ (Document(m).status = "submitted") <=> (rows[m] = "succeeded")

Sending(w, m) == calling[w] /\ IsNext(w, m)

\* While the agent is configured for four eyes, no text leaves it that was
\* not confirmed by somebody other than its last editor, and no submission
\* that a configured preparer did not save in that very revision, even when
\* it was queued under another configuration (due_outbox and
\* assert_outbox_sendable against confirmations made before a restart).
ReviewedBeforeSending ==
  config.fourEyes =>
    \A w \in Worker, m \in Message : (Sending(w, m) /\ m[1] # "delivery_ack") =>
      /\ Document(m).conf.by # Document(m).editor
      /\ m[1] = "submission" =>
           /\ drafts[m[2]].preparer \in config.preparers \ {drafts[m[2]].conf.by}
           /\ drafts[m[2]].preparedRev = drafts[m[2]].rev

\* A confirmation queues the text that was saved last, not one that its
\* reader saw and somebody has replaced since (the revision compared by
\* confirm_and_enqueue and confirm_response_and_enqueue).
ConfirmedAsSaved ==
  [][\A m \in Message : (rows[m] = "none" /\ rows'[m] # "none") =>
       m[1] = "delivery_ack" \/ letter'[m] = Document(m).body]_vars

\* The agent never forks a workflow: a submission has at most one successor,
\* in the same workflow with the next revision and of the same period, and it
\* exists only once the platform's receipt for the submission is in
\* (create_correction_draft, confirm_and_enqueue).
ChainsDoNotFork ==
  \A d \in Draft : drafts[d].pred # None =>
    LET p == drafts[d].pred IN
    /\ \A e \in Draft : drafts[e].pred = p => e = d
    /\ drafts[p].status = "submitted"
    /\ drafts[p].corr = drafts[d].corr /\ drafts[p].subrev + 1 = drafts[d].subrev
    /\ PeriodOf[drafts[d].body] = PeriodOf[letter[Submission(p)]]

\* As long as the configuration stays the same, what people can confirm can
\* be sent: no queued row lacks the approval due_outbox asks of it, which
\* would stop all messages of the agent.
QueueNotBlocked ==
  \A m \in Message : rows[m] \in {"queued", "failed"} => ~ FourEyesFailure(m)

\* A row is being sent by one thread at most, and "sending" says so: no
\* message is in two batches, or marked but in none, or in one but not marked
\* (due_outbox, outbox_failed, the recovery of _initialize).
ClaimedOnce ==
  /\ \A v, w \in Worker : v # w => batch[v] \intersect batch[w] = {}
  /\ {m \in Message : rows[m] = "sending"} = UNION {batch[w] : w \in Worker}

\* The cursor skips nothing: the reports up to it are stored and their
\* acknowledgements delivered, the one behind it may be stored, and none
\* further on is, whichever threads poll and answer late.
NothingSkipped ==
  \A i \in 1..Len(Feed) :
    /\ i <= cursor <=> inbox[Feed[i]].status = "acknowledged"
    /\ inbox[Feed[i]].status # "none" => i <= cursor + 1 /\ inbox[Feed[i]].at = i
    /\ (rows[DeliveryAck(Feed[i])] = "succeeded") <=> i <= cursor

\* Every risk report of the platform is stored and acknowledged in the end.
EveryReportAcknowledged == <>(cursor = Len(Feed))

\* The outbox empties again and again: no restart or failure leaves a row in
\* a state from which no thread takes it up.
QueuedIsDelivered == []<>(\A m \in Message : rows[m] \in {"none", "succeeded"})

============================================================================
