------------------------ MODULE AgentExchangeProofs ------------------------
(***************************************************************************)
(* What the agent's exchange guarantees for any number of drafts, reports, *)
(* people, threads and configurations.                                     *)
(***************************************************************************)
EXTENDS AgentExchange, TLAPS

-----------------------------------------------------------------------------
(***************************************************************************)
(* Types.  A confirmation types the revision and the text it queues by     *)
(* what was read, and a correction its text by the letter of the message   *)
(* it corrects, so types rest on what a document that exists looks like.   *)
(***************************************************************************)
\* The documents people can confirm, and what the agent knows of each.
Documents == {m \in Message : m[1] # "delivery_ack"}

\* A document that exists has a revision and a text, and its letter, once it
\* is queued, has one too.
Shape ==
  /\ \A d \in Draft :
       IF drafts[d].status = "absent" THEN drafts[d] = NoDraft
       ELSE drafts[d].rev \in 1..MaxRevision /\ drafts[d].body \in Body
  /\ \A r \in Report : responses[r].status # "absent" =>
       responses[r].rev \in 1..MaxRevision /\ responses[r].body \in Body
  /\ \A d \in Draft : drafts[d].status \in {"queued", "submitted"} =>
       letter[Submission(d)] \in Body

LEMMA MessageFacts ==
  /\ \A d \in Draft : Submission(d) \in Message
  /\ \A r \in Report : DeliveryAck(r) \in Message /\ RiskResponse(r) \in Message
  /\ \A m \in Message :
       \/ \E d \in Draft : m = Submission(d)
       \/ \E r \in Report : m = DeliveryAck(r)
       \/ \E r \in Report : m = RiskResponse(r)
  BY DEF Message, Submission, DeliveryAck, RiskResponse

LEMMA NewDraftType ==
  ASSUME NEW b \in Body, NEW e \in Actor \union {System},
         NEW p \in Actor \union {None}
  PROVE  /\ NewDraft(b, e, p) \in DraftRecord
         /\ NewDraft(b, e, p).status = "ready_review"
         /\ NewDraft(b, e, p).rev = 1 /\ NewDraft(b, e, p).body = b
         /\ NewDraft(b, e, p).pred = None /\ NewDraft(b, e, p).conf = None
         /\ NewDraft(b, e, p).subrev = 1 /\ NewDraft(b, e, p).corr = None
<1>1. (IF p = None THEN 0 ELSE 1) \in 0..MaxRevision /\ 1 \in 0..MaxRevision
  BY AgentAssumption
<1>2. NoDraft \in DraftRecord
  BY AgentAssumption DEF NoDraft, DraftRecord
<1>3. NewDraft(b, e, p) \in DraftRecord
  BY <1>1, <1>2, ZenonT(40) DEF NewDraft, DraftRecord
<1> QED BY <1>3 DEF NewDraft, NoDraft

LEMMA DraftUpdates ==
  ASSUME NEW v \in DraftRecord
  PROVE  /\ \A c \in Confirmation, d \in Draft \union {None} :
              [v EXCEPT !.status = "queued", !.conf = c, !.corr = d] \in DraftRecord
         /\ [v EXCEPT !.status = "submitted"] \in DraftRecord
  BY ZenonT(40) DEF DraftRecord

LEMMA ResponseUpdates ==
  ASSUME NEW v \in ResponseRecord
  PROVE  /\ \A c \in Confirmation, b \in Body :
              [v EXCEPT !.status = "queued", !.body = b, !.conf = c]
                \in ResponseRecord
         /\ \A n \in 0..MaxRevision, a \in Actor, b \in Body :
              [v EXCEPT !.rev = n, !.body = b, !.editor = a, !.conf = None]
                \in ResponseRecord
         /\ [v EXCEPT !.status = "submitted"] \in ResponseRecord
  BY DEF ResponseRecord

LEMMA ImportUpdates ==
  ASSUME NEW v \in ImportRecord
  PROVE  /\ [v EXCEPT !.status = "needs_review"] \in ImportRecord
         /\ [v EXCEPT !.status = "automatic_ready"] \in ImportRecord
  BY DEF ImportRecord

LEMMA TypeInit == Init => TypeOK /\ Shape
  BY AgentAssumption, MessageFacts
  DEF Init, TypeOK, Shape, NoDraft, NoResponse, DraftRecord, ResponseRecord,
      ImportRecord, NotPolling, Config

TypeInv == TypeOK /\ Shape

\* What a thread is sending is a document that waits to be sent.
BatchQueued ==
  \A w \in Worker : \A m \in batch[w] :
    m[1] # "delivery_ack" => Document(m).status = "queued"

LEMMA TypeDrafting ==
  ASSUME TypeInv, NEW d \in Draft
  PROVE  /\ \A a \in Actor, b \in Body : Import(d, a, b) => TypeInv'
         /\ \A a \in Actor, b \in Body : EditDraft(d, a, b) => TypeInv'
         /\ Discard(d) => TypeInv'
         /\ \A s \in Draft, a \in Actor : Correct(s, d, a) => TypeInv'
<1> USE DEF TypeInv
<1>0. drafts[d] \in DraftRecord /\ drafts[d].rev \in Nat /\ imports[d] \in ImportRecord
  BY AgentAssumption DEF TypeOK, DraftRecord
<1>1. ASSUME NEW a \in Actor, NEW b \in Body, Import(d, a, b) PROVE TypeInv'
  <2> DEFINE p == IF a \in config.preparers THEN a ELSE None
  <2>1. p \in Actor \union {None}
    OBVIOUS
  <2>2. /\ drafts' = [drafts EXCEPT ![d] = NewDraft(b, a, p)]
        /\ imports' = [imports EXCEPT ![d] = [mode |-> "manual_import",
                                             status |-> "ready_review"]]
        /\ UNCHANGED <<config, responses, received, outbox, reading, watching, work>>
    BY <1>1 DEF Import, Received
  <2> HIDE DEF p
  <2>3. TypeOK'
    BY <2>1, <2>2, NewDraftType DEF TypeOK, ImportRecord, received, outbox, work
  <2>4. Shape'
    BY <2>1, <2>2, NewDraftType, AgentAssumption DEF Shape, TypeOK, outbox
  <2> QED BY <2>3, <2>4
<1>2. ASSUME NEW a \in Actor, NEW b \in Body, EditDraft(d, a, b) PROVE TypeInv'
  <2>1. /\ drafts[d].rev + 1 \in 1..MaxRevision
        /\ drafts[d].rev + 1 \in 0..MaxRevision
    BY <1>0, <1>2, AgentAssumption DEF EditDraft
  <2>2. \A n \in 0..MaxRevision :
          [drafts[d] EXCEPT !.rev = n, !.body = b, !.editor = a, !.preparer = a,
                            !.preparedRev = n, !.conf = None] \in DraftRecord
    BY <1>0 DEF DraftRecord
  <2>3. TypeOK'
    BY <1>2, <2>1, <2>2 DEF EditDraft, TypeOK, received, outbox, work
  <2>4. Shape'
    <3> DEFINE x == [drafts[d] EXCEPT !.rev = @ + 1, !.body = b, !.editor = a,
                                      !.preparer = a,
                                      !.preparedRev = drafts[d].rev + 1,
                                      !.conf = None]
    <3>1. /\ x.status = "ready_review" /\ x.rev = drafts[d].rev + 1 /\ x.body = b
          /\ drafts[d].status = "ready_review"
      BY <1>0, <1>2 DEF EditDraft, DraftRecord
    <3>2. drafts' = [drafts EXCEPT ![d] = x] /\ UNCHANGED <<responses, letter>>
      BY <1>2 DEF EditDraft, outbox
    <3> HIDE DEF x
    <3>3. drafts'[d] = x /\ \A e \in Draft \ {d} : drafts'[e] = drafts[e]
      BY <3>2 DEF TypeOK
    <3> QED BY <2>1, <3>1, <3>2, <3>3 DEF Shape
  <2> QED BY <2>3, <2>4
<1>3. ASSUME Discard(d) PROVE TypeInv'
  <2>1. drafts[d].rev + 1 \in 1..MaxRevision
    BY <1>0, <1>3, AgentAssumption DEF Discard
  <2>2. TypeOK'
    BY <1>0, <1>3, <2>1, SMTT(30)
    DEF Discard, TypeOK, DraftRecord, ImportRecord, received, outbox, work
  <2>3. Shape'
    BY <1>0, <1>3, <2>1 DEF Discard, Shape, TypeOK, outbox
  <2> QED BY <2>2, <2>3
<1>4. ASSUME NEW s \in Draft, NEW a \in Actor, Correct(s, d, a) PROVE TypeInv'
  <2> DEFINE new == NewDraft(letter[Submission(s)], a, a)
  <2> DEFINE next == [new EXCEPT !.pred = s, !.corr = drafts[s].corr,
                                 !.subrev = drafts[s].subrev + 1]
  <2>1. letter[Submission(s)] \in Body
    BY <1>4 DEF Correct, Shape
  <2>2. new \in DraftRecord /\ new.status = "ready_review" /\ new.rev = 1
          /\ new.body \in Body
    BY <2>1, NewDraftType
  <2>3. /\ drafts' = [drafts EXCEPT ![d] = next]
        /\ imports' = [imports EXCEPT ![d] = [mode |-> "manual_import",
                                             status |-> "ready_review"]]
        /\ UNCHANGED <<config, responses, received, outbox, reading, watching, work>>
    BY <1>4 DEF Correct, Received
  <2>4. drafts[s].corr \in Draft \union {None} /\ drafts[s].subrev + 1 \in Nat
    BY DEF TypeOK, DraftRecord
  <2>5. next \in DraftRecord /\ next.status = "ready_review" /\ next.rev = 1
          /\ next.body \in Body
    <3> HIDE DEF new
    <3> QED BY <2>2, <2>4 DEF DraftRecord
  <2> HIDE DEF next
  <2>6. TypeOK'
    BY <2>3, <2>5 DEF TypeOK, ImportRecord, received, outbox, work
  <2>7. Shape'
    BY <2>3, <2>5, AgentAssumption DEF Shape, TypeOK, outbox
  <2> QED BY <2>6, <2>7
<1> QED BY <1>1, <1>2, <1>3, <1>4

LEMMA TypeConfirming ==
  ASSUME TypeInv
  PROVE  /\ \A x \in Reader, m \in Message : Read(x, m) => TypeInv'
         /\ \A x \in Reader, d \in Draft : ConfirmDraft(x, d) => TypeInv'
         /\ \A a \in Actor : GiveUp(a) => TypeInv'
         /\ \A a \in Actor, r \in Report : ConfirmResponse(a, r) => TypeInv'
<1> USE DEF TypeInv
<1>1. ASSUME NEW x \in Reader, NEW m \in Message, Read(x, m) PROVE TypeInv'
  <2>1. Document(m).rev \in 1..MaxRevision /\ Document(m).body \in Body
    BY <1>1, MessageFacts
    DEF Read, Shape, Document, Submission, DeliveryAck, RiskResponse
  <2>2. TypeOK'
    BY <1>1, <2>1 DEF Read, TypeOK, received, outbox, work
  <2>3. Shape'
    BY <1>1 DEF Read, Shape, outbox
  <2> QED BY <2>2, <2>3
<1>2. ASSUME NEW x \in Reader, NEW d \in Draft, ConfirmDraft(x, d) PROVE TypeInv'
  <2> DEFINE by == IF x \in Worker THEN System ELSE x
             corr == IF drafts[d].subrev = 1 THEN d ELSE drafts[d].corr
  <2>1. /\ reading[x].body \in Body /\ reading[x].rev \in 1..MaxRevision
        /\ reading[x].rev = drafts[d].rev /\ drafts[d].body = reading[x].body
    BY <1>2 DEF ConfirmDraft, HasRead, TypeOK, Document, Submission
  <2>2. by \in Actor \union {System} /\ corr \in Draft \union {None}
    BY DEF Reader, TypeOK, DraftRecord
  <2>3. /\ drafts' = [drafts EXCEPT ![d].status = "queued",
                                    ![d].conf = [by |-> by, rev |-> drafts[d].rev],
                                    ![d].corr = corr]
        /\ rows' = [rows EXCEPT ![Submission(d)] = "queued"]
        /\ order' = Append(order, Submission(d))
        /\ letter' = [letter EXCEPT ![Submission(d)] = reading[x].body]
        /\ reading' = [reading EXCEPT ![x] = None]
        /\ watching' = [w \in Worker |-> IF w = x THEN None ELSE watching[w]]
        /\ UNCHANGED <<config, imports, responses, received, work>>
    BY <1>2 DEF ConfirmDraft, Enqueue, Confirmed
  <2> HIDE DEF by, corr
  <2>4. [by |-> by, rev |-> drafts[d].rev] \in Confirmation
    BY <2>1, <2>2 DEF Confirmation
  <2>5. drafts' \in [Draft -> DraftRecord]
    <3>1. \A c \in Confirmation :
            [drafts[d] EXCEPT !.status = "queued", !.conf = c, !.corr = corr]
              \in DraftRecord
      BY <2>2, DraftUpdates DEF TypeOK
    <3> QED BY <2>3, <2>4, <3>1 DEF TypeOK
  <2>6. TypeOK'
    BY <2>1, <2>3, <2>5, MessageFacts DEF TypeOK, received, work
  <2>7. Shape'
    BY <2>1, <2>3, MessageFacts DEF TypeOK, Shape, Submission
  <2> QED BY <2>6, <2>7
<1>3. ASSUME NEW a \in Actor, GiveUp(a) PROVE TypeInv'
  BY <1>3 DEF GiveUp, TypeOK, Shape, received, outbox, work
<1>4. ASSUME NEW a \in Actor, NEW r \in Report, ConfirmResponse(a, r)
      PROVE  TypeInv'
  <2>1. /\ reading[a].body \in Body /\ reading[a].rev \in 1..MaxRevision
        /\ reading[a].rev = responses[r].rev
    BY <1>4 DEF ConfirmResponse, HasRead, TypeOK, Document, RiskResponse, Reader
  <2>2. [by |-> a, rev |-> responses[r].rev] \in Confirmation
    BY <2>1 DEF Confirmation
  <2>3. responses' \in [Report -> ResponseRecord]
    <3>1. \A c \in Confirmation, t \in Body :
            [responses[r] EXCEPT !.status = "queued", !.body = t, !.conf = c]
              \in ResponseRecord
      BY ResponseUpdates DEF TypeOK
    <3> QED BY <1>4, <2>1, <2>2, <3>1 DEF ConfirmResponse, TypeOK
  <2>4. TypeOK'
    <3>1. /\ rows' \in [Message -> {"none", "queued", "sending", "failed",
                                    "succeeded"}]
          /\ order' \in Seq(Message) /\ letter' \in [Message -> Body \union {None}]
      BY <1>4, <2>1, MessageFacts DEF ConfirmResponse, Enqueue, TypeOK
    <3> QED BY <1>4, <2>3, <3>1
            DEF ConfirmResponse, Confirmed, TypeOK, received, work, Reader
  <2>5. Shape'
    BY <1>4, <2>1, MessageFacts
    DEF ConfirmResponse, Enqueue, Confirmed, TypeOK, Shape, Submission, RiskResponse
  <2> QED BY <2>4, <2>5
<1> QED BY <1>1, <1>2, <1>3, <1>4

LEMMA TypeResponding ==
  ASSUME TypeInv, NEW r \in Report, NEW a \in Actor, NEW b \in Body
  PROVE  CreateResponse(r, a, b) \/ EditResponse(r, a, b) => TypeInv'
<1> USE DEF TypeInv
<1>1. ASSUME CreateResponse(r, a, b) PROVE TypeInv'
  <2>1. 1 \in 1..MaxRevision /\ 1 \in 0..MaxRevision
    BY AgentAssumption
  <2>2. responses' \in [Report -> ResponseRecord]
    BY <1>1, <2>1 DEF CreateResponse, NoResponse, TypeOK, ResponseRecord
  <2> QED BY <1>1, <2>1, <2>2
          DEF CreateResponse, NoResponse, TypeOK, Shape, received, outbox, work
<1>2. ASSUME EditResponse(r, a, b) PROVE TypeInv'
  <2>1. /\ responses[r].rev + 1 \in 1..MaxRevision
        /\ responses[r].rev + 1 \in 0..MaxRevision
    BY <1>2, AgentAssumption DEF EditResponse, TypeOK, ResponseRecord
  <2>2. responses' \in [Report -> ResponseRecord]
    <3>1. \A n \in 0..MaxRevision :
            [responses[r] EXCEPT !.rev = n, !.body = b, !.editor = a, !.conf = None]
              \in ResponseRecord
      BY ResponseUpdates DEF TypeOK
    <3> QED BY <1>2, <2>1, <3>1 DEF EditResponse, TypeOK
  <2> QED BY <1>2, <2>1, <2>2
          DEF EditResponse, TypeOK, Shape, received, outbox, work
<1> QED BY <1>1, <1>2

LEMMA TypeWatching ==
  ASSUME TypeInv, NEW w \in Worker
  PROVE  /\ \A d \in Draft, b \in Body : ImportWatched(w, d, b) => TypeInv'
         /\ \A d \in Draft : ResumeWatched(w, d) => TypeInv'
         /\ \A passed \in BOOLEAN : CheckWatched(w, passed) => TypeInv'
         /\ HoldWatched(w) => TypeInv'
         /\ AlreadyConfirmed(w) => TypeInv'
<1> USE DEF TypeInv
<1>1. ASSUME NEW d \in Draft, NEW b \in Body, ImportWatched(w, d, b) PROVE TypeInv'
  BY <1>1, NewDraftType, AgentAssumption
  DEF ImportWatched, Received, Watch, TypeOK, Shape, ImportRecord, received,
      outbox, work
<1>2. ASSUME NEW d \in Draft, ResumeWatched(w, d) PROVE TypeInv'
  BY <1>2 DEF ResumeWatched, Watch, TypeOK, Shape, received, outbox, work
<1>3. ASSUME NEW passed \in BOOLEAN, CheckWatched(w, passed) PROVE TypeInv'
  <2>1. watching[w] \in [of: Draft, checked: BOOLEAN]
    BY <1>3 DEF CheckWatched, TypeOK
  <2>2. [watching[w] EXCEPT !.checked = TRUE] \in [of: Draft, checked: BOOLEAN]
    BY <2>1
  <2>3. watching' \in [Worker -> [of: Draft, checked: BOOLEAN] \union {None}]
    BY <1>3, <2>2 DEF CheckWatched, TypeOK
  <2>4. imports' \in [Draft -> ImportRecord]
    <3>1. imports[watching[w].of] \in ImportRecord
      BY <2>1 DEF TypeOK
    <3>2. imports' = [imports EXCEPT ![watching[w].of].status =
                        IF passed THEN "automatic_ready" ELSE "needs_review"]
      BY <1>3 DEF CheckWatched
    <3> QED BY <3>1, <3>2, ImportUpdates DEF TypeOK
  <2> QED BY <1>3, <2>3, <2>4 DEF CheckWatched, TypeOK, Shape, received, outbox, work
<1>4. ASSUME HoldWatched(w) PROVE TypeInv'
  <2>1. imports' \in [Draft -> ImportRecord]
    BY <1>4, ImportUpdates DEF HoldWatched, TypeOK
  <2> QED BY <1>4, <2>1
          DEF HoldWatched, Confirmed, TypeOK, Shape, Reader, received, outbox, work
<1>5. ASSUME AlreadyConfirmed(w) PROVE TypeInv'
  BY <1>5 DEF AlreadyConfirmed, Confirmed, TypeOK, Shape, Reader, received, outbox,
              work
<1> QED BY <1>1, <1>2, <1>3, <1>4, <1>5

LEMMA TypeExchange ==
  ASSUME TypeInv, BatchQueued, NEW w \in Worker
  PROVE  /\ \A c \in SUBSET Message : Claim(w, c) => TypeInv'
         /\ Call(w) \/ Succeed(w) \/ Fail(w) => TypeInv'
         /\ StartPoll(w) \/ AnswerPoll(w) \/ EndPoll(w) => TypeInv'
<1> USE DEF TypeInv
<1>1. ASSUME NEW c \in SUBSET Message, Claim(w, c) PROVE TypeInv'
  BY <1>1 DEF Claim, TypeOK, Shape, received
<1>2. ASSUME Call(w) PROVE TypeInv'
  BY <1>2 DEF Call, TypeOK, Shape, received, outbox
<1>3. ASSUME Succeed(w) PROVE TypeInv'
  <2>1. PICK m \in Message :
          /\ rows' = [rows EXCEPT ![m] = "succeeded"]
          /\ Record(m) /\ Handled(w, m) /\ IsNext(w, m)
          /\ UNCHANGED <<config, imports, order, letter, reading, watching, polling>>
    BY <1>3 DEF Succeed
  <2>2. /\ config' \in Configs /\ imports' \in [Draft -> ImportRecord]
        /\ rows' \in [Message -> {"none", "queued", "sending", "failed", "succeeded"}]
        /\ batch' \in [Worker -> SUBSET Message] /\ calling' \in [Worker -> BOOLEAN]
    BY <2>1 DEF Handled, TypeOK
  <2>3. CASE m[1] = "submission"
    <3>1. m[2] \in Draft
      BY <2>3, MessageFacts DEF Submission, DeliveryAck, RiskResponse
    <3>2. /\ drafts' = [drafts EXCEPT ![m[2]].status = "submitted"]
          /\ UNCHANGED <<responses, inbox, cursor>>
      BY <2>1, <2>3 DEF Record
    <3>3. drafts[m[2]].status = "queued" /\ m = Submission(m[2])
      BY <2>1, <2>3, MessageFacts
      DEF BatchQueued, IsNext, Document, Submission, DeliveryAck, RiskResponse
    <3>4. drafts' \in [Draft -> DraftRecord]
      BY <3>1, <3>2, DraftUpdates DEF TypeOK
    <3>5. Shape'
      BY <2>1, <3>1, <3>2, <3>3 DEF TypeOK, Shape
    <3> QED BY <2>1, <2>2, <3>2, <3>4, <3>5 DEF TypeOK
  <2>4. CASE m[1] = "delivery_ack"
    <3>1. m[2] \in Report
      BY <2>4, MessageFacts DEF Submission, DeliveryAck, RiskResponse
    <3>2. /\ inbox' = [inbox EXCEPT ![m[2]].status = "acknowledged"]
          /\ cursor' = inbox[m[2]].at
          /\ UNCHANGED <<drafts, responses>>
      BY <2>1, <2>4 DEF Record
    <3> QED BY <2>1, <2>2, <3>1, <3>2, SMTT(30) DEF TypeOK, Shape
  <2>5. CASE m[1] = "risk_response"
    <3>1. m[2] \in Report
      BY <2>5, MessageFacts DEF Submission, DeliveryAck, RiskResponse
    <3>2. /\ responses' = [responses EXCEPT ![m[2]].status = "submitted"]
          /\ UNCHANGED <<drafts, inbox, cursor>>
      BY <2>1, <2>5 DEF Record
    <3>3. responses[m[2]].status = "queued"
      BY <2>1, <2>5 DEF BatchQueued, IsNext, Document
    <3>4. responses' \in [Report -> ResponseRecord]
      BY <3>1, <3>2, ResponseUpdates DEF TypeOK
    <3>5. Shape'
      BY <2>1, <3>1, <3>2, <3>3 DEF TypeOK, Shape
    <3> QED BY <2>1, <2>2, <3>2, <3>4, <3>5 DEF TypeOK
  <2> QED BY <2>1, <2>3, <2>4, <2>5 DEF Record
<1>4. ASSUME Fail(w) PROVE TypeInv'
  BY <1>4 DEF Fail, Handled, TypeOK, Shape, received
<1>5. ASSUME StartPoll(w) \/ EndPoll(w) PROVE TypeInv'
  BY <1>5 DEF StartPoll, EndPoll, TypeOK, Shape, received, outbox
<1>6. ASSUME AnswerPoll(w) PROVE TypeInv'
  <2> DEFINE r == Feed[polling[w] + 1]
  <2>1. polling[w] + 1 \in 1..Len(Feed) /\ polling[w] + 1 \in Nat
    BY <1>6, AgentAssumption DEF AnswerPoll
  <2>2. r \in Report /\ DeliveryAck(r) \in Message
    BY <2>1, AgentAssumption, MessageFacts
  <2>3. /\ Store(r, polling[w] + 1)
        /\ polling' = [polling EXCEPT ![w] = NotPolling]
        /\ UNCHANGED <<config, drafts, imports, responses, cursor, letter, reading,
                       watching, batch, calling>>
    BY <1>6 DEF AnswerPoll
  <2> HIDE DEF r
  <2>4. /\ inbox' \in [Report -> [status: {"none", "stored", "acknowledged"}, at: Nat]]
        /\ rows' \in [Message -> {"none", "queued", "sending", "failed", "succeeded"}]
        /\ order' \in Seq(Message)
    <3>1. CASE inbox[r].status # "none"
      BY <2>3, <3>1 DEF Store, TypeOK
    <3>2. CASE inbox[r].status = "none"
      <4>1. /\ inbox' = [inbox EXCEPT ![r] = [status |-> "stored",
                                              at |-> polling[w] + 1]]
            /\ rows' = [rows EXCEPT ![DeliveryAck(r)] = "queued"]
            /\ order' = Append(order, DeliveryAck(r))
        BY <2>3, <3>2 DEF Store
      <4> QED BY <2>1, <2>2, <4>1 DEF TypeOK
    <3> QED BY <3>1, <3>2
  <2> QED BY <2>3, <2>4 DEF TypeOK, Shape
<1> QED BY <1>1, <1>2, <1>3, <1>4, <1>5, <1>6

LEMMA TypeRestart == ASSUME TypeInv, Restart PROVE TypeInv'
  BY DEF TypeInv, Restart, Recovered, NotPolling, TypeOK, Shape, received

-----------------------------------------------------------------------------
(***************************************************************************)
(* The outbox.  That a queued document stays as it was signed rests on its *)
(* row saying so, and the row on no second thread holding the message: a   *)
(* thread that fails after another succeeded would queue it again.         *)
(***************************************************************************)
\* A document is queued or submitted exactly if it has a row, and its row is
\* about what it says; likewise the acknowledgement of a report.
RowsMatch ==
  /\ \A m \in Documents :
       /\ (rows[m] = "none") <=> Document(m).status \notin {"queued", "submitted"}
       /\ rows[m] # "none" =>
            /\ Document(m).body = letter[m]
            /\ Document(m).conf # None /\ Document(m).conf.rev = Document(m).rev
            /\ (Document(m).status = "submitted") <=> (rows[m] = "succeeded")
  /\ \A r \in Report :
       /\ (rows[DeliveryAck(r)] = "none") <=> (inbox[r].status = "none")
       /\ (rows[DeliveryAck(r)] = "succeeded") <=> (inbox[r].status = "acknowledged")

\* What was claimed had its approval, and keeps it until it is handled.
Approved == \A w \in Worker : \A m \in batch[w] : ~ FourEyesFailure(m)

OutboxInv == RowsMatch /\ ClaimedOnce /\ Approved

\* The steps that leave the outbox alone touch no document that has a row.
Quiet ==
  /\ UNCHANGED <<config, rows, letter, batch, inbox>>
  /\ \A m \in Documents :
       IF rows[m] # "none" THEN Document(m)' = Document(m)
       ELSE Document(m)'.status \notin {"queued", "submitted"}

LEMMA DocumentFacts ==
  /\ \A d \in Draft : Submission(d) \in Documents
                        /\ Document(Submission(d)) = drafts[d]
  /\ \A r \in Report : RiskResponse(r) \in Documents
                         /\ Document(RiskResponse(r)) = responses[r]
  /\ \A m \in Documents :
       \/ m[1] = "submission" /\ m[2] \in Draft /\ Document(m) = drafts[m[2]]
            /\ m = Submission(m[2])
       \/ m[1] = "risk_response" /\ m[2] \in Report /\ Document(m) = responses[m[2]]
            /\ m = RiskResponse(m[2])
  BY DEF Documents, Document, Message, Submission, RiskResponse, DeliveryAck

LEMMA OutboxInit == Init => OutboxInv
<1> SUFFICES ASSUME Init PROVE OutboxInv
  OBVIOUS
<1>1. \A m \in Documents : rows[m] = "none" /\ Document(m).status = "absent"
  BY DocumentFacts DEF Init, Documents, NoDraft, NoResponse
<1>2. \A r \in Report : rows[DeliveryAck(r)] = "none" /\ inbox[r].status = "none"
  BY MessageFacts DEF Init
<1>3. RowsMatch
  BY <1>1, <1>2 DEF RowsMatch
<1>4. ClaimedOnce /\ Approved
  BY DEF Init, ClaimedOnce, Approved
<1> QED BY <1>3, <1>4 DEF OutboxInv

LEMMA BatchIsQueued == TypeInv /\ OutboxInv => BatchQueued
<1> SUFFICES ASSUME TypeInv, OutboxInv, NEW w \in Worker, NEW m \in batch[w],
                    m[1] # "delivery_ack"
             PROVE  Document(m).status = "queued"
  BY DEF BatchQueued
<1>1. m \in Documents /\ rows[m] = "sending"
  BY DEF TypeInv, TypeOK, OutboxInv, ClaimedOnce, Documents
<1> QED BY <1>1 DEF OutboxInv, RowsMatch

LEMMA QuietDraft ==
  ASSUME TypeInv, OutboxInv, NEW d \in Draft,
         drafts[d].status \notin {"queued", "submitted"},
         drafts'[d].status \notin {"queued", "submitted"},
         \A e \in Draft \ {d} : drafts'[e] = drafts[e],
         UNCHANGED <<config, rows, letter, batch, inbox, responses>>
  PROVE  Quiet
<1> SUFFICES ASSUME NEW m \in Documents
             PROVE  IF rows[m] # "none" THEN Document(m)' = Document(m)
                    ELSE Document(m)'.status \notin {"queued", "submitted"}
  BY DEF Quiet
<1>1. CASE m[1] = "submission"
  <2>1. m[2] \in Draft /\ Document(m) = drafts[m[2]] /\ Document(m)' = drafts'[m[2]]
    BY <1>1, DocumentFacts DEF Document
  <2> QED BY <2>1 DEF OutboxInv, RowsMatch
<1>2. CASE m[1] # "submission"
  BY <1>2, DocumentFacts DEF Document, OutboxInv, RowsMatch
<1> QED BY <1>1, <1>2

LEMMA QuietResponse ==
  ASSUME TypeInv, OutboxInv, NEW r \in Report,
         responses[r].status \notin {"queued", "submitted"},
         responses'[r].status \notin {"queued", "submitted"},
         \A e \in Report \ {r} : responses'[e] = responses[e],
         UNCHANGED <<config, rows, letter, batch, inbox, drafts>>
  PROVE  Quiet
<1> SUFFICES ASSUME NEW m \in Documents
             PROVE  IF rows[m] # "none" THEN Document(m)' = Document(m)
                    ELSE Document(m)'.status \notin {"queued", "submitted"}
  BY DEF Quiet
<1>1. CASE m[1] = "submission"
  BY <1>1 DEF Document, OutboxInv, RowsMatch
<1>2. CASE m[1] # "submission"
  <2>1. /\ m[2] \in Report /\ Document(m) = responses[m[2]]
        /\ Document(m)' = responses'[m[2]]
    BY <1>2, DocumentFacts DEF Document
  <2> QED BY <2>1 DEF OutboxInv, RowsMatch
<1> QED BY <1>1, <1>2

LEMMA QuietSteps ==
  ASSUME TypeInv, OutboxInv
  PROVE  /\ \A d \in Draft, a \in Actor, b \in Body :
              Import(d, a, b) \/ EditDraft(d, a, b) => Quiet
         /\ \A d \in Draft : Discard(d) => Quiet
         /\ \A s, d \in Draft, a \in Actor : Correct(s, d, a) => Quiet
         /\ \A w \in Worker, d \in Draft, b \in Body :
              ImportWatched(w, d, b) => Quiet
         /\ \A r \in Report, a \in Actor, b \in Body :
              CreateResponse(r, a, b) \/ EditResponse(r, a, b) => Quiet
<1>1. ASSUME NEW d \in Draft, NEW a \in Actor, NEW b \in Body,
             Import(d, a, b) \/ EditDraft(d, a, b)
      PROVE  Quiet
  <2>1. /\ drafts[d].status \in {"absent", "ready_review"}
        /\ drafts'[d].status = "ready_review"
        /\ \A e \in Draft \ {d} : drafts'[e] = drafts[e]
        /\ UNCHANGED <<config, rows, letter, batch, inbox, responses>>
    <3>1. CASE Import(d, a, b)
      BY <3>1 DEF Import, NewDraft, NoDraft, TypeInv, TypeOK, received, outbox, work
    <3>2. CASE EditDraft(d, a, b)
      <4>1. drafts \in [Draft -> DraftRecord] /\ drafts[d] \in DraftRecord
        BY DEF TypeInv, TypeOK
      <4>2. drafts' = [drafts EXCEPT ![d] =
                         [drafts[d] EXCEPT !.rev = drafts[d].rev + 1, !.body = b,
                                           !.editor = a, !.preparer = a,
                                           !.preparedRev = drafts[d].rev + 1,
                                           !.conf = None]]
        BY <3>2, <4>1 DEF EditDraft
      <4>3. drafts'[d].status = drafts[d].status
              /\ \A e \in Draft \ {d} : drafts'[e] = drafts[e]
        BY <4>1, <4>2 DEF DraftRecord
      <4> QED BY <3>2, <4>3 DEF EditDraft, received, outbox, work
    <3> QED BY <1>1, <3>1, <3>2
  <2> QED BY <2>1, QuietDraft
<1>2. ASSUME NEW d \in Draft, Discard(d) PROVE Quiet
  <2>1. /\ drafts[d].status = "ready_review" /\ drafts'[d].status = "discarded"
        /\ \A e \in Draft \ {d} : drafts'[e] = drafts[e]
        /\ UNCHANGED <<config, rows, letter, batch, inbox, responses>>
    BY <1>2 DEF Discard, TypeInv, TypeOK, DraftRecord, received, outbox, work
  <2> QED BY <2>1, QuietDraft
<1>3. ASSUME NEW s \in Draft, NEW d \in Draft, NEW a \in Actor, Correct(s, d, a)
      PROVE  Quiet
  <2>1. /\ drafts[d].status = "absent" /\ drafts'[d].status = "ready_review"
        /\ \A e \in Draft \ {d} : drafts'[e] = drafts[e]
        /\ UNCHANGED <<config, rows, letter, batch, inbox, responses>>
    BY <1>3 DEF Correct, NewDraft, NoDraft, TypeInv, TypeOK, received, outbox, work
  <2> QED BY <2>1, QuietDraft
<1>4. ASSUME NEW w \in Worker, NEW d \in Draft, NEW b \in Body, ImportWatched(w, d, b)
      PROVE  Quiet
  <2>1. /\ drafts[d].status = "absent" /\ drafts'[d].status = "ready_review"
        /\ \A e \in Draft \ {d} : drafts'[e] = drafts[e]
        /\ UNCHANGED <<config, rows, letter, batch, inbox, responses>>
    BY <1>4 DEF ImportWatched, NewDraft, NoDraft, TypeInv, TypeOK, received, outbox,
                work
  <2> QED BY <2>1, QuietDraft
<1>5. ASSUME NEW r \in Report, NEW a \in Actor, NEW b \in Body,
             CreateResponse(r, a, b) \/ EditResponse(r, a, b)
      PROVE  Quiet
  <2>1. /\ responses[r].status \in {"absent", "draft"}
        /\ responses'[r].status = "draft"
        /\ \A e \in Report \ {r} : responses'[e] = responses[e]
        /\ UNCHANGED <<config, rows, letter, batch, inbox, drafts>>
    <3>1. CASE CreateResponse(r, a, b)
      BY <3>1 DEF CreateResponse, NoResponse, TypeInv, TypeOK, received, outbox, work
    <3>2. CASE EditResponse(r, a, b)
      <4> DEFINE x == [responses[r] EXCEPT !.rev = @ + 1, !.body = b,
                                           !.editor = a, !.conf = None]
      <4>1. responses[r] \in ResponseRecord
        BY DEF TypeInv, TypeOK
      <4>2. x.status = responses[r].status
        BY <4>1 DEF ResponseRecord
      <4>3. responses' = [responses EXCEPT ![r] = x]
        BY <3>2 DEF EditResponse
      <4> HIDE DEF x
      <4>4. responses'[r] = x /\ \A e \in Report \ {r} : responses'[e] = responses[e]
        BY <4>3 DEF TypeInv, TypeOK
      <4>5. UNCHANGED <<config, rows, letter, batch, inbox, drafts>>
        BY <3>2 DEF EditResponse, received, outbox, work
      <4> QED BY <3>2, <4>2, <4>4, <4>5 DEF EditResponse
    <3> QED BY <1>5, <3>1, <3>2
  <2> QED BY <2>1, QuietResponse
<1> QED BY <1>1, <1>2, <1>3, <1>4, <1>5

\* The steps that change what is read, watched, called or polled only.
StillSteps ==
  \/ \E x \in Reader, m \in Message : Read(x, m)
  \/ \E a \in Actor : GiveUp(a)
  \/ \E w \in Worker :
       \/ \E d \in Draft : ResumeWatched(w, d)
       \/ \E passed \in BOOLEAN : CheckWatched(w, passed)
       \/ HoldWatched(w) \/ AlreadyConfirmed(w)
       \/ Call(w) \/ StartPoll(w) \/ EndPoll(w)
  \/ UNCHANGED vars

LEMMA StillStepsFrame ==
  ASSUME StillSteps
  PROVE  UNCHANGED <<config, drafts, responses, received, outbox, batch>>
  BY DEF StillSteps, Read, GiveUp, ResumeWatched, CheckWatched, HoldWatched,
         AlreadyConfirmed, Call, StartPoll, EndPoll, vars, work

LEMMA StillIsQuiet == ASSUME TypeInv, OutboxInv, StillSteps PROVE Quiet
  BY StillStepsFrame DEF Quiet, Document, received, outbox, OutboxInv, RowsMatch

LEMMA QuietKeeps == ASSUME TypeInv, OutboxInv, Quiet PROVE OutboxInv'
<1>1. RowsMatch'
  BY DEF Quiet, OutboxInv, RowsMatch
<1>2. ClaimedOnce'
  BY DEF Quiet, OutboxInv, ClaimedOnce
<1>3. Approved'
  <2> SUFFICES ASSUME NEW w \in Worker, NEW m \in batch[w], m \in Documents
               PROVE  ~ FourEyesFailure(m)'
    BY DEF Approved, Quiet, FourEyesFailure, Documents, TypeInv, TypeOK
  <2>1. Document(m)' = Document(m) /\ config' = config /\ ~ FourEyesFailure(m)
    BY DEF Quiet, OutboxInv, Approved, ClaimedOnce
  <2>2. CASE m[1] = "submission"
    BY <2>1, <2>2, DocumentFacts DEF FourEyesFailure, Document
  <2>3. CASE m[1] # "submission"
    BY <2>1, <2>3 DEF FourEyesFailure
  <2> QED BY <2>2, <2>3
<1> QED BY <1>1, <1>2, <1>3 DEF OutboxInv

\* Approval depends on the document and the configuration only.
LEMMA SameApproval ==
  ASSUME NEW m \in Message, config' = config,
         m \in Documents => Document(m)' = Document(m)
  PROVE  FourEyesFailure(m)' <=> FourEyesFailure(m)
<1>1. CASE m \notin Documents
  BY <1>1 DEF FourEyesFailure, Documents
<1>2. CASE m \in Documents /\ m[1] = "submission"
  BY <1>2, DocumentFacts DEF FourEyesFailure, Document
<1>3. CASE m \in Documents /\ m[1] # "submission"
  BY <1>3 DEF FourEyesFailure
<1> QED BY <1>1, <1>2, <1>3

LEMMA EnqueueKeeps ==
  ASSUME TypeInv, OutboxInv, NEW m \in Documents, NEW text,
         Document(m).status \notin {"queued", "submitted"},
         rows' = [rows EXCEPT ![m] = "queued"],
         letter' = [letter EXCEPT ![m] = text],
         Document(m)'.status = "queued", Document(m)'.body = text,
         Document(m)'.conf # None, Document(m)'.conf.rev = Document(m)'.rev,
         \A n \in Documents \ {m} : Document(n)' = Document(n),
         UNCHANGED <<config, batch, inbox>>
  PROVE  OutboxInv'
<1>1. m \in Message /\ rows[m] = "none" /\ \A r \in Report : DeliveryAck(r) # m
  BY DEF OutboxInv, RowsMatch, Documents, DeliveryAck
<1>2. /\ rows'[m] = "queued" /\ letter'[m] = text
      /\ \A n \in Message \ {m} : rows'[n] = rows[n] /\ letter'[n] = letter[n]
  BY <1>1 DEF TypeInv, TypeOK
<1>3. \A w \in Worker : \A n \in batch[w] : n \in Message /\ n # m
  BY <1>1 DEF OutboxInv, ClaimedOnce, TypeInv, TypeOK
<1>4. RowsMatch'
  <2>1. ASSUME NEW n \in Documents
        PROVE  /\ (rows'[n] = "none")
                    <=> Document(n)'.status \notin {"queued", "submitted"}
               /\ rows'[n] # "none" =>
                    /\ Document(n)'.body = letter'[n]
                    /\ Document(n)'.conf # None
                    /\ Document(n)'.conf.rev = Document(n)'.rev
                    /\ (Document(n)'.status = "submitted")
                         <=> (rows'[n] = "succeeded")
    <3>1. CASE n = m
      BY <1>2, <3>1
    <3>2. CASE n # m
      BY <1>2, <3>2 DEF OutboxInv, RowsMatch, Documents
    <3> QED BY <3>1, <3>2
  <2>2. \A r \in Report : rows'[DeliveryAck(r)] = rows[DeliveryAck(r)]
    BY <1>1, <1>2, MessageFacts
  <2> QED BY <2>1, <2>2 DEF OutboxInv, RowsMatch
<1>5. ClaimedOnce'
  BY <1>1, <1>2, <1>3 DEF OutboxInv, ClaimedOnce
<1>6. Approved'
  BY <1>3, SameApproval DEF OutboxInv, Approved
<1> QED BY <1>4, <1>5, <1>6 DEF OutboxInv

LEMMA OutboxConfirming ==
  ASSUME TypeInv, OutboxInv
  PROVE  /\ \A x \in Reader, d \in Draft : ConfirmDraft(x, d) => OutboxInv'
         /\ \A a \in Actor, r \in Report : ConfirmResponse(a, r) => OutboxInv'
<1>1. ASSUME NEW x \in Reader, NEW d \in Draft, ConfirmDraft(x, d) PROVE OutboxInv'
  <2> DEFINE by == IF x \in Worker THEN System ELSE x
             conf == [by |-> by, rev |-> drafts[d].rev]
             corr == IF drafts[d].subrev = 1 THEN d ELSE drafts[d].corr
  <2>1. /\ drafts[d].status = "ready_review" /\ reading[x].body = drafts[d].body
        /\ drafts' = [drafts EXCEPT ![d].status = "queued", ![d].conf = conf,
                                    ![d].corr = corr]
        /\ rows' = [rows EXCEPT ![Submission(d)] = "queued"]
        /\ letter' = [letter EXCEPT ![Submission(d)] = reading[x].body]
        /\ UNCHANGED <<config, batch, inbox, responses>>
    BY <1>1 DEF ConfirmDraft, Enqueue, received, work
  <2>2. drafts[d].rev \in 1..MaxRevision /\ by \in Actor \union {System}
    BY <2>1 DEF TypeInv, Shape, Reader
  <2>3. conf \in Confirmation /\ conf.rev = drafts[d].rev /\ conf # None
    BY <2>2, AgentAssumption DEF Confirmation
  <2> HIDE DEF conf, corr
  <2>4. /\ drafts'[d].status = "queued" /\ drafts'[d].conf = conf
        /\ drafts'[d].body = drafts[d].body /\ drafts'[d].rev = drafts[d].rev
        /\ \A e \in Draft \ {d} : drafts'[e] = drafts[e]
    BY <2>1 DEF TypeInv, TypeOK, DraftRecord
  <2>5. ASSUME NEW n \in Documents \ {Submission(d)}
        PROVE  Document(n)' = Document(n)
    <3>1. CASE n[1] = "submission" /\ n[2] \in Draft /\ n = Submission(n[2])
      BY <2>4, <3>1 DEF Document
    <3>2. CASE n[1] = "risk_response"
      BY <2>1, <3>2 DEF Document
    <3> QED BY <3>1, <3>2, DocumentFacts
  <2>6. Document(Submission(d)) = drafts[d] /\ Document(Submission(d))' = drafts'[d]
    BY DEF Document, Submission
  <2> DEFINE m == Submission(d)
             text == reading[x].body
  <2>7. /\ m \in Documents
        /\ Document(m).status \notin {"queued", "submitted"}
        /\ rows' = [rows EXCEPT ![m] = "queued"]
        /\ letter' = [letter EXCEPT ![m] = text]
        /\ Document(m)'.status = "queued" /\ Document(m)'.body = text
        /\ Document(m)'.conf # None /\ Document(m)'.conf.rev = Document(m)'.rev
        /\ \A n \in Documents \ {m} : Document(n)' = Document(n)
        /\ UNCHANGED <<config, batch, inbox>>
    BY <2>1, <2>3, <2>4, <2>5, <2>6, DocumentFacts
  <2> HIDE DEF m, text
  <2> QED BY <2>7, EnqueueKeeps
<1>2. ASSUME NEW a \in Actor, NEW r \in Report, ConfirmResponse(a, r)
      PROVE  OutboxInv'
  <2> DEFINE conf == [by |-> a, rev |-> responses[r].rev]
  <2>1. /\ responses[r].status = "draft"
        /\ responses' = [responses EXCEPT ![r].status = "queued",
                                          ![r].body = reading[a].body,
                                          ![r].conf = conf]
        /\ rows' = [rows EXCEPT ![RiskResponse(r)] = "queued"]
        /\ letter' = [letter EXCEPT ![RiskResponse(r)] = reading[a].body]
        /\ UNCHANGED <<config, batch, inbox, drafts>>
    BY <1>2 DEF ConfirmResponse, Enqueue, received, work
  <2>2. responses[r].rev \in 1..MaxRevision
    BY <2>1 DEF TypeInv, Shape
  <2>3. conf \in Confirmation /\ conf.rev = responses[r].rev /\ conf # None
    BY <2>2, AgentAssumption DEF Confirmation
  <2> HIDE DEF conf
  <2>4. /\ responses'[r].status = "queued" /\ responses'[r].conf = conf
        /\ responses'[r].body = reading[a].body
        /\ responses'[r].rev = responses[r].rev
        /\ \A e \in Report \ {r} : responses'[e] = responses[e]
    BY <2>1 DEF TypeInv, TypeOK, ResponseRecord
  <2>5. ASSUME NEW n \in Documents \ {RiskResponse(r)}
        PROVE  Document(n)' = Document(n)
    <3>1. CASE n[1] = "risk_response" /\ n[2] \in Report /\ n = RiskResponse(n[2])
      BY <2>4, <3>1 DEF Document
    <3>2. CASE n[1] = "submission"
      BY <2>1, <3>2 DEF Document
    <3> QED BY <3>1, <3>2, DocumentFacts
  <2>6. /\ Document(RiskResponse(r)) = responses[r]
        /\ Document(RiskResponse(r))' = responses'[r]
    BY DEF Document, RiskResponse
  <2> DEFINE m == RiskResponse(r)
             text == reading[a].body
  <2>7. /\ m \in Documents
        /\ Document(m).status \notin {"queued", "submitted"}
        /\ rows' = [rows EXCEPT ![m] = "queued"]
        /\ letter' = [letter EXCEPT ![m] = text]
        /\ Document(m)'.status = "queued" /\ Document(m)'.body = text
        /\ Document(m)'.conf # None /\ Document(m)'.conf.rev = Document(m)'.rev
        /\ \A n \in Documents \ {m} : Document(n)' = Document(n)
        /\ UNCHANGED <<config, batch, inbox>>
    BY <2>1, <2>3, <2>4, <2>5, <2>6, DocumentFacts
  <2> HIDE DEF m, text
  <2> QED BY <2>7, EnqueueKeeps
<1> QED BY <1>1, <1>2

LEMMA OutboxClaim ==
  ASSUME TypeInv, OutboxInv, NEW w \in Worker, NEW c \in SUBSET Message,
         \A m \in c : rows[m] \in {"queued", "failed"}, Claim(w, c)
  PROVE  OutboxInv'
<1>1. PICK taken \in SUBSET c :
        /\ batch[w] = {}
        /\ \A m \in taken : ~ FourEyesFailure(m)
        /\ rows' = [m \in Message |-> IF m \in taken THEN "sending" ELSE rows[m]]
        /\ batch' = [batch EXCEPT ![w] = taken]
        /\ UNCHANGED <<config, drafts, responses, inbox, letter>>
  BY DEF Claim, Busy, received
<1>2. /\ \A m \in taken : m \in Message /\ rows'[m] = "sending"
                           /\ rows[m] \in {"queued", "failed"}
      /\ \A m \in Message \ taken : rows'[m] = rows[m]
  BY <1>1
<1>3. batch'[w] = taken /\ \A v \in Worker \ {w} : batch'[v] = batch[v]
  BY <1>1 DEF TypeInv, TypeOK
<1>4. \A m \in Documents : Document(m)' = Document(m)
  BY <1>1 DEF Document
<1>5. RowsMatch'
  BY <1>1, <1>2, <1>4, MessageFacts DEF OutboxInv, RowsMatch, Documents
<1>6. ClaimedOnce'
  <2>1. \A v \in Worker : \A m \in batch[v] : m \in Message /\ rows[m] = "sending"
    BY DEF OutboxInv, ClaimedOnce, TypeInv, TypeOK
  <2>2. \A u, v \in Worker : u # v => batch'[u] \intersect batch'[v] = {}
    BY <1>2, <1>3, <2>1 DEF OutboxInv, ClaimedOnce
  <2>3. \A m \in Message : rows'[m] = "sending" <=> \E v \in Worker : m \in batch'[v]
    BY <1>1, <1>2, <1>3, <2>1 DEF OutboxInv, ClaimedOnce
  <2>4. \A v \in Worker : batch'[v] \subseteq Message
    BY <1>2, <1>3 DEF TypeInv, TypeOK
  <2> QED BY <2>2, <2>3, <2>4 DEF ClaimedOnce
<1>7. Approved'
  <2>1. \A m \in Message : FourEyesFailure(m)' <=> FourEyesFailure(m)
    BY <1>1, <1>4, SameApproval
  <2> QED BY <1>1, <1>2, <1>3, <2>1 DEF OutboxInv, Approved, TypeInv, TypeOK
<1> QED BY <1>5, <1>6, <1>7 DEF OutboxInv

\* A message leaves the batch of the one thread that holds it.
LEMMA HandledKeeps ==
  ASSUME TypeInv, OutboxInv, NEW w \in Worker, NEW m \in batch[w], NEW result,
         result # "sending", rows' = [rows EXCEPT ![m] = result], Handled(w, m),
         config' = config,
         \A n \in Documents \ {m} : Document(n)' = Document(n)
  PROVE  ClaimedOnce' /\ Approved'
<1>1. /\ m \in Message /\ rows[m] = "sending"
      /\ \A v \in Worker \ {w} : m \notin batch[v]
  BY DEF OutboxInv, ClaimedOnce, TypeInv, TypeOK
<1>2. rows'[m] = result /\ \A n \in Message \ {m} : rows'[n] = rows[n]
  BY <1>1 DEF TypeInv, TypeOK
<1>3. batch'[w] = batch[w] \ {m} /\ \A v \in Worker \ {w} : batch'[v] = batch[v]
  BY DEF Handled, TypeInv, TypeOK
<1>4. ClaimedOnce'
  <2>1. \A u, v \in Worker : u # v => batch'[u] \intersect batch'[v] = {}
    BY <1>3 DEF OutboxInv, ClaimedOnce
  <2>2. \A n \in Message : rows'[n] = "sending" <=> \E v \in Worker : n \in batch'[v]
    BY <1>1, <1>2, <1>3 DEF OutboxInv, ClaimedOnce
  <2>3. \A v \in Worker : batch'[v] \subseteq Message
    BY <1>3 DEF TypeInv, TypeOK
  <2> QED BY <2>1, <2>2, <2>3 DEF ClaimedOnce
<1>5. Approved'
  <2>1. ASSUME NEW n \in Message, n # m
        PROVE  FourEyesFailure(n)' <=> FourEyesFailure(n)
    <3>1. n \in Documents => Document(n)' = Document(n)
      BY <2>1
    <3> QED BY <3>1, SameApproval
  <2>2. \A v \in Worker : \A n \in batch'[v] :
          n \in batch[v] /\ n \in Message \ {m}
    <3>1. \A v \in Worker : batch[v] \subseteq Message
      BY DEF TypeInv, TypeOK
    <3>2. \A n \in batch'[w] : n \in batch[w] /\ n # m
      BY <1>3
    <3>3. \A v \in Worker \ {w} : \A n \in batch'[v] : n \in batch[v] /\ n # m
      BY <1>1, <1>3
    <3> QED BY <3>1, <3>2, <3>3
  <2> QED BY <2>1, <2>2 DEF OutboxInv, Approved
<1> QED BY <1>4, <1>5

LEMMA OutboxSucceed ==
  ASSUME TypeInv, OutboxInv, NEW w \in Worker, Succeed(w) PROVE OutboxInv'
<1>1. PICK m \in batch[w] :
        /\ rows' = [rows EXCEPT ![m] = "succeeded"]
        /\ Record(m) /\ Handled(w, m)
        /\ UNCHANGED <<config, letter>>
  BY DEF Succeed, IsNext
<1>2. m \in Message /\ rows[m] = "sending"
  BY DEF OutboxInv, ClaimedOnce, TypeInv, TypeOK
<1>3. rows'[m] = "succeeded" /\ \A n \in Message \ {m} : rows'[n] = rows[n]
  BY <1>1, <1>2 DEF TypeInv, TypeOK
<1>4. CASE m[1] = "delivery_ack"
  <2>1. m[2] \in Report /\ m = DeliveryAck(m[2])
    BY <1>2, <1>4 DEF Message, DeliveryAck
  <2>2. /\ inbox' = [inbox EXCEPT ![m[2]].status = "acknowledged"]
        /\ UNCHANGED <<drafts, responses>>
    BY <1>1, <1>4 DEF Record
  <2>3. \A n \in Documents : n # m /\ Document(n)' = Document(n)
    BY <1>4, <2>2 DEF Document, Documents
  <2>4. /\ inbox'[m[2]].status = "acknowledged"
        /\ \A r \in Report \ {m[2]} : /\ inbox'[r] = inbox[r]
                                      /\ DeliveryAck(r) # m
    BY <2>1, <2>2 DEF TypeInv, TypeOK, DeliveryAck
  <2>5. RowsMatch'
    BY <1>1, <1>2, <1>3, <2>1, <2>3, <2>4, MessageFacts
    DEF OutboxInv, RowsMatch, Documents
  <2> QED BY <1>1, <2>3, <2>5, HandledKeeps DEF OutboxInv
<1>5. CASE m[1] # "delivery_ack"
  <2>1. m \in Documents /\ \A r \in Report : DeliveryAck(r) # m
    BY <1>2, <1>5 DEF Documents, DeliveryAck
  <2>2. /\ Document(m).status = "queued"
        /\ Document(m).body = letter[m] /\ Document(m).conf # None
        /\ Document(m).conf.rev = Document(m).rev
    BY <1>2, <2>1 DEF OutboxInv, RowsMatch
  <2>3. /\ Document(m)'.status = "submitted"
        /\ Document(m)'.body = Document(m).body /\ Document(m)'.rev = Document(m).rev
        /\ Document(m)'.conf = Document(m).conf
        /\ \A n \in Documents \ {m} : Document(n)' = Document(n)
        /\ inbox' = inbox
    <3>1. CASE m[1] = "submission"
      <4>1. /\ drafts' = [drafts EXCEPT ![m[2]].status = "submitted"]
            /\ UNCHANGED <<responses, inbox>>
        BY <1>1, <3>1 DEF Record
      <4>2. m[2] \in Draft /\ Document(m) = drafts[m[2]]
              /\ Document(m)' = drafts'[m[2]] /\ m = Submission(m[2])
        BY <2>1, <3>1, DocumentFacts DEF Document
      <4>3. /\ drafts'[m[2]].status = "submitted"
            /\ drafts'[m[2]].body = drafts[m[2]].body
            /\ drafts'[m[2]].rev = drafts[m[2]].rev
            /\ drafts'[m[2]].conf = drafts[m[2]].conf
            /\ \A d \in Draft \ {m[2]} : drafts'[d] = drafts[d]
        BY <4>1, <4>2 DEF TypeInv, TypeOK, DraftRecord
      <4>4. ASSUME NEW n \in Documents \ {m} PROVE Document(n)' = Document(n)
        <5>1. CASE n[1] = "submission"
          <6>1. n[2] \in Draft \ {m[2]}
            BY <4>2, <5>1, DocumentFacts
          <6> QED BY <4>3, <5>1, <6>1 DEF Document
        <5>2. CASE n[1] # "submission"
          BY <4>1, <5>2 DEF Document
        <5> QED BY <5>1, <5>2
      <4> QED BY <4>1, <4>2, <4>3, <4>4
    <3>2. CASE m[1] = "risk_response"
      <4>1. /\ responses' = [responses EXCEPT ![m[2]].status = "submitted"]
            /\ UNCHANGED <<drafts, inbox>>
        BY <1>1, <3>2 DEF Record
      <4>2. m[2] \in Report /\ Document(m) = responses[m[2]]
              /\ Document(m)' = responses'[m[2]] /\ m = RiskResponse(m[2])
        BY <2>1, <3>2, DocumentFacts DEF Document
      <4>3. /\ responses'[m[2]].status = "submitted"
            /\ responses'[m[2]].body = responses[m[2]].body
            /\ responses'[m[2]].rev = responses[m[2]].rev
            /\ responses'[m[2]].conf = responses[m[2]].conf
            /\ \A r \in Report \ {m[2]} : responses'[r] = responses[r]
        BY <4>1, <4>2 DEF TypeInv, TypeOK, ResponseRecord
      <4>4. ASSUME NEW n \in Documents \ {m} PROVE Document(n)' = Document(n)
        <5>1. CASE n[1] = "submission"
          BY <4>1, <5>1 DEF Document
        <5>2. CASE n[1] # "submission"
          <6>1. n[2] \in Report \ {m[2]}
            BY <4>2, <5>2, DocumentFacts
          <6> QED BY <4>3, <5>2, <6>1 DEF Document
        <5> QED BY <5>1, <5>2
      <4> QED BY <4>1, <4>2, <4>3, <4>4
    <3> QED BY <1>1, <1>5, <3>1, <3>2 DEF Record
  <2>4. RowsMatch'
    <3>1. ASSUME NEW n \in Documents \ {m}
          PROVE  /\ rows'[n] = rows[n] /\ letter'[n] = letter[n]
                 /\ Document(n)' = Document(n)
      BY <1>1, <1>3, <2>3 DEF Documents
    <3>2. \A r \in Report : rows'[DeliveryAck(r)] = rows[DeliveryAck(r)]
      BY <1>3, <2>1, MessageFacts
    <3> QED BY <1>1, <1>3, <2>2, <2>3, <3>1, <3>2 DEF OutboxInv, RowsMatch
  <2> QED BY <1>1, <2>3, <2>4, HandledKeeps DEF OutboxInv
<1> QED BY <1>4, <1>5

LEMMA OutboxFail ==
  ASSUME TypeInv, OutboxInv, NEW w \in Worker, Fail(w) PROVE OutboxInv'
<1>1. PICK m \in batch[w] :
        /\ rows' = [rows EXCEPT ![m] = "failed"]
        /\ Handled(w, m)
        /\ UNCHANGED <<config, drafts, responses, inbox, letter>>
  BY DEF Fail, IsNext, received
<1>2. m \in Message /\ rows[m] = "sending"
  BY DEF OutboxInv, ClaimedOnce, TypeInv, TypeOK
<1>3. rows'[m] = "failed" /\ \A n \in Message \ {m} : rows'[n] = rows[n]
  BY <1>1, <1>2 DEF TypeInv, TypeOK
<1>4. \A n \in Documents : Document(n)' = Document(n)
  BY <1>1 DEF Document
<1>5. RowsMatch'
  BY <1>1, <1>2, <1>3, <1>4, MessageFacts DEF OutboxInv, RowsMatch, Documents
<1> QED BY <1>1, <1>4, <1>5, HandledKeeps DEF OutboxInv

LEMMA OutboxAnswer ==
  ASSUME TypeInv, OutboxInv, NEW w \in Worker, AnswerPoll(w) PROVE OutboxInv'
<1> DEFINE r == Feed[polling[w] + 1]
<1>1. /\ Store(r, polling[w] + 1)
      /\ UNCHANGED <<config, drafts, responses, letter, batch>>
  BY DEF AnswerPoll
<1>2. r \in Report
  BY AgentAssumption DEF AnswerPoll
<1> HIDE DEF r
<1>3. \A n \in Documents : Document(n)' = Document(n)
  BY <1>1 DEF Document
<1>4. CASE inbox[r].status # "none"
  BY <1>1, <1>3, <1>4, QuietKeeps DEF Store, Quiet, OutboxInv, RowsMatch
<1>5. CASE inbox[r].status = "none"
  <2>1. /\ inbox' = [inbox EXCEPT ![r] = [status |-> "stored",
                                          at |-> polling[w] + 1]]
        /\ rows' = [rows EXCEPT ![DeliveryAck(r)] = "queued"]
    BY <1>1, <1>5 DEF Store
  <2>2. DeliveryAck(r) \in Message /\ rows[DeliveryAck(r)] = "none"
    BY <1>2, <1>5, MessageFacts DEF OutboxInv, RowsMatch
  <2>3. /\ rows'[DeliveryAck(r)] = "queued" /\ inbox'[r].status = "stored"
        /\ \A n \in Message \ {DeliveryAck(r)} : rows'[n] = rows[n]
        /\ \A e \in Report \ {r} : inbox'[e] = inbox[e]
    BY <1>2, <2>1, <2>2 DEF TypeInv, TypeOK
  <2>4. \A e \in Report \ {r} : DeliveryAck(e) \in Message \ {DeliveryAck(r)}
    BY MessageFacts DEF DeliveryAck
  <2>5. \A n \in Documents : n \in Message \ {DeliveryAck(r)}
    BY DEF Documents, DeliveryAck
  <2>6. RowsMatch'
    BY <1>1, <1>2, <1>3, <2>3, <2>4, <2>5 DEF OutboxInv, RowsMatch
  <2>7. ClaimedOnce'
    BY <1>1, <2>2, <2>3 DEF OutboxInv, ClaimedOnce
  <2>8. Approved'
    <3>1. \A n \in Message : FourEyesFailure(n)' <=> FourEyesFailure(n)
      BY <1>1, <1>3, SameApproval
    <3> QED BY <1>1, <3>1 DEF OutboxInv, Approved, TypeInv, TypeOK
  <2> QED BY <2>6, <2>7, <2>8 DEF OutboxInv
<1> QED BY <1>4, <1>5

LEMMA OutboxRestart == ASSUME TypeInv, OutboxInv, Restart PROVE OutboxInv'
<1>1. /\ rows' = [m \in Message |-> IF rows[m] = "sending" THEN "failed"
                                    ELSE rows[m]]
      /\ batch' = [w \in Worker |-> {}]
      /\ UNCHANGED <<drafts, responses, inbox, letter>>
  BY DEF Restart, Recovered, received
<1>2. \A n \in Documents : Document(n)' = Document(n)
  BY <1>1 DEF Document
<1>3. RowsMatch'
  BY <1>1, <1>2, MessageFacts DEF OutboxInv, RowsMatch, Documents
<1>4. ClaimedOnce' /\ Approved'
  BY <1>1 DEF ClaimedOnce, Approved
<1> QED BY <1>3, <1>4 DEF OutboxInv

-----------------------------------------------------------------------------
(***************************************************************************)
(* The invariant of the exchange.                                          *)
(***************************************************************************)
IInv == TypeInv /\ OutboxInv

LEMMA IInvStep == ASSUME IInv, [Next]_vars PROVE IInv'
<1> USE DEF IInv
<1>1. BatchQueued
  BY BatchIsQueued
<1>2. CASE Drafting
  <2>1. ASSUME NEW d \in Draft, NEW a \in Actor, NEW b \in Body,
               Import(d, a, b) \/ EditDraft(d, a, b)
        PROVE  IInv'
    BY <2>1, TypeDrafting, QuietSteps, QuietKeeps
  <2>2. ASSUME NEW d \in Draft, Discard(d) PROVE IInv'
    BY <2>2, TypeDrafting, QuietSteps, QuietKeeps
  <2>3. ASSUME NEW s \in Draft, NEW d \in Draft, NEW a \in Actor, Correct(s, d, a)
        PROVE  IInv'
    BY <2>3, TypeDrafting, QuietSteps, QuietKeeps
  <2>4. ASSUME NEW x \in Reader, NEW m \in Message, Read(x, m) PROVE IInv'
    BY <2>4, TypeConfirming, StillIsQuiet, QuietKeeps DEF StillSteps
  <2>5. ASSUME NEW x \in Reader, NEW d \in Draft, ConfirmDraft(x, d) PROVE IInv'
    BY <2>5, TypeConfirming, OutboxConfirming
  <2>6. ASSUME NEW a \in Actor, GiveUp(a) PROVE IInv'
    BY <2>6, TypeConfirming, StillIsQuiet, QuietKeeps DEF StillSteps
  <2> QED BY <1>2, <2>1, <2>2, <2>3, <2>4, <2>5, <2>6 DEF Drafting
<1>3. CASE Watching
  <2>1. PICK w \in Worker :
          \/ \E d \in Draft, b \in Body : ImportWatched(w, d, b)
          \/ \E d \in Draft : ResumeWatched(w, d)
          \/ \E passed \in BOOLEAN : CheckWatched(w, passed)
          \/ HoldWatched(w)
          \/ AlreadyConfirmed(w)
    BY <1>3 DEF Watching
  <2>2. ASSUME NEW d \in Draft, NEW b \in Body, ImportWatched(w, d, b) PROVE IInv'
    BY <2>2, TypeWatching, QuietSteps, QuietKeeps
  <2>3. ASSUME NEW d \in Draft, ResumeWatched(w, d) PROVE IInv'
    BY <2>3, TypeWatching, StillIsQuiet, QuietKeeps DEF StillSteps
  <2>4. ASSUME NEW passed \in BOOLEAN, CheckWatched(w, passed) PROVE IInv'
    BY <2>4, TypeWatching, StillIsQuiet, QuietKeeps DEF StillSteps
  <2>5. CASE HoldWatched(w)
    BY <2>5, TypeWatching, StillIsQuiet, QuietKeeps DEF StillSteps
  <2>6. CASE AlreadyConfirmed(w)
    BY <2>6, TypeWatching, StillIsQuiet, QuietKeeps DEF StillSteps
  <2> QED BY <2>1, <2>2, <2>3, <2>4, <2>5, <2>6
<1>4. CASE Responding
  <2>1. ASSUME NEW r \in Report, NEW a \in Actor, NEW b \in Body,
               CreateResponse(r, a, b) \/ EditResponse(r, a, b)
        PROVE  IInv'
    BY <2>1, TypeResponding, QuietSteps, QuietKeeps
  <2>2. ASSUME NEW a \in Actor, NEW r \in Report, ConfirmResponse(a, r) PROVE IInv'
    BY <2>2, TypeConfirming, OutboxConfirming
  <2> QED BY <1>4, <2>1, <2>2 DEF Responding
<1>5. CASE Exchange
  <2>1. PICK w \in Worker :
          \/ ClaimDue(w) \/ \E d \in Draft : ClaimDraft(w, d)
          \/ Call(w) \/ Succeed(w) \/ Fail(w)
          \/ StartPoll(w) \/ AnswerPoll(w) \/ EndPoll(w)
    BY <1>5 DEF Exchange
  <2>2. CASE ClaimDue(w) \/ \E d \in Draft : ClaimDraft(w, d)
    <3>1. PICK c \in SUBSET Message : /\ \A m \in c : rows[m] \in {"queued", "failed"}
                                     /\ Claim(w, c)
      <4>1. CASE ClaimDue(w)
        <5>1. PICK due \in SUBSET {m \in Message : rows[m] = "failed"} :
                Claim(w, due \union {m \in Message : rows[m] = "queued"})
          BY <4>1 DEF ClaimDue
        <5> DEFINE c == due \union {m \in Message : rows[m] = "queued"}
        <5>2. c \in SUBSET Message /\ \A m \in c : rows[m] \in {"queued", "failed"}
          OBVIOUS
        <5>3. Claim(w, c)
          BY <5>1
        <5> HIDE DEF c
        <5> QED BY <5>2, <5>3
      <4>2. ASSUME NEW d \in Draft, ClaimDraft(w, d)
            PROVE  \E c \in SUBSET Message :
                     /\ \A m \in c : rows[m] \in {"queued", "failed"}
                     /\ Claim(w, c)
        <5> DEFINE c == {m \in {Submission(d)} : rows[m] \in {"queued", "failed"}}
        <5>1. c \in SUBSET Message /\ \A m \in c : rows[m] \in {"queued", "failed"}
          BY MessageFacts
        <5>2. Claim(w, c)
          BY <4>2 DEF ClaimDraft
        <5> HIDE DEF c
        <5> QED BY <5>1, <5>2
      <4> QED BY <2>2, <4>1, <4>2
    <3> QED BY <1>1, <3>1, TypeExchange, OutboxClaim
  <2>3. CASE Call(w) \/ StartPoll(w) \/ EndPoll(w)
    BY <1>1, <2>3, TypeExchange, StillIsQuiet, QuietKeeps DEF StillSteps
  <2>4. CASE Succeed(w)
    BY <1>1, <2>4, TypeExchange, OutboxSucceed
  <2>5. CASE Fail(w)
    BY <1>1, <2>5, TypeExchange, OutboxFail
  <2>6. CASE AnswerPoll(w)
    BY <1>1, <2>6, TypeExchange, OutboxAnswer
  <2> QED BY <2>1, <2>2, <2>3, <2>4, <2>5, <2>6
<1>6. CASE Restart
  BY <1>6, TypeRestart, OutboxRestart
<1>7. CASE UNCHANGED vars
  <2>1. TypeInv'
    BY <1>7 DEF vars, TypeInv, TypeOK, Shape, received, outbox, work
  <2> QED BY <1>7, <2>1, StillIsQuiet, QuietKeeps DEF StillSteps
<1> QED BY <1>2, <1>3, <1>4, <1>5, <1>6, <1>7 DEF Next

THEOREM Invariance == Spec => []IInv
<1>1. Init => IInv
  BY TypeInit, OutboxInit DEF IInv, TypeInv
<1>2. IInv /\ [Next]_vars => IInv'
  BY IInvStep
<1> QED BY <1>1, <1>2, PTL DEF Spec

\* The agent's state is well typed.
THEOREM TypeCorrect == Spec => []TypeOK
<1>1. IInv => TypeOK
  BY DEF IInv, TypeInv
<1> QED BY <1>1, Invariance, PTL

\* A document that was confirmed stays as it was signed and confirmed,
\* whatever people, threads and failures do.
THEOREM SignedStaysFrozen == Spec => []QueuedIsFrozen
<1>1. IInv => QueuedIsFrozen
  BY DEF IInv, OutboxInv, RowsMatch, QueuedIsFrozen, Documents
<1> QED BY <1>1, Invariance, PTL

\* However many threads exchange messages, a row is sent by one at a time.
THEOREM OneSender == Spec => []ClaimedOnce
<1>1. IInv => ClaimedOnce
  BY DEF IInv, OutboxInv
<1> QED BY <1>1, Invariance, PTL

\* Nothing leaves the agent under four eyes without the review the present
\* configuration asks for.
THEOREM NothingUnreviewed == Spec => []ReviewedBeforeSending
<1>1. IInv => ReviewedBeforeSending
  BY DEF IInv, OutboxInv, Approved, ReviewedBeforeSending, Sending, IsNext,
         FourEyesFailure, Document
<1> QED BY <1>1, Invariance, PTL
============================================================================
