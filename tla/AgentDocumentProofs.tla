------------------------ MODULE AgentDocumentProofs ------------------------
(***************************************************************************)
(* The agent's documents for any number of drafts, reports, people and     *)
(* threads: the reports come in without a gap, corrections form chains, a  *)
(* confirmation signs the text saved last, and what was confirmed can be   *)
(* sent.  Each rests on the invariant of AgentExchangeProofs.              *)
(***************************************************************************)
EXTENDS AgentExchangeProofs

-----------------------------------------------------------------------------
(***************************************************************************)
(* The feed.  A thread may answer a poll late, with the cursor of long     *)
(* ago; it brings a report that is there already, or the next one.         *)
(***************************************************************************)
FeedInv ==
  /\ \A i \in 1..Len(Feed) :
       /\ i <= cursor <=> inbox[Feed[i]].status = "acknowledged"
       /\ inbox[Feed[i]].status # "none" =>
            i <= cursor + 1 /\ inbox[Feed[i]].at = i
  /\ \A r \in Report : inbox[r].status # "none" =>
       \E i \in 1..Len(Feed) : Feed[i] = r
  /\ \A w \in Worker : polling[w] <= cursor

LEMMA FeedInit == Init => FeedInv
  BY AgentAssumption DEF Init, FeedInv, NotPolling

LEMMA FeedFacts ==
  /\ \A i \in 1..Len(Feed) : Feed[i] \in Report
  /\ \A i, j \in 1..Len(Feed) : Feed[i] = Feed[j] => i = j
  /\ Len(Feed) \in Nat
  BY AgentAssumption

LEMMA FeedSucceed ==
  ASSUME IInv, FeedInv, NEW w \in Worker, Succeed(w) PROVE FeedInv'
<1>1. PICK m \in batch[w] :
        /\ rows' = [rows EXCEPT ![m] = "succeeded"] /\ Record(m)
        /\ polling' = polling
  BY DEF Succeed, IsNext
<1>2. m \in Message /\ rows[m] = "sending"
  BY DEF IInv, OutboxInv, ClaimedOnce, TypeInv, TypeOK
<1>3. CASE m[1] # "delivery_ack"
  BY <1>1, <1>3 DEF Record, FeedInv
<1>4. CASE m[1] = "delivery_ack"
  <2> DEFINE r == m[2]
  <2>1. r \in Report /\ m = DeliveryAck(r)
    BY <1>2, <1>4 DEF Message, DeliveryAck
  <2>2. inbox[r].status \notin {"none", "acknowledged"}
    BY <1>2, <2>1 DEF IInv, OutboxInv, RowsMatch
  <2>3. /\ inbox' = [inbox EXCEPT ![r].status = "acknowledged"]
        /\ cursor' = inbox[r].at
    BY <1>1, <1>4 DEF Record
  <2> HIDE DEF r
  <2>4. PICK k \in 1..Len(Feed) : Feed[k] = r
    BY <2>1, <2>2 DEF FeedInv
  <2>5. k = cursor + 1 /\ inbox[r].at = k
    BY <2>2, <2>4, FeedFacts DEF FeedInv, IInv, TypeInv, TypeOK
  <2>6. /\ inbox'[r].status = "acknowledged" /\ inbox'[r].at = inbox[r].at
        /\ \A e \in Report \ {r} : inbox'[e] = inbox[e]
    BY <2>1, <2>3 DEF IInv, TypeInv, TypeOK
  <2>7. \A i \in 1..Len(Feed) : i # k => Feed[i] \in Report \ {r}
    BY <2>4, FeedFacts
  <2>8. cursor' = cursor + 1 /\ cursor \in Nat
    BY <2>3, <2>5 DEF IInv, TypeInv, TypeOK
  <2>9. ASSUME NEW i \in 1..Len(Feed)
        PROVE  /\ i <= cursor' <=> inbox'[Feed[i]].status = "acknowledged"
               /\ inbox'[Feed[i]].status # "none" =>
                    i <= cursor' + 1 /\ inbox'[Feed[i]].at = i
    <3>1. CASE i = k
      BY <2>4, <2>5, <2>6, <2>8, <3>1, FeedFacts
    <3>2. CASE i # k
      <4>1. inbox'[Feed[i]] = inbox[Feed[i]]
        BY <2>6, <2>7, <3>2
      <4>2. i <= cursor' <=> i <= cursor
        BY <2>5, <2>8, <3>2, FeedFacts
      <4> QED BY <2>8, <4>1, <4>2, FeedFacts DEF FeedInv
    <3> QED BY <3>1, <3>2
  <2>10. \A e \in Report : inbox'[e].status # "none" =>
           \E i \in 1..Len(Feed) : Feed[i] = e
    BY <2>4, <2>6 DEF FeedInv
  <2>11. \A v \in Worker : polling'[v] <= cursor'
    BY <1>1, <2>8 DEF FeedInv, IInv, TypeInv, TypeOK, NotPolling
  <2> QED BY <2>9, <2>10, <2>11 DEF FeedInv
<1> QED BY <1>3, <1>4

LEMMA FeedAnswer ==
  ASSUME IInv, FeedInv, NEW w \in Worker, AnswerPoll(w) PROVE FeedInv'
<1> DEFINE k == polling[w] + 1
<1>1. /\ k \in 1..Len(Feed) /\ k <= cursor + 1
      /\ Store(Feed[k], k)
      /\ polling' = [polling EXCEPT ![w] = NotPolling]
      /\ cursor' = cursor /\ cursor \in Nat
  BY FeedFacts DEF AnswerPoll, FeedInv, IInv, TypeInv, TypeOK
<1> HIDE DEF k
<1>2. \A v \in Worker : polling'[v] <= cursor'
  BY <1>1 DEF FeedInv, IInv, TypeInv, TypeOK, NotPolling
<1>3. CASE inbox[Feed[k]].status # "none"
  BY <1>1, <1>2, <1>3 DEF Store, FeedInv
<1>4. CASE inbox[Feed[k]].status = "none"
  <2>1. inbox' = [inbox EXCEPT ![Feed[k]] = [status |-> "stored", at |-> k]]
    BY <1>1, <1>4 DEF Store
  <2>2. /\ inbox'[Feed[k]] = [status |-> "stored", at |-> k]
        /\ \A r \in Report \ {Feed[k]} : inbox'[r] = inbox[r]
    BY <1>1, <2>1, FeedFacts DEF IInv, TypeInv, TypeOK
  <2>3. k = cursor + 1
    BY <1>1, <1>4, FeedFacts DEF FeedInv
  <2>4. \A i \in 1..Len(Feed) : i # k => inbox'[Feed[i]] = inbox[Feed[i]]
    BY <1>1, <2>2, FeedFacts
  <2>5. \A i \in 1..Len(Feed) :
          /\ i <= cursor <=> inbox'[Feed[i]].status = "acknowledged"
          /\ inbox'[Feed[i]].status # "none" =>
               i <= cursor + 1 /\ inbox'[Feed[i]].at = i
    <3> SUFFICES ASSUME NEW i \in 1..Len(Feed)
                 PROVE  /\ i <= cursor <=> inbox'[Feed[i]].status = "acknowledged"
                        /\ inbox'[Feed[i]].status # "none" =>
                             i <= cursor + 1 /\ inbox'[Feed[i]].at = i
      OBVIOUS
    <3>1. CASE i = k
      BY <1>1, <2>2, <2>3, <3>1
    <3>2. CASE i # k
      BY <2>4, <3>2 DEF FeedInv
    <3> QED BY <3>1, <3>2
  <2>6. \A r \in Report : inbox'[r].status # "none" =>
          \E i \in 1..Len(Feed) : Feed[i] = r
    BY <1>1, <2>2 DEF FeedInv
  <2> QED BY <1>1, <1>2, <2>5, <2>6 DEF FeedInv
<1> QED BY <1>3, <1>4

\* All other steps leave the inbox and its cursor as they are.
LEMMA FeedFrame ==
  ASSUME Next
  PROVE  \/ UNCHANGED <<inbox, cursor, polling>>
         \/ \E w \in Worker : Succeed(w) \/ AnswerPoll(w) \/ StartPoll(w) \/ EndPoll(w)
         \/ Restart
<1> SUFFICES ASSUME ~ Restart,
                    ~ \E w \in Worker : Succeed(w) \/ AnswerPoll(w)
                                         \/ StartPoll(w) \/ EndPoll(w)
             PROVE  UNCHANGED <<inbox, cursor, polling>>
  OBVIOUS
<1>1. CASE Drafting
  <2>1. \A d \in Draft, a \in Actor, b \in Body :
          Import(d, a, b) \/ EditDraft(d, a, b) => UNCHANGED <<received, work>>
    BY DEF Import, EditDraft
  <2>2. ASSUME NEW d \in Draft, Discard(d) PROVE UNCHANGED <<received, work>>
    BY <2>2 DEF Discard
  <2>3. ASSUME NEW s \in Draft, NEW d \in Draft, NEW a \in Actor, Correct(s, d, a)
        PROVE  UNCHANGED <<received, work>>
    BY <2>3 DEF Correct
  <2>4. ASSUME NEW x \in Reader, NEW d \in Draft, ConfirmDraft(x, d)
        PROVE  UNCHANGED <<received, work>>
    BY <2>4 DEF ConfirmDraft
  <2>5. /\ \A x \in Reader, m \in Message :
             Read(x, m) => UNCHANGED <<received, work>>
        /\ \A a \in Actor : GiveUp(a) => UNCHANGED <<received, work>>
    BY DEF Read, GiveUp
  <2>6. UNCHANGED <<received, work>>
    BY <1>1, <2>1, <2>2, <2>3, <2>4, <2>5 DEF Drafting
  <2> QED BY <2>6 DEF received, work
<1>2. CASE Watching
  <2>1. ASSUME NEW w \in Worker
        PROVE  /\ \A d \in Draft, b \in Body :
                    ImportWatched(w, d, b) => UNCHANGED <<received, work>>
               /\ \A d \in Draft :
                    ResumeWatched(w, d) => UNCHANGED <<received, work>>
               /\ \A passed \in BOOLEAN :
                    CheckWatched(w, passed) => UNCHANGED <<received, work>>
               /\ HoldWatched(w) \/ AlreadyConfirmed(w)
                    => UNCHANGED <<received, work>>
    BY DEF ImportWatched, ResumeWatched, CheckWatched, HoldWatched, AlreadyConfirmed
  <2>2. UNCHANGED <<received, work>>
    BY <1>2, <2>1 DEF Watching
  <2> QED BY <2>2 DEF received, work
<1>3. CASE Responding
  <2>1. \A r \in Report, a \in Actor, b \in Body :
          CreateResponse(r, a, b) \/ EditResponse(r, a, b)
            => UNCHANGED <<received, work>>
    BY DEF CreateResponse, EditResponse
  <2>2. ASSUME NEW a \in Actor, NEW r \in Report, ConfirmResponse(a, r)
        PROVE  UNCHANGED <<received, work>>
    BY <2>2 DEF ConfirmResponse
  <2>3. UNCHANGED <<received, work>>
    BY <1>3, <2>1, <2>2 DEF Responding
  <2> QED BY <2>3 DEF received, work
<1>4. CASE Exchange
  <2>1. PICK w \in Worker :
          \/ ClaimDue(w) \/ \E d \in Draft : ClaimDraft(w, d)
          \/ Call(w) \/ Fail(w)
    BY <1>4 DEF Exchange
  <2>2. CASE Call(w) \/ Fail(w)
    BY <2>2 DEF Call, Fail, received
  <2>3. ASSUME NEW c, Claim(w, c) PROVE UNCHANGED <<inbox, cursor, polling>>
    BY <2>3 DEF Claim, received
  <2> QED BY <2>1, <2>2, <2>3 DEF ClaimDue, ClaimDraft
<1> QED BY <1>1, <1>2, <1>3, <1>4 DEF Next

LEMMA FeedStep == ASSUME IInv, FeedInv, [Next]_vars PROVE FeedInv'
<1>1. CASE UNCHANGED <<inbox, cursor, polling>>
  BY <1>1 DEF FeedInv
<1>2. ASSUME NEW w \in Worker, StartPoll(w) \/ EndPoll(w) PROVE FeedInv'
  <2>1. /\ UNCHANGED <<inbox, cursor>> /\ cursor \in Nat
        /\ \A v \in Worker : polling'[v] \in {polling[v], cursor, NotPolling}
    BY <1>2 DEF StartPoll, EndPoll, received, IInv, TypeInv, TypeOK
  <2> QED BY <2>1 DEF FeedInv, NotPolling
<1>3. CASE Restart
  <2>1. UNCHANGED <<inbox, cursor>> /\ cursor \in Nat
          /\ \A w \in Worker : polling'[w] = NotPolling
    BY <1>3 DEF Restart, received, IInv, TypeInv, TypeOK
  <2> QED BY <2>1 DEF FeedInv, NotPolling
<1>4. CASE UNCHANGED vars
  BY <1>1, <1>4 DEF vars, received, work
<1> QED BY <1>1, <1>2, <1>3, <1>4, FeedSucceed, FeedAnswer, FeedFrame

\* However many threads poll and however late they answer, the cursor skips
\* no report, and a report behind it is stored and acknowledged.
THEOREM NoReportSkipped == Spec => []NothingSkipped
<1>1. Init => FeedInv
  BY FeedInit
<1>2. IInv /\ FeedInv /\ [Next]_vars => FeedInv'
  BY FeedStep
<1>3. IInv /\ FeedInv => NothingSkipped
  BY FeedFacts DEF IInv, OutboxInv, RowsMatch, FeedInv, NothingSkipped
<1> QED BY <1>1, <1>2, <1>3, Invariance, PTL DEF Spec

-----------------------------------------------------------------------------
(***************************************************************************)
(* The chains of corrections.  A text that was submitted is never touched  *)
(* again, so the one it corrects keeps its identity, revision and letter.  *)
(***************************************************************************)
ChainInv ==
  /\ ChainsDoNotFork
  /\ \A d \in Draft : drafts[d].status # "absent" => drafts[d].subrev >= 1

LEMMA ChainInit == Init => ChainInv
  BY DEF Init, ChainInv, ChainsDoNotFork, NoDraft

\* What a step that works on one draft may do to it.
ChainSafe(d) ==
  /\ drafts[d].status = "submitted" =>
       /\ drafts'[d].status = "submitted"
       /\ drafts'[d].corr = drafts[d].corr /\ drafts'[d].subrev = drafts[d].subrev
       /\ letter'[Submission(d)] = letter[Submission(d)]
  /\ drafts'[d].pred = drafts[d].pred
  /\ drafts[d].pred # None =>
       /\ drafts'[d].corr = drafts[d].corr /\ drafts'[d].subrev = drafts[d].subrev
       /\ PeriodOf[drafts'[d].body] = PeriodOf[letter[Submission(drafts[d].pred)]]
  /\ drafts'[d].subrev >= 1

LEMMA ChainKeeps ==
  ASSUME TypeInv, ChainInv, NEW d \in Draft, ChainSafe(d),
         \A e \in Draft \ {d} : /\ drafts'[e] = drafts[e]
                                /\ letter'[Submission(e)] = letter[Submission(e)]
  PROVE  ChainInv'
<1>1. \A e \in Draft : drafts[e].pred \in Draft \union {None}
                         /\ drafts[e].subrev \in Nat
  BY DEF TypeInv, TypeOK, DraftRecord
<1>2. \A e \in Draft : drafts'[e].pred = drafts[e].pred
  BY DEF ChainSafe
<1>3. ASSUME NEW e \in Draft, drafts[e].pred # None
      PROVE  LET p == drafts[e].pred IN
             /\ drafts'[p].status = "submitted"
             /\ drafts'[p].corr = drafts[p].corr
             /\ drafts'[p].subrev = drafts[p].subrev
             /\ letter'[Submission(p)] = letter[Submission(p)]
  <2> DEFINE p == drafts[e].pred
  <2>1. p \in Draft /\ drafts[p].status = "submitted"
    BY <1>1, <1>3 DEF ChainInv, ChainsDoNotFork
  <2> HIDE DEF p
  <2>2. CASE p = d
    BY <2>1, <2>2 DEF p, ChainSafe
  <2>3. CASE p # d
    BY <2>1, <2>3 DEF p
  <2> QED BY <2>2, <2>3
<1>4. ASSUME NEW e \in Draft, drafts[e].pred # None
      PROVE  LET p == drafts[e].pred IN
             /\ \A f \in Draft : drafts'[f].pred = p => f = e
             /\ drafts'[e].corr = drafts[p].corr
             /\ drafts[p].subrev + 1 = drafts'[e].subrev
             /\ PeriodOf[drafts'[e].body] = PeriodOf[letter[Submission(p)]]
  <2>1. /\ drafts'[e].corr = drafts[e].corr /\ drafts'[e].subrev = drafts[e].subrev
        /\ PeriodOf[drafts'[e].body] = PeriodOf[letter[Submission(drafts[e].pred)]]
    <3>1. CASE e = d
      BY <1>4, <3>1 DEF ChainSafe
    <3>2. CASE e # d
      BY <1>4, <3>2 DEF ChainInv, ChainsDoNotFork
    <3> QED BY <3>1, <3>2
  <2> QED BY <1>2, <1>4, <2>1 DEF ChainInv, ChainsDoNotFork
<1>5. ChainsDoNotFork'
  BY <1>2, <1>3, <1>4 DEF ChainsDoNotFork
<1>6. \A e \in Draft : drafts'[e].status # "absent" => drafts'[e].subrev >= 1
  BY DEF ChainSafe, ChainInv
<1> QED BY <1>5, <1>6 DEF ChainInv

\* A correction begins a link, the only one from the text it corrects.
LEMMA ChainCorrect ==
  ASSUME TypeInv, ChainInv, NEW s \in Draft, NEW d \in Draft, NEW a \in Actor,
         Correct(s, d, a)
  PROVE  ChainInv'
<1> DEFINE text == letter[Submission(s)]
<1> DEFINE new == NewDraft(text, a, a)
<1> DEFINE next == [new EXCEPT !.pred = s, !.corr = drafts[s].corr,
                               !.subrev = drafts[s].subrev + 1]
<1>1. /\ drafts[s].status = "submitted" /\ drafts[d].status = "absent"
      /\ \A e \in Draft : drafts[e].pred # s
      /\ drafts' = [drafts EXCEPT ![d] = next]
      /\ letter' = letter
  BY DEF Correct, outbox
<1>2. text \in Body
  BY <1>1 DEF TypeInv, Shape
<1> HIDE DEF text
<1>3. new \in DraftRecord /\ new.body = text
  BY <1>2, NewDraftType
<1> HIDE DEF new
<1>4. /\ drafts[s].corr \in Draft \union {None} /\ drafts[s].subrev \in Nat
      /\ drafts[s].subrev >= 1 /\ drafts \in [Draft -> DraftRecord]
  BY <1>1 DEF TypeInv, TypeOK, DraftRecord, ChainInv
<1>5. /\ next.pred = s /\ next.corr = drafts[s].corr /\ next.body = text
      /\ next.subrev = drafts[s].subrev + 1
  BY <1>3 DEF DraftRecord
<1> HIDE DEF next
<1>6. drafts'[d] = next /\ \A e \in Draft \ {d} : drafts'[e] = drafts[e]
  BY <1>1, <1>4
<1>7. \A e \in Draft : drafts[e].pred # None =>
        drafts[e].pred \in Draft \ {s, d} /\ e # d
  <2>1. \A e \in Draft : drafts[e].pred \in Draft \union {None}
    BY DEF TypeInv, TypeOK, DraftRecord
  <2>2. drafts[d].pred = None
    BY <1>1 DEF TypeInv, Shape, NoDraft
  <2> QED BY <1>1, <2>1, <2>2 DEF ChainInv, ChainsDoNotFork
<1>8. s # d /\ s # None
  BY <1>1, AgentAssumption
<1>9. ASSUME NEW e \in Draft, drafts'[e].pred # None
      PROVE  LET p == drafts'[e].pred IN
             /\ \A f \in Draft : drafts'[f].pred = p => f = e
             /\ drafts'[p].status = "submitted"
             /\ drafts'[p].corr = drafts'[e].corr
             /\ drafts'[p].subrev + 1 = drafts'[e].subrev
             /\ PeriodOf[drafts'[e].body] = PeriodOf[letter'[Submission(p)]]
  <2>1. CASE e = d
    BY <1>1, <1>5, <1>6, <1>7, <1>8, <2>1 DEF text
  <2>2. CASE e # d
    <3> DEFINE p == drafts[e].pred
    <3>1. p \in Draft \ {s, d} /\ drafts'[e] = drafts[e] /\ drafts'[p] = drafts[p]
      BY <1>6, <1>7, <1>9, <2>2
    <3>2. \A f \in Draft : drafts'[f].pred = p => f = e
      <4>1. \A f \in Draft : drafts[f].pred = p => f = e
        BY <1>9, <3>1 DEF ChainInv, ChainsDoNotFork
      <4>2. drafts'[d].pred # p
        BY <1>5, <1>6, <3>1
      <4> QED BY <1>6, <4>1, <4>2
    <3> QED BY <1>1, <1>9, <3>1, <3>2 DEF ChainInv, ChainsDoNotFork
  <2> QED BY <2>1, <2>2
<1>10. \A e \in Draft : drafts'[e].status # "absent" => drafts'[e].subrev >= 1
  BY <1>4, <1>5, <1>6 DEF ChainInv
<1> QED BY <1>9, <1>10 DEF ChainInv, ChainsDoNotFork

\* The receipt of a submission, as far as drafts are concerned.
Receipt(d) ==
  /\ drafts[d].status = "queued"
  /\ drafts' = [drafts EXCEPT ![d].status = "submitted"]
  /\ letter' = letter

SameDrafts ==
  /\ drafts' = drafts
  /\ \A d \in Draft : letter'[Submission(d)] = letter[Submission(d)]

\* The steps that change a draft.
LEMMA DraftFrame ==
  ASSUME IInv, Next
  PROVE  \/ SameDrafts
         \/ \E d \in Draft, a \in Actor, b \in Body :
              Import(d, a, b) \/ EditDraft(d, a, b)
         \/ \E d \in Draft : Discard(d) \/ Receipt(d)
         \/ \E s, d \in Draft, a \in Actor : Correct(s, d, a)
         \/ \E x \in Reader, d \in Draft : ConfirmDraft(x, d)
         \/ \E w \in Worker, d \in Draft, b \in Body : ImportWatched(w, d, b)
<1>1. CASE Drafting
  <2>1. /\ \A x \in Reader, m \in Message : Read(x, m) => SameDrafts
        /\ \A a \in Actor : GiveUp(a) => SameDrafts
    BY DEF Read, GiveUp, outbox, SameDrafts
  <2> QED BY <1>1, <2>1 DEF Drafting
<1>2. CASE Watching
  <2>1. ASSUME NEW w \in Worker
        PROVE  /\ \A d \in Draft : ResumeWatched(w, d) => SameDrafts
               /\ \A passed \in BOOLEAN : CheckWatched(w, passed) => SameDrafts
               /\ HoldWatched(w) \/ AlreadyConfirmed(w) => SameDrafts
    BY DEF ResumeWatched, CheckWatched, HoldWatched, AlreadyConfirmed, outbox,
           SameDrafts
  <2> QED BY <1>2, <2>1 DEF Watching
<1>3. CASE Responding
  <2>1. \A r \in Report, a \in Actor, b \in Body :
          CreateResponse(r, a, b) \/ EditResponse(r, a, b) => SameDrafts
    BY DEF CreateResponse, EditResponse, outbox, SameDrafts
  <2>2. ASSUME NEW a \in Actor, NEW r \in Report, ConfirmResponse(a, r)
        PROVE  SameDrafts
    <3>1. /\ drafts' = drafts
          /\ letter' = [letter EXCEPT ![RiskResponse(r)] = reading[a].body]
      BY <2>2 DEF ConfirmResponse, Enqueue
    <3>2. ASSUME NEW d \in Draft PROVE Submission(d) # RiskResponse(r)
      BY DEF Submission, RiskResponse
    <3> QED BY <3>1, <3>2, MessageFacts DEF SameDrafts, IInv, TypeInv, TypeOK
  <2> QED BY <1>3, <2>1, <2>2 DEF Responding
<1>4. CASE Exchange
  <2>1. PICK w \in Worker :
          \/ ClaimDue(w) \/ \E d \in Draft : ClaimDraft(w, d)
          \/ Call(w) \/ Succeed(w) \/ Fail(w)
          \/ StartPoll(w) \/ AnswerPoll(w) \/ EndPoll(w)
    BY <1>4 DEF Exchange
  <2>2. CASE Call(w) \/ Fail(w) \/ StartPoll(w) \/ AnswerPoll(w) \/ EndPoll(w)
    BY <2>2 DEF Call, Fail, StartPoll, AnswerPoll, EndPoll, outbox, SameDrafts
  <2>3. ASSUME NEW c, Claim(w, c) PROVE SameDrafts
    BY <2>3 DEF Claim, SameDrafts
  <2>4. CASE Succeed(w)
    <3>1. PICK m \in batch[w] : Record(m) /\ letter' = letter
      BY <2>4 DEF Succeed, IsNext
    <3>2. CASE m[1] = "submission"
      <4>1. m[2] \in Draft /\ drafts[m[2]].status = "queued"
        <5>1. m \in Documents /\ rows[m] = "sending"
          BY <3>2 DEF IInv, OutboxInv, ClaimedOnce, TypeInv, TypeOK, Documents
        <5> QED BY <3>2, <5>1, DocumentFacts DEF IInv, OutboxInv, RowsMatch
      <4>2. drafts' = [drafts EXCEPT ![m[2]].status = "submitted"]
        BY <3>1, <3>2 DEF Record
      <4>3. Receipt(m[2])
        BY <3>1, <4>1, <4>2 DEF Receipt
      <4> QED BY <4>1, <4>3
    <3>3. CASE m[1] # "submission"
      BY <3>1, <3>3 DEF Record, SameDrafts
    <3> QED BY <3>2, <3>3
  <2> QED BY <2>1, <2>2, <2>3, <2>4 DEF ClaimDue, ClaimDraft
<1>5. CASE Restart
  BY <1>5 DEF Restart, SameDrafts
<1> QED BY <1>1, <1>2, <1>3, <1>4, <1>5 DEF Next

LEMMA ChainStep == ASSUME IInv, ChainInv, [Next]_vars PROVE ChainInv'
<1>0. TypeInv /\ drafts \in [Draft -> DraftRecord]
  BY DEF IInv, TypeInv, TypeOK
<1>1. CASE SameDrafts
  <2>1. \A d \in Draft : drafts[d].pred \in Draft \union {None}
    BY DEF IInv, TypeInv, TypeOK, DraftRecord
  <2> QED BY <1>1, <2>1 DEF SameDrafts, ChainInv, ChainsDoNotFork
<1>2. CASE UNCHANGED vars
  BY <1>1, <1>2 DEF vars, outbox, SameDrafts
<1>3. ASSUME NEW d \in Draft, NEW b \in Body, NEW e \in Actor \union {System},
             NEW p \in Actor \union {None}, drafts[d].status = "absent",
             drafts' = [drafts EXCEPT ![d] = NewDraft(b, e, p)], letter' = letter
      PROVE  ChainInv'
  <2>1. drafts'[d].pred = None /\ drafts'[d].subrev = 1
    BY <1>0, <1>3, NewDraftType
  <2>2. drafts[d].pred = None
    BY <1>3 DEF IInv, TypeInv, Shape, NoDraft
  <2>3. ChainSafe(d)
    BY <1>3, <2>1, <2>2 DEF ChainSafe
  <2> QED BY <1>0, <1>3, <2>3, ChainKeeps
<1>4. ASSUME NEW d \in Draft, NEW a \in Actor, NEW b \in Body, Import(d, a, b)
      PROVE  ChainInv'
  <2> DEFINE p == IF a \in config.preparers THEN a ELSE None
  <2>1. /\ drafts[d].status = "absent" /\ p \in Actor \union {None}
        /\ drafts' = [drafts EXCEPT ![d] = NewDraft(b, a, p)] /\ letter' = letter
    BY <1>4 DEF Import, outbox
  <2> HIDE DEF p
  <2> QED BY <1>3, <2>1
<1>5. ASSUME NEW w \in Worker, NEW d \in Draft, NEW b \in Body, ImportWatched(w, d, b)
      PROVE  ChainInv'
  BY <1>3, <1>5 DEF ImportWatched, outbox
<1>6. ASSUME NEW d \in Draft, NEW a \in Actor, NEW b \in Body, EditDraft(d, a, b)
      PROVE  ChainInv'
  <2>1. /\ drafts[d].status = "ready_review" /\ KeepsPeriod(d, b)
        /\ drafts' = [drafts EXCEPT ![d] =
                        [drafts[d] EXCEPT !.rev = drafts[d].rev + 1, !.body = b,
                                          !.editor = a, !.preparer = a,
                                          !.preparedRev = drafts[d].rev + 1,
                                          !.conf = None]]
        /\ letter' = letter
    BY <1>0, <1>6 DEF EditDraft, outbox
  <2>2. /\ drafts'[d].pred = drafts[d].pred /\ drafts'[d].corr = drafts[d].corr
        /\ drafts'[d].subrev = drafts[d].subrev /\ drafts'[d].body = b
        /\ \A e \in Draft \ {d} : drafts'[e] = drafts[e]
    BY <1>0, <2>1 DEF DraftRecord
  <2>3. ChainSafe(d)
    BY <2>1, <2>2 DEF ChainSafe, KeepsPeriod, ChainInv
  <2> QED BY <1>0, <2>1, <2>2, <2>3, ChainKeeps
<1>7. ASSUME NEW d \in Draft, Discard(d) \/ Receipt(d) PROVE ChainInv'
  <2>1. /\ drafts[d].status \in {"ready_review", "queued"}
        /\ drafts'[d].pred = drafts[d].pred /\ drafts'[d].corr = drafts[d].corr
        /\ drafts'[d].subrev = drafts[d].subrev
        /\ drafts'[d].body = drafts[d].body
        /\ \A e \in Draft \ {d} : drafts'[e] = drafts[e]
        /\ letter' = letter
    BY <1>0, <1>7 DEF Discard, Receipt, DraftRecord, outbox
  <2>2. ChainSafe(d)
    BY <2>1 DEF ChainSafe, ChainInv, ChainsDoNotFork
  <2> QED BY <1>0, <2>1, <2>2, ChainKeeps
<1>8. ASSUME NEW x \in Reader, NEW d \in Draft, ConfirmDraft(x, d) PROVE ChainInv'
  <2> DEFINE conf == [by |-> IF x \in Worker THEN System ELSE x,
                      rev |-> drafts[d].rev]
             corr == IF drafts[d].subrev = 1 THEN d ELSE drafts[d].corr
  <2>1. /\ drafts[d].status = "ready_review"
        /\ drafts' = [drafts EXCEPT ![d].status = "queued", ![d].conf = conf,
                                    ![d].corr = corr]
        /\ letter' = [letter EXCEPT ![Submission(d)] = reading[x].body]
    BY <1>8 DEF ConfirmDraft, Enqueue
  <2> HIDE DEF conf, corr
  <2>2. /\ drafts'[d].pred = drafts[d].pred /\ drafts'[d].corr = corr
        /\ drafts'[d].subrev = drafts[d].subrev /\ drafts'[d].body = drafts[d].body
        /\ \A e \in Draft \ {d} : drafts'[e] = drafts[e]
    BY <1>0, <2>1 DEF DraftRecord
  <2>3. \A e \in Draft \ {d} : letter'[Submission(e)] = letter[Submission(e)]
    BY <2>1, MessageFacts DEF Submission, IInv, TypeInv, TypeOK
  <2>4. drafts[d].pred # None => corr = drafts[d].corr
    <3>1. \A e \in Draft : drafts[e].pred \in Draft \union {None}
                             /\ drafts[e].subrev \in Nat
      BY <1>0 DEF DraftRecord
    <3>2. drafts[d].pred # None => drafts[d].subrev # 1
      BY <3>1 DEF ChainInv, ChainsDoNotFork
    <3> QED BY <3>2 DEF corr
  <2>5. ChainSafe(d)
    BY <2>1, <2>2, <2>4 DEF ChainSafe, ChainInv, ChainsDoNotFork
  <2> QED BY <1>0, <2>2, <2>3, <2>5, ChainKeeps
<1> QED BY <1>0, <1>1, <1>2, <1>4, <1>5, <1>6, <1>7, <1>8, ChainCorrect, DraftFrame

\* The corrections of a submission form one chain, however often people and
\* threads correct, confirm and send at the same time.
THEOREM NoFork == Spec => []ChainsDoNotFork
<1>1. Init => ChainInv
  BY ChainInit
<1>2. IInv /\ ChainInv /\ [Next]_vars => ChainInv'
  BY ChainStep
<1>3. ChainInv => ChainsDoNotFork
  BY DEF ChainInv
<1> QED BY <1>1, <1>2, <1>3, Invariance, PTL DEF Spec

-----------------------------------------------------------------------------
(***************************************************************************)
(* Confirmations.  Somebody may edit a text between its reading and its    *)
(* confirmation; every edit is a new revision, so equal revisions mean     *)
(* that what was read is what is saved.                                    *)
(***************************************************************************)
ReadInv ==
  \A x \in Reader : reading[x] # None =>
    /\ reading[x].of \in Documents
    /\ \A m \in Documents : reading[x].of = m =>
         /\ Document(m).status # "absent"
         /\ reading[x].rev <= Document(m).rev
         /\ reading[x].rev = Document(m).rev => reading[x].body = Document(m).body

LEMMA ReadInit == Init => ReadInv
  BY DEF Init, ReadInv

\* A document that exists goes on to exist, and keeps its text unless its
\* revision grows.
Grows(old, new) ==
  old.status # "absent" =>
    /\ new.status # "absent"
    /\ new.rev > old.rev \/ (new.rev = old.rev /\ new.body = old.body)

DraftsGrow == \A d \in Draft : Grows(drafts[d], drafts'[d])
ResponsesGrow == \A r \in Report : Grows(responses[r], responses'[r])

LEMMA DraftsGrowStep == ASSUME IInv, [Next]_vars PROVE DraftsGrow
<1>0. /\ drafts \in [Draft -> DraftRecord]
      /\ \A d \in Draft : drafts[d].rev \in Nat
  BY AgentAssumption DEF IInv, TypeInv, TypeOK, DraftRecord
<1>1. CASE SameDrafts \/ UNCHANGED vars
  BY <1>1 DEF SameDrafts, vars, DraftsGrow, Grows
<1>2. ASSUME NEW d \in Draft, NEW v, Grows(drafts[d], v),
             drafts' = [drafts EXCEPT ![d] = v]
      PROVE  DraftsGrow
  BY <1>0, <1>2 DEF DraftsGrow, Grows
<1>3. ASSUME NEW d \in Draft, NEW a \in Actor, NEW b \in Body,
             Import(d, a, b) \/ EditDraft(d, a, b)
      PROVE  DraftsGrow
  <2>1. CASE Import(d, a, b)
    BY <1>2, <2>1 DEF Import, Grows
  <2>2. CASE EditDraft(d, a, b)
    <3> DEFINE v == [drafts[d] EXCEPT !.rev = drafts[d].rev + 1, !.body = b,
                                      !.editor = a, !.preparer = a,
                                      !.preparedRev = drafts[d].rev + 1,
                                      !.conf = None]
    <3>1. drafts' = [drafts EXCEPT ![d] = v]
      BY <1>0, <2>2 DEF EditDraft
    <3>2. v.status = drafts[d].status /\ v.rev = drafts[d].rev + 1
      BY <1>0 DEF DraftRecord
    <3> HIDE DEF v
    <3>3. Grows(drafts[d], v)
      BY <1>0, <3>2 DEF Grows
    <3> QED BY <1>2, <3>1, <3>3
  <2> QED BY <1>3, <2>1, <2>2
<1>4. ASSUME NEW d \in Draft, Discard(d) \/ Receipt(d) PROVE DraftsGrow
  <2>1. /\ drafts'[d].status # "absent"
        /\ drafts'[d].rev \in {drafts[d].rev, drafts[d].rev + 1}
        /\ drafts'[d].body = drafts[d].body
        /\ \A e \in Draft \ {d} : drafts'[e] = drafts[e]
    BY <1>0, <1>4 DEF Discard, Receipt, DraftRecord
  <2> QED BY <1>0, <2>1 DEF DraftsGrow, Grows
<1>5. ASSUME NEW s \in Draft, NEW d \in Draft, NEW a \in Actor, Correct(s, d, a)
      PROVE  DraftsGrow
  BY <1>2, <1>5 DEF Correct, Grows
<1>6. ASSUME NEW x \in Reader, NEW d \in Draft, ConfirmDraft(x, d) PROVE DraftsGrow
  <2>1. /\ drafts'[d].status = "queued" /\ drafts'[d].rev = drafts[d].rev
        /\ drafts'[d].body = drafts[d].body
        /\ \A e \in Draft \ {d} : drafts'[e] = drafts[e]
    BY <1>0, <1>6 DEF ConfirmDraft, DraftRecord
  <2> QED BY <2>1 DEF DraftsGrow, Grows
<1>7. ASSUME NEW w \in Worker, NEW d \in Draft, NEW b \in Body, ImportWatched(w, d, b)
      PROVE  DraftsGrow
  BY <1>2, <1>7 DEF ImportWatched, Grows
<1> QED BY <1>1, <1>3, <1>4, <1>5, <1>6, <1>7, DraftFrame

\* The receipt of a response.
Answered(r) ==
  /\ responses[r].status = "queued"
  /\ responses' = [responses EXCEPT ![r].status = "submitted"]

\* The steps that change a response.
LEMMA ResponseFrame ==
  ASSUME IInv, Next
  PROVE  \/ responses' = responses
         \/ \E r \in Report, a \in Actor, b \in Body :
              CreateResponse(r, a, b) \/ EditResponse(r, a, b)
         \/ \E a \in Actor, r \in Report : ConfirmResponse(a, r)
         \/ \E r \in Report : Answered(r)
<1>1. CASE Drafting
  <2>1. \A d \in Draft, a \in Actor, b \in Body :
          Import(d, a, b) \/ EditDraft(d, a, b) => responses' = responses
    BY DEF Import, EditDraft
  <2>2. ASSUME NEW d \in Draft, Discard(d) PROVE responses' = responses
    BY <2>2 DEF Discard
  <2>3. ASSUME NEW s \in Draft, NEW d \in Draft, NEW a \in Actor, Correct(s, d, a)
        PROVE  responses' = responses
    BY <2>3 DEF Correct
  <2>4. ASSUME NEW x \in Reader, NEW d \in Draft, ConfirmDraft(x, d)
        PROVE  responses' = responses
    BY <2>4 DEF ConfirmDraft
  <2>5. /\ \A x \in Reader, m \in Message : Read(x, m) => responses' = responses
        /\ \A a \in Actor : GiveUp(a) => responses' = responses
    BY DEF Read, GiveUp
  <2> QED BY <1>1, <2>1, <2>2, <2>3, <2>4, <2>5 DEF Drafting
<1>2. CASE Watching
  BY <1>2 DEF Watching, ImportWatched, ResumeWatched, CheckWatched, HoldWatched,
              AlreadyConfirmed
<1>3. CASE Responding
  BY <1>3 DEF Responding
<1>4. CASE Exchange
  <2>1. PICK w \in Worker :
          \/ ClaimDue(w) \/ \E d \in Draft : ClaimDraft(w, d)
          \/ Call(w) \/ Succeed(w) \/ Fail(w)
          \/ StartPoll(w) \/ AnswerPoll(w) \/ EndPoll(w)
    BY <1>4 DEF Exchange
  <2>2. CASE Call(w) \/ Fail(w) \/ StartPoll(w) \/ AnswerPoll(w) \/ EndPoll(w)
    BY <2>2 DEF Call, Fail, StartPoll, AnswerPoll, EndPoll
  <2>3. ASSUME NEW c, Claim(w, c) PROVE responses' = responses
    BY <2>3 DEF Claim
  <2>4. CASE Succeed(w)
    <3>1. PICK m \in batch[w] : Record(m)
      BY <2>4 DEF Succeed, IsNext
    <3>2. CASE m[1] = "risk_response"
      <4>1. m[2] \in Report /\ responses[m[2]].status = "queued"
        <5>1. m \in Documents /\ rows[m] = "sending"
          BY <3>2 DEF IInv, OutboxInv, ClaimedOnce, TypeInv, TypeOK, Documents
        <5> QED BY <3>2, <5>1, DocumentFacts DEF IInv, OutboxInv, RowsMatch
      <4>2. Answered(m[2])
        BY <3>1, <3>2, <4>1 DEF Record, Answered
      <4> QED BY <4>1, <4>2
    <3>3. CASE m[1] # "risk_response"
      BY <3>1, <3>3 DEF Record
    <3> QED BY <3>2, <3>3
  <2> QED BY <2>1, <2>2, <2>3, <2>4 DEF ClaimDue, ClaimDraft
<1>5. CASE Restart
  BY <1>5 DEF Restart
<1> QED BY <1>1, <1>2, <1>3, <1>4, <1>5 DEF Next

\* The text a response is confirmed with is the one it has.
LEMMA ConfirmsItsText ==
  ASSUME ReadInv, NEW a \in Actor, NEW r \in Report, ConfirmResponse(a, r)
  PROVE  reading[a].body = responses[r].body
<1>1. RiskResponse(r) \in Documents /\ Document(RiskResponse(r)) = responses[r]
  BY DocumentFacts
<1> QED BY <1>1 DEF ConfirmResponse, HasRead, ReadInv, Reader

LEMMA ResponsesGrowStep == ASSUME IInv, ReadInv, [Next]_vars PROVE ResponsesGrow
<1>0. /\ responses \in [Report -> ResponseRecord]
      /\ \A r \in Report : responses[r].rev \in Nat
  BY AgentAssumption DEF IInv, TypeInv, TypeOK, ResponseRecord
<1>1. CASE responses' = responses \/ UNCHANGED vars
  BY <1>1 DEF vars, ResponsesGrow, Grows
<1>2. ASSUME NEW r \in Report, NEW a \in Actor, NEW b \in Body,
             CreateResponse(r, a, b)
      PROVE  ResponsesGrow
  BY <1>0, <1>2 DEF CreateResponse, ResponsesGrow, Grows
<1>3. ASSUME NEW r \in Report, NEW a \in Actor, NEW b \in Body, EditResponse(r, a, b)
      PROVE  ResponsesGrow
  <2>1. /\ responses'[r].status = responses[r].status
        /\ responses'[r].rev = responses[r].rev + 1
        /\ \A e \in Report \ {r} : responses'[e] = responses[e]
    BY <1>0, <1>3 DEF EditResponse, ResponseRecord
  <2> QED BY <1>0, <2>1 DEF ResponsesGrow, Grows
<1>4. ASSUME NEW a \in Actor, NEW r \in Report, ConfirmResponse(a, r)
      PROVE  ResponsesGrow
  <2>1. /\ responses'[r].status = "queued" /\ responses'[r].rev = responses[r].rev
        /\ responses'[r].body = reading[a].body
        /\ \A e \in Report \ {r} : responses'[e] = responses[e]
    BY <1>0, <1>4 DEF ConfirmResponse, ResponseRecord
  <2> QED BY <1>4, <2>1, ConfirmsItsText DEF ResponsesGrow, Grows
<1>5. ASSUME NEW r \in Report, Answered(r) PROVE ResponsesGrow
  <2>1. /\ responses'[r].status = "submitted" /\ responses'[r].rev = responses[r].rev
        /\ responses'[r].body = responses[r].body
        /\ \A e \in Report \ {r} : responses'[e] = responses[e]
    BY <1>0, <1>5 DEF Answered, ResponseRecord
  <2> QED BY <2>1 DEF ResponsesGrow, Grows
<1> QED BY <1>1, <1>2, <1>3, <1>4, <1>5, ResponseFrame

\* A step reads one document or only forgets what was read.
LEMMA ReadingFrame ==
  ASSUME IInv, Next
  PROVE  \/ \A x \in Reader : reading'[x] \in {reading[x], None}
         \/ \E x \in Reader, m \in Message : Read(x, m)
<1> DEFINE Forgets == \A x \in Reader : reading'[x] \in {reading[x], None}
<1>0. reading \in [Reader -> [of: Message, rev: 1..MaxRevision, body: Body]
                              \union {None}]
  BY DEF IInv, TypeInv, TypeOK
<1>1. ASSUME NEW x, Confirmed(x) PROVE Forgets
  BY <1>0, <1>1 DEF Confirmed
<1>2. CASE Drafting
  <2>1. \A d \in Draft, a \in Actor, b \in Body :
          Import(d, a, b) \/ EditDraft(d, a, b) => Forgets
    BY DEF Import, EditDraft
  <2>2. ASSUME NEW d \in Draft, Discard(d) PROVE Forgets
    BY <2>2 DEF Discard
  <2>3. ASSUME NEW s \in Draft, NEW d \in Draft, NEW a \in Actor, Correct(s, d, a)
        PROVE  Forgets
    BY <2>3 DEF Correct
  <2>4. ASSUME NEW x \in Reader, NEW d \in Draft, ConfirmDraft(x, d) PROVE Forgets
    <3>1. Confirmed(x)
      BY <2>4 DEF ConfirmDraft
    <3> QED BY <1>1, <3>1
  <2>5. ASSUME NEW a \in Actor, GiveUp(a) PROVE Forgets
    BY <1>0, <2>5 DEF GiveUp
  <2> HIDE DEF Forgets
  <2>6. Forgets \/ \E x \in Reader, m \in Message : Read(x, m)
    BY <1>2, <2>1, <2>2, <2>3, <2>4, <2>5 DEF Drafting
  <2> QED BY <2>6 DEF Forgets
<1>3. CASE Watching
  <2>1. PICK w \in Worker :
          \/ \E d \in Draft, b \in Body : ImportWatched(w, d, b)
          \/ \E d \in Draft : ResumeWatched(w, d)
          \/ \E passed \in BOOLEAN : CheckWatched(w, passed)
          \/ HoldWatched(w) \/ AlreadyConfirmed(w)
    BY <1>3 DEF Watching
  <2>2. CASE HoldWatched(w) \/ AlreadyConfirmed(w)
    <3>1. Confirmed(w)
      BY <2>2 DEF HoldWatched, AlreadyConfirmed
    <3> QED BY <1>1, <3>1
  <2>3. CASE ~ (HoldWatched(w) \/ AlreadyConfirmed(w))
    BY <2>1, <2>3 DEF ImportWatched, ResumeWatched, CheckWatched
  <2> QED BY <2>2, <2>3
<1>4. CASE Responding
  <2>1. \A r \in Report, a \in Actor, b \in Body :
          CreateResponse(r, a, b) \/ EditResponse(r, a, b) => Forgets
    BY DEF CreateResponse, EditResponse
  <2>2. ASSUME NEW a \in Actor, NEW r \in Report, ConfirmResponse(a, r)
        PROVE  Forgets
    <3>1. Confirmed(a)
      BY <2>2 DEF ConfirmResponse
    <3> QED BY <1>1, <3>1
  <2> HIDE DEF Forgets
  <2>3. Forgets
    BY <1>4, <2>1, <2>2 DEF Responding
  <2> QED BY <2>3 DEF Forgets
<1>5. CASE Exchange
  <2>1. PICK w \in Worker :
          \/ ClaimDue(w) \/ \E d \in Draft : ClaimDraft(w, d)
          \/ Call(w) \/ Succeed(w) \/ Fail(w)
          \/ StartPoll(w) \/ AnswerPoll(w) \/ EndPoll(w)
    BY <1>5 DEF Exchange
  <2>2. Call(w) \/ Succeed(w) \/ Fail(w) \/ StartPoll(w) \/ AnswerPoll(w)
          \/ EndPoll(w) => reading' = reading
    BY DEF Call, Succeed, Fail, StartPoll, AnswerPoll, EndPoll
  <2>3. ASSUME NEW c, Claim(w, c) PROVE reading' = reading
    BY <2>3 DEF Claim
  <2>4. reading' = reading
    BY <2>1, <2>2, <2>3 DEF ClaimDue, ClaimDraft
  <2> QED BY <2>4
<1>6. CASE Restart
  BY <1>6 DEF Restart
<1> QED BY <1>2, <1>3, <1>4, <1>5, <1>6 DEF Next

LEMMA ReadStep == ASSUME IInv, ReadInv, [Next]_vars PROVE ReadInv'
<1>0. /\ \A d \in Draft : drafts[d].rev \in Nat /\ drafts'[d].rev \in Nat
      /\ \A r \in Report : responses[r].rev \in Nat /\ responses'[r].rev \in Nat
      /\ reading \in [Reader -> [of: Message, rev: 1..MaxRevision, body: Body]
                                 \union {None}]
  BY IInvStep, AgentAssumption
  DEF IInv, TypeInv, TypeOK, DraftRecord, ResponseRecord
<1>1. \A m \in Documents : /\ Document(m).rev \in Nat /\ Document(m)'.rev \in Nat
                           /\ Grows(Document(m), Document(m)')
  <2> SUFFICES ASSUME NEW m \in Documents
               PROVE  /\ Document(m).rev \in Nat /\ Document(m)'.rev \in Nat
                      /\ Grows(Document(m), Document(m)')
    OBVIOUS
  <2>1. CASE m[1] = "submission"
    <3>1. m[2] \in Draft /\ Document(m) = drafts[m[2]]
            /\ Document(m)' = drafts'[m[2]]
      BY <2>1, DocumentFacts DEF Document
    <3> QED BY <1>0, <3>1, DraftsGrowStep DEF DraftsGrow
  <2>2. CASE m[1] # "submission"
    <3>1. m[2] \in Report /\ Document(m) = responses[m[2]]
            /\ Document(m)' = responses'[m[2]]
      BY <2>2, DocumentFacts DEF Document
    <3> QED BY <1>0, <3>1, ResponsesGrowStep DEF ResponsesGrow
  <2> QED BY <2>1, <2>2
<1>2. CASE \A x \in Reader : reading'[x] \in {reading[x], None}
  <2>1. ASSUME NEW x \in Reader, reading'[x] # None
        PROVE  /\ reading'[x].of \in Documents
               /\ \A m \in Documents : reading'[x].of = m =>
                    /\ Document(m)'.status # "absent"
                    /\ reading'[x].rev <= Document(m)'.rev
                    /\ reading'[x].rev = Document(m)'.rev
                         => reading'[x].body = Document(m)'.body
    <3>1. reading'[x] = reading[x] /\ reading[x] # None
      BY <1>2, <2>1
    <3>2. reading[x].rev \in Nat /\ reading[x].of \in Documents
      BY <1>0, <3>1, AgentAssumption DEF ReadInv
    <3> QED BY <1>1, <3>1, <3>2 DEF ReadInv, Grows
  <2> QED BY <2>1 DEF ReadInv
<1>3. ASSUME NEW x \in Reader, NEW n \in Message, Read(x, n) PROVE ReadInv'
  <2>1. /\ n \in Documents /\ Document(n).status # "absent"
        /\ reading' = [reading EXCEPT ![x] = [of |-> n, rev |-> Document(n).rev,
                                              body |-> Document(n).body]]
        /\ \A m \in Documents : Document(m)' = Document(m)
    BY <1>3 DEF Read, Documents, Document
  <2>2. \A y \in Reader : y # x => reading'[y] = reading[y]
    BY <1>0, <2>1
  <2>3. /\ reading'[x].of = n /\ reading'[x].rev = Document(n).rev
        /\ reading'[x].body = Document(n).body
    BY <1>0, <2>1
  <2>4. Document(n).rev \in Nat
    BY <1>1, <2>1
  <2>5. ASSUME NEW y \in Reader, reading'[y] # None
        PROVE  /\ reading'[y].of \in Documents
               /\ \A m \in Documents : reading'[y].of = m =>
                    /\ Document(m)'.status # "absent"
                    /\ reading'[y].rev <= Document(m)'.rev
                    /\ reading'[y].rev = Document(m)'.rev
                         => reading'[y].body = Document(m)'.body
    <3>1. CASE y = x
      BY <2>1, <2>3, <2>4, <3>1
    <3>2. CASE y # x
      BY <2>1, <2>2, <2>5, <3>2 DEF ReadInv
    <3> QED BY <3>1, <3>2
  <2> QED BY <2>5 DEF ReadInv
<1>4. CASE UNCHANGED vars
  BY <1>2, <1>4 DEF vars
<1> QED BY <1>2, <1>3, <1>4, ReadingFrame

\* Only a confirmation gives a document its row.
LEMMA RowFrame ==
  ASSUME IInv, Next, NEW m \in Documents, rows[m] = "none", rows'[m] # "none"
  PROVE  \/ \E x \in Reader, d \in Draft : ConfirmDraft(x, d) /\ m = Submission(d)
         \/ \E a \in Actor, r \in Report : ConfirmResponse(a, r)
                                            /\ m = RiskResponse(r)
<1>0. /\ m \in Message
      /\ rows \in [Message -> {"none", "queued", "sending", "failed", "succeeded"}]
  BY DEF Documents, IInv, TypeInv, TypeOK
<1>1. ASSUME NEW n, NEW text, Enqueue(n, text) PROVE m = n
  BY <1>0, <1>1 DEF Enqueue
<1>2. CASE Drafting
  <2>1. \A d \in Draft, a \in Actor, b \in Body :
          Import(d, a, b) \/ EditDraft(d, a, b) => rows' = rows
    BY DEF Import, EditDraft, outbox
  <2>2. ASSUME NEW d \in Draft, Discard(d) PROVE rows' = rows
    BY <2>2 DEF Discard, outbox
  <2>3. ASSUME NEW s \in Draft, NEW d \in Draft, NEW a \in Actor, Correct(s, d, a)
        PROVE  rows' = rows
    BY <2>3 DEF Correct, outbox
  <2>4. /\ \A x \in Reader, n \in Message : Read(x, n) => rows' = rows
        /\ \A a \in Actor : GiveUp(a) => rows' = rows
    BY DEF Read, GiveUp, outbox
  <2>5. PICK x \in Reader, d \in Draft : ConfirmDraft(x, d)
    BY <1>2, <2>1, <2>2, <2>3, <2>4 DEF Drafting
  <2>6. Enqueue(Submission(d), reading[x].body)
    BY <2>5 DEF ConfirmDraft
  <2> QED BY <1>1, <2>5, <2>6
<1>3. CASE Watching
  BY <1>3 DEF Watching, ImportWatched, ResumeWatched, CheckWatched, HoldWatched,
              AlreadyConfirmed, outbox
<1>4. CASE Responding
  <2>1. \A r \in Report, a \in Actor, b \in Body :
          CreateResponse(r, a, b) \/ EditResponse(r, a, b) => rows' = rows
    BY DEF CreateResponse, EditResponse, outbox
  <2>2. PICK a \in Actor, r \in Report : ConfirmResponse(a, r)
    BY <1>4, <2>1 DEF Responding
  <2>3. Enqueue(RiskResponse(r), reading[a].body)
    BY <2>2 DEF ConfirmResponse
  <2> QED BY <1>1, <2>2, <2>3
<1>5. CASE Exchange
  <2>1. PICK w \in Worker :
          \/ ClaimDue(w) \/ \E d \in Draft : ClaimDraft(w, d)
          \/ Call(w) \/ Succeed(w) \/ Fail(w)
          \/ StartPoll(w) \/ AnswerPoll(w) \/ EndPoll(w)
    BY <1>5 DEF Exchange
  <2>2. CASE Call(w) \/ StartPoll(w) \/ EndPoll(w)
    BY <2>2 DEF Call, StartPoll, EndPoll, outbox
  <2>3. CASE Succeed(w) \/ Fail(w)
    <3>1. PICK n \in batch[w] : \/ rows' = [rows EXCEPT ![n] = "succeeded"]
                               \/ rows' = [rows EXCEPT ![n] = "failed"]
      BY <2>3 DEF Succeed, Fail, IsNext
    <3>2. n \in Message /\ rows[n] = "sending"
      BY DEF IInv, OutboxInv, ClaimedOnce, TypeInv, TypeOK
    <3> QED BY <1>0, <3>1, <3>2
  <2>4. CASE AnswerPoll(w)
    <3>1. PICK r, k : Store(r, k)
      BY <2>4 DEF AnswerPoll
    <3>2. m # DeliveryAck(r)
      BY DEF Documents, DeliveryAck
    <3> QED BY <1>0, <3>1, <3>2 DEF Store
  <2>5. ASSUME NEW c \in SUBSET Message, Claim(w, c),
               \A n \in c : rows[n] \in {"queued", "failed"}
        PROVE  FALSE
    BY <1>0, <2>5 DEF Claim
  <2>6. CASE ClaimDue(w)
    <3>1. PICK due \in SUBSET {n \in Message : rows[n] = "failed"} :
            Claim(w, due \union {n \in Message : rows[n] = "queued"})
      BY <2>6 DEF ClaimDue
    <3> DEFINE c == due \union {n \in Message : rows[n] = "queued"}
    <3>2. /\ c \in SUBSET Message /\ Claim(w, c)
          /\ \A n \in c : rows[n] \in {"queued", "failed"}
      BY <3>1
    <3> HIDE DEF c
    <3> QED BY <2>5, <3>2
  <2>7. ASSUME NEW d \in Draft, ClaimDraft(w, d) PROVE FALSE
    <3> DEFINE c == {n \in {Submission(d)} : rows[n] \in {"queued", "failed"}}
    <3>1. /\ c \in SUBSET Message /\ \A n \in c : rows[n] \in {"queued", "failed"}
      BY MessageFacts
    <3>2. Claim(w, c)
      BY <2>7 DEF ClaimDraft
    <3> HIDE DEF c
    <3> QED BY <2>5, <3>1, <3>2
  <2> QED BY <2>1, <2>2, <2>3, <2>4, <2>6, <2>7
<1>6. CASE Restart
  BY <1>0, <1>6 DEF Restart, Recovered
<1> QED BY <1>2, <1>3, <1>4, <1>5, <1>6 DEF Next

LEMMA ConfirmsTheSaved ==
  ASSUME IInv, ReadInv, Next, NEW m \in Message, m[1] # "delivery_ack",
         rows[m] = "none", rows'[m] # "none"
  PROVE  letter'[m] = Document(m).body
<1>0. letter \in [Message -> Body \union {None}] /\ m \in Documents
  BY DEF IInv, TypeInv, TypeOK, Documents
<1>1. ASSUME NEW x \in Reader, NEW d \in Draft, ConfirmDraft(x, d), m = Submission(d)
      PROVE  letter'[m] = Document(m).body
  <2>1. /\ letter' = [letter EXCEPT ![Submission(d)] = reading[x].body]
        /\ reading[x].body = drafts[d].body
    BY <1>1 DEF ConfirmDraft, Enqueue
  <2>2. Document(m) = drafts[d]
    BY <1>1, DocumentFacts
  <2> QED BY <1>0, <1>1, <2>1, <2>2
<1>2. ASSUME NEW a \in Actor, NEW r \in Report, ConfirmResponse(a, r),
             m = RiskResponse(r)
      PROVE  letter'[m] = Document(m).body
  <2>1. letter' = [letter EXCEPT ![RiskResponse(r)] = reading[a].body]
    BY <1>2 DEF ConfirmResponse, Enqueue
  <2>2. Document(m) = responses[r]
    BY <1>2, DocumentFacts
  <2> QED BY <1>0, <1>2, <2>1, <2>2, ConfirmsItsText
<1> QED BY <1>0, <1>1, <1>2, RowFrame

\* Whoever edits what and when, a confirmation signs the text that is saved,
\* which is the text its reader saw.
THEOREM SignsTheSaved == Spec => ConfirmedAsSaved
<1>1. Init => ReadInv
  BY ReadInit
<1>2. IInv /\ ReadInv /\ [Next]_vars => ReadInv'
  BY ReadStep
<1>3. IInv /\ ReadInv /\ [Next]_vars =>
        [\A m \in Message : (rows[m] = "none" /\ rows'[m] # "none") =>
           m[1] = "delivery_ack" \/ letter'[m] = Document(m).body]_vars
  BY ConfirmsTheSaved
<1> QED BY <1>1, <1>2, <1>3, Invariance, PTL DEF Spec, ConfirmedAsSaved

-----------------------------------------------------------------------------
(***************************************************************************)
(* The queue.  A message without its approval stops all others.  Under one *)
(* configuration no step queues such a message, since what a confirmation  *)
(* asks of a draft and of the people is what the outbox asks later.        *)
(***************************************************************************)
OneConfig == \A c, e \in Configs : c = e

ApprovalInv == config.fourEyes =>
  /\ \A d \in Draft : drafts[d].preparer \in config.preparers \union {None}
  /\ \A m \in Documents : Document(m).status = "queued" => ~ FourEyesFailure(m)

LEMMA ApprovalInit == Init => ApprovalInv
<1> SUFFICES ASSUME Init PROVE ApprovalInv
  OBVIOUS
<1>1. \A d \in Draft : drafts[d].preparer = None
  BY DEF Init, NoDraft
<1>2. ASSUME NEW m \in Documents
      PROVE  Document(m).status = "absent"
  <2>1. /\ \A d \in Draft : drafts[d].status = "absent"
        /\ \A r \in Report : responses[r].status = "absent"
    BY DEF Init, NoDraft, NoResponse
  <2> QED BY <2>1, DocumentFacts
<1> QED BY <1>1, <1>2 DEF ApprovalInv

\* Under four eyes only people who may prepare leave their name on a draft.
LEMMA PreparerStep ==
  ASSUME IInv, ApprovalInv, [Next]_vars, config.fourEyes
  PROVE  \A d \in Draft : drafts'[d].preparer \in config.preparers \union {None}
<1> DEFINE Prepared == \A d \in Draft :
                         drafts'[d].preparer \in config.preparers \union {None}
<1>0. /\ drafts \in [Draft -> DraftRecord]
      /\ \A d \in Draft : drafts[d].preparer \in config.preparers \union {None}
  BY DEF IInv, TypeInv, TypeOK, ApprovalInv
<1>1. CASE SameDrafts \/ UNCHANGED vars
  BY <1>0, <1>1 DEF SameDrafts, vars
<1>2. ASSUME NEW d \in Draft, \A e \in Draft \ {d} : drafts'[e] = drafts[e],
             drafts'[d].preparer \in config.preparers \union {None}
      PROVE  Prepared
  BY <1>0, <1>2
<1>3. ASSUME NEW d \in Draft, NEW a \in Actor, NEW b \in Body,
             Import(d, a, b) \/ EditDraft(d, a, b)
      PROVE  Prepared
  <2>1. CASE Import(d, a, b)
    <3>1. drafts'[d].preparer \in config.preparers \union {None}
            /\ \A e \in Draft \ {d} : drafts'[e] = drafts[e]
      BY <1>0, <2>1 DEF Import, NewDraft, NoDraft
    <3> QED BY <1>2, <3>1
  <2>2. CASE EditDraft(d, a, b)
    <3>1. a \in config.preparers /\ drafts'[d].preparer = a
            /\ \A e \in Draft \ {d} : drafts'[e] = drafts[e]
      BY <1>0, <2>2 DEF EditDraft, MayPrepare, DraftRecord
    <3> QED BY <1>2, <3>1
  <2> QED BY <1>3, <2>1, <2>2
<1>4. ASSUME NEW d \in Draft, Discard(d) \/ Receipt(d) PROVE Prepared
  <2>1. drafts'[d].preparer = drafts[d].preparer
          /\ \A e \in Draft \ {d} : drafts'[e] = drafts[e]
    BY <1>0, <1>4 DEF Discard, Receipt, DraftRecord
  <2> QED BY <1>0, <1>2, <2>1
<1>5. ASSUME NEW s \in Draft, NEW d \in Draft, NEW a \in Actor, Correct(s, d, a)
      PROVE  Prepared
  <2>1. a \in config.preparers /\ drafts'[d].preparer = a
          /\ \A e \in Draft \ {d} : drafts'[e] = drafts[e]
    BY <1>0, <1>5 DEF Correct, MayPrepare, NewDraft, NoDraft
  <2> QED BY <1>2, <2>1
<1>6. ASSUME NEW x \in Reader, NEW d \in Draft, ConfirmDraft(x, d) PROVE Prepared
  <2>1. drafts'[d].preparer = drafts[d].preparer
          /\ \A e \in Draft \ {d} : drafts'[e] = drafts[e]
    BY <1>0, <1>6 DEF ConfirmDraft, DraftRecord
  <2> QED BY <1>0, <1>2, <2>1
<1>7. ASSUME NEW w \in Worker, NEW d \in Draft, NEW b \in Body, ImportWatched(w, d, b)
      PROVE  Prepared
  <2>1. drafts'[d].preparer = None
          /\ \A e \in Draft \ {d} : drafts'[e] = drafts[e]
    BY <1>0, <1>7 DEF ImportWatched, NewDraft, NoDraft
  <2> QED BY <1>2, <2>1
<1> HIDE DEF Prepared
<1>8. Prepared
  BY <1>1, <1>3, <1>4, <1>5, <1>6, <1>7, DraftFrame DEF Prepared
<1> QED BY <1>8 DEF Prepared

\* A document that is queued after a step was queued before it, or this step
\* confirms it.
LEMMA QueuedFrame ==
  ASSUME IInv, [Next]_vars, NEW m \in Documents, Document(m)'.status = "queued"
  PROVE  \/ Document(m)' = Document(m)
         \/ \E x \in Reader, d \in Draft : ConfirmDraft(x, d) /\ m = Submission(d)
         \/ \E a \in Actor, r \in Report : ConfirmResponse(a, r)
                                            /\ m = RiskResponse(r)
<1>0. /\ drafts \in [Draft -> DraftRecord]
      /\ responses \in [Report -> ResponseRecord]
  BY DEF IInv, TypeInv, TypeOK
<1>1. CASE m[1] = "submission"
  <2> DEFINE d == m[2]
  <2>1. d \in Draft /\ m = Submission(d) /\ Document(m) = drafts[d]
          /\ Document(m)' = drafts'[d]
    BY <1>1, DocumentFacts DEF Document
  <2> HIDE DEF d
  <2>2. CASE SameDrafts \/ UNCHANGED vars
    BY <2>1, <2>2 DEF SameDrafts, vars
  <2>3. ASSUME NEW e \in Draft, drafts'[e].status # "queued",
               \A f \in Draft \ {e} : drafts'[f] = drafts[f]
        PROVE  drafts'[d] = drafts[d]
    BY <2>1, <2>3
  <2>4. ASSUME NEW e \in Draft, NEW a \in Actor, NEW b \in Body,
               Import(e, a, b) \/ EditDraft(e, a, b)
        PROVE  drafts'[d] = drafts[d]
    <3>1. CASE Import(e, a, b)
      <4>1. drafts'[e].status = "ready_review"
              /\ \A f \in Draft \ {e} : drafts'[f] = drafts[f]
        BY <1>0, <3>1 DEF Import, NewDraft, NoDraft
      <4> QED BY <2>3, <4>1
    <3>2. CASE EditDraft(e, a, b)
      <4>1. drafts'[e].status = "ready_review"
              /\ \A f \in Draft \ {e} : drafts'[f] = drafts[f]
        BY <1>0, <3>2 DEF EditDraft, DraftRecord
      <4> QED BY <2>3, <4>1
    <3> QED BY <2>4, <3>1, <3>2
  <2>5. ASSUME NEW e \in Draft, Discard(e) \/ Receipt(e)
        PROVE  drafts'[d] = drafts[d]
    <3>1. drafts'[e].status \in {"discarded", "submitted"}
            /\ \A f \in Draft \ {e} : drafts'[f] = drafts[f]
      BY <1>0, <2>5 DEF Discard, Receipt, DraftRecord
    <3> QED BY <2>3, <3>1
  <2>6. ASSUME NEW s \in Draft, NEW e \in Draft, NEW a \in Actor, Correct(s, e, a)
        PROVE  drafts'[d] = drafts[d]
    <3>1. drafts'[e].status = "ready_review"
            /\ \A f \in Draft \ {e} : drafts'[f] = drafts[f]
      BY <1>0, <2>6 DEF Correct, NewDraft, NoDraft
    <3> QED BY <2>3, <3>1
  <2>7. ASSUME NEW x \in Reader, NEW e \in Draft, ConfirmDraft(x, e), e # d
        PROVE  drafts'[d] = drafts[d]
    BY <1>0, <2>1, <2>7 DEF ConfirmDraft
  <2>8. ASSUME NEW w \in Worker, NEW e \in Draft, NEW b \in Body,
               ImportWatched(w, e, b)
        PROVE  drafts'[d] = drafts[d]
    <3>1. drafts'[e].status = "ready_review"
            /\ \A f \in Draft \ {e} : drafts'[f] = drafts[f]
      BY <1>0, <2>8 DEF ImportWatched, NewDraft, NoDraft
    <3> QED BY <2>3, <3>1
  <2> QED BY <2>1, <2>2, <2>4, <2>5, <2>6, <2>7, <2>8, DraftFrame
<1>2. CASE m[1] # "submission"
  <2> DEFINE r == m[2]
  <2>1. r \in Report /\ m = RiskResponse(r) /\ Document(m) = responses[r]
          /\ Document(m)' = responses'[r]
    BY <1>2, DocumentFacts DEF Document
  <2> HIDE DEF r
  <2>2. CASE responses' = responses \/ UNCHANGED vars
    BY <2>1, <2>2 DEF vars
  <2>3. ASSUME NEW e \in Report, NEW a \in Actor, NEW b \in Body,
               CreateResponse(e, a, b) \/ EditResponse(e, a, b)
        PROVE  responses'[r] = responses[r]
    <3>1. CASE CreateResponse(e, a, b)
      <4>1. responses'[e].status = "draft"
              /\ \A f \in Report \ {e} : responses'[f] = responses[f]
        BY <1>0, <3>1 DEF CreateResponse, NoResponse
      <4> QED BY <2>1, <4>1
    <3>2. CASE EditResponse(e, a, b)
      <4>1. responses'[e].status = "draft"
              /\ \A f \in Report \ {e} : responses'[f] = responses[f]
        BY <1>0, <3>2 DEF EditResponse, ResponseRecord
      <4> QED BY <2>1, <4>1
    <3> QED BY <2>3, <3>1, <3>2
  <2>4. ASSUME NEW e \in Report, Answered(e) PROVE responses'[r] = responses[r]
    <3>1. responses'[e].status = "submitted"
            /\ \A f \in Report \ {e} : responses'[f] = responses[f]
      BY <1>0, <2>4 DEF Answered, ResponseRecord
    <3> QED BY <2>1, <3>1
  <2>5. ASSUME NEW a \in Actor, NEW e \in Report, ConfirmResponse(a, e), e # r
        PROVE  responses'[r] = responses[r]
    BY <1>0, <2>1, <2>5 DEF ConfirmResponse
  <2> QED BY <2>1, <2>2, <2>3, <2>4, <2>5, ResponseFrame
<1> QED BY <1>1, <1>2

LEMMA ApprovalStep ==
  ASSUME OneConfig, IInv, ApprovalInv, [Next]_vars PROVE ApprovalInv'
<1>1. config' = config
  BY IInvStep DEF OneConfig, IInv, TypeInv, TypeOK
<1> SUFFICES ASSUME config.fourEyes PROVE ApprovalInv'
  BY <1>1 DEF ApprovalInv
<1>2. \A d \in Draft : drafts'[d].preparer \in config.preparers \union {None}
  BY PreparerStep
<1>3. ASSUME NEW m \in Documents, Document(m)'.status = "queued"
      PROVE  ~ FourEyesFailure(m)'
  <2>1. CASE Document(m)' = Document(m)
    BY <1>1, <1>3, <2>1, SameApproval DEF ApprovalInv, Documents
  <2>2. ASSUME NEW x \in Reader, NEW d \in Draft, ConfirmDraft(x, d),
               m = Submission(d)
        PROVE  ~ FourEyesFailure(m)'
    <3> DEFINE by == IF x \in Worker THEN System ELSE x
               conf == [by |-> by, rev |-> drafts[d].rev]
               corr == IF drafts[d].subrev = 1 THEN d ELSE drafts[d].corr
    <3>1. /\ by # drafts[d].editor /\ by # drafts[d].preparer
          /\ drafts[d].preparer # None
          /\ drafts[d].preparedRev = drafts[d].rev
          /\ drafts' = [drafts EXCEPT ![d].status = "queued", ![d].conf = conf,
                                      ![d].corr = corr]
      BY <2>2 DEF ConfirmDraft, IndependentOf
    <3>2. by \in Actor \union {System} /\ drafts[d].rev \in 1..MaxRevision
      BY <2>2 DEF ConfirmDraft, Reader, IInv, TypeInv, Shape
    <3>3. conf # None /\ conf.by = by /\ conf.rev = drafts[d].rev
      BY <3>2, AgentAssumption DEF Confirmation
    <3> HIDE DEF by, conf, corr
    <3>4. /\ drafts'[d].status = "queued" /\ drafts'[d].conf = conf
          /\ drafts'[d].rev = drafts[d].rev /\ drafts'[d].editor = drafts[d].editor
          /\ drafts'[d].preparer = drafts[d].preparer
          /\ drafts'[d].preparedRev = drafts[d].preparedRev
      BY <3>1 DEF IInv, TypeInv, TypeOK, DraftRecord
    <3>5. Document(m)' = drafts'[d] /\ m[1] = "submission" /\ m[2] = d
      BY <2>2 DEF Document, Submission
    <3>6. drafts'[d].preparer \in config'.preparers
      BY <1>1, <1>2, <3>1, <3>4
    <3> QED BY <3>1, <3>3, <3>4, <3>5, <3>6 DEF FourEyesFailure
  <2>3. ASSUME NEW a \in Actor, NEW r \in Report, ConfirmResponse(a, r),
               m = RiskResponse(r)
        PROVE  ~ FourEyesFailure(m)'
    <3> DEFINE conf == [by |-> a, rev |-> responses[r].rev]
    <3>1. /\ a # responses[r].editor
          /\ responses' = [responses EXCEPT ![r].status = "queued",
                                            ![r].body = reading[a].body,
                                            ![r].conf = conf]
      BY <2>3 DEF ConfirmResponse
    <3>2. responses[r].rev \in 1..MaxRevision
      BY <2>3 DEF ConfirmResponse, IInv, TypeInv, Shape
    <3>3. conf # None /\ conf.by = a /\ conf.rev = responses[r].rev
      BY <3>2, AgentAssumption DEF Confirmation
    <3> HIDE DEF conf
    <3>4. /\ responses'[r].status = "queued" /\ responses'[r].conf = conf
          /\ responses'[r].rev = responses[r].rev
          /\ responses'[r].editor = responses[r].editor
      BY <3>1 DEF IInv, TypeInv, TypeOK, ResponseRecord
    <3>5. Document(m)' = responses'[r] /\ m[1] = "risk_response"
      BY <2>3 DEF Document, RiskResponse
    <3> QED BY <3>1, <3>3, <3>4, <3>5 DEF FourEyesFailure
  <2> QED BY <1>3, <2>1, <2>2, <2>3, QueuedFrame
<1> QED BY <1>1, <1>2, <1>3 DEF ApprovalInv

\* As long as the agent is started with one configuration only, no message
\* without its approval stops the others.
THEOREM NoBlockedQueue == ASSUME OneConfig PROVE Spec => []QueueNotBlocked
<1>1. Init => ApprovalInv
  BY ApprovalInit
<1>2. IInv /\ ApprovalInv /\ [Next]_vars => ApprovalInv'
  BY OneConfig, ApprovalStep
<1>3. IInv /\ ApprovalInv => QueueNotBlocked
  <2> SUFFICES ASSUME IInv, ApprovalInv, NEW m \in Message,
                      rows[m] \in {"queued", "failed"}
               PROVE  ~ FourEyesFailure(m)
    BY DEF QueueNotBlocked
  <2>1. m \in Documents => Document(m).status = "queued"
    BY DEF IInv, OutboxInv, RowsMatch
  <2> QED BY <2>1 DEF ApprovalInv, FourEyesFailure, Documents
<1> QED BY <1>1, <1>2, <1>3, Invariance, PTL DEF Spec
============================================================================
