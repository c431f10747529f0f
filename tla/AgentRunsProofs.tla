-------------------------- MODULE AgentRunsProofs --------------------------
(***************************************************************************)
(* Proofs about AgentRuns, for every set of runs, sessions, keys and       *)
(* requests, every attempt limit, and every bound on faults: types, the    *)
(* claims of sessions and slots, the invariant that ties a record to the   *)
(* task that works on it, with what follows from it, and at most one       *)
(* execution per leg.                                                      *)
(***************************************************************************)
EXTENDS AgentRuns, FiniteSetTheorems, TLAPS

(* What the store transactions return. *)

LEMMA NewRunType ==
  ASSUME NEW b \in Nat, NEW files \in SUBSET Turn
  PROVE  NewRun(b, files) \in Run
BY DEF NewRun, Run, Statuses, NoError, Error

LEMMA AbsentType == Absent \in Run
BY DEF Absent, NewRun, Run, Statuses, NoError, Error

LEMMA ClaimPendingType ==
  ASSUME NEW run \in Run
  PROVE  ClaimPending(run) \in Run
<1>1. run.attempts + 1 \in Nat
  BY DEF Run
<1>2. NoError \in Error
  BY DEF NoError, Error
<1> QED BY <1>1, <1>2 DEF ClaimPending, Run, Statuses

LEMMA SetSubmittedType ==
  ASSUME NEW run \in Run, NEW started \in BOOLEAN
  PROVE  SetSubmitted(run, started) \in Run
BY DEF SetSubmitted, Run

LEMMA MarkFailedType ==
  ASSUME NEW run \in Run, NEW err \in Error
  PROVE  MarkFailed(run, err) \in Run
BY DEF MarkFailed, Run, Statuses

LEMMA RetryType ==
  ASSUME NEW run \in Run
  PROVE  Retry(run) \in Run
BY DEF Retry, Run, Statuses, NoError, Error

LEMMA PersistOutcomeType ==
  ASSUME NEW run \in Run, NEW outcome \in Outcome
  PROVE  PersistOutcome(run, outcome) \in Run
<1>1. MarkSucceeded(run, outcome) \in Run
  BY DEF MarkSucceeded, Run, Statuses, NoError, Error
<1>2. [question |-> outcome.answer, attempt |-> run.attempts] \in Clarification
  BY DEF Clarification, Outcome, Run
<1>3. MarkWaitingInput(run, outcome) \in Run
  BY <1>2 DEF MarkWaitingInput, Run, Statuses, NoError, Error
<1> QED BY <1>1, <1>3 DEF PersistOutcome

LEMMA ResumeWithInputType ==
  ASSUME NEW run \in Run, NEW k \in Keys, NEW b \in Nat, NEW files \in SUBSET Turn
  PROVE  ResumeWithInput(run, k, b, files) \in Run
<1>1. [key |-> k, clarification |-> run.clarification] \in Receipt
  BY DEF Receipt, Run
<1> QED BY <1>1 DEF ResumeWithInput, Run, Statuses, NoError, Error

-----------------------------------------------------------------------------
(* What the operators on Hermes messages return.                           *)

LEMMA ArtifactTurnsType ==
  ASSUME messages \in [Sessions -> Seq(Message)], NEW s \in Sessions
  PROVE  ArtifactTurns(s) \in SUBSET Turn
<1>1. messages[s] \in Seq(Message)
  OBVIOUS
<1>2. ASSUME NEW m \in ToSet(messages[s])
      PROVE  m.turn \in Turn
  <2>1. m \in Message
    BY <1>1 DEF ToSet
  <2> QED BY <2>1 DEF Message
<1> QED BY <1>2 DEF ArtifactTurns

LEMMA MessageCountType ==
  ASSUME messages \in [Sessions -> Seq(Message)], NEW s \in Sessions
  PROVE  MessageCount(s) \in Nat
BY DEF MessageCount

LEMMA OutcomeOfType ==
  ASSUME messages \in [Sessions -> Seq(Message)], NEW s \in Sessions,
         NEW run \in Run, NEW m \in Message, m.kind # "work"
  PROVE  OutcomeOf(run, s, m) \in Outcome
<1>1. NewArtifacts(run, s) \in SUBSET Turn
  BY ArtifactTurnsType DEF NewArtifacts
<1>2. m.kind \in {"final", "clarify"} /\ m.turn \in Turn
  BY DEF Message, Kind
<1> QED BY <1>1, <1>2 DEF OutcomeOf, Outcome

LEMMA RecoveredType ==
  ASSUME TypeOK, NEW r \in Runs
  PROVE  Recovered(r) \in SUBSET Outcome
<1> DEFINE s == SessionOf[r]
<1>1. s \in Sessions
  BY SessionOfAssumption
<1>2. ASSUME NEW m \in LastFinal(s, runs[r].baseline)
      PROVE  m \in Message /\ m.kind # "work"
  <2>1. runs[r].baseline \in Nat /\ messages[s] \in Seq(Message)
    BY <1>1 DEF TypeOK, Run
  <2>2. PICK i \in FinalMessages(s, runs[r].baseline) : m = messages[s][i]
    BY <1>2 DEF LastFinal
  <2>3. i \in 1 .. Len(messages[s]) /\ messages[s][i].kind # "work"
    BY <2>1, <2>2 DEF FinalMessages
  <2> QED BY <2>1, <2>2, <2>3
<1>3. ASSUME NEW m \in LastFinal(s, runs[r].baseline)
      PROVE  OutcomeOf(runs[r], s, m) \in Outcome
  BY <1>1, <1>2, <1>3, OutcomeOfType DEF TypeOK
<1> QED BY <1>3 DEF Recovered

LEMMA OwnOutcomeType ==
  ASSUME TypeOK, NEW r \in Runs, NEW m \in OwnFinals(r)
  PROVE  OutcomeOf(runs[r], SessionOf[r], m) \in Outcome
<1>1. SessionOf[r] \in Sessions
  BY SessionOfAssumption
<1>2. messages[SessionOf[r]] \in Seq(Message)
  BY <1>1 DEF TypeOK
<1>3. m \in Message /\ m.kind # "work"
  BY <1>2 DEF OwnFinals, ToSet
<1> QED BY <1>1, <1>3, OutcomeOfType DEF TypeOK

-----------------------------------------------------------------------------
(* Type correctness.                                                       *)

LEMMA ErrorsType ==
  /\ {NoError, Transient, Rejected, Internal, LostPost} \subseteq Error
  /\ ReadErrors \subseteq Error /\ PostErrors \subseteq Error
BY DEF NoError, Transient, Rejected, Internal, LostPost, ReadErrors, PostErrors, Error

LEMMA LoopHeadType ==
  ASSUME NEW run
  PROVE  LoopHead(run) \in {"none", "reconcile", "slot"}
BY DEF LoopHead

(* Every write of a task or a request stores a record.                     *)
LEMMA StoreType ==
  ASSUME TypeOK, NEW r \in Runs, NEW run \in Run, Store(r, run)
  PROVE  runs' \in [Runs -> Run]
BY DEF Store, TypeOK

LEMMA GotoType ==
  ASSUME TypeOK, NEW r \in Runs, NEW location \in Location, Goto(r, location)
  PROVE  pc' \in [Runs -> Location]
BY DEF Goto, TypeOK

LEMMA SpawnedType ==
  ASSUME TypeOK, NEW r \in Runs
  PROVE  Spawned(r) \in [Runs -> Location]
BY DEF Spawned, TypeOK, Location, Waiting

LEMMA FailOrRetryType ==
  ASSUME TypeOK, NEW r \in Runs, NEW err \in Error, FailOrRetry(r, err)
  PROVE  runs' \in [Runs -> Run] /\ pc' \in [Runs -> Location]
<1>1. runs[r] \in Run
  BY DEF TypeOK
<1>2. PICK final \in Error : /\ Store(r, MarkFailed(runs[r], final))
                             /\ Goto(r, IF MayRetry(final) THEN "clearing" ELSE "none")
  BY ErrorsType DEF FailOrRetry
<1>3. runs' \in [Runs -> Run]
  BY <1>1, <1>2, MarkFailedType, StoreType
<1>4. pc' \in [Runs -> Location]
  BY <1>2, GotoType DEF Location, Exclusive, Sync
<1> QED BY <1>3, <1>4

LEMMA FailType ==
  ASSUME TypeOK, NEW r \in Runs, NEW err \in Error, Fail(r, err)
  PROVE  runs' \in [Runs -> Run] /\ pc' \in [Runs -> Location]
<1>1. runs[r] \in Run
  BY DEF TypeOK
<1>2. runs' \in [Runs -> Run]
  BY <1>1, MarkFailedType, StoreType DEF Fail
<1>3. pc' \in [Runs -> Location]
  BY GotoType DEF Fail, Location
<1> QED BY <1>2, <1>3

LEMMA RaiseType ==
  ASSUME TypeOK, NEW r \in Runs, NEW err \in Error, Raise(r, err)
  PROVE  pc' \in [Runs -> Location] /\ exc' \in [Runs -> Error]
<1>1. pc' \in [Runs -> Location]
  BY GotoType DEF Raise, Location, Exclusive
<1>2. exc' \in [Runs -> Error]
  BY DEF Raise, TypeOK
<1> QED BY <1>1, <1>2

(* The steps of a task.                                                    *)
LEMMA TaskType ==
  ASSUME TypeOK, NEW r \in Runs, TaskStep(r)
  PROVE  TypeOK'
<1> USE ErrorsType
<1>0. runs[r] \in Run /\ exc[r] \in Error /\ SessionOf[r] \in Sessions
  BY SessionOfAssumption DEF TypeOK
<1>1. CASE UNCHANGED <<exc, offTask>> /\ runs' \in [Runs -> Run] /\ pc' \in [Runs -> Location]
  BY <1>1 DEF TypeOK, offTask, hermes
<1>2. CASE UNCHANGED <<runs, offTask>> /\ exc' \in [Runs -> Error] /\ pc' \in [Runs -> Location]
  BY <1>2 DEF TypeOK, offTask, hermes
<1>3. CASE StartRun(r)
  <2>1. pc' \in [Runs -> Location]
    BY <1>3, GotoType, LoopHeadType DEF StartRun, Location, Exclusive
  <2> QED BY <1>1, <1>3, <2>1 DEF StartRun, TypeOK
<1>4. CASE SessionBusy(r)
  <2>1. runs' \in [Runs -> Run] /\ pc' \in [Runs -> Location]
    BY <1>4, FailType, GotoType DEF SessionBusy, Location, TypeOK
  <2> QED BY <1>1, <1>4, <2>1 DEF SessionBusy
<1>5. CASE ReconcileReadFails(r)
  <2>1. runs' \in [Runs -> Run] /\ pc' \in [Runs -> Location]
    BY <1>5, FailOrRetryType DEF ReconcileReadFails
  <2> QED BY <1>1, <1>5, <2>1 DEF ReconcileReadFails
<1>6. CASE ReconcileRecovers(r)
  <2>1. PICK outcome \in Recovered(r) : Store(r, PersistOutcome(runs[r], outcome))
    BY <1>6 DEF ReconcileRecovers
  <2>2. runs' \in [Runs -> Run]
    BY <1>0, <2>1, RecoveredType, PersistOutcomeType, StoreType
  <2>3. pc' \in [Runs -> Location]
    BY <1>6, GotoType DEF ReconcileRecovers, Location
  <2> QED BY <1>1, <1>6, <2>2, <2>3 DEF ReconcileRecovers
<1>7. CASE ReconcileGivesUp(r)
  <2>1. runs' \in [Runs -> Run] /\ pc' \in [Runs -> Location]
    BY <1>7, FailType DEF ReconcileGivesUp
  <2> QED BY <1>1, <1>7, <2>1 DEF ReconcileGivesUp
<1>8. CASE ReconcileContinues(r)
  <2>1. runs' \in [Runs -> Run] /\ pc' \in [Runs -> Location]
    BY <1>8, FailOrRetryType, GotoType DEF ReconcileContinues, Location, Exclusive, TypeOK
  <2> QED BY <1>1, <1>8, <2>1 DEF ReconcileContinues
<1>9. CASE ClaimRun(r)
  <2>1. runs' \in [Runs -> Run]
    BY <1>0, <1>9, ClaimPendingType, StoreType DEF ClaimRun, TypeOK
  <2>2. pc' \in [Runs -> Location]
    BY <1>9, GotoType DEF ClaimRun, Location, Exclusive, Slotted
  <2> QED BY <1>1, <1>9, <2>1, <2>2 DEF ClaimRun
<1>10. CASE ReadSession(r)
  <2>1. pc' \in [Runs -> Location] /\ exc' \in [Runs -> Error]
    BY <1>10, RaiseType, GotoType DEF ReadSession, Location, Exclusive, Slotted, TypeOK
  <2> QED BY <1>2, <1>10, <2>1 DEF ReadSession
<1>11. CASE ReadSessionFails(r)
  BY <1>2, <1>11, RaiseType DEF ReadSessionFails
<1>12. CASE MarkSubmission(r)
  <2>1. runs' \in [Runs -> Run]
    BY <1>0, <1>12, SetSubmittedType, StoreType DEF MarkSubmission
  <2>2. pc' \in [Runs -> Location]
    BY <1>12, GotoType DEF MarkSubmission, Location, Exclusive, Slotted
  <2> QED BY <1>1, <1>12, <2>1, <2>2 DEF MarkSubmission
<1>13. CASE SubmitFails(r)
  BY <1>2, <1>13, RaiseType DEF SubmitFails
<1>14. CASE SubmitAccepted(r)
  <2>1. pc' \in [Runs -> Location]
    BY <1>14, GotoType DEF SubmitAccepted, Location, Exclusive, Slotted
  <2>2. runs[r].attempts \in Nat /\ [by |-> r, attempt |-> runs[r].attempts] \in Turn
    BY <1>0 DEF Run, Turn
  <2>3. turns' \in [Sessions -> SUBSET Turn] /\ accepted' \in [Runs -> SUBSET Nat]
    BY <1>0, <1>14, <2>2 DEF SubmitAccepted, TypeOK
  <2> QED BY <1>14, <2>1, <2>3 DEF SubmitAccepted, TypeOK
<1>15. CASE StreamCompletes(r)
  <2>1. pc' \in [Runs -> Location]
    BY <1>15, GotoType DEF StreamCompletes, Location, Exclusive
  <2> QED BY <1>1, <1>15, <2>1 DEF StreamCompletes, TypeOK
<1>16. CASE StreamBreaks(r)
  BY <1>2, <1>16, RaiseType DEF StreamBreaks
<1>17. CASE PersistResult(r)
  <2>1. PICK outcome \in Recovered(r) \cup
                         {OutcomeOf(runs[r], SessionOf[r], m) : m \in OwnFinals(r)} :
          Store(r, PersistOutcome(runs[r], outcome))
    BY <1>17 DEF PersistResult
  <2>2. outcome \in Outcome
    BY <2>1, RecoveredType, OwnOutcomeType
  <2>3. runs' \in [Runs -> Run]
    BY <1>0, <2>1, <2>2, PersistOutcomeType, StoreType
  <2>4. pc' \in [Runs -> Location]
    BY <1>17, GotoType DEF PersistResult, Location
  <2> QED BY <1>1, <1>17, <2>3, <2>4 DEF PersistResult
<1>18. CASE ResultReadFails(r)
  BY <1>2, <1>18, RaiseType DEF ResultReadFails
<1>19. CASE HandleError(r)
  <2>1. CASE \E outcome \in Recovered(r) : Store(r, PersistOutcome(runs[r], outcome))
             /\ Goto(r, "none")
    <3>1. runs' \in [Runs -> Run]
      BY <1>0, <2>1, RecoveredType, PersistOutcomeType, StoreType
    <3>2. pc' \in [Runs -> Location]
      BY <2>1, GotoType DEF Location
    <3> QED BY <1>19, <3>1, <3>2 DEF HandleError, TypeOK, offTask, hermes
  <2>2. CASE \E err \in Error : FailOrRetry(r, err)
    <3>1. runs' \in [Runs -> Run] /\ pc' \in [Runs -> Location]
      BY <2>2, FailOrRetryType
    <3> QED BY <1>19, <3>1 DEF HandleError, TypeOK, offTask, hermes
  <2> QED BY <1>0, <1>19, <2>1, <2>2 DEF HandleError
<1>20. CASE ClearSubmission(r)
  <2>1. runs' \in [Runs -> Run]
    BY <1>0, <1>20, SetSubmittedType, StoreType DEF ClearSubmission
  <2>2. pc' \in [Runs -> Location]
    BY <1>20, GotoType DEF ClearSubmission, Location, Exclusive, Sync
  <2> QED BY <1>1, <1>20, <2>1, <2>2 DEF ClearSubmission
<1>21. CASE Requeue(r)
  <2>1. runs' \in [Runs -> Run]
    BY <1>0, <1>21, RetryType, StoreType DEF Requeue, TypeOK
  <2>2. pc' \in [Runs -> Location]
    BY <1>21, GotoType DEF Requeue, Location, Exclusive
  <2> QED BY <1>1, <1>21, <2>1, <2>2 DEF Requeue
<1>22. CASE BackoffEnds(r)
  <2>1. pc' \in [Runs -> Location]
    BY <1>22, GotoType, LoopHeadType DEF BackoffEnds, Location, Exclusive
  <2> QED BY <1>1, <1>22, <2>1 DEF BackoffEnds, TypeOK
<1> QED BY <1>3, <1>4, <1>5, <1>6, <1>7, <1>8, <1>9, <1>10, <1>11, <1>12, <1>13, <1>14,
           <1>15, <1>16, <1>17, <1>18, <1>19, <1>20, <1>21, <1>22
        DEF TaskStep, Reconciles, Attempts

LEMMA PostingStepType ==
  ASSUME posting \in [Runs -> Posting], NEW r \in Runs
  PROVE  [posting EXCEPT ![r].step = "requeueing"] \in [Runs -> Posting]
BY DEF Posting

LEMMA BudgetType ==
  ASSUME TypeOK
  PROVE  /\ [budget EXCEPT !.crashes = @ + 1] \in Budget
         /\ [budget EXCEPT !.faults = @ + 1] \in Budget
         /\ [budget EXCEPT !.chats = @ + 1] \in Budget
         /\ [budget EXCEPT !.closes = @ + 1] \in Budget
<1>1. budget \in Budget
  BY DEF TypeOK
<1> QED BY <1>1 DEF Budget

(* The steps of clients and chats.                                         *)
LEMMA ClientType ==
  ASSUME TypeOK, NEW r \in Runs, ClientStep(r)
  PROVE  TypeOK'
<1>0. runs[r] \in Run /\ posting[r].baseline \in Nat /\ SessionOf[r] \in Sessions
  BY SessionOfAssumption DEF TypeOK, Posting
<1>1. MessageCount(SessionOf[r]) \in Nat /\ ArtifactTurns(SessionOf[r]) \in SUBSET Turn
  BY <1>0, MessageCountType, ArtifactTurnsType DEF TypeOK
<1>2. CASE PostRun(r)
  BY <1>1, <1>2 DEF PostRun, TypeOK, hermes, Posting
<1>3. CASE CreateRun(r)
  <2>1. runs' \in [Runs -> Run]
    BY <1>0, <1>1, <1>3, NewRunType, StoreType DEF CreateRun
  <2>2. pc' \in [Runs -> Location]
    BY <1>3, SpawnedType DEF CreateRun
  <2> QED BY <1>3, <2>1, <2>2 DEF CreateRun, TypeOK, hermes, NotPosting, Posting
<1>4. CASE RepostRun(r)
  <2>1. runs' \in [Runs -> Run]
    BY <1>0, <1>4, SetSubmittedType, StoreType DEF RepostRun, TypeOK
  <2>2. pc \in [Runs -> Location] /\ Spawned(r) \in [Runs -> Location]
    BY SpawnedType DEF TypeOK
  <2>3. pc' \in [Runs -> Location]
    BY <1>4, <2>2 DEF RepostRun
  <2>4. posting' \in [Runs -> Posting]
    BY <1>4, PostingStepType DEF RepostRun, TypeOK
  <2> QED BY <1>4, <2>1, <2>3, <2>4 DEF RepostRun, TypeOK, hermes
<1>5. CASE RequeueByClient(r)
  <2>1. runs' \in [Runs -> Run]
    BY <1>0, <1>5, RetryType, StoreType DEF RequeueByClient, TypeOK
  <2>2. pc' \in [Runs -> Location]
    BY <1>5, SpawnedType DEF RequeueByClient, TypeOK
  <2> QED BY <1>5, <2>1, <2>2 DEF RequeueByClient, TypeOK, hermes, NotPosting, Posting
<1>6. CASE \E q \in Requests : PostAnswer(q, r)
  <2>1. answering' \in [Requests -> Answering]
    BY <1>6 DEF PostAnswer, TypeOK, Answering
  <2> QED BY <1>6, <2>1 DEF PostAnswer, TypeOK, hermes
<1>7. CASE ReplayAnswer(r)
  <2>1. pc' \in [Runs -> Location]
    BY <1>7, SpawnedType DEF ReplayAnswer
  <2> QED BY <1>7, <2>1 DEF ReplayAnswer, TypeOK, offTask, hermes
<1> QED BY <1>2, <1>3, <1>4, <1>5, <1>6, <1>7 DEF ClientStep

LEMMA AnswerType ==
  ASSUME TypeOK, NEW q \in Requests, ReadForAnswer(q) \/ AcceptAnswer(q)
  PROVE  TypeOK'
<1> DEFINE r == answering[q].run
<1>0. /\ r \in Runs /\ SessionOf[r] \in Sessions
      /\ answering[q] \in [step : {"checked", "read"}, run : Runs, baseline : Nat]
  <2>1. answering[q] \in Answering /\ answering[q] # NotAnswering
    BY DEF TypeOK, ReadForAnswer, AcceptAnswer, NotAnswering
  <2> QED BY <2>1, SessionOfAssumption DEF Answering
<1>1. CASE ReadForAnswer(q)
  <2>1. CASE answering' = [answering EXCEPT ![q] =
               [step |-> "read", run |-> r, baseline |-> MessageCount(SessionOf[r])]]
    <3>1. MessageCount(SessionOf[r]) \in Nat
      BY <1>0, MessageCountType DEF TypeOK
    <3>2. answering' \in [Requests -> Answering]
      BY <1>0, <2>1, <3>1 DEF TypeOK, Answering
    <3> QED BY <1>1, <3>2 DEF ReadForAnswer, TypeOK, hermes
  <2>2. CASE answering' = [answering EXCEPT ![q] = NotAnswering]
    BY <1>1, <2>2 DEF ReadForAnswer, TypeOK, hermes, Answering
  <2> QED BY <1>1, <2>1, <2>2 DEF ReadForAnswer
<1>2. CASE AcceptAnswer(q)
  <2>1. KeyOf[q] \in Keys /\ answering[q].baseline \in Nat /\ runs[r] \in Run
    BY <1>0, KeyOfAssumption DEF TypeOK
  <2>2. ResumeWithInput(runs[r], KeyOf[q], answering[q].baseline, ArtifactTurns(SessionOf[r])) \in Run
    BY <1>0, <2>1, ResumeWithInputType, ArtifactTurnsType DEF TypeOK
  <2>3. runs' \in [Runs -> Run]
    BY <1>0, <1>2, <2>2, StoreType DEF AcceptAnswer, TypeOK
  <2>4. pc' \in [Runs -> Location]
    <3>1. Spawned(r) \in [Runs -> Location] /\ pc \in [Runs -> Location]
      BY <1>0, SpawnedType DEF TypeOK
    <3>2. pc' = Spawned(r) \/ UNCHANGED pc
      BY <1>2 DEF AcceptAnswer
    <3> QED BY <3>1, <3>2
  <2>5. answering' \in [Requests -> Answering]
    BY <1>2 DEF AcceptAnswer, TypeOK, Answering
  <2> QED BY <1>2, <2>3, <2>4, <2>5 DEF AcceptAnswer, TypeOK, hermes
<1> QED BY <1>1, <1>2

LEMMA ChatType ==
  ASSUME TypeOK, NEW s \in Sessions, ChatStep(s)
  PROVE  TypeOK'
<1>1. [by |-> Chat, attempt |-> budget.chats] \in Turn
  BY DEF TypeOK, Turn, Budget
<1>2. CASE ChatStarts(s)
  <2>1. budget' \in Budget
    BY <1>2, BudgetType DEF ChatStarts
  <2> QED BY <1>2, <2>1 DEF ChatStarts, TypeOK, hermes
<1>3. CASE ChatPosts(s)
  BY <1>1, <1>3 DEF ChatPosts, TypeOK
<1>4. CASE ChatEnds(s)
  BY <1>4 DEF ChatEnds, TypeOK, hermes
<1> QED BY <1>2, <1>3, <1>4 DEF ChatStep

(* The steps of Hermes.                                                    *)
LEMMA RecordType ==
  ASSUME TypeOK, NEW s \in Sessions, NEW turn \in Turn, NEW kind \in Kind,
         Record(s, turn, kind)
  PROVE  messages' \in [Sessions -> Seq(Message)]
<1>1. [turn |-> turn, kind |-> kind] \in Message
  BY DEF Message
<1>2. Append(messages[s], [turn |-> turn, kind |-> kind]) \in Seq(Message)
  BY <1>1 DEF TypeOK
<1> QED BY <1>2 DEF Record, TypeOK

LEMMA HermesType ==
  ASSUME TypeOK, NEW s \in Sessions, HermesStep(s)
  PROVE  TypeOK'
<1>0. turns[s] \in SUBSET Turn
  BY DEF TypeOK
<1>1. CASE HermesWorks(s)
  <2>1. messages' \in [Sessions -> Seq(Message)]
    BY <1>0, <1>1, RecordType DEF HermesWorks, Kind
  <2> QED BY <1>1, <2>1 DEF HermesWorks, TypeOK, service
<1>2. CASE HermesDrops(s)
  BY <1>0, <1>2 DEF HermesDrops, TypeOK, service
<1>3. CASE CloseSession(s)
  <2>1. budget' \in Budget
    BY <1>3, BudgetType DEF CloseSession
  <2> QED BY <1>3, <2>1 DEF CloseSession, TypeOK, service
<1>4. CASE \E kind \in {"final", "clarify"} : HermesEnds(s, kind)
  <2>1. messages' \in [Sessions -> Seq(Message)]
    BY <1>0, <1>4, RecordType DEF HermesEnds, Kind
  <2>2. turns' \in [Sessions -> SUBSET Turn]
    BY <1>0, <1>4 DEF HermesEnds, TypeOK
  <2> QED BY <1>4, <2>1, <2>2 DEF HermesEnds, TypeOK, service
<1> QED BY <1>1, <1>2, <1>3, <1>4 DEF HermesStep

(* The faults of the service.                                              *)
LEMMA FaultType ==
  ASSUME TypeOK, Crash \/ Restart \/ \E r \in Runs : StoreFails(r) \/ StoreFailsForClient(r)
  PROVE  TypeOK'
<1>1. CASE Crash
  <2>1. budget' \in Budget
    BY <1>1, BudgetType DEF Crash
  <2>2. posting' \in [Runs -> Posting] /\ answering' \in [Requests -> Answering]
    BY <1>1 DEF Crash, NotPosting, Posting, Answering
  <2> QED BY <1>1, <2>1, <2>2, ErrorsType DEF Crash, TypeOK, hermes, Location
<1>2. CASE Restart
  BY <1>2 DEF Restart, TypeOK, hermes, Location, Waiting
<1>3. ASSUME NEW r \in Runs, StoreFails(r)
      PROVE  TypeOK'
  <2>1. budget' \in Budget
    BY <1>3, BudgetType DEF StoreFails
  <2>2. CASE Raise(r, Internal)
    BY <1>3, <2>1, <2>2, RaiseType, ErrorsType DEF StoreFails, TypeOK, hermes
  <2>3. CASE Goto(r, "none") /\ exc' = [exc EXCEPT ![r] = NoError]
    <3>1. pc' \in [Runs -> Location]
      BY <2>3, GotoType DEF Location
    <3>2. exc' \in [Runs -> Error]
      BY <2>3, ErrorsType DEF TypeOK
    <3> QED BY <1>3, <2>1, <3>1, <3>2 DEF StoreFails, TypeOK, hermes
  <2> QED BY <1>3, <2>2, <2>3 DEF StoreFails
<1>4. ASSUME NEW r \in Runs, StoreFailsForClient(r)
      PROVE  TypeOK'
  <2>1. budget' \in Budget
    BY <1>4, BudgetType DEF StoreFailsForClient
  <2>2. posting' \in [Runs -> Posting]
    BY <1>4 DEF StoreFailsForClient, TypeOK, NotPosting, Posting
  <2> QED BY <1>4, <2>1, <2>2 DEF StoreFailsForClient, TypeOK, hermes
<1> QED BY <1>1, <1>2, <1>3, <1>4

(* The state keeps its type: records are complete whatever transaction     *)
(* wrote them, and tasks are only ever where the executor can be.          *)
THEOREM TypeCorrect == Spec => []TypeOK
<1>1. Init => TypeOK
  BY AbsentType, ErrorsType DEF Init, TypeOK, Location, NotPosting,
       Posting, Answering, Budget
<1>2. TypeOK /\ [Next]_vars => TypeOK'
  <2> SUFFICES ASSUME TypeOK, [Next]_vars PROVE TypeOK'
    OBVIOUS
  <2>1. CASE UNCHANGED vars
    BY <2>1 DEF vars, offTask, hermes, TypeOK
  <2>2. CASE Next
    BY <2>2, TaskType, ClientType, AnswerType, ChatType, HermesType, FaultType DEF Next
  <2> QED BY <2>1, <2>2
<1> QED BY <1>1, <1>2, PTL DEF Spec

-----------------------------------------------------------------------------
(***************************************************************************)
(* One session is driven by one run or one chat, and the limiter is never  *)
(* exceeded, for any number of runs, sessions and slots.                   *)
(*                                                                         *)
(* What the code keeps are claims, one at a time, and permits; the         *)
(* invariant says of any two runs, and of a run and a chat, that they do   *)
(* not claim one session, and of the places that hold a permit that they   *)
(* are finitely many, whatever the number of runs.                         *)
(***************************************************************************)

Used  == {r \in Runs : pc[r] \in Slotted}
Chats == {s \in Sessions : chat[s] = "posted"}

Apart ==
  /\ \A q, r \in Runs : q # r /\ SessionOf[q] = SessionOf[r] /\ pc[q] \in Exclusive =>
                          pc[r] \notin Exclusive
  /\ \A r \in Runs : pc[r] \in Exclusive => chat[SessionOf[r]] = "idle"

SlotsInv ==
  /\ IsFiniteSet(Used) /\ IsFiniteSet(Chats)
  /\ Cardinality(Used) + Cardinality(Chats) <= Capacity

ExclusiveInv == Apart /\ SlotsInv

LEMMA SlotsCounted ==
  /\ SlotsInUse = Cardinality(Used) + Cardinality(Chats)
  /\ SlotsInv => Cardinality(Used) \in Nat /\ Cardinality(Chats) \in Nat /\ Capacity \in Nat
BY FS_CardinalityType, CapacityAssumption DEF SlotsInUse, Used, Chats, SlotsInv

LEMMA ExclusiveSays == ExclusiveInv => SessionExclusive
<1> SUFFICES ASSUME ExclusiveInv PROVE SessionExclusive OBVIOUS
<1>1. ASSUME NEW s \in Sessions
      PROVE  Cardinality({r \in Runs : SessionOf[r] = s /\ pc[r] \in Exclusive})
               + (IF chat[s] = "idle" THEN 0 ELSE 1) <= 1
  <2> DEFINE workers == {r \in Runs : SessionOf[r] = s /\ pc[r] \in Exclusive}
  <2> SUFFICES Cardinality(workers) + (IF chat[s] = "idle" THEN 0 ELSE 1) <= 1 OBVIOUS
  <2>1. CASE workers = {}
    <3>1. Cardinality(workers) = 0 BY <2>1, FS_EmptySet
    <3> HIDE DEF workers
    <3> QED BY <3>1
  <2>2. CASE workers # {}
    <3>1. PICK r \in workers : TRUE BY <2>2
    <3>2. workers = {r} /\ chat[s] = "idle" BY <3>1 DEF ExclusiveInv, Apart
    <3>3. Cardinality(workers) = 1 BY <3>2, FS_Singleton
    <3> HIDE DEF workers
    <3> QED BY <3>2, <3>3
  <2> QED BY <2>1, <2>2
<1>2. SlotsInUse <= Capacity BY SlotsCounted DEF ExclusiveInv, SlotsInv
<1> QED BY <1>1, <1>2 DEF SessionExclusive

-----------------------------------------------------------------------------
(* A set of places that gains or loses one. *)

LEMMA OneMore ==
  ASSUME NEW S, NEW x, NEW T, IsFiniteSet(S), T \subseteq S \cup {x}
  PROVE  /\ IsFiniteSet(T)
         /\ Cardinality(T) \in Nat /\ Cardinality(S) \in Nat
         /\ Cardinality(T) <= Cardinality(S) + 1
         /\ T \subseteq S => Cardinality(T) <= Cardinality(S)
<1>1. /\ IsFiniteSet(S \cup {x}) /\ Cardinality(S \cup {x}) \in Nat /\ Cardinality(S) \in Nat
      /\ Cardinality(S \cup {x}) <= Cardinality(S) + 1
  BY FS_AddElement, FS_CardinalityType
<1>2. /\ IsFiniteSet(T) /\ Cardinality(T) \in Nat
      /\ Cardinality(T) <= Cardinality(S \cup {x})
  BY <1>1, FS_Subset, FS_CardinalityType
<1>3. T \subseteq S => Cardinality(T) <= Cardinality(S) BY FS_Subset
<1> QED BY <1>1, <1>2, <1>3

(* How the task of a run may go on: it gives its session up, or it has it  *)
(* and takes a slot when one is free, or it takes a session nobody has.    *)
Moves(r, location) ==
  \/ location \notin Exclusive
  \/ /\ pc[r] \in Exclusive
     /\ location \in Slotted => pc[r] \in Slotted \/ SlotsInUse < Capacity
  \/ location \notin Slotted /\ SessionFree(r) /\ chat[SessionOf[r]] = "idle"

LEMMA TaskMoveKeeps ==
  ASSUME TypeOK, ExclusiveInv, NEW r \in Runs, NEW location, Moves(r, location),
         pc' = [pc EXCEPT ![r] = location], chat' = chat
  PROVE  ExclusiveInv'
<1>1. pc'[r] = location /\ \A q \in Runs \ {r} : pc'[q] = pc[q] BY DEF TypeOK
<1>2. Slotted \subseteq Exclusive BY DEF Exclusive
<1>3. Apart'
  BY <1>1, <1>2 DEF ExclusiveInv, Apart, Moves, SessionFree
<1>4. Chats' = Chats BY DEF Chats
<1>5. Used' \subseteq Used \cup {r} BY <1>1 DEF Used
<1>6. IsFiniteSet(Used) BY DEF ExclusiveInv, SlotsInv
<1>7. /\ IsFiniteSet(Used') /\ Cardinality(Used') \in Nat
      /\ Cardinality(Used') <= Cardinality(Used) + 1
      /\ Used' \subseteq Used => Cardinality(Used') <= Cardinality(Used)
  BY <1>5, <1>6, OneMore
<1>8. Used' \subseteq Used \/ SlotsInUse < Capacity
  BY <1>1, <1>2 DEF Used, Moves
<1>9. SlotsInv' BY <1>4, <1>7, <1>8, SlotsCounted, CapacityAssumption DEF ExclusiveInv, SlotsInv
<1> QED BY <1>3, <1>9 DEF ExclusiveInv

(* A chat claims a session that nobody has, posts into a free slot, ends.  *)
LEMMA ChatStepKeeps ==
  ASSUME TypeOK, ExclusiveInv, NEW s \in Sessions, ChatStep(s)
  PROVE  ExclusiveInv'
<1>1. pc' = pc BY DEF ChatStep, ChatStarts, ChatPosts, ChatEnds
<1>2. PICK c : chat' = [chat EXCEPT ![s] = c] /\ c \in {"idle", "claimed", "posted"}
  BY DEF ChatStep, ChatStarts, ChatPosts, ChatEnds
<1>3. chat'[s] = c /\ \A t \in Sessions \ {s} : chat'[t] = chat[t] BY <1>2 DEF TypeOK
<1>4. chat[s] = "idle" => \A r \in Runs : SessionOf[r] = s => pc[r] \notin Exclusive
  BY DEF ChatStep, ChatStarts, ChatPosts, ChatEnds
<1>5. c = "posted" => SlotsInUse < Capacity
  BY <1>3 DEF ChatStep, ChatStarts, ChatPosts, ChatEnds, TypeOK
<1>6. Apart'
  <2>1. \A r \in Runs : SessionOf[r] \in Sessions BY SessionOfAssumption
  <2>2. \A r \in Runs : SessionOf[r] = s => pc[r] \notin Exclusive BY <1>4 DEF ExclusiveInv, Apart
  <2> QED BY <1>1, <1>3, <2>1, <2>2 DEF ExclusiveInv, Apart
<1>7. Used' = Used BY <1>1 DEF Used
<1>8. Chats' \subseteq Chats \cup {s} /\ (c # "posted" => Chats' \subseteq Chats) BY <1>3 DEF Chats
<1>9. IsFiniteSet(Chats) BY DEF ExclusiveInv, SlotsInv
<1>10. /\ IsFiniteSet(Chats') /\ Cardinality(Chats') \in Nat
       /\ Cardinality(Chats') <= Cardinality(Chats) + 1
       /\ Chats' \subseteq Chats => Cardinality(Chats') <= Cardinality(Chats)
  BY <1>8, <1>9, OneMore
<1>11. SlotsInv'
  BY <1>5, <1>7, <1>8, <1>10, SlotsCounted, CapacityAssumption DEF ExclusiveInv, SlotsInv
<1> QED BY <1>6, <1>11 DEF ExclusiveInv

(* After a crash and after a restart no task has a session.                *)
LEMMA FaultKeeps ==
  ASSUME TypeOK, ExclusiveInv, Crash \/ Restart
  PROVE  ExclusiveInv'
<1>1. \A r \in Runs : pc'[r] \in {"none", "queued"} BY DEF Crash, Restart
<1>2. \A r \in Runs : pc'[r] \notin Exclusive /\ pc'[r] \notin Slotted
  BY <1>1 DEF Exclusive, Slotted, Sync
<1>3. Apart' BY <1>2 DEF Apart
<1>4. Used' = {} BY <1>2 DEF Used
<1>5. Chats' \subseteq Chats BY DEF Crash, Restart, Chats
<1>6. IsFiniteSet(Used') /\ Cardinality(Used') = 0 BY <1>4, FS_EmptySet
<1>7. IsFiniteSet(Chats) BY DEF ExclusiveInv, SlotsInv
<1>8. /\ IsFiniteSet(Chats') /\ Cardinality(Chats') \in Nat
      /\ Cardinality(Chats') <= Cardinality(Chats)
  BY <1>5, <1>7, FS_Subset, FS_CardinalityType
<1>9. SlotsInv' BY <1>6, <1>8, SlotsCounted, CapacityAssumption DEF ExclusiveInv, SlotsInv
<1> QED BY <1>3, <1>9 DEF ExclusiveInv

-----------------------------------------------------------------------------
(* Every step of a task is one of its moves. *)

LEMMA HeadMoves ==
  ASSUME NEW run
  PROVE  LoopHead(run) \in {"none", "reconcile", "slot"} /\ LoopHead(run) \notin Slotted
BY DEF LoopHead, Slotted

LEMMA FailMoves ==
  ASSUME NEW r \in Runs, NEW err, pc[r] \in Exclusive, Fail(r, err) \/ FailOrRetry(r, err)
  PROVE  \E location : pc' = [pc EXCEPT ![r] = location] /\ Moves(r, location)
<1>1. "none" \notin Exclusive /\ "clearing" \notin Slotted
  BY DEF Exclusive, Slotted, Sync
<1>2. PICK location \in {"none", "clearing"} : pc' = [pc EXCEPT ![r] = location]
  BY DEF Fail, FailOrRetry, Goto
<1> QED BY <1>1, <1>2 DEF Moves

LEMMA TaskMoves ==
  ASSUME TypeOK, NEW r \in Runs, TaskStep(r)
  PROVE  /\ chat' = chat
         /\ \E location : pc' = [pc EXCEPT ![r] = location] /\ Moves(r, location)
<1>1. CASE StartRun(r)
  <2>1. LoopHead(runs[r]) \notin Slotted BY HeadMoves
  <2> QED BY <1>1, <2>1 DEF StartRun, Goto, Moves, offTask
<1>2. CASE SessionBusy(r)
  BY <1>2 DEF SessionBusy, Fail, Goto, Moves, offTask, Exclusive, Slotted, Sync
<1>3. CASE ReconcileReadFails(r) \/ Reconciles(r)
  <2>1. pc[r] \in Exclusive /\ chat' = chat
    BY <1>3 DEF ReconcileReadFails, Reconciles, ReconcileRecovers, ReconcileGivesUp,
                ReconcileContinues, At, Exclusive, offTask
  <2>2. \/ \E err : Fail(r, err) \/ FailOrRetry(r, err)
        \/ Goto(r, "none") \/ Goto(r, "slot")
    BY <1>3 DEF ReconcileReadFails, Reconciles, ReconcileRecovers, ReconcileGivesUp,
                ReconcileContinues
  <2>3. "none" \notin Exclusive /\ "slot" \notin Slotted BY DEF Exclusive, Slotted, Sync
  <2> QED BY <2>1, <2>2, <2>3, FailMoves DEF Goto, Moves
<1>4. CASE ClaimRun(r)
  <2>1. pc[r] \in Exclusive /\ chat' = chat BY <1>4 DEF ClaimRun, At, Exclusive, offTask
  <2>2. SlotsInUse < Capacity /\ (Goto(r, "prepare") \/ Goto(r, "none")) BY <1>4 DEF ClaimRun
  <2>3. "none" \notin Exclusive BY DEF Exclusive, Slotted, Sync
  <2> QED BY <2>1, <2>2, <2>3 DEF Goto, Moves
<1>5. CASE ReadSession(r) \/ ReadSessionFails(r) \/ MarkSubmission(r) \/ SubmitFails(r)
           \/ SubmitAccepted(r) \/ StreamCompletes(r) \/ StreamBreaks(r)
  <2>1. pc[r] \in Slotted /\ chat' = chat
    BY <1>5 DEF ReadSession, ReadSessionFails, MarkSubmission, SubmitFails, SubmitAccepted,
                StreamCompletes, StreamBreaks, At, Slotted, offTask
  <2>2. \E location : pc' = [pc EXCEPT ![r] = location]
    BY <1>5 DEF ReadSession, ReadSessionFails, MarkSubmission, SubmitFails, SubmitAccepted,
                StreamCompletes, StreamBreaks, Goto, Raise
  <2> QED BY <2>1, <2>2 DEF Moves, Exclusive
<1>6. CASE PersistResult(r) \/ ResultReadFails(r)
  <2>1. pc[r] \in Exclusive /\ chat' = chat
    BY <1>6 DEF PersistResult, ResultReadFails, At, Exclusive, offTask
  <2>2. Goto(r, "none") \/ Goto(r, "except") BY <1>6 DEF PersistResult, ResultReadFails, Raise
  <2>3. "none" \notin Exclusive /\ "except" \notin Slotted BY DEF Exclusive, Slotted, Sync
  <2> QED BY <2>1, <2>2, <2>3 DEF Goto, Moves
<1>7. CASE HandleError(r)
  <2>1. pc[r] \in Exclusive /\ chat' = chat BY <1>7 DEF HandleError, At, Exclusive, offTask
  <2>2. Goto(r, "none") \/ \E err : FailOrRetry(r, err) BY <1>7 DEF HandleError
  <2>3. "none" \notin Exclusive BY DEF Exclusive, Slotted, Sync
  <2> QED BY <2>1, <2>2, <2>3, FailMoves DEF Goto, Moves
<1>8. CASE ClearSubmission(r) \/ Requeue(r)
  <2>1. pc[r] \in Exclusive /\ chat' = chat
    BY <1>8 DEF ClearSubmission, Requeue, Exclusive, Sync, offTask
  <2>2. Goto(r, "requeueing") \/ Goto(r, "backoff") \/ Goto(r, "none")
    BY <1>8 DEF ClearSubmission, Requeue
  <2>3. "none" \notin Exclusive /\ "requeueing" \notin Slotted /\ "backoff" \notin Slotted
    BY DEF Exclusive, Slotted, Sync
  <2> QED BY <2>1, <2>2, <2>3 DEF Goto, Moves
<1>9. CASE BackoffEnds(r)
  <2>1. pc[r] \in Exclusive /\ chat' = chat /\ Goto(r, LoopHead(runs[r]))
    BY <1>9 DEF BackoffEnds, At, Exclusive, offTask
  <2>2. LoopHead(runs[r]) \notin Slotted BY HeadMoves
  <2> QED BY <2>1, <2>2 DEF Goto, Moves
<1> QED BY <1>1, <1>2, <1>3, <1>4, <1>5, <1>6, <1>7, <1>8, <1>9 DEF TaskStep, Attempts

(* A client starts tasks that have no session yet; a task whose file fails *)
(* keeps its session or gives it up.                                       *)
LEMMA OthersMove ==
  ASSUME TypeOK, NEW r \in Runs,
         \/ pc' = Spawned(r)
         \/ StoreFails(r)
  PROVE  \E location : pc' = [pc EXCEPT ![r] = location] /\ Moves(r, location)
<1>1. "none" \notin Exclusive /\ "queued" \notin Exclusive /\ "except" \notin Slotted
  BY DEF Exclusive, Slotted, Sync
<1>2. CASE pc' = Spawned(r)
  <2> DEFINE location == IF pc[r] = "none" THEN "queued" ELSE pc[r]
  <2>1. pc' = [pc EXCEPT ![r] = location] BY <1>2 DEF Spawned
  <2>2. Moves(r, location) BY <1>1 DEF Moves, Exclusive
  <2> QED BY <2>1, <2>2
<1>3. CASE StoreFails(r)
  <2>1. Goto(r, "none") \/ (Goto(r, "except") /\ pc[r] \in {"slot", "open", "result"})
    BY <1>3 DEF StoreFails, Raise
  <2>2. "slot" \in Exclusive /\ "open" \in Exclusive /\ "result" \in Exclusive
    BY DEF Exclusive, Slotted
  <2> QED BY <1>1, <2>1, <2>2 DEF Goto, Moves
<1> QED BY <1>2, <1>3

LEMMA NextKeeps ==
  ASSUME TypeOK, ExclusiveInv, [Next]_vars
  PROVE  ExclusiveInv'
<1>1. ASSUME UNCHANGED <<pc, chat>> PROVE ExclusiveInv'
  BY <1>1 DEF ExclusiveInv, Apart, SlotsInv, Used, Chats
<1>2. ASSUME NEW r \in Runs, TaskStep(r) PROVE ExclusiveInv'
  BY <1>2, TaskMoves, TaskMoveKeeps
<1>3. ASSUME NEW r \in Runs, pc' = Spawned(r) \/ StoreFails(r), chat' = chat PROVE ExclusiveInv'
  BY <1>3, OthersMove, TaskMoveKeeps
<1>4. ASSUME NEW r \in Runs, ClientStep(r) PROVE ExclusiveInv'
  <2>1. chat' = chat /\ (pc' = pc \/ pc' = Spawned(r))
    BY <1>4 DEF ClientStep, PostRun, CreateRun, RepostRun, RequeueByClient, PostAnswer,
                ReplayAnswer, offTask
  <2> QED BY <1>1, <1>3, <2>1
<1>5. ASSUME NEW r \in Runs, StoreFails(r) \/ StoreFailsForClient(r) PROVE ExclusiveInv'
  <2>1. chat' = chat /\ (StoreFails(r) \/ pc' = pc)
    BY <1>5 DEF StoreFails, StoreFailsForClient
  <2> QED BY <1>1, <1>3, <2>1
<1>6. ASSUME NEW q \in Requests, ReadForAnswer(q) \/ AcceptAnswer(q) PROVE ExclusiveInv'
  <2>1. chat' = chat BY <1>6 DEF ReadForAnswer, AcceptAnswer
  <2>2. CASE ReadForAnswer(q) BY <1>1, <2>1, <2>2 DEF ReadForAnswer
  <2>3. CASE AcceptAnswer(q)
    <3>1. answering[q].run \in Runs BY <2>3 DEF AcceptAnswer, TypeOK, Answering, NotAnswering
    <3>2. pc' = pc \/ pc' = Spawned(answering[q].run) BY <2>3 DEF AcceptAnswer
    <3> QED BY <1>1, <1>3, <2>1, <3>1, <3>2
  <2> QED BY <1>6, <2>2, <2>3
<1>7. ASSUME NEW s \in Sessions, HermesStep(s) PROVE ExclusiveInv'
  <2>1. UNCHANGED <<pc, chat>>
    BY <1>7 DEF HermesStep, HermesWorks, HermesEnds, HermesDrops, CloseSession, service
  <2> QED BY <1>1, <2>1
<1>8. CASE UNCHANGED vars BY <1>1, <1>8 DEF vars, offTask
<1> QED BY <1>2, <1>4, <1>5, <1>6, <1>7, <1>8, ChatStepKeeps, FaultKeeps DEF Next

(* No session is ever worked on by two runs, or by a run and a chat, and   *)
(* the limiter is never exceeded, whatever fails, crashes and is repeated  *)
(* (_execute_agent_run, the session claims and agent_capacity.py).         *)
THEOREM SessionExclusiveHolds == Spec => []SessionExclusive
<1>1. Init => ExclusiveInv
  <2> SUFFICES ASSUME Init PROVE ExclusiveInv OBVIOUS
  <2>1. \A r \in Runs : pc[r] \notin Exclusive /\ pc[r] \notin Slotted
    BY DEF Init, Exclusive, Slotted, Sync
  <2>2. Used = {} /\ Chats = {} BY <2>1 DEF Init, Used, Chats
  <2>3. /\ IsFiniteSet(Used) /\ Cardinality(Used) = 0
        /\ IsFiniteSet(Chats) /\ Cardinality(Chats) = 0
    BY <2>2, FS_EmptySet
  <2>4. SlotsInv BY <2>3, CapacityAssumption DEF SlotsInv
  <2> QED BY <2>1, <2>4 DEF ExclusiveInv, Apart
<1>2. TypeOK /\ ExclusiveInv /\ [Next]_vars => ExclusiveInv' BY NextKeeps
<1> QED BY <1>1, <1>2, TypeCorrect, ExclusiveSays, PTL DEF Spec
-----------------------------------------------------------------------------
(* The inductive invariant of the record and its task.  It is the          *)
(* conjunction, run by run, of who may touch a record at each point of the *)
(* executor, what a retry leaves behind between its writes, and what is    *)
(* left of the attempts of a leg.                                          *)

(* A record, where its task is, and what a repeated request is doing.      *)
Good(run, location, step) ==
  /\ location \in Exclusive \ Sync => run.status \in Resumable
  /\ location \in Slotted \cup {"result"} => run.status = "running"
  /\ location \in Sync \/ step = "requeueing" => run.status = "failed" /\ MayRetry(run.error)
  /\ location = "requeueing" \/ step = "requeueing" => ~run.submitted
  /\ step = "requeueing" => location \notin Sync
  /\ RetryAttempts(run) <= MaxAttempts
  /\ run.status = "pending" => RetryAttempts(run) < MaxAttempts /\ ~run.submitted

AllGood == \A r \in Runs : Good(runs[r], pc[r], posting[r].step)

LEMMA AllGoodSays ==
  AllGood => WorkerOwnsRun /\ RetriesAreClean /\ AttemptBudget /\ PendingNotSubmitted
BY DEF AllGood, Good, WorkerOwnsRun, RetriesAreClean, AttemptBudget, PendingNotSubmitted, Requeueing

(* A step that concerns one run leaves the others as they were.            *)
LEMMA OneRunStep ==
  ASSUME TypeOK, AllGood, NEW r \in Runs, NEW run, NEW location, NEW p,
         runs' = [runs EXCEPT ![r] = run], pc' = [pc EXCEPT ![r] = location],
         posting' = [posting EXCEPT ![r] = p], Good(run, location, p.step)
  PROVE  AllGood'
<1>1. \A other \in Runs : runs'[other] = IF other = r THEN run ELSE runs[other]
  BY DEF TypeOK
<1>2. \A other \in Runs : pc'[other] = IF other = r THEN location ELSE pc[other]
  BY DEF TypeOK
<1>3. \A other \in Runs : posting'[other].step = IF other = r THEN p.step ELSE posting[other].step
  BY DEF TypeOK
<1>4. \A other \in Runs : Good(runs'[other], pc'[other], posting'[other].step)
  BY <1>1, <1>2, <1>3 DEF AllGood
<1> QED BY <1>4 DEF AllGood

(* Outside the synchronous stretches no run is between the writes of a     *)
(* retry.                                                                  *)
LEMMA ServingIsQuiet ==
  ASSUME Serving, NEW r \in Runs
  PROVE  pc[r] \notin Sync /\ posting[r].step # "requeueing"
BY DEF Serving, InSync, Requeueing

-----------------------------------------------------------------------------
(* What each transaction makes of a good record.                           *)

LEMMA RetryAttemptsType ==
  ASSUME NEW run \in Run
  PROVE  RetryAttempts(run) \in Nat
BY DEF RetryAttempts, Run

LEMMA GoodHead ==
  ASSUME NEW run \in Run, NEW step, Good(run, "none", step), step # "requeueing"
  PROVE  Good(run, LoopHead(run), step)
BY DEF Good, LoopHead, Exclusive, Sync, Slotted, Resumable

LEMMA GoodWhenIdle ==
  ASSUME NEW run, NEW location, NEW step, Good(run, location, step)
  PROVE  Good(run, "none", step)
BY DEF Good, Exclusive, Sync, Slotted

LEMMA GoodFailed ==
  ASSUME NEW run \in Run, NEW location, NEW step, Good(run, location, step),
         run.status \in Resumable, NEW err \in Error, step # "requeueing"
  PROVE  /\ Good(MarkFailed(run, err), "none", step)
         /\ MayRetry(err) => Good(MarkFailed(run, err), "clearing", step)
<1>1. /\ MarkFailed(run, err).status = "failed"
      /\ MarkFailed(run, err).error = err
      /\ MarkFailed(run, err).attempts = run.attempts
      /\ MarkFailed(run, err).epoch = run.epoch
  BY DEF MarkFailed, Run, Resumable
<1>2. RetryAttempts(MarkFailed(run, err)) = RetryAttempts(run)
  BY <1>1 DEF RetryAttempts
<1> QED BY <1>1, <1>2 DEF Good, Exclusive, Sync, Slotted, Resumable

LEMMA GoodClaimed ==
  ASSUME NEW run \in Run, NEW step, Good(run, "slot", step), run.status = "pending",
         step # "requeueing"
  PROVE  Good(ClaimPending(run), "prepare", step)
<1>1. /\ ClaimPending(run).status = "running"
      /\ ClaimPending(run).attempts = run.attempts + 1
      /\ ClaimPending(run).epoch = run.epoch
  BY DEF ClaimPending, Run
<1>2. RetryAttempts(ClaimPending(run)) <= RetryAttempts(run) + 1
  BY <1>1 DEF RetryAttempts, Run
<1>3. RetryAttempts(ClaimPending(run)) <= MaxAttempts
  BY <1>2, MaxAttemptsAssumption, RetryAttemptsType, ClaimPendingType DEF Good
<1> QED BY <1>1, <1>3 DEF Good, Exclusive, Sync, Slotted, Resumable

LEMMA GoodMarked ==
  ASSUME NEW run \in Run, NEW step, Good(run, "open", step), step # "requeueing"
  PROVE  Good(SetSubmitted(run, TRUE), "submit", step)
<1>1. /\ SetSubmitted(run, TRUE).status = run.status
      /\ SetSubmitted(run, TRUE).attempts = run.attempts
      /\ SetSubmitted(run, TRUE).epoch = run.epoch
  BY DEF SetSubmitted, Run
<1>2. RetryAttempts(SetSubmitted(run, TRUE)) = RetryAttempts(run)
  BY <1>1 DEF RetryAttempts
<1> QED BY <1>1, <1>2 DEF Good, Exclusive, Sync, Slotted, Resumable

LEMMA GoodCleared ==
  ASSUME NEW run \in Run, NEW step, Good(run, "clearing", step)
  PROVE  Good(SetSubmitted(run, FALSE), "requeueing", step)
<1>1. /\ SetSubmitted(run, FALSE).status = run.status
      /\ SetSubmitted(run, FALSE).error = run.error
      /\ SetSubmitted(run, FALSE).submitted = FALSE
      /\ SetSubmitted(run, FALSE).attempts = run.attempts
      /\ SetSubmitted(run, FALSE).epoch = run.epoch
  BY DEF SetSubmitted, Run
<1>2. RetryAttempts(SetSubmitted(run, FALSE)) = RetryAttempts(run)
  BY <1>1 DEF RetryAttempts
<1> QED BY <1>1, <1>2 DEF Good, Exclusive, Sync, Slotted, Resumable

LEMMA GoodRetried ==
  ASSUME NEW run \in Run, RetryAllowed(run), ~run.submitted,
         NEW step, step # "requeueing", NEW location, location \in {"none", "queued", "backoff"}
  PROVE  Good(Retry(run), location, step)
<1>1. /\ Retry(run).status = "pending"
      /\ Retry(run).submitted = run.submitted
      /\ Retry(run).attempts = run.attempts
      /\ Retry(run).epoch = run.epoch
  BY DEF Retry, Run
<1>2. RetryAttempts(Retry(run)) = RetryAttempts(run)
  BY <1>1 DEF RetryAttempts
<1>3. RetryAttempts(run) < MaxAttempts /\ RetryAttempts(run) <= MaxAttempts
  BY RetryAttemptsType, MaxAttemptsAssumption DEF RetryAllowed
<1> QED BY <1>1, <1>2, <1>3 DEF Good, Exclusive, Sync, Slotted, Resumable

LEMMA GoodOutcome ==
  ASSUME NEW run \in Run, NEW location, NEW step, Good(run, location, step),
         NEW outcome \in Outcome, step # "requeueing"
  PROVE  Good(PersistOutcome(run, outcome), "none", step)
<1>1. /\ PersistOutcome(run, outcome).status \in {"waiting_input", "succeeded"}
      /\ PersistOutcome(run, outcome).attempts = run.attempts
      /\ PersistOutcome(run, outcome).epoch = run.epoch
  BY DEF PersistOutcome, MarkSucceeded, MarkWaitingInput, Run
<1>2. RetryAttempts(PersistOutcome(run, outcome)) = RetryAttempts(run)
  BY <1>1 DEF RetryAttempts
<1> QED BY <1>1, <1>2 DEF Good, Exclusive, Sync, Slotted, Resumable

LEMMA GoodNew ==
  ASSUME NEW b \in Nat, NEW files \in SUBSET Turn, NEW location \in {"none", "queued"},
         NEW step, step # "requeueing"
  PROVE  Good(NewRun(b, files), location, step)
BY MaxAttemptsAssumption DEF Good, NewRun, RetryAttempts, Exclusive, Sync, Slotted, Resumable

LEMMA GoodResumed ==
  ASSUME NEW run \in Run, NEW k \in Keys, NEW b \in Nat, NEW files \in SUBSET Turn,
         NEW location \in {"none", "queued"}, NEW step, step # "requeueing"
  PROVE  Good(ResumeWithInput(run, k, b, files), location, step)
<1>1. /\ ResumeWithInput(run, k, b, files).status = "pending"
      /\ ResumeWithInput(run, k, b, files).submitted = FALSE
      /\ ResumeWithInput(run, k, b, files).attempts = run.attempts
      /\ ResumeWithInput(run, k, b, files).epoch = run.attempts
  BY DEF ResumeWithInput, Run
<1>2. RetryAttempts(ResumeWithInput(run, k, b, files)) = 0
  BY <1>1 DEF RetryAttempts, Run
<1> QED BY <1>1, <1>2, MaxAttemptsAssumption DEF Good, Exclusive, Sync, Slotted, Resumable

-----------------------------------------------------------------------------
(* The shared halves of the task's steps.                                  *)

LEMMA GotoGood ==
  ASSUME TypeOK, AllGood, NEW r \in Runs, NEW location, Goto(r, location),
         UNCHANGED <<runs, posting>>, Good(runs[r], location, posting[r].step)
  PROVE  AllGood'
<1>1. runs' = [runs EXCEPT ![r] = runs[r]] /\ posting' = [posting EXCEPT ![r] = posting[r]]
  BY DEF TypeOK
<1> QED BY <1>1, OneRunStep DEF Goto

LEMMA StoreGood ==
  ASSUME TypeOK, AllGood, NEW r \in Runs, NEW run, NEW location, Store(r, run),
         Goto(r, location), UNCHANGED posting, Good(run, location, posting[r].step)
  PROVE  AllGood'
<1>1. posting' = [posting EXCEPT ![r] = posting[r]]
  BY DEF TypeOK
<1> QED BY <1>1, OneRunStep DEF Store, Goto

LEMMA FailOrRetryGood ==
  ASSUME TypeOK, AllGood, NEW r \in Runs, NEW err \in Error, FailOrRetry(r, err),
         UNCHANGED posting, runs[r].status \in Resumable, posting[r].step # "requeueing"
  PROVE  AllGood'
<1>1. runs[r] \in Run /\ Good(runs[r], pc[r], posting[r].step)
  BY DEF TypeOK, AllGood
<1>2. PICK final \in Error : /\ Store(r, MarkFailed(runs[r], final))
                             /\ Goto(r, IF MayRetry(final) THEN "clearing" ELSE "none")
  BY ErrorsType DEF FailOrRetry
<1>3. CASE MayRetry(final)
  <2>1. Goto(r, "clearing")
    BY <1>2, <1>3
  <2> QED BY <1>1, <1>2, <1>3, <2>1, GoodFailed, StoreGood
<1>4. CASE ~MayRetry(final)
  <2>1. Goto(r, "none")
    BY <1>2, <1>4
  <2> QED BY <1>1, <1>2, <2>1, GoodFailed, StoreGood
<1> QED BY <1>3, <1>4

LEMMA FailGood ==
  ASSUME TypeOK, AllGood, NEW r \in Runs, NEW err \in Error, Fail(r, err),
         UNCHANGED posting, runs[r].status \in Resumable, posting[r].step # "requeueing"
  PROVE  AllGood'
<1>1. runs[r] \in Run /\ Good(runs[r], pc[r], posting[r].step)
  BY DEF TypeOK, AllGood
<1> QED BY <1>1, GoodFailed, StoreGood DEF Fail

LEMMA RaiseGood ==
  ASSUME TypeOK, AllGood, NEW r \in Runs, NEW err, Raise(r, err), UNCHANGED <<runs, posting>>,
         pc[r] \in Exclusive \ Sync
  PROVE  AllGood'
<1>1. Good(runs[r], pc[r], posting[r].step)
  BY DEF AllGood
<1>2. Good(runs[r], "except", posting[r].step)
  BY <1>1 DEF Good, Exclusive, Slotted, Sync
<1> QED BY <1>2, GotoGood DEF Raise

(* Every step of a task keeps the records good.                            *)
LEMMA TaskGood ==
  ASSUME TypeOK, AllGood, NEW r \in Runs, TaskStep(r)
  PROVE  AllGood'
<1> USE ErrorsType
<1>0. /\ runs[r] \in Run /\ exc[r] \in Error
      /\ Good(runs[r], pc[r], posting[r].step)
  BY DEF TypeOK, AllGood
<1>1. UNCHANGED posting
  BY DEF TaskStep, Reconciles, Attempts, StartRun, SessionBusy, ReconcileReadFails,
         ReconcileRecovers, ReconcileGivesUp, ReconcileContinues, ClaimRun, ReadSession,
         ReadSessionFails, MarkSubmission, SubmitFails, SubmitAccepted, StreamCompletes,
         StreamBreaks, PersistResult, ResultReadFails, HandleError, ClearSubmission, Requeue,
         BackoffEnds, offTask
<1>2. ASSUME Serving PROVE posting[r].step # "requeueing"
  BY <1>2, ServingIsQuiet
<1>3. CASE StartRun(r)
  <2>1. Good(runs[r], LoopHead(runs[r]), posting[r].step)
    BY <1>0, <1>2, <1>3, GoodHead, GoodWhenIdle DEF StartRun, At
  <2> QED BY <1>1, <1>3, <2>1, GotoGood DEF StartRun
<1>4. CASE SessionBusy(r)
  <2>1. CASE runs[r].status \in Resumable
    BY <1>1, <1>2, <1>4, <2>1, FailGood DEF SessionBusy, At
  <2>2. CASE runs[r].status \notin Resumable
    BY <1>0, <1>1, <1>4, <2>2, GotoGood, GoodWhenIdle DEF SessionBusy
  <2> QED BY <2>1, <2>2
<1>5. CASE ReconcileReadFails(r)
  <2>1. runs[r].status \in Resumable
    BY <1>0, <1>5 DEF ReconcileReadFails, At, Good, Exclusive, Sync
  <2> QED BY <1>1, <1>2, <1>5, <2>1, FailOrRetryGood DEF ReconcileReadFails, At
<1>6. CASE ReconcileRecovers(r)
  <2>1. PICK outcome \in Recovered(r) : Store(r, PersistOutcome(runs[r], outcome))
    BY <1>6 DEF ReconcileRecovers
  <2>2. Good(PersistOutcome(runs[r], outcome), "none", posting[r].step)
    BY <1>0, <1>2, <1>6, RecoveredType, GoodOutcome DEF ReconcileRecovers, At
  <2> QED BY <1>1, <1>6, <2>1, <2>2, StoreGood DEF ReconcileRecovers
<1>7. CASE ReconcileGivesUp(r)
  <2>1. runs[r].status \in Resumable
    BY <1>0, <1>7 DEF ReconcileGivesUp, At, Good, Exclusive, Sync
  <2> QED BY <1>1, <1>2, <1>7, <2>1, FailGood DEF ReconcileGivesUp, At
<1>8. CASE ReconcileContinues(r)
  <2>1. runs[r].status \in Resumable
    BY <1>0, <1>8 DEF ReconcileContinues, At, Good, Exclusive, Sync
  <2>2. CASE FailOrRetry(r, Transient)
    BY <1>1, <1>2, <1>8, <2>1, <2>2, FailOrRetryGood DEF ReconcileContinues, At
  <2>3. CASE Goto(r, "slot") /\ UNCHANGED runs
    <3>1. Good(runs[r], "slot", posting[r].step)
      BY <1>0, <1>8, <2>1 DEF ReconcileContinues, At, Good, Exclusive, Sync, Slotted
    <3> QED BY <1>1, <2>3, <3>1, GotoGood
  <2> QED BY <1>8, <2>2, <2>3 DEF ReconcileContinues
<1>9. CASE ClaimRun(r)
  <2>1. CASE runs[r].status = "pending"
    BY <1>0, <1>1, <1>2, <1>9, <2>1, GoodClaimed, StoreGood DEF ClaimRun, At
  <2>2. CASE runs[r].status # "pending"
    BY <1>0, <1>1, <1>9, <2>2, GoodWhenIdle, GotoGood DEF ClaimRun
  <2> QED BY <2>1, <2>2
<1>10. CASE ReadSession(r)
  <2>1. CASE Raise(r, Rejected)
    BY <1>1, <1>10, <2>1, RaiseGood DEF ReadSession, At, Exclusive, Slotted, Sync
  <2>2. CASE Goto(r, "open")
    <3>1. Good(runs[r], "open", posting[r].step)
      BY <1>0, <1>10 DEF ReadSession, At, Good, Exclusive, Slotted, Sync
    <3> QED BY <1>1, <1>10, <2>2, <3>1, GotoGood DEF ReadSession
  <2> QED BY <1>10, <2>1, <2>2 DEF ReadSession
<1>11. CASE ReadSessionFails(r)
  BY <1>1, <1>11, RaiseGood DEF ReadSessionFails, At, Exclusive, Slotted, Sync
<1>12. CASE MarkSubmission(r)
  BY <1>0, <1>1, <1>2, <1>12, GoodMarked, StoreGood DEF MarkSubmission, At
<1>13. CASE SubmitFails(r)
  BY <1>1, <1>13, RaiseGood DEF SubmitFails, At, Exclusive, Slotted, Sync
<1>14. CASE SubmitAccepted(r)
  <2>1. Good(runs[r], "stream", posting[r].step)
    BY <1>0, <1>14 DEF SubmitAccepted, At, Good, Exclusive, Slotted, Sync
  <2> QED BY <1>1, <1>14, <2>1, GotoGood DEF SubmitAccepted
<1>15. CASE StreamCompletes(r)
  <2>1. Good(runs[r], "result", posting[r].step)
    BY <1>0, <1>15 DEF StreamCompletes, At, Good, Exclusive, Slotted, Sync
  <2> QED BY <1>1, <1>15, <2>1, GotoGood DEF StreamCompletes
<1>16. CASE StreamBreaks(r)
  BY <1>1, <1>16, RaiseGood DEF StreamBreaks, At, Exclusive, Slotted, Sync
<1>17. CASE PersistResult(r)
  <2>1. PICK outcome \in Recovered(r) \cup
                         {OutcomeOf(runs[r], SessionOf[r], m) : m \in OwnFinals(r)} :
          Store(r, PersistOutcome(runs[r], outcome))
    BY <1>17 DEF PersistResult
  <2>2. outcome \in Outcome
    BY <2>1, RecoveredType, OwnOutcomeType
  <2>3. Good(PersistOutcome(runs[r], outcome), "none", posting[r].step)
    BY <1>0, <1>2, <1>17, <2>2, GoodOutcome DEF PersistResult, At
  <2> QED BY <1>1, <1>17, <2>1, <2>3, StoreGood DEF PersistResult
<1>18. CASE ResultReadFails(r)
  BY <1>1, <1>18, RaiseGood DEF ResultReadFails, At, Exclusive, Slotted, Sync
<1>19. CASE HandleError(r)
  <2>1. CASE \E outcome \in Recovered(r) : Store(r, PersistOutcome(runs[r], outcome))
             /\ Goto(r, "none")
    <3>1. PICK outcome \in Recovered(r) : Store(r, PersistOutcome(runs[r], outcome))
      BY <2>1
    <3>2. Good(PersistOutcome(runs[r], outcome), "none", posting[r].step)
      BY <1>0, <1>2, <1>19, RecoveredType, GoodOutcome DEF HandleError, At
    <3> QED BY <1>1, <2>1, <3>1, <3>2, StoreGood
  <2>2. CASE \E err \in Error : FailOrRetry(r, err)
    <3>1. runs[r].status \in Resumable
      BY <1>0, <1>19 DEF HandleError, At, Good, Exclusive, Sync
    <3> QED BY <1>1, <1>2, <1>19, <2>2, <3>1, FailOrRetryGood DEF HandleError, At
  <2> QED BY <1>0, <1>19, <2>1, <2>2 DEF HandleError
<1>20. CASE ClearSubmission(r)
  BY <1>0, <1>1, <1>20, GoodCleared, StoreGood DEF ClearSubmission
<1>21. CASE Requeue(r)
  <2>1. ~runs[r].submitted /\ posting[r].step # "requeueing"
    BY <1>0, <1>21 DEF Requeue, Good, Sync
  <2>2. CASE RetryAllowed(runs[r])
    BY <1>0, <1>1, <1>21, <2>1, <2>2, GoodRetried, StoreGood DEF Requeue
  <2>3. CASE ~RetryAllowed(runs[r])
    BY <1>0, <1>1, <1>21, <2>3, GoodWhenIdle, GotoGood DEF Requeue
  <2> QED BY <2>2, <2>3
<1>22. CASE BackoffEnds(r)
  <2>1. Good(runs[r], LoopHead(runs[r]), posting[r].step)
    BY <1>0, <1>2, <1>22, GoodHead, GoodWhenIdle DEF BackoffEnds, At
  <2> QED BY <1>1, <1>22, <2>1, GotoGood DEF BackoffEnds
<1> QED BY <1>3, <1>4, <1>5, <1>6, <1>7, <1>8, <1>9, <1>10, <1>11, <1>12, <1>13, <1>14,
           <1>15, <1>16, <1>17, <1>18, <1>19, <1>20, <1>21, <1>22
        DEF TaskStep, Reconciles, Attempts

-----------------------------------------------------------------------------
(* Requests, faults and the environment.                                   *)

(* A spawned task is queued unless one of the run is already at work.      *)
LEMMA SpawnGood ==
  ASSUME TypeOK, AllGood, NEW r \in Runs, NEW run,
         runs' = [runs EXCEPT ![r] = run], pc' = Spawned(r),
         NEW p, posting' = [posting EXCEPT ![r] = p],
         Good(run, "queued", p.step), Good(run, pc[r], p.step)
  PROVE  AllGood'
<1>1. CASE pc[r] = "none"
  <2>1. pc' = [pc EXCEPT ![r] = "queued"]
    BY <1>1 DEF Spawned, TypeOK
  <2> QED BY <2>1, OneRunStep
<1>2. CASE pc[r] # "none"
  <2>1. pc' = [pc EXCEPT ![r] = pc[r]]
    BY <1>2 DEF Spawned, TypeOK
  <2> QED BY <2>1, OneRunStep
<1> QED BY <1>1, <1>2

(* A record that is not resumable has no task at work on it.               *)
LEMMA IdleUnlessResumable ==
  ASSUME TypeOK, AllGood, Serving, NEW r \in Runs, runs[r].status \notin Resumable
  PROVE  pc[r] \in {"none", "queued"}
<1>1. pc[r] \in Location /\ pc[r] \notin Sync
  BY ServingIsQuiet DEF TypeOK
<1>2. pc[r] \notin Exclusive \ Sync
  BY DEF AllGood, Good
<1> QED BY <1>1, <1>2 DEF Location, Waiting

LEMMA ClientGood ==
  ASSUME TypeOK, AllGood, NEW r \in Runs, ClientStep(r)
  PROVE  AllGood'
<1>0. runs[r] \in Run /\ Good(runs[r], pc[r], posting[r].step)
  BY DEF TypeOK, AllGood
<1>00. SessionOf[r] \in Sessions /\ ArtifactTurns(SessionOf[r]) \in SUBSET Turn
  BY SessionOfAssumption, ArtifactTurnsType DEF TypeOK
<1> DEFINE Same == runs' = [runs EXCEPT ![r] = runs[r]] /\ pc' = [pc EXCEPT ![r] = pc[r]]
<1>1. ASSUME UNCHANGED <<runs, pc>> PROVE Same
  BY <1>1 DEF TypeOK
<1>2. CASE PostRun(r)
  <2> DEFINE p == [step |-> "reading", baseline |-> MessageCount(SessionOf[r])]
  <2>1. Good(runs[r], pc[r], p.step)
    BY <1>0 DEF Good
  <2>2. posting' = [posting EXCEPT ![r] = p]
    BY <1>2 DEF PostRun
  <2>3. UNCHANGED <<runs, pc>>
    BY <1>2 DEF PostRun
  <2> QED BY <1>1, <2>1, <2>2, <2>3, OneRunStep
<1>3. CASE CreateRun(r)
  <2>1. pc[r] \in {"none", "queued"}
    BY <1>3, IdleUnlessResumable DEF CreateRun, Resumable
  <2>2. posting[r].baseline \in Nat
    BY DEF TypeOK, Posting
  <2> DEFINE new == NewRun(posting[r].baseline, ArtifactTurns(SessionOf[r]))
  <2>3. NotPosting.step # "requeueing"
    BY DEF NotPosting
  <2>4. Good(new, "queued", NotPosting.step) /\ Good(new, pc[r], NotPosting.step)
    BY <1>00, <2>1, <2>2, <2>3, GoodNew
  <2>5. /\ runs' = [runs EXCEPT ![r] = new] /\ pc' = Spawned(r)
        /\ posting' = [posting EXCEPT ![r] = NotPosting]
    BY <1>3 DEF CreateRun, Store
  <2> HIDE DEF new
  <2> QED BY <2>4, <2>5, SpawnGood
<1>4. CASE RepostRun(r)
  <2>1. posting[r].step # "requeueing"
    BY <1>4, ServingIsQuiet DEF RepostRun
  <2>2. CASE runs[r].status \in Resumable
    <3>1. Good(runs[r], "queued", posting[r].step)
      BY <1>0, <2>1 DEF Good, Exclusive, Sync, Slotted
    <3>2. UNCHANGED <<runs, posting>> /\ pc' = Spawned(r)
      BY <1>4, <2>2 DEF RepostRun, Resumable
    <3>3. runs' = [runs EXCEPT ![r] = runs[r]] /\ posting' = [posting EXCEPT ![r] = posting[r]]
      BY <3>2 DEF TypeOK
    <3> QED BY <1>0, <2>1, <3>1, <3>2, <3>3, SpawnGood
  <2>3. CASE runs[r].status = "failed"
    <3>1. pc[r] \in {"none", "queued"}
      BY <1>4, <2>3, IdleUnlessResumable DEF RepostRun, Resumable
    <3>2. /\ SetSubmitted(runs[r], FALSE).status = "failed"
          /\ SetSubmitted(runs[r], FALSE).error = runs[r].error
          /\ SetSubmitted(runs[r], FALSE).submitted = FALSE
          /\ SetSubmitted(runs[r], FALSE).attempts = runs[r].attempts
          /\ SetSubmitted(runs[r], FALSE).epoch = runs[r].epoch
      BY <1>0, <2>3 DEF SetSubmitted, Run
    <3>3. MayRetry(runs[r].error)
      BY <1>4, <2>3 DEF RepostRun, Resumable
    <3>4. RetryAttempts(SetSubmitted(runs[r], FALSE)) = RetryAttempts(runs[r])
      BY <3>2 DEF RetryAttempts
    <3>5. Good(SetSubmitted(runs[r], FALSE), pc[r], "requeueing")
      BY <1>0, <3>1, <3>2, <3>3, <3>4 DEF Good, Exclusive, Sync, Slotted
    <3>6. posting' = [posting EXCEPT ![r] = [step |-> "requeueing", baseline |-> posting[r].baseline]]
      BY <1>4, <2>3 DEF RepostRun, Resumable, TypeOK, Posting
    <3>7. runs' = [runs EXCEPT ![r] = SetSubmitted(runs[r], FALSE)] /\ UNCHANGED pc
      BY <1>4, <2>3 DEF RepostRun, Resumable, Store
    <3>8. pc' = [pc EXCEPT ![r] = pc[r]]
      BY <3>7 DEF TypeOK
    <3> DEFINE p == [step |-> "requeueing", baseline |-> posting[r].baseline]
    <3>9. p.step = "requeueing"
      OBVIOUS
    <3> QED BY <3>5, <3>6, <3>7, <3>8, <3>9, OneRunStep
  <2> QED BY <1>4, <2>2, <2>3 DEF RepostRun
<1>5. CASE RequeueByClient(r)
  <2>1. posting[r].step = "requeueing" /\ ~runs[r].submitted /\ pc[r] \notin Sync
    BY <1>0, <1>5 DEF RequeueByClient, Requeueing, Good
  <2>2. runs[r].status = "failed"
    BY <1>0, <2>1 DEF Good
  <2>3. pc[r] \in {"none", "queued"}
    BY <1>0, <2>1, <2>2 DEF Good, TypeOK, Location, Waiting, Resumable
  <2>4. posting' = [posting EXCEPT ![r] = NotPosting]
    BY <1>5 DEF RequeueByClient
  <2>5. CASE RetryAllowed(runs[r])
    <3>0. NotPosting.step # "requeueing"
      BY DEF NotPosting
    <3>1. /\ Good(Retry(runs[r]), "queued", NotPosting.step)
          /\ Good(Retry(runs[r]), pc[r], NotPosting.step)
      BY <1>0, <2>1, <2>3, <2>5, <3>0, GoodRetried
    <3>2. runs' = [runs EXCEPT ![r] = Retry(runs[r])] /\ pc' = Spawned(r)
      BY <1>5, <2>5 DEF RequeueByClient, Store
    <3> QED BY <2>4, <3>1, <3>2, SpawnGood
  <2>6. CASE ~RetryAllowed(runs[r])
    <3>1. Good(runs[r], pc[r], NotPosting.step)
      BY <1>0, <2>3 DEF Good, Sync, NotPosting
    <3>2. Same
      BY <1>1, <1>5, <2>6 DEF RequeueByClient
    <3> QED BY <2>4, <3>1, <3>2, OneRunStep
  <2> QED BY <2>5, <2>6
<1>6. CASE \E q \in Requests : PostAnswer(q, r)
  BY <1>6 DEF PostAnswer, AllGood
<1>7. CASE ReplayAnswer(r)
  <2>1. posting[r].step # "requeueing"
    BY <1>7, ServingIsQuiet DEF ReplayAnswer
  <2>2. Good(runs[r], "queued", posting[r].step)
    BY <1>0, <2>1 DEF Good, Exclusive, Sync, Slotted
  <2>3. UNCHANGED <<runs, posting>> /\ pc' = Spawned(r)
    BY <1>7 DEF ReplayAnswer, offTask
  <2>4. runs' = [runs EXCEPT ![r] = runs[r]] /\ posting' = [posting EXCEPT ![r] = posting[r]]
    BY <2>3 DEF TypeOK
  <2> QED BY <1>0, <2>1, <2>2, <2>3, <2>4, SpawnGood
<1> QED BY <1>2, <1>3, <1>4, <1>5, <1>6, <1>7 DEF ClientStep

LEMMA AnswerGood ==
  ASSUME TypeOK, AllGood, NEW q \in Requests, ReadForAnswer(q) \/ AcceptAnswer(q)
  PROVE  AllGood'
<1> DEFINE r == answering[q].run
<1>0. /\ r \in Runs /\ SessionOf[r] \in Sessions /\ answering[q].baseline \in Nat
  <2>1. answering[q] \in Answering /\ answering[q] # NotAnswering
    BY DEF TypeOK, ReadForAnswer, AcceptAnswer, NotAnswering
  <2> QED BY <2>1, SessionOfAssumption DEF Answering
<1>1. CASE ReadForAnswer(q)
  BY <1>1 DEF ReadForAnswer, AllGood
<1>2. CASE AcceptAnswer(q)
  <2>1. /\ posting[r].step # "requeueing" /\ UNCHANGED posting
        /\ posting' = [posting EXCEPT ![r] = posting[r]]
    BY <1>0, <1>2, ServingIsQuiet DEF AcceptAnswer, TypeOK
  <2>2. runs[r] \in Run /\ Good(runs[r], pc[r], posting[r].step)
    BY <1>0 DEF TypeOK, AllGood
  <2>3. CASE UNCHANGED <<runs, pc>>
    BY <2>1, <2>3 DEF AllGood
  <2>4. CASE UNCHANGED runs /\ pc' = Spawned(r)
    <3>1. Good(runs[r], "queued", posting[r].step)
      BY <2>1, <2>2 DEF Good, Exclusive, Sync, Slotted
    <3>2. runs' = [runs EXCEPT ![r] = runs[r]]
      BY <2>4 DEF TypeOK
    <3> QED BY <1>0, <2>1, <2>2, <2>4, <3>1, <3>2, SpawnGood
  <2>5. CASE /\ runs[r].status = "waiting_input"
             /\ Store(r, ResumeWithInput(runs[r], KeyOf[q], answering[q].baseline,
                                         ArtifactTurns(SessionOf[r])))
             /\ pc' = Spawned(r)
    <3>1. pc[r] \in {"none", "queued"}
      BY <1>0, <1>2, <2>5, IdleUnlessResumable DEF AcceptAnswer, Resumable
    <3>2. ArtifactTurns(SessionOf[r]) \in SUBSET Turn /\ KeyOf[q] \in Keys
      BY <1>0, ArtifactTurnsType, KeyOfAssumption DEF TypeOK
    <3> DEFINE new == ResumeWithInput(runs[r], KeyOf[q], answering[q].baseline,
                                      ArtifactTurns(SessionOf[r]))
    <3>3. Good(new, "queued", posting[r].step) /\ Good(new, pc[r], posting[r].step)
      BY <1>0, <2>1, <2>2, <3>1, <3>2, GoodResumed
    <3>4. runs' = [runs EXCEPT ![r] = new] /\ pc' = Spawned(r)
      BY <2>5 DEF Store
    <3> HIDE DEF new
    <3> QED BY <1>0, <2>1, <3>3, <3>4, SpawnGood
  <2> QED BY <1>2, <2>3, <2>4, <2>5 DEF AcceptAnswer
<1> QED BY <1>1, <1>2

LEMMA FaultGood ==
  ASSUME TypeOK, AllGood, Crash \/ Restart \/ \E r \in Runs : StoreFails(r) \/ StoreFailsForClient(r)
  PROVE  AllGood'
<1>1. CASE Crash
  <2>1. \A r \in Runs : Good(runs[r], "none", "idle")
    BY DEF AllGood, Good, Exclusive, Slotted, Sync
  <2> QED BY <1>1, <2>1 DEF Crash, AllGood, NotPosting
<1>2. CASE Restart
  <2>1. pc' = [r \in Runs |-> IF r \in ListResumable(runs) THEN "queued" ELSE "none"]
    BY <1>2 DEF Restart
  <2>2. UNCHANGED <<runs, posting>>
    BY <1>2 DEF Restart
  <2>3. ASSUME NEW r \in Runs
        PROVE  Good(runs[r], pc'[r], posting[r].step)
    <3>1. pc'[r] \in {"none", "queued"}
      BY <2>1
    <3> QED BY <3>1 DEF AllGood, Good, Exclusive, Slotted, Sync
  <2> QED BY <2>2, <2>3 DEF AllGood
<1>3. ASSUME NEW r \in Runs, StoreFails(r)
      PROVE  AllGood'
  <2>1. CASE pc[r] \in {"slot", "open", "result"} /\ Raise(r, Internal)
    BY <1>3, <2>1, RaiseGood DEF StoreFails, Exclusive, Slotted, Sync
  <2>2. CASE Goto(r, "none")
    <3>1. Good(runs[r], "none", posting[r].step)
      BY GoodWhenIdle DEF AllGood
    <3> QED BY <1>3, <2>2, <3>1, GotoGood DEF StoreFails
  <2> QED BY <1>3, <2>1, <2>2 DEF StoreFails
<1>4. ASSUME NEW r \in Runs, StoreFailsForClient(r)
      PROVE  AllGood'
  <2>1. Good(runs[r], pc[r], "idle")
    BY DEF AllGood, Good
  <2>2. posting' = [posting EXCEPT ![r] = NotPosting] /\ NotPosting.step = "idle"
    BY <1>4 DEF StoreFailsForClient, NotPosting
  <2>3. runs' = [runs EXCEPT ![r] = runs[r]] /\ pc' = [pc EXCEPT ![r] = pc[r]]
    BY <1>4 DEF StoreFailsForClient, TypeOK
  <2> QED BY <2>1, <2>2, <2>3, OneRunStep
<1> QED BY <1>1, <1>2, <1>3, <1>4

LEMMA NextGood ==
  ASSUME TypeOK, AllGood, [Next]_vars
  PROVE  AllGood'
<1>1. CASE UNCHANGED vars
  BY <1>1 DEF vars, offTask, AllGood
<1>2. ASSUME NEW s \in Sessions, ChatStep(s) \/ HermesStep(s)
      PROVE  AllGood'
  BY <1>2 DEF ChatStep, HermesStep, ChatStarts, ChatPosts, ChatEnds, HermesWorks, HermesEnds,
              HermesDrops, CloseSession, service, AllGood
<1> QED BY <1>1, <1>2, TaskGood, ClientGood, AnswerGood, FaultGood DEF Next

LEMMA AlwaysGood == Spec => []AllGood
<1>1. Init => AllGood
  <2>1. Good(Absent, "none", "idle")
    BY MaxAttemptsAssumption DEF Good, Absent, NewRun, RetryAttempts, Exclusive, Slotted, Sync
  <2> QED BY <2>1 DEF Init, AllGood, NotPosting
<1>2. TypeOK /\ AllGood /\ [Next]_vars => AllGood'
  BY NextGood
<1> QED BY <1>1, <1>2, TypeCorrect, PTL DEF Spec

(* The attempts of a leg stay within the limit and a pending run always    *)
(* has one left, however retries, crashes, refused writes, answers and     *)
(* repeated requests interleave.                                           *)
THEOREM AttemptBudgetHolds == Spec => []AttemptBudget
BY AlwaysGood, AllGoodSays, PTL

(* No pending run is ever marked as submitted, between whichever two       *)
(* durable writes the service stops.                                       *)
THEOREM PendingNotSubmittedHolds == Spec => []PendingNotSubmitted
BY AlwaysGood, AllGoodSays, PTL

(* A task finds the record it works on in the state it expects: no         *)
(* transition of the store is ever refused to the executor.                *)
THEOREM WorkerOwnsRunHolds == Spec => []WorkerOwnsRun
BY AlwaysGood, AllGoodSays, PTL

(* A record between the writes of a retry is failed and may be retried.    *)
THEOREM RetriesAreCleanHolds == Spec => []RetriesAreClean
BY AlwaysGood, AllGoodSays, PTL

-----------------------------------------------------------------------------
(* Which records a step may change: those a task works on, those that may  *)
(* be retried, those not there yet, and by an answer those that wait.      *)

Open(run) ==
  \/ run.status \in Resumable \cup {"absent"}
  \/ run.status = "failed" /\ MayRetry(run.error)

Answers(run, next) ==
  /\ run.status = "waiting_input"
  /\ \E k, baseline, artifacts :
       ~HasReceipt(run, k) /\ next = ResumeWithInput(run, k, baseline, artifacts)

Allowed(run, next) == next = run \/ Open(run) \/ Answers(run, next)

LEMMA OneRecord ==
  ASSUME TypeOK, NEW t \in Runs, NEW run, runs' = [runs EXCEPT ![t] = run], Allowed(runs[t], run)
  PROVE  \A r \in Runs : Allowed(runs[r], runs'[r])
BY DEF TypeOK, Allowed

LEMMA StoreOpen ==
  ASSUME TypeOK, NEW t \in Runs, Open(runs[t]), UNCHANGED runs \/ \E run : Store(t, run)
  PROVE  \A r \in Runs : Allowed(runs[r], runs'[r])
<1>1. CASE UNCHANGED runs BY <1>1 DEF Allowed
<1>2. CASE \E run : Store(t, run) BY <1>2, OneRecord DEF Store, Allowed
<1> QED BY <1>1, <1>2

LEMMA TaskAllowed ==
  ASSUME TypeOK, AllGood, NEW t \in Runs, TaskStep(t)
  PROVE  \A r \in Runs : Allowed(runs[r], runs'[r])
<1>1. Good(runs[t], pc[t], posting[t].step) BY DEF AllGood
<1>2. UNCHANGED runs \/ \E run : Store(t, run)
  <2>1. CASE StartRun(t) \/ SessionBusy(t) BY <2>1 DEF StartRun, SessionBusy, Fail
  <2>2. CASE ReconcileReadFails(t) \/ Reconciles(t)
    BY <2>2 DEF ReconcileReadFails, Reconciles, ReconcileRecovers, ReconcileGivesUp,
                ReconcileContinues, Fail, FailOrRetry
  <2>3. CASE Attempts(t)
    BY <2>3 DEF Attempts, ClaimRun, ReadSession, ReadSessionFails, MarkSubmission, SubmitFails,
                SubmitAccepted, StreamCompletes, StreamBreaks, PersistResult, ResultReadFails
  <2>4. CASE HandleError(t) BY <2>4 DEF HandleError, FailOrRetry
  <2>5. CASE ClearSubmission(t) \/ Requeue(t) \/ BackoffEnds(t)
    BY <2>5 DEF ClearSubmission, Requeue, BackoffEnds
  <2> QED BY <2>1, <2>2, <2>3, <2>4, <2>5 DEF TaskStep
<1>3. CASE Open(runs[t]) BY <1>2, <1>3, StoreOpen
<1>4. CASE ~Open(runs[t])
  <2>1. pc[t] \notin Exclusive BY <1>1, <1>4 DEF Good, Open
  <2>2. StartRun(t) \/ SessionBusy(t)
    BY <2>1 DEF TaskStep, ReconcileReadFails, Reconciles, ReconcileRecovers, ReconcileGivesUp,
                ReconcileContinues, Attempts, ClaimRun, ReadSession, ReadSessionFails,
                MarkSubmission, SubmitFails, SubmitAccepted, StreamCompletes, StreamBreaks,
                PersistResult, ResultReadFails, HandleError, ClearSubmission, Requeue,
                BackoffEnds, At, Exclusive, Slotted, Sync
  <2>3. runs' = runs BY <1>4, <2>2 DEF StartRun, SessionBusy, Open
  <2> QED BY <2>3 DEF Allowed
<1> QED BY <1>3, <1>4

LEMMA ClientAllowed ==
  ASSUME TypeOK, AllGood, NEW t \in Runs, ClientStep(t)
  PROVE  \A r \in Runs : Allowed(runs[r], runs'[r])
<1>1. Good(runs[t], pc[t], posting[t].step) BY DEF AllGood
<1>2. CASE UNCHANGED runs BY <1>2 DEF Allowed
<1>3. CASE CreateRun(t) BY <1>3, StoreOpen DEF CreateRun, Open
<1>4. CASE RepostRun(t) /\ runs' # runs
  BY <1>4, StoreOpen DEF RepostRun, Open
<1>5. CASE RequeueByClient(t)
  <2>1. Open(runs[t]) BY <1>1, <1>5 DEF RequeueByClient, Requeueing, Good, Open
  <2> QED BY <1>5, <2>1, StoreOpen DEF RequeueByClient
<1> QED BY <1>2, <1>3, <1>4, <1>5
        DEF ClientStep, PostRun, PostAnswer, ReplayAnswer

LEMMA NextAllowed ==
  ASSUME TypeOK, AllGood, [Next]_vars
  PROVE  \A r \in Runs : Allowed(runs[r], runs'[r])
<1>1. CASE UNCHANGED runs BY <1>1 DEF Allowed
<1>2. ASSUME NEW q \in Requests, AcceptAnswer(q), runs' # runs
      PROVE  \A r \in Runs : Allowed(runs[r], runs'[r])
  <2> DEFINE t == answering[q].run
             next == ResumeWithInput(runs[t], KeyOf[q], answering[q].baseline,
                                     ArtifactTurns(SessionOf[t]))
  <2>1. t \in Runs BY <1>2 DEF AcceptAnswer, TypeOK, Answering, NotAnswering
  <2>2. /\ ~HasReceipt(runs[t], KeyOf[q]) /\ runs[t].status = "waiting_input"
        /\ runs' = [runs EXCEPT ![t] = next]
    BY <1>2 DEF AcceptAnswer, Store
  <2>3. Answers(runs[t], next) BY <2>2 DEF Answers
  <2> HIDE DEF t, next
  <2> QED BY <2>1, <2>2, <2>3, OneRecord DEF Allowed
<1>3. ASSUME NEW s \in Sessions, ChatStep(s) \/ HermesStep(s) PROVE UNCHANGED runs
  BY <1>3 DEF ChatStep, HermesStep, ChatStarts, ChatPosts, ChatEnds, HermesWorks, HermesEnds,
              HermesDrops, CloseSession, service
<1>4. ASSUME NEW t \in Runs, StoreFails(t) \/ StoreFailsForClient(t) PROVE UNCHANGED runs
  BY <1>4 DEF StoreFails, StoreFailsForClient
<1>5. ASSUME NEW q \in Requests, ReadForAnswer(q) PROVE UNCHANGED runs
  BY <1>5 DEF ReadForAnswer
<1>6. CASE Crash \/ Restart \/ UNCHANGED vars BY <1>1, <1>6 DEF Crash, Restart, vars
<1> QED BY <1>1, <1>2, <1>3, <1>4, <1>5, <1>6, TaskAllowed, ClientAllowed DEF Next

(* A reported result is never withdrawn and a failure whose outcome is     *)
(* unknown is never retried, by whichever task, request or restart.        *)
THEOREM TerminalIsFinalHolds == Spec => TerminalIsFinal
<1>1. TypeOK /\ AllGood /\ [Next]_vars =>
        [\A r \in Runs : Decided(runs[r]) => runs'[r] = runs[r]]_vars
  <2>1. ASSUME NEW r \in Runs, Decided(runs[r]), Allowed(runs[r], runs'[r])
        PROVE  runs'[r] = runs[r]
    BY <2>1 DEF Decided, Allowed, Open, Answers, Resumable, MayRetry
  <2> QED BY <2>1, NextAllowed
<1> QED BY <1>1, TypeCorrect, AlwaysGood, PTL DEF Spec, TerminalIsFinal

(* Only an accepted answer to its own question moves a run that waits for  *)
(* its user.                                                               *)
THEOREM WaitingIsDormantHolds == Spec => WaitingIsDormant
<1> DEFINE Dormant(run, next) ==
      run.status = "waiting_input" /\ next # run =>
        /\ next.status = "pending"
        /\ \E receipt \in next.receipts \ run.receipts : receipt.clarification = run.clarification
<1>1. ASSUME NEW run \in Run, NEW next, Allowed(run, next) PROVE Dormant(run, next)
  <2> SUFFICES ASSUME run.status = "waiting_input", next # run
               PROVE  /\ next.status = "pending"
                      /\ \E receipt \in next.receipts \ run.receipts :
                           receipt.clarification = run.clarification
    OBVIOUS
  <2>1. Answers(run, next) BY <1>1 DEF Allowed, Open, Resumable
  <2>2. PICK k, baseline, artifacts :
               ~HasReceipt(run, k) /\ next = ResumeWithInput(run, k, baseline, artifacts)
    BY <2>1 DEF Answers
  <2> DEFINE receipt == [key |-> k, clarification |-> run.clarification]
  <2>3. next.status = "pending" /\ next.receipts = run.receipts \cup {receipt}
    BY <2>2 DEF ResumeWithInput, Run
  <2>4. receipt \notin run.receipts BY <2>2 DEF HasReceipt
  <2> QED BY <2>3, <2>4
<1>2. TypeOK /\ AllGood /\ [Next]_vars => [\A r \in Runs : Dormant(runs[r], runs'[r])]_vars
  BY <1>1, NextAllowed DEF TypeOK
<1> QED BY <1>2, TypeCorrect, AlwaysGood, PTL DEF Spec, WaitingIsDormant

-----------------------------------------------------------------------------
(* At most one execution per leg.                                          *)
(*                                                                         *)
(* The invariant is that once Hermes accepted a turn of the current leg    *)
(* the record says so, whatever interrupts the service: every path to a    *)
(* second POST goes through a record that says none was accepted.          *)
(*                                                                         *)
(* It holds as long as no interactive chat claims the session of a run     *)
(* that is under way: the busy session error marks a submitted run as safe *)
(* to retry, and the run RepeatedExecution shows what follows.  Here no    *)
(* chat claimed any session; AgentRunsLegs shows that clients which use a  *)
(* session for one thing at a time are safe as well.                       *)

Spent(run, acc) == \E n \in acc : n > run.epoch

Recorded(run, location, err) ==
  \/ /\ run.status = "running" /\ run.submitted
     /\ location \in {"none", "queued", "reconcile", "stream", "result", "except"}
     /\ location = "except" => ~MayRetry(err)
  \/ run.status \in {"waiting_input", "succeeded"}
  \/ run.status = "failed" /\ ~MayRetry(run.error)

Once(run, location, err, acc) ==
  /\ run.status = "absent" => run.attempts = 0 /\ acc = {}
  /\ location \in {"submit", "stream", "result"} => run.submitted
  /\ \A n \in acc : n <= run.attempts
  /\ \A m, n \in acc : m > run.epoch /\ n > run.epoch => m = n
  /\ Spent(run, acc) => Recorded(run, location, err)

AllOnce  == \A r \in Runs : Once(runs[r], pc[r], exc[r], accepted[r])
NoChats  == \A s \in Sessions : chat[s] = "idle"
OnceUnlessChats == budget.chats = 0 => NoChats /\ AllOnce

(* What the steps need of the chats: none has claimed the session of a run *)
(* that is not settled.                                                    *)
ChatsApart == \A r \in Runs : runs[r].status \in Resumable => chat[SessionOf[r]] = "idle"

LEMMA OnceSays == AllOnce => AtMostOncePerLeg /\ ExecutionIsRecorded
BY DEF AllOnce, Once, Spent, Recorded, AtMostOncePerLeg, ExecutionIsRecorded, Executed

-----------------------------------------------------------------------------
(* Steps of one run.                                                       *)

LEMMA Alone ==
  ASSUME TypeOK, NEW r \in Runs
  PROVE  /\ runs = [runs EXCEPT ![r] = runs[r]]
         /\ pc = [pc EXCEPT ![r] = pc[r]]
         /\ exc = [exc EXCEPT ![r] = exc[r]]
         /\ accepted = [accepted EXCEPT ![r] = accepted[r]]
BY DEF TypeOK

LEMMA OthersOnce ==
  ASSUME AllOnce, NEW r \in Runs,
         \A other \in Runs \ {r} : /\ runs'[other] = runs[other] /\ pc'[other] = pc[other]
                                   /\ exc'[other] = exc[other]
                                   /\ accepted'[other] = accepted[other],
         Once(runs'[r], pc'[r], exc'[r], accepted'[r])
  PROVE  AllOnce'
<1>1. ASSUME NEW other \in Runs
      PROVE  Once(runs'[other], pc'[other], exc'[other], accepted'[other])
  <2>1. CASE other = r
    BY <2>1
  <2>2. CASE other # r
    BY <2>2 DEF AllOnce
  <2> QED BY <2>1, <2>2
<1> QED BY <1>1 DEF AllOnce

LEMMA OneRunOnce ==
  ASSUME TypeOK, AllOnce, NEW r \in Runs, NEW run, NEW location, NEW err, NEW acc,
         runs' = [runs EXCEPT ![r] = run], pc' = [pc EXCEPT ![r] = location],
         exc' = [exc EXCEPT ![r] = err], accepted' = [accepted EXCEPT ![r] = acc],
         Once(run, location, err, acc)
  PROVE  AllOnce'
<1>1. \A other \in Runs : /\ runs'[other] = IF other = r THEN run ELSE runs[other]
                          /\ pc'[other] = IF other = r THEN location ELSE pc[other]
                          /\ exc'[other] = IF other = r THEN err ELSE exc[other]
                          /\ accepted'[other] = IF other = r THEN acc ELSE accepted[other]
  BY DEF TypeOK
<1>2. \A other \in Runs : Once(runs'[other], pc'[other], exc'[other], accepted'[other])
  BY <1>1 DEF AllOnce
<1> QED BY <1>2 DEF AllOnce

(* A write that starts no leg and forgets no attempt needs only to keep    *)
(* what the record says of an accepted turn.                               *)
LEMMA OnceKept ==
  ASSUME NEW run \in Run, NEW location, NEW err, NEW acc \in SUBSET Nat,
         Once(run, location, err, acc),
         NEW next \in Run, NEW there, NEW error,
         next.status # "absent", next.epoch = run.epoch, next.attempts >= run.attempts,
         there \in {"submit", "stream", "result"} => next.submitted,
         Spent(run, acc) => Recorded(next, there, error)
  PROVE  Once(next, there, error, acc)
<1>1. \A n \in acc : n <= next.attempts
  BY DEF Once, Run
<1> QED BY <1>1 DEF Once, Spent

(* A location alone: where no accepted turn has to be accounted for, or    *)
(* where the record accounts for it.                                       *)
LEMMA OnceMoved ==
  ASSUME NEW run, NEW location, NEW err, NEW acc,
         Once(run, location, err, acc), NEW there, NEW error,
         there \in {"submit", "stream", "result"} => run.submitted,
         Spent(run, acc) => Recorded(run, there, error)
  PROVE  Once(run, there, error, acc)
BY DEF Once, Spent

LEMMA OnceFailed ==
  ASSUME NEW run \in Run, NEW location, NEW err, NEW acc \in SUBSET Nat,
         Once(run, location, err, acc), run.status \in Resumable,
         NEW final \in Error, Spent(run, acc) => ~MayRetry(final),
         NEW there, there \in {"none", "clearing"}, NEW error
  PROVE  Once(MarkFailed(run, final), there, error, acc)
<1>1. /\ MarkFailed(run, final).status = "failed"
      /\ MarkFailed(run, final).error = final
      /\ MarkFailed(run, final).attempts = run.attempts
      /\ MarkFailed(run, final).epoch = run.epoch
  BY DEF MarkFailed, Run, Resumable
<1>2. run.attempts \in Nat
  BY DEF Run
<1>3. Spent(run, acc) => Recorded(MarkFailed(run, final), there, error)
  BY <1>1 DEF Recorded
<1> QED BY <1>1, <1>2, <1>3, MarkFailedType, OnceKept

LEMMA OnceOutcome ==
  ASSUME NEW run \in Run, NEW location, NEW err, NEW acc \in SUBSET Nat,
         Once(run, location, err, acc), NEW outcome \in Outcome, NEW error
  PROVE  Once(PersistOutcome(run, outcome), "none", error, acc)
<1>1. /\ PersistOutcome(run, outcome).status \in {"waiting_input", "succeeded"}
      /\ PersistOutcome(run, outcome).attempts = run.attempts
      /\ PersistOutcome(run, outcome).epoch = run.epoch
  BY DEF PersistOutcome, MarkSucceeded, MarkWaitingInput, Run
<1>2. run.attempts \in Nat
  BY DEF Run
<1>3. Recorded(PersistOutcome(run, outcome), "none", error)
  BY <1>1 DEF Recorded
<1> QED BY <1>1, <1>2, <1>3, PersistOutcomeType, OnceKept

(* A turn was accepted only where Recorded allows it.                      *)
LEMMA Unspent ==
  ASSUME NEW run, NEW location, NEW err, NEW acc, Once(run, location, err, acc),
         \/ run.status = "pending"
         \/ run.status = "running" /\ ~run.submitted
         \/ /\ run.status \in Resumable
            /\ location \in {"slot", "prepare", "open", "submit", "backoff"}
         \/ run.status = "failed" /\ MayRetry(run.error)
  PROVE  ~Spent(run, acc)
BY DEF Once, Recorded, Resumable

-----------------------------------------------------------------------------
(* The steps of a task.                                                    *)

LEMMA GotoOnce ==
  ASSUME TypeOK, AllOnce, NEW r \in Runs, NEW location, Goto(r, location),
         UNCHANGED <<runs, exc, accepted>>,
         location \in {"submit", "stream", "result"} => runs[r].submitted,
         Spent(runs[r], accepted[r]) => Recorded(runs[r], location, exc[r])
  PROVE  AllOnce'
<1>1. Once(runs[r], pc[r], exc[r], accepted[r])
  BY DEF AllOnce
<1>2. Once(runs[r], location, exc[r], accepted[r])
  BY <1>1, OnceMoved
<1>3. /\ runs'[r] = runs[r] /\ pc'[r] = location /\ exc'[r] = exc[r]
      /\ accepted'[r] = accepted[r]
      /\ \A other \in Runs \ {r} : pc'[other] = pc[other]
  BY DEF Goto, TypeOK
<1> QED BY <1>2, <1>3, OthersOnce

LEMMA StoreOnce ==
  ASSUME TypeOK, AllOnce, NEW r \in Runs, NEW run, NEW location, Store(r, run),
         Goto(r, location), UNCHANGED <<exc, accepted>>,
         Once(run, location, exc[r], accepted[r])
  PROVE  AllOnce'
<1>1. /\ runs'[r] = run /\ pc'[r] = location /\ exc'[r] = exc[r]
      /\ accepted'[r] = accepted[r]
      /\ \A other \in Runs \ {r} : runs'[other] = runs[other] /\ pc'[other] = pc[other]
  BY DEF Store, Goto, TypeOK
<1> QED BY <1>1, OthersOnce

LEMMA RaiseOnce ==
  ASSUME TypeOK, AllOnce, NEW r \in Runs, NEW err, Raise(r, err), UNCHANGED <<runs, accepted>>,
         Spent(runs[r], accepted[r]) => Recorded(runs[r], "except", err)
  PROVE  AllOnce'
<1>1. Once(runs[r], pc[r], exc[r], accepted[r])
  BY DEF AllOnce
<1>2. Once(runs[r], "except", err, accepted[r])
  BY <1>1, OnceMoved
<1>3. runs' = [runs EXCEPT ![r] = runs[r]] /\ accepted' = [accepted EXCEPT ![r] = accepted[r]]
  BY Alone
<1> QED BY <1>2, <1>3, OneRunOnce DEF Raise, Goto

LEMMA FailOnce ==
  ASSUME TypeOK, AllOnce, NEW r \in Runs, NEW err \in Error, Fail(r, err),
         UNCHANGED <<exc, accepted>>, runs[r].status \in Resumable,
         Spent(runs[r], accepted[r]) => ~MayRetry(err)
  PROVE  AllOnce'
<1>1. /\ runs[r] \in Run /\ accepted[r] \in SUBSET Nat
      /\ Once(runs[r], pc[r], exc[r], accepted[r])
  BY DEF TypeOK, AllOnce
<1>2. Once(MarkFailed(runs[r], err), "none", exc[r], accepted[r])
  BY <1>1, OnceFailed
<1> QED BY <1>2, StoreOnce DEF Fail

LEMMA FailOrRetryOnce ==
  ASSUME TypeOK, AllOnce, NEW r \in Runs, NEW err \in Error, FailOrRetry(r, err),
         NEW error, exc' = [exc EXCEPT ![r] = error], UNCHANGED accepted,
         runs[r].status \in Resumable, Spent(runs[r], accepted[r]) => ~MayRetry(err)
  PROVE  AllOnce'
<1>1. /\ runs[r] \in Run /\ accepted[r] \in SUBSET Nat
      /\ Once(runs[r], pc[r], exc[r], accepted[r])
  BY DEF TypeOK, AllOnce
<1>2. PICK final \in Error : /\ final = err \/ final = Rejected
                             /\ Store(r, MarkFailed(runs[r], final))
                             /\ Goto(r, IF MayRetry(final) THEN "clearing" ELSE "none")
  BY ErrorsType DEF FailOrRetry
<1>3. Spent(runs[r], accepted[r]) => ~MayRetry(final)
  BY <1>2 DEF MayRetry, Rejected
<1> DEFINE there == IF MayRetry(final) THEN "clearing" ELSE "none"
<1>4. there \in {"none", "clearing"}
  OBVIOUS
<1> HIDE DEF there
<1>5. Once(MarkFailed(runs[r], final), there, error, accepted[r])
  BY <1>1, <1>3, <1>4, OnceFailed
<1>6. /\ runs' = [runs EXCEPT ![r] = MarkFailed(runs[r], final)]
      /\ pc' = [pc EXCEPT ![r] = there]
  BY <1>2 DEF Store, Goto, there
<1> QED BY <1>5, <1>6, Alone, OneRunOnce

LEMMA TaskOnce ==
  ASSUME TypeOK, AllGood, ChatsApart, AllOnce, NEW r \in Runs, TaskStep(r)
  PROVE  AllOnce'
<1> USE ErrorsType
<1>0. /\ runs[r] \in Run /\ exc[r] \in Error /\ accepted[r] \in SUBSET Nat
      /\ Good(runs[r], pc[r], posting[r].step)
      /\ Once(runs[r], pc[r], exc[r], accepted[r])
      /\ SessionOf[r] \in Sessions
  BY SessionOfAssumption DEF TypeOK, AllGood, AllOnce
<1>1. pc[r] \in Exclusive \ Sync => runs[r].status \in Resumable
  BY <1>0 DEF Good
<1> DEFINE spent == Spent(runs[r], accepted[r])
<1>2. spent => Recorded(runs[r], pc[r], exc[r])
  BY <1>0 DEF Once
<1> HIDE DEF spent
<1>3. CASE StartRun(r)
  <2>1. LoopHead(runs[r]) \in {"none", "reconcile", "slot"} /\ pc[r] = "queued"
    BY <1>3, LoopHeadType DEF StartRun, At
  <2>2. Recorded(runs[r], pc[r], exc[r]) => Recorded(runs[r], LoopHead(runs[r]), exc[r])
    BY <2>1 DEF Recorded, LoopHead
  <2> QED BY <1>2, <1>3, <2>1, <2>2, GotoOnce DEF StartRun, offTask, spent
<1>4. CASE SessionBusy(r)
  <2>1. runs[r].status \notin Resumable BY <1>4 DEF SessionBusy, ChatsApart
  <2>2. Goto(r, "none") /\ UNCHANGED <<runs, exc, accepted>>
    BY <1>4, <2>1 DEF SessionBusy, offTask
  <2>3. spent => Recorded(runs[r], "none", exc[r]) BY <1>2, <2>1 DEF Recorded, Resumable
  <2> QED BY <2>2, <2>3, GotoOnce DEF spent
<1>5. CASE ReconcileReadFails(r)
  <2>1. PICK err \in ReadErrors : FailOrRetry(r, IF runs[r].submitted THEN Internal ELSE err)
    BY <1>5 DEF ReconcileReadFails
  <2>2. pc[r] = "reconcile" /\ runs[r].status \in Resumable
    BY <1>1, <1>5 DEF ReconcileReadFails, At, Exclusive, Sync
  <2>3. CASE runs[r].submitted
    <3>1. FailOrRetry(r, Internal)
      BY <2>1, <2>3
    <3>2. exc' = [exc EXCEPT ![r] = exc[r]] /\ UNCHANGED accepted
      BY <1>5, Alone DEF ReconcileReadFails, offTask
    <3>3. ~MayRetry(Internal)
      BY DEF MayRetry, Internal
    <3> QED BY <2>2, <3>1, <3>2, <3>3, FailOrRetryOnce
  <2>4. CASE ~runs[r].submitted
    <3>1. FailOrRetry(r, err) /\ err \in Error
      BY <2>1, <2>4
    <3>2. exc' = [exc EXCEPT ![r] = exc[r]] /\ UNCHANGED accepted
      BY <1>5, Alone DEF ReconcileReadFails, offTask
    <3>3. ~Spent(runs[r], accepted[r])
      BY <1>0, <2>2, <2>4, Unspent DEF Resumable
    <3> QED BY <2>2, <3>1, <3>2, <3>3, FailOrRetryOnce
  <2> QED BY <2>3, <2>4
<1>6. CASE ReconcileRecovers(r)
  <2>1. PICK outcome \in Recovered(r) : Store(r, PersistOutcome(runs[r], outcome))
    BY <1>6 DEF ReconcileRecovers
  <2>2. Once(PersistOutcome(runs[r], outcome), "none", exc[r], accepted[r])
    BY <1>0, RecoveredType, OnceOutcome
  <2> QED BY <1>6, <2>1, <2>2, StoreOnce DEF ReconcileRecovers, offTask
<1>7. CASE ReconcileGivesUp(r)
  <2>1. runs[r].status \in Resumable
    BY <1>1, <1>7 DEF ReconcileGivesUp, At, Exclusive, Sync
  <2>2. PICK err \in {Internal, Rejected} : Fail(r, err)
    BY <1>7 DEF ReconcileGivesUp
  <2>3. err \in Error /\ ~MayRetry(err)
    <3>1. ~MayRetry(Internal) /\ ~MayRetry(Rejected)
      BY DEF MayRetry, Internal, Rejected
    <3> QED BY <3>1
  <2> QED BY <1>7, <2>1, <2>2, <2>3, FailOnce DEF ReconcileGivesUp, offTask
<1>8. CASE ReconcileContinues(r)
  <2>1. /\ runs[r].status \in Resumable /\ ~runs[r].submitted
        /\ UNCHANGED <<exc, accepted>> /\ exc' = [exc EXCEPT ![r] = exc[r]]
    BY <1>1, <1>8, Alone DEF ReconcileContinues, At, Exclusive, Sync, offTask
  <2>2. ~Spent(runs[r], accepted[r])
    BY <1>0, <2>1, Unspent DEF Resumable
  <2>3. CASE FailOrRetry(r, Transient)
    BY <2>1, <2>2, <2>3, FailOrRetryOnce
  <2>4. CASE Goto(r, "slot") /\ UNCHANGED runs
    BY <2>1, <2>2, <2>4, GotoOnce
  <2> QED BY <1>8, <2>3, <2>4 DEF ReconcileContinues
<1>9. CASE ClaimRun(r)
  <2>1. /\ UNCHANGED <<exc, accepted>> /\ pc[r] = "slot"
        /\ runs[r].status \in Resumable
    BY <1>1, <1>9 DEF ClaimRun, At, Exclusive, Sync, Slotted, offTask
  <2>2. ~Spent(runs[r], accepted[r])
    BY <1>0, <2>1, Unspent
  <2>3. CASE runs[r].status = "pending"
    <3>1. /\ ClaimPending(runs[r]).status = "running"
          /\ ClaimPending(runs[r]).epoch = runs[r].epoch
          /\ ClaimPending(runs[r]).attempts >= runs[r].attempts
      BY <1>0 DEF ClaimPending, Run
    <3>2. Once(ClaimPending(runs[r]), "prepare", exc[r], accepted[r])
      BY <1>0, <2>2, <3>1, ClaimPendingType, OnceKept
    <3> QED BY <1>9, <2>1, <2>3, <3>2, StoreOnce DEF ClaimRun
  <2>4. CASE runs[r].status # "pending"
    BY <1>9, <2>1, <2>2, <2>4, GotoOnce DEF ClaimRun
  <2> QED BY <2>3, <2>4
<1>10. CASE ReadSession(r) \/ ReadSessionFails(r)
  <2>1. pc[r] = "prepare" /\ runs[r].status \in Resumable /\ UNCHANGED <<runs, accepted>>
    BY <1>1, <1>10 DEF ReadSession, ReadSessionFails, At, Exclusive, Sync, Slotted, offTask
  <2>2. ~Spent(runs[r], accepted[r])
    BY <1>0, <2>1, Unspent
  <2>3. CASE \E err \in Error : Raise(r, err)
    BY <2>1, <2>2, <2>3, RaiseOnce
  <2>4. CASE Goto(r, "open") /\ UNCHANGED exc
    BY <2>1, <2>2, <2>4, GotoOnce
  <2> QED BY <1>10, <2>3, <2>4 DEF ReadSession, ReadSessionFails
<1>11. CASE MarkSubmission(r)
  <2>1. pc[r] = "open" /\ runs[r].status \in Resumable /\ UNCHANGED <<exc, accepted>>
    BY <1>1, <1>11 DEF MarkSubmission, At, Exclusive, Sync, Slotted, offTask
  <2>2. ~Spent(runs[r], accepted[r])
    BY <1>0, <2>1, Unspent
  <2>3. /\ SetSubmitted(runs[r], TRUE).status = runs[r].status
        /\ SetSubmitted(runs[r], TRUE).submitted
        /\ SetSubmitted(runs[r], TRUE).epoch = runs[r].epoch
        /\ SetSubmitted(runs[r], TRUE).attempts >= runs[r].attempts
    BY <1>0 DEF SetSubmitted, Run
  <2>4. Once(SetSubmitted(runs[r], TRUE), "submit", exc[r], accepted[r])
    BY <1>0, <2>1, <2>2, <2>3, SetSubmittedType, OnceKept DEF Resumable
  <2> QED BY <1>11, <2>1, <2>4, StoreOnce DEF MarkSubmission
<1>12. CASE SubmitFails(r)
  <2>1. pc[r] = "submit" /\ runs[r].status \in Resumable /\ UNCHANGED <<runs, accepted>>
    BY <1>1, <1>12 DEF SubmitFails, At, Exclusive, Sync, Slotted, offTask
  <2>2. ~Spent(runs[r], accepted[r])
    BY <1>0, <2>1, Unspent
  <2> QED BY <1>12, <2>1, <2>2, RaiseOnce DEF SubmitFails
<1>13. CASE SubmitAccepted(r)
  <2>1. /\ pc[r] = "submit" /\ runs[r].status = "running" /\ runs[r].submitted
        /\ UNCHANGED <<runs, exc>> /\ Goto(r, "stream")
        /\ accepted' = [accepted EXCEPT ![r] = accepted[r] \cup {runs[r].attempts}]
    BY <1>0, <1>13 DEF SubmitAccepted, At, Good, Once, Exclusive, Sync, Slotted
  <2>2. ~Spent(runs[r], accepted[r])
    BY <1>0, <2>1, Unspent DEF Resumable
  <2>3. runs[r].attempts \in Nat /\ runs[r].epoch \in Nat
    BY <1>0 DEF Run
  <2>4. Once(runs[r], "stream", exc[r], accepted[r] \cup {runs[r].attempts})
    BY <1>0, <2>1, <2>2, <2>3 DEF Once, Spent, Recorded
  <2>5. /\ runs'[r] = runs[r] /\ pc'[r] = "stream" /\ exc'[r] = exc[r]
        /\ accepted'[r] = accepted[r] \cup {runs[r].attempts}
        /\ \A other \in Runs \ {r} : /\ pc'[other] = pc[other]
                                     /\ accepted'[other] = accepted[other]
    BY <2>1 DEF Goto, TypeOK
  <2> QED BY <2>1, <2>4, <2>5, OthersOnce
<1>14. CASE StreamCompletes(r)
  <2>1. pc[r] = "stream" /\ UNCHANGED <<runs, exc, accepted>> /\ Goto(r, "result")
    BY <1>14 DEF StreamCompletes, At, offTask
  <2>2. runs[r].submitted
    BY <1>0, <2>1 DEF Once
  <2>3. Recorded(runs[r], pc[r], exc[r]) => Recorded(runs[r], "result", exc[r])
    BY <2>1 DEF Recorded
  <2> QED BY <1>2, <2>1, <2>2, <2>3, GotoOnce DEF spent
<1>15. CASE StreamBreaks(r) \/ ResultReadFails(r)
  <2>1. /\ UNCHANGED <<runs, accepted>> /\ pc[r] \in {"stream", "result"}
    BY <1>15 DEF StreamBreaks, ResultReadFails, At, offTask
  <2>2. PICK err \in {Internal, LostPost} : Raise(r, err)
    BY <1>15 DEF StreamBreaks, ResultReadFails
  <2>3. ~MayRetry(err)
    BY DEF MayRetry, Internal, LostPost
  <2>4. Recorded(runs[r], pc[r], exc[r]) => Recorded(runs[r], "except", err)
    BY <2>3 DEF Recorded
  <2> QED BY <1>2, <2>1, <2>2, <2>4, RaiseOnce DEF spent
<1>16. CASE PersistResult(r)
  <2>1. PICK outcome \in Outcome : Store(r, PersistOutcome(runs[r], outcome))
    BY <1>16, RecoveredType, OwnOutcomeType DEF PersistResult
  <2>2. Once(PersistOutcome(runs[r], outcome), "none", exc[r], accepted[r])
    BY <1>0, OnceOutcome
  <2> QED BY <1>16, <2>1, <2>2, StoreOnce DEF PersistResult, offTask
<1>17. CASE HandleError(r)
  <2>1. /\ pc[r] = "except" /\ runs[r].status \in Resumable /\ UNCHANGED accepted
        /\ exc' = [exc EXCEPT ![r] = NoError]
        /\ accepted' = [accepted EXCEPT ![r] = accepted[r]]
    BY <1>1, <1>17, Alone DEF HandleError, At, Exclusive, Sync, offTask
  <2>2. Recorded(runs[r], pc[r], exc[r]) => ~MayRetry(exc[r])
    BY <2>1 DEF Recorded, Resumable
  <2>3. ASSUME NEW outcome \in Recovered(r), Store(r, PersistOutcome(runs[r], outcome)),
               Goto(r, "none")
        PROVE  AllOnce'
    <3>1. Once(PersistOutcome(runs[r], outcome), "none", NoError, accepted[r])
      BY <1>0, RecoveredType, OnceOutcome
    <3> QED BY <2>1, <2>3, <3>1, OneRunOnce DEF Store, Goto
  <2>4. ASSUME NEW err \in {Internal, exc[r]}, FailOrRetry(r, err)
        PROVE  AllOnce'
    <3>0. ~MayRetry(Internal)
      BY DEF MayRetry, Internal
    <3>1. err \in Error /\ (Spent(runs[r], accepted[r]) => ~MayRetry(err))
      BY <1>0, <1>2, <2>2, <3>0 DEF spent
    <3> QED BY <2>1, <2>4, <3>1, FailOrRetryOnce
  <2> QED BY <1>17, <2>3, <2>4 DEF HandleError
<1>18. CASE ClearSubmission(r)
  <2>1. /\ pc[r] = "clearing" /\ runs[r].status = "failed" /\ MayRetry(runs[r].error)
        /\ UNCHANGED <<exc, accepted>>
    BY <1>0, <1>18 DEF ClearSubmission, Good, Sync, offTask
  <2>2. ~Spent(runs[r], accepted[r])
    BY <1>0, <2>1, Unspent
  <2>3. /\ SetSubmitted(runs[r], FALSE).status = "failed"
        /\ SetSubmitted(runs[r], FALSE).epoch = runs[r].epoch
        /\ SetSubmitted(runs[r], FALSE).attempts >= runs[r].attempts
    BY <1>0, <2>1 DEF SetSubmitted, Run
  <2>4. Once(SetSubmitted(runs[r], FALSE), "requeueing", exc[r], accepted[r])
    BY <1>0, <2>2, <2>3, SetSubmittedType, OnceKept
  <2> QED BY <1>18, <2>1, <2>4, StoreOnce DEF ClearSubmission
<1>19. CASE Requeue(r)
  <2>1. /\ pc[r] = "requeueing" /\ runs[r].status = "failed" /\ MayRetry(runs[r].error)
        /\ UNCHANGED <<exc, accepted>>
    BY <1>0, <1>19 DEF Requeue, Good, Sync, offTask
  <2>2. ~Spent(runs[r], accepted[r])
    BY <1>0, <2>1, Unspent
  <2>3. CASE RetryAllowed(runs[r])
    <3>1. /\ Retry(runs[r]).status = "pending"
          /\ Retry(runs[r]).epoch = runs[r].epoch
          /\ Retry(runs[r]).attempts >= runs[r].attempts
      BY <1>0 DEF Retry, Run
    <3>2. Once(Retry(runs[r]), "backoff", exc[r], accepted[r])
      BY <1>0, <2>2, <3>1, RetryType, OnceKept
    <3> QED BY <1>19, <2>1, <2>3, <3>2, StoreOnce DEF Requeue
  <2>4. CASE ~RetryAllowed(runs[r])
    BY <1>19, <2>1, <2>2, <2>4, GotoOnce DEF Requeue
  <2> QED BY <2>3, <2>4
<1>20. CASE BackoffEnds(r)
  <2>1. /\ pc[r] = "backoff" /\ runs[r].status \in Resumable
        /\ UNCHANGED <<runs, exc, accepted>> /\ Goto(r, LoopHead(runs[r]))
    BY <1>1, <1>20 DEF BackoffEnds, At, Exclusive, Sync, offTask
  <2>2. ~Spent(runs[r], accepted[r])
    BY <1>0, <2>1, Unspent
  <2>3. LoopHead(runs[r]) \in {"none", "reconcile", "slot"}
    BY LoopHeadType
  <2> QED BY <2>1, <2>2, <2>3, GotoOnce
<1> QED BY <1>3, <1>4, <1>5, <1>6, <1>7, <1>8, <1>9, <1>10, <1>11, <1>12, <1>13, <1>14,
           <1>15, <1>16, <1>17, <1>18, <1>19, <1>20 DEF TaskStep, Reconciles, Attempts

-----------------------------------------------------------------------------
(* Requests, faults and the environment.                                   *)

LEMMA SpawnedOnce ==
  ASSUME TypeOK, AllOnce, NEW r \in Runs, NEW run, runs' = [runs EXCEPT ![r] = run],
         pc' = Spawned(r), UNCHANGED <<exc, accepted>>,
         Once(run, pc[r], exc[r], accepted[r]), Once(run, "queued", exc[r], accepted[r])
  PROVE  AllOnce'
<1>1. /\ runs'[r] = run /\ pc'[r] \in {pc[r], "queued"} /\ exc'[r] = exc[r]
      /\ accepted'[r] = accepted[r]
      /\ \A other \in Runs \ {r} : runs'[other] = runs[other] /\ pc'[other] = pc[other]
  BY DEF Spawned, TypeOK
<1> QED BY <1>1, OthersOnce

(* Spawning a task for a run that has none changes nothing else.           *)
LEMMA RespawnedOnce ==
  ASSUME TypeOK, AllOnce, NEW r \in Runs, UNCHANGED <<runs, exc, accepted>>, pc' = Spawned(r)
  PROVE  AllOnce'
<1>1. Once(runs[r], pc[r], exc[r], accepted[r])
  BY DEF AllOnce
<1>2. CASE pc[r] = "none"
  <2>1. Once(runs[r], "queued", exc[r], accepted[r])
    BY <1>1, <1>2 DEF Once, Recorded
  <2> QED BY <1>1, <2>1, Alone, SpawnedOnce
<1>3. CASE pc[r] # "none"
  <2>1. pc'[r] = pc[r] /\ \A other \in Runs \ {r} : pc'[other] = pc[other]
    BY <1>3 DEF Spawned, TypeOK
  <2> QED BY <1>1, <2>1, OthersOnce
<1> QED BY <1>2, <1>3

(* A record written while its task keeps its place.                        *)
LEMMA WrittenOnce ==
  ASSUME TypeOK, AllOnce, NEW r \in Runs, NEW run, runs' = [runs EXCEPT ![r] = run],
         UNCHANGED <<pc, exc, accepted>>, Once(run, pc[r], exc[r], accepted[r])
  PROVE  AllOnce'
<1>1. runs'[r] = run /\ \A other \in Runs \ {r} : runs'[other] = runs[other]
  BY DEF TypeOK
<1> QED BY <1>1, OthersOnce

LEMMA ClientOnce ==
  ASSUME TypeOK, AllGood, AllOnce, NEW r \in Runs, ClientStep(r)
  PROVE  AllOnce'
<1>0. /\ runs[r] \in Run /\ accepted[r] \in SUBSET Nat
      /\ Good(runs[r], pc[r], posting[r].step)
      /\ Once(runs[r], pc[r], exc[r], accepted[r])
      /\ SessionOf[r] \in Sessions
  BY SessionOfAssumption DEF TypeOK, AllGood, AllOnce
<1>1. CASE PostRun(r) \/ \E q \in Requests : PostAnswer(q, r)
  BY <1>1 DEF PostRun, PostAnswer, AllOnce
<1>2. CASE CreateRun(r)
  <2> DEFINE new == NewRun(posting[r].baseline, ArtifactTurns(SessionOf[r]))
  <2>1. pc[r] \in {"none", "queued"} /\ runs[r].status = "absent"
    BY <1>2, IdleUnlessResumable DEF CreateRun, Resumable
  <2>2. new.status = "pending" /\ accepted[r] = {}
    BY <1>0, <2>1 DEF NewRun, Once
  <2>3. Once(new, pc[r], exc[r], accepted[r]) /\ Once(new, "queued", exc[r], accepted[r])
    BY <2>1, <2>2 DEF Once, Spent
  <2>4. /\ runs' = [runs EXCEPT ![r] = new] /\ pc' = Spawned(r)
        /\ UNCHANGED <<exc, accepted>>
    BY <1>2 DEF CreateRun, Store
  <2> HIDE DEF new
  <2> QED BY <2>3, <2>4, SpawnedOnce
<1>3. CASE RepostRun(r)
  <2>1. CASE runs[r].status \in Resumable
    BY <1>3, <2>1, RespawnedOnce DEF RepostRun, Resumable
  <2>2. CASE runs[r].status = "failed"
    <3>1. /\ MayRetry(runs[r].error) /\ pc[r] \in {"none", "queued"}
          /\ UNCHANGED <<pc, exc, accepted>>
          /\ runs' = [runs EXCEPT ![r] = SetSubmitted(runs[r], FALSE)]
      BY <1>3, <2>2, IdleUnlessResumable DEF RepostRun, Resumable, Store
    <3>2. ~Spent(runs[r], accepted[r])
      BY <1>0, <2>2, <3>1, Unspent
    <3>3. /\ SetSubmitted(runs[r], FALSE).status = "failed"
          /\ SetSubmitted(runs[r], FALSE).epoch = runs[r].epoch
          /\ SetSubmitted(runs[r], FALSE).attempts >= runs[r].attempts
      BY <1>0, <2>2 DEF SetSubmitted, Run
    <3>4. Once(SetSubmitted(runs[r], FALSE), pc[r], exc[r], accepted[r])
      BY <1>0, <3>1, <3>2, <3>3, SetSubmittedType, OnceKept
    <3> QED BY <3>1, <3>4, WrittenOnce
  <2> QED BY <1>3, <2>1, <2>2 DEF RepostRun
<1>4. CASE RequeueByClient(r)
  <2>1. /\ runs[r].status = "failed" /\ MayRetry(runs[r].error)
        /\ pc[r] \in {"none", "queued"} /\ UNCHANGED <<exc, accepted>>
    BY <1>0, <1>4 DEF RequeueByClient, Requeueing, Good, TypeOK, Location, Waiting, Resumable
  <2>2. ~Spent(runs[r], accepted[r])
    BY <1>0, <2>1, Unspent
  <2>3. CASE RetryAllowed(runs[r])
    <3>1. /\ Retry(runs[r]).status = "pending"
          /\ Retry(runs[r]).epoch = runs[r].epoch
          /\ Retry(runs[r]).attempts >= runs[r].attempts
      BY <1>0 DEF Retry, Run
    <3>2. /\ Once(Retry(runs[r]), pc[r], exc[r], accepted[r])
          /\ Once(Retry(runs[r]), "queued", exc[r], accepted[r])
      BY <1>0, <2>1, <2>2, <3>1, RetryType, OnceKept
    <3>3. runs' = [runs EXCEPT ![r] = Retry(runs[r])] /\ pc' = Spawned(r)
      BY <1>4, <2>3 DEF RequeueByClient, Store
    <3> QED BY <2>1, <3>2, <3>3, SpawnedOnce
  <2>4. CASE ~RetryAllowed(runs[r])
    BY <1>4, <2>1, <2>4 DEF RequeueByClient, AllOnce
  <2> QED BY <2>3, <2>4
<1>5. CASE ReplayAnswer(r)
  BY <1>5, RespawnedOnce DEF ReplayAnswer, offTask
<1> QED BY <1>1, <1>2, <1>3, <1>4, <1>5 DEF ClientStep

(* An accepted answer starts a leg in which nothing was executed yet.      *)
LEMMA AnswerOnce ==
  ASSUME TypeOK, AllGood, AllOnce, NEW q \in Requests, ReadForAnswer(q) \/ AcceptAnswer(q)
  PROVE  AllOnce'
<1>1. CASE ReadForAnswer(q)
  BY <1>1 DEF ReadForAnswer, AllOnce
<1>2. CASE AcceptAnswer(q)
  <2> DEFINE r == answering[q].run
             new == ResumeWithInput(runs[r], KeyOf[q], answering[q].baseline,
                                    ArtifactTurns(SessionOf[r]))
  <2>1. r \in Runs
    <3>1. answering[q] \in Answering /\ answering[q] # NotAnswering
      BY <1>2 DEF TypeOK, AcceptAnswer, NotAnswering
    <3> QED BY <3>1 DEF Answering
  <2>2. UNCHANGED <<exc, accepted>> /\ Serving
    BY <1>2 DEF AcceptAnswer
  <2>3. CASE UNCHANGED runs /\ (pc' = Spawned(r) \/ UNCHANGED pc)
    <3>1. CASE pc' = Spawned(r)
      <4> HIDE DEF r
      <4> QED BY <2>1, <2>2, <2>3, <3>1, RespawnedOnce
    <3>2. CASE UNCHANGED pc
      BY <2>2, <2>3, <3>2 DEF AllOnce
    <3> QED BY <2>3, <3>1, <3>2
  <2>4. CASE /\ runs[r].status = "waiting_input"
             /\ Store(r, new) /\ pc' = Spawned(r)
    <3>1. /\ runs[r] \in Run /\ accepted[r] \in SUBSET Nat
          /\ Once(runs[r], pc[r], exc[r], accepted[r])
      BY <2>1 DEF TypeOK, AllOnce
    <3>2. pc[r] \in {"none", "queued"}
      BY <2>1, <2>2, <2>4, IdleUnlessResumable DEF Resumable
    <3>3. /\ new.status = "pending" /\ new.attempts = runs[r].attempts
          /\ new.epoch = runs[r].attempts
      BY <3>1 DEF ResumeWithInput, Run
    <3>4. runs[r].attempts \in Nat
      BY <3>1 DEF Run
    <3>5. runs' = [runs EXCEPT ![r] = new]
      BY <2>4 DEF Store
    <3> HIDE DEF new, r
    <3>6. Once(new, pc[r], exc[r], accepted[r]) /\ Once(new, "queued", exc[r], accepted[r])
      BY <3>1, <3>2, <3>3, <3>4 DEF Once, Spent
    <3> QED BY <2>1, <2>2, <2>4, <3>5, <3>6, SpawnedOnce
  <2> QED BY <1>2, <2>3, <2>4 DEF AcceptAnswer
<1> QED BY <1>1, <1>2

LEMMA FaultOnce ==
  ASSUME TypeOK, AllGood, AllOnce,
         Crash \/ Restart \/ \E r \in Runs : StoreFails(r) \/ StoreFailsForClient(r)
  PROVE  AllOnce'
<1>1. CASE Crash
  <2>1. \A r \in Runs : Once(runs[r], "none", NoError, accepted[r])
    BY DEF AllOnce, Once, Recorded
  <2> QED BY <1>1, <2>1 DEF Crash, AllOnce
<1>2. CASE Restart
  <2>1. /\ \A r \in Runs : pc'[r] \in {"none", "queued"}
        /\ UNCHANGED <<runs, exc, accepted>>
    BY <1>2 DEF Restart
  <2>2. \A r \in Runs : /\ Once(runs[r], "none", exc[r], accepted[r])
                        /\ Once(runs[r], "queued", exc[r], accepted[r])
    BY DEF AllOnce, Once, Recorded
  <2> QED BY <2>1, <2>2 DEF AllOnce
<1>3. ASSUME NEW r \in Runs, StoreFails(r)
      PROVE  AllOnce'
  <2>0. /\ Once(runs[r], pc[r], exc[r], accepted[r]) /\ runs[r] \in Run
        /\ UNCHANGED <<runs, accepted>>
    BY <1>3 DEF AllOnce, TypeOK, StoreFails
  <2>1. CASE pc[r] \in {"slot", "open", "result"} /\ Raise(r, Internal)
    <3>1. ~MayRetry(Internal)
      BY DEF MayRetry, Internal
    <3>2. Spent(runs[r], accepted[r]) => Recorded(runs[r], "except", Internal)
      BY <2>0, <2>1, <3>1 DEF Once, Recorded
    <3> QED BY <2>0, <2>1, <3>2, RaiseOnce
  <2>2. CASE Goto(r, "none") /\ exc' = [exc EXCEPT ![r] = NoError]
    <3>1. Once(runs[r], "none", NoError, accepted[r])
      BY <2>0 DEF Once, Recorded
    <3>2. /\ pc'[r] = "none" /\ exc'[r] = NoError
          /\ \A other \in Runs \ {r} : pc'[other] = pc[other] /\ exc'[other] = exc[other]
      BY <2>2 DEF Goto, TypeOK
    <3> QED BY <2>0, <3>1, <3>2, OthersOnce
  <2> QED BY <1>3, <2>1, <2>2 DEF StoreFails
<1>4. ASSUME NEW r \in Runs, StoreFailsForClient(r)
      PROVE  AllOnce'
  BY <1>4 DEF StoreFailsForClient, AllOnce
<1> QED BY <1>1, <1>2, <1>3, <1>4

-----------------------------------------------------------------------------
(* Chats are counted, so that none was posted while the count is zero.     *)
LEMMA ChatsCounted ==
  ASSUME TypeOK, [Next]_vars, budget'.chats = 0
  PROVE  budget.chats = 0 /\ \A s \in Sessions : ~ChatStarts(s)
<1>1. budget \in Budget /\ budget.chats \in Nat
  BY DEF TypeOK, Budget
<1>2. \/ budget'.chats = budget.chats
      \/ \E s \in Sessions : ChatStarts(s)
  BY <1>1, ZenonT(60) DEF Next, vars, offTask, service, hermes, TaskStep, ClientStep, Reconciles, Attempts,
      ChatStep, HermesStep, StartRun, SessionBusy, ReconcileReadFails, ReconcileRecovers,
      ReconcileGivesUp, ReconcileContinues, ClaimRun, ReadSession, ReadSessionFails,
      MarkSubmission, SubmitFails, SubmitAccepted, StreamCompletes, StreamBreaks, PersistResult,
      ResultReadFails, HandleError, ClearSubmission, Requeue, BackoffEnds, PostRun, CreateRun,
      RepostRun, RequeueByClient, PostAnswer, ReplayAnswer, ReadForAnswer, AcceptAnswer,
      ChatPosts, ChatEnds, StoreFails, StoreFailsForClient, Crash, Restart, HermesWorks,
      HermesEnds, HermesDrops, CloseSession, Budget
<1>3. ASSUME NEW s \in Sessions, ChatStarts(s)
      PROVE  FALSE
  <2>1. budget'.chats = budget.chats + 1
    BY <1>1, <1>3 DEF ChatStarts, Budget
  <2> QED BY <1>1, <2>1
<1> QED BY <1>2, <1>3

LEMMA OnceStep ==
  ASSUME TypeOK, AllGood, ChatsApart, AllOnce, [Next]_vars
  PROVE  AllOnce'
<1>1. CASE UNCHANGED vars
  BY <1>1 DEF vars, offTask, AllOnce
<1>2. ASSUME NEW s \in Sessions, ChatStep(s) \/ HermesStep(s)
      PROVE  AllOnce'
  BY <1>2 DEF ChatStep, HermesStep, ChatStarts, ChatPosts, ChatEnds, HermesWorks,
        HermesEnds, HermesDrops, CloseSession, service, AllOnce
<1> QED BY <1>1, <1>2, TaskOnce, ClientOnce, AnswerOnce, FaultOnce DEF Next

LEMMA NextOnce ==
  ASSUME TypeOK, AllGood, OnceUnlessChats, [Next]_vars
  PROVE  OnceUnlessChats'
<1> SUFFICES ASSUME budget'.chats = 0
             PROVE  NoChats' /\ AllOnce'
  BY DEF OnceUnlessChats
<1>1. budget.chats = 0 /\ \A s \in Sessions : ~ChatStarts(s) BY ChatsCounted
<1>2. NoChats /\ AllOnce
  BY <1>1 DEF OnceUnlessChats
<1>3. NoChats'
  BY <1>1, <1>2, ZenonT(60) DEF NoChats, Next, vars, offTask, service, hermes, TaskStep, ClientStep, Reconciles,
        Attempts, ChatStep, HermesStep, StartRun, SessionBusy, ReconcileReadFails,
        ReconcileRecovers, ReconcileGivesUp, ReconcileContinues, ClaimRun, ReadSession,
        ReadSessionFails, MarkSubmission, SubmitFails, SubmitAccepted, StreamCompletes,
        StreamBreaks, PersistResult, ResultReadFails, HandleError, ClearSubmission, Requeue,
        BackoffEnds, PostRun, CreateRun, RepostRun, RequeueByClient, PostAnswer, ReplayAnswer,
        ReadForAnswer, AcceptAnswer, ChatPosts, ChatEnds, StoreFails, StoreFailsForClient, Crash,
        Restart, HermesWorks, HermesEnds, HermesDrops, CloseSession
<1>4. ChatsApart BY <1>2, SessionOfAssumption DEF ChatsApart, NoChats
<1> QED BY <1>2, <1>3, <1>4, OnceStep

LEMMA AlwaysOnce == Spec => []OnceUnlessChats
<1>1. Init => OnceUnlessChats
  <2>1. Once(Absent, "none", NoError, {})
    BY DEF Once, Spent, Absent, NewRun
  <2> QED BY <2>1 DEF Init, OnceUnlessChats, NoChats, AllOnce
<1>2. TypeOK /\ AllGood /\ OnceUnlessChats /\ [Next]_vars => OnceUnlessChats'
  BY NextOnce
<1> QED BY <1>1, <1>2, TypeCorrect, AlwaysGood, PTL DEF Spec

(* As long as nobody used the interactive chat, Hermes accepts the POST of *)
(* at most one attempt of a leg: no crash, refused write, lost response,   *)
(* retry or repeated request makes it execute a question twice.            *)
THEOREM AtMostOncePerLegHolds == Spec => [](budget.chats = 0 => AtMostOncePerLeg)
<1>1. OnceUnlessChats => (budget.chats = 0 => AtMostOncePerLeg)
  BY OnceSays DEF OnceUnlessChats
<1> QED BY <1>1, AlwaysOnce, PTL

(* And the record always accounts for an accepted POST: it is marked and   *)
(* running, settled, or failed without an invitation to retry.             *)
THEOREM ExecutionIsRecordedHolds == Spec => [](budget.chats = 0 => ExecutionIsRecorded)
<1>1. OnceUnlessChats => (budget.chats = 0 => ExecutionIsRecorded)
  BY OnceSays DEF OnceUnlessChats
<1> QED BY <1>1, AlwaysOnce, PTL
=============================================================================
