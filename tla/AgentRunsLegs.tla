--------------------------- MODULE AgentRunsLegs ---------------------------
(***************************************************************************)
(* The legs of a run: its questions and answers, the outcome it reports,   *)
(* and the promises of RunLifecycle.                                       *)
(*                                                                         *)
(* A leg ends with an outcome that Hermes recorded, and an accepted answer *)
(* begins the next.  What a read of Hermes may take for the outcome of the *)
(* current leg is bounded by the record's baseline, its artifacts and the  *)
(* counters of its attempts; the invariant here relates those fields to    *)
(* the turns that Hermes accepted, the messages it recorded and the        *)
(* answers that are under way.                                             *)
(*                                                                         *)
(* The outcome and RunLifecycle need careful clients, which use a session  *)
(* for one thing at a time: the service cannot tell apart the messages of  *)
(* two runs, or of a run and a chat, that are at work in one session at    *)
(* once.  That is what Serial says of them.                                *)
(***************************************************************************)
EXTENDS AgentRunsProofs

-----------------------------------------------------------------------------
(* How a step changes a record: not at all, by a write that keeps its leg, *)
(* by a claim, an outcome, a creation or an accepted answer.               *)

Active == {"pending", "running", "failed"}

Edited(run, next) ==
  /\ run.status \in Active /\ next.status \in Active
  /\ next.status = "running" => run.status = "running"
  /\ next.attempts = run.attempts /\ next.epoch = run.epoch
  /\ next.receipts = run.receipts
  /\ run.status = "failed" /\ next.status = "failed" => next.error = run.error
  /\ next.baseline = run.baseline /\ next.artifacts = run.artifacts

Claimed(run, next) == run.status = "pending" /\ next = ClaimPending(run)

Outcomes(r) ==
  Recovered(r) \cup {OutcomeOf(runs[r], SessionOf[r], m) :
                       m \in {own \in OwnFinals(r) : pc[r] = "result"}}

Settled(r) ==
  /\ Serving /\ pc[r] \in {"reconcile", "result", "except"}
  /\ \E outcome \in Outcomes(r) : runs'[r] = PersistOutcome(runs[r], outcome)

Created(r) ==
  /\ Serving /\ runs[r].status = "absent" /\ posting[r].step = "reading"
  /\ runs'[r] = NewRun(posting[r].baseline, ArtifactTurns(SessionOf[r]))

Resumed(r, q) ==
  /\ AcceptAnswer(q) /\ answering[q].run = r
  /\ ~HasReceipt(runs[r], KeyOf[q]) /\ runs[r].status = "waiting_input"
  /\ runs'[r] = ResumeWithInput(runs[r], KeyOf[q], answering[q].baseline,
                                ArtifactTurns(SessionOf[r]))

Changed(r) ==
  \/ runs'[r] = runs[r]
  \/ Edited(runs[r], runs'[r])
  \/ Claimed(runs[r], runs'[r])
  \/ Settled(r)
  \/ Created(r)
  \/ \E q \in Requests : Resumed(r, q)

(* A task is found before its reconciliation, or with an error, only when  *)
(* an attempt of the leg was counted, unless a write was refused.          *)
Located(r) ==
  pc'[r] \in {"reconcile", "except"} =>
    \/ runs'[r] = runs[r] /\ \/ pc'[r] = pc[r]
                             \/ pc[r] \in Slotted \cup {"result"}
                             \/ RetryAttempts(runs[r]) > 0 \/ runs[r].submitted
    \/ StoreFails(r)

Others(r) == \A other \in Runs \ {r} : runs'[other] = runs[other] /\ pc'[other] = pc[other]

LEMMA FailedIsEdited ==
  ASSUME NEW run \in Run, NEW err, run.status \in Active
  PROVE  Edited(run, MarkFailed(run, err))
<1>1. CASE run.status = "failed" BY <1>1 DEF MarkFailed, Edited
<1>2. CASE run.status # "failed" BY <1>2 DEF MarkFailed, Edited, Active, Run
<1> QED BY <1>1, <1>2

LEMMA WritesEdit ==
  ASSUME NEW run \in Run, run.status \in Active
  PROVE  /\ \A started : Edited(run, SetSubmitted(run, started))
         /\ Edited(run, Retry(run))
BY DEF SetSubmitted, Retry, Edited, Active, Run

(* The effect of one step on the record and the place of its task.         *)
LEMMA TaskChanges ==
  ASSUME TypeOK, AllGood, NEW r \in Runs, TaskStep(r)
  PROVE  Changed(r) /\ Located(r) /\ Others(r)
<1>0. runs[r] \in Run /\ Good(runs[r], pc[r], posting[r].step) BY DEF TypeOK, AllGood
<1>1. ASSUME NEW location, Goto(r, location)
      PROVE  pc'[r] = location /\ \A other \in Runs \ {r} : pc'[other] = pc[other]
  BY <1>1 DEF Goto, TypeOK
<1>2. ASSUME NEW run, Store(r, run)
      PROVE  runs'[r] = run /\ \A other \in Runs \ {r} : runs'[other] = runs[other]
  BY <1>2 DEF Store, TypeOK
<1>3. ASSUME NEW err, Fail(r, err) \/ FailOrRetry(r, err), runs[r].status \in Resumable
      PROVE  Changed(r) /\ Located(r) /\ Others(r)
  <2>1. \E final : Store(r, MarkFailed(runs[r], final)) BY <1>3 DEF Fail, FailOrRetry
  <2>2. PICK final : Store(r, MarkFailed(runs[r], final)) BY <2>1
  <2>3. \E location \in {"none", "clearing"} : Goto(r, location)
    BY <1>3 DEF Fail, FailOrRetry
  <2>4. Edited(runs[r], MarkFailed(runs[r], final))
    BY <1>0, <1>3, FailedIsEdited DEF Active, Resumable
  <2> QED BY <1>1, <1>2, <2>2, <2>3, <2>4 DEF Changed, Located, Others
<1>4. ASSUME NEW location, Goto(r, location), UNCHANGED runs,
             \/ location \notin {"reconcile", "except"}
             \/ location = "except" /\ pc[r] \in Slotted \cup {"result"}
             \/ RetryAttempts(runs[r]) > 0 \/ runs[r].submitted
      PROVE  Changed(r) /\ Located(r) /\ Others(r)
  BY <1>1, <1>4 DEF Changed, Located, Others
<1>5. ASSUME NEW run, Store(r, run), NEW location, Goto(r, location),
             location \notin {"reconcile", "except"},
             Edited(runs[r], run) \/ Claimed(runs[r], run)
      PROVE  Changed(r) /\ Located(r) /\ Others(r)
  BY <1>1, <1>2, <1>5 DEF Changed, Located, Others
<1>6. ASSUME Serving, pc[r] \in {"reconcile", "result", "except"}, Goto(r, "none"),
             \E outcome \in Outcomes(r) : Store(r, PersistOutcome(runs[r], outcome))
      PROVE  Changed(r) /\ Located(r) /\ Others(r)
  BY <1>1, <1>2, <1>6 DEF Changed, Located, Others, Settled
<1>7. LoopHead(runs[r]) \in {"none", "slot"} \/ RetryAttempts(runs[r]) > 0 \/ runs[r].submitted
  BY DEF LoopHead
<1>8. pc[r] \in Exclusive \ Sync => runs[r].status \in Resumable BY <1>0 DEF Good
<1>9. CASE StartRun(r) BY <1>4, <1>7, <1>9 DEF StartRun
<1>10. CASE SessionBusy(r) BY <1>3, <1>4, <1>10 DEF SessionBusy
<1>11. CASE ReconcileReadFails(r)
  BY <1>3, <1>8, <1>11 DEF ReconcileReadFails, At, Exclusive, Sync
<1>12. CASE ReconcileRecovers(r) BY <1>6, <1>12 DEF ReconcileRecovers, At, Outcomes
<1>13. CASE ReconcileGivesUp(r)
  BY <1>3, <1>8, <1>13 DEF ReconcileGivesUp, At, Exclusive, Sync
<1>14. CASE ReconcileContinues(r)
  BY <1>3, <1>4, <1>8, <1>14 DEF ReconcileContinues, At, Exclusive, Sync
<1>15. CASE ClaimRun(r) BY <1>4, <1>5, <1>15 DEF ClaimRun, Claimed
<1>16. CASE ReadSession(r) \/ ReadSessionFails(r) \/ SubmitFails(r) \/ SubmitAccepted(r)
            \/ StreamCompletes(r) \/ StreamBreaks(r) \/ ResultReadFails(r)
  <2>1. UNCHANGED runs /\ pc[r] \in Slotted \cup {"result"}
    BY <1>16 DEF ReadSession, ReadSessionFails, SubmitFails, SubmitAccepted, StreamCompletes,
                 StreamBreaks, ResultReadFails, At, Slotted
  <2>2. \E location \in {"except", "open", "stream", "result"} : Goto(r, location)
    BY <1>16 DEF ReadSession, ReadSessionFails, SubmitFails, SubmitAccepted, StreamCompletes,
                 StreamBreaks, ResultReadFails, Raise
  <2> QED BY <1>4, <2>1, <2>2
<1>17. CASE MarkSubmission(r)
  <2>1. runs[r].status \in Active
    BY <1>8, <1>17 DEF MarkSubmission, At, Exclusive, Slotted, Sync, Active, Resumable
  <2> QED BY <1>0, <1>5, <1>17, <2>1, WritesEdit DEF MarkSubmission
<1>18. CASE PersistResult(r) BY <1>6, <1>18 DEF PersistResult, At, Outcomes
<1>19. CASE HandleError(r)
  BY <1>3, <1>6, <1>8, <1>19 DEF HandleError, At, Exclusive, Sync, Outcomes
<1>20. CASE ClearSubmission(r)
  <2>1. runs[r].status \in Active BY <1>0, <1>20 DEF ClearSubmission, Good, Sync, Active
  <2> QED BY <1>0, <1>5, <1>20, <2>1, WritesEdit DEF ClearSubmission
<1>21. CASE Requeue(r)
  <2>1. runs[r].status \in Active BY <1>0, <1>21 DEF Requeue, Good, Sync, Active
  <2> QED BY <1>0, <1>4, <1>5, <1>21, <2>1, WritesEdit DEF Requeue
<1>22. CASE BackoffEnds(r) BY <1>4, <1>7, <1>22 DEF BackoffEnds
<1> QED BY <1>9, <1>10, <1>11, <1>12, <1>13, <1>14, <1>15, <1>16, <1>17, <1>18, <1>19, <1>20,
           <1>21, <1>22 DEF TaskStep, Reconciles, Attempts

LEMMA SpawnedPlace ==
  ASSUME TypeOK, NEW r \in Runs, pc' = Spawned(r)
  PROVE  /\ pc'[r] = pc[r] \/ pc'[r] = "queued"
         /\ \A other \in Runs \ {r} : pc'[other] = pc[other]
BY DEF Spawned, TypeOK

(* The steps of requests, faults and the environment.                      *)
LEMMA NextChanges ==
  ASSUME TypeOK, AllGood, [Next]_vars, NEW r \in Runs
  PROVE  Changed(r) /\ Located(r)
<1>1. ASSUME runs'[r] = runs[r], pc'[r] = pc[r] \/ pc'[r] \in {"none", "queued"}
      PROVE  Changed(r) /\ Located(r)
  BY <1>1 DEF Changed, Located
<1>2. ASSUME NEW t \in Runs, TaskStep(t) PROVE Changed(r) /\ Located(r)
  <2>1. CASE t = r BY <1>2, <2>1, TaskChanges
  <2>2. CASE t # r BY <1>1, <1>2, <2>2, TaskChanges DEF Others
  <2> QED BY <2>1, <2>2
<1>3. ASSUME NEW t \in Runs, ClientStep(t) PROVE Changed(r) /\ Located(r)
  <2>1. pc' = pc \/ pc' = Spawned(t)
    BY <1>3 DEF ClientStep, PostRun, CreateRun, RepostRun, RequeueByClient, PostAnswer,
                ReplayAnswer
  <2>2. pc'[r] = pc[r] \/ pc'[r] = "queued" BY <2>1, SpawnedPlace
  <2>3. CASE runs' = runs BY <1>1, <2>2, <2>3
  <2>4. CASE runs' # runs
    <3>1. /\ \E run : Store(t, run)
          /\ \/ CreateRun(t) /\ Store(t, NewRun(posting[t].baseline, ArtifactTurns(SessionOf[t])))
             \/ RepostRun(t) /\ runs[t].status = "failed" /\ Store(t, SetSubmitted(runs[t], FALSE))
             \/ RequeueByClient(t) /\ runs[t].status = "failed" /\ Store(t, Retry(runs[t]))
      BY <1>3, <2>4 DEF ClientStep, PostRun, CreateRun, RepostRun, RequeueByClient, PostAnswer,
                        ReplayAnswer, RetryAllowed
    <3>2. CASE t # r
      <4>1. runs'[r] = runs[r] BY <3>1, <3>2 DEF Store, TypeOK
      <4> QED BY <1>1, <2>2, <4>1
    <3>3. CASE t = r
      <4>1. ASSUME NEW run, Store(t, run) PROVE runs'[r] = run BY <3>3, <4>1 DEF Store, TypeOK
      <4>2. Located(r)
        <5>1. runs[r].status \in {"absent", "failed"} BY <3>1, <3>3 DEF CreateRun
        <5>2. Good(runs[r], pc[r], posting[r].step) BY DEF AllGood
        <5>3. pc[r] \notin {"reconcile", "except"}
          BY <5>1, <5>2 DEF Good, Exclusive, Sync, Resumable
        <5> QED BY <2>2, <5>3 DEF Located
      <4>3. runs[r] \in Run BY DEF TypeOK
      <4>4. CASE CreateRun(t) /\ Store(t, NewRun(posting[t].baseline, ArtifactTurns(SessionOf[t])))
        BY <3>3, <4>1, <4>2, <4>4 DEF Changed, Created, CreateRun
      <4>5. CASE runs[t].status = "failed" /\ (Store(t, SetSubmitted(runs[t], FALSE)) \/ Store(t, Retry(runs[t])))
        BY <3>3, <4>1, <4>2, <4>3, <4>5, WritesEdit DEF Changed, Active
      <4> QED BY <3>1, <4>4, <4>5
    <3> QED BY <3>2, <3>3
  <2> QED BY <2>3, <2>4
<1>4. ASSUME NEW q \in Requests, AcceptAnswer(q) PROVE Changed(r) /\ Located(r)
  <2> DEFINE t == answering[q].run
  <2>1. t \in Runs BY <1>4 DEF AcceptAnswer, TypeOK, Answering, NotAnswering
  <2>2. pc' = pc \/ pc' = Spawned(t) BY <1>4 DEF AcceptAnswer
  <2>3. pc'[r] = pc[r] \/ pc'[r] = "queued"
    <3> HIDE DEF t
    <3> QED BY <2>1, <2>2, SpawnedPlace
  <2>4. CASE runs' = runs BY <1>1, <2>3, <2>4
  <2>5. CASE /\ ~HasReceipt(runs[t], KeyOf[q]) /\ runs[t].status = "waiting_input"
             /\ Store(t, ResumeWithInput(runs[t], KeyOf[q], answering[q].baseline,
                                         ArtifactTurns(SessionOf[t])))
             /\ pc' = Spawned(t)
    <3>1. CASE t # r
      <4>1. runs'[r] = runs[r] BY <2>5, <3>1 DEF Store, TypeOK
      <4> QED BY <1>1, <2>3, <4>1
    <3>2. CASE t = r
      <4>1. Resumed(r, q) BY <1>4, <2>5, <3>2 DEF Resumed, Store, TypeOK
      <4>2. pc[r] \in {"none", "queued"}
        BY <1>4, <2>5, <3>2, IdleUnlessResumable DEF AcceptAnswer, Resumable
      <4>3. Located(r) BY <2>3, <4>2 DEF Located
      <4> QED BY <4>1, <4>3 DEF Changed
    <3> QED BY <3>1, <3>2
  <2> QED BY <1>4, <2>4, <2>5 DEF AcceptAnswer
<1>5. ASSUME NEW s \in Sessions, ChatStep(s) \/ HermesStep(s) PROVE UNCHANGED <<runs, pc>>
  BY <1>5 DEF ChatStep, HermesStep, ChatStarts, ChatPosts, ChatEnds, HermesWorks, HermesEnds,
              HermesDrops, CloseSession, service
<1>6. ASSUME NEW t \in Runs, StoreFails(t) \/ StoreFailsForClient(t)
      PROVE  Changed(r) /\ Located(r)
  <2>1. runs' = runs BY <1>6 DEF StoreFails, StoreFailsForClient
  <2>2. CASE StoreFailsForClient(t) BY <1>1, <2>1, <2>2 DEF StoreFailsForClient
  <2>3. CASE StoreFails(t)
    <3>1. CASE t = r BY <2>1, <2>3, <3>1 DEF Changed, Located
    <3>2. CASE t # r
      <4>1. pc'[r] = pc[r] BY <2>3, <3>2 DEF StoreFails, Raise, Goto, TypeOK
      <4> QED BY <1>1, <2>1, <4>1
    <3> QED BY <3>1, <3>2
  <2> QED BY <1>6, <2>2, <2>3
<1>7. ASSUME NEW q \in Requests, ReadForAnswer(q) PROVE UNCHANGED <<runs, pc>>
  BY <1>7 DEF ReadForAnswer
<1>8. CASE Crash \/ Restart BY <1>1, <1>8 DEF Crash, Restart
<1>9. CASE UNCHANGED vars BY <1>1, <1>9 DEF vars
<1> QED BY <1>1, <1>2, <1>3, <1>4, <1>5, <1>6, <1>7, <1>8, <1>9 DEF Next

-----------------------------------------------------------------------------
(* The counters of a leg, and the questions and answers that go by them.   *)

Counted(run) ==
  /\ run.epoch <= run.attempts
  /\ run.status = "running" => run.epoch < run.attempts
  /\ run.status = "absent" => run.receipts = {}

AllCounted == \A r \in Runs : Counted(runs[r])

Asked(run, location) ==
  /\ location \in {"reconcile", "except"} => run.epoch < run.attempts
  /\ run.status = "waiting_input" => /\ run.clarification # Nil
                                     /\ run.epoch < run.clarification.attempt
                                     /\ run.clarification.attempt <= run.attempts
  /\ \A receipt \in run.receipts : /\ receipt.clarification # Nil
                                   /\ receipt.clarification.attempt <= run.epoch
  /\ \A one, two \in run.receipts :
       one.clarification = two.clarification \/ one.key = two.key => one = two

AllAsked == budget.faults = 0 => \A r \in Runs : Asked(runs[r], pc[r])

(* Nothing but a refused write counts as a fault.                          *)
LEMMA FaultsCounted ==
  ASSUME TypeOK, [Next]_vars, budget'.faults = 0
  PROVE  budget.faults = 0 /\ \A r \in Runs : ~StoreFails(r)
<1>0. budget \in Budget /\ budget.faults \in Nat BY DEF TypeOK, Budget
<1>1. CASE UNCHANGED budget
  BY <1>0, <1>1 DEF StoreFails, Budget
<1>2. ASSUME NEW r \in Runs, StoreFails(r) \/ StoreFailsForClient(r) PROVE FALSE
  BY <1>0, <1>2 DEF StoreFails, StoreFailsForClient, Budget
<1>3. ASSUME NEW r \in Runs, TaskStep(r) PROVE UNCHANGED budget
  BY <1>3 DEF TaskStep, Reconciles, Attempts, StartRun, SessionBusy, ReconcileReadFails,
              ReconcileRecovers, ReconcileGivesUp, ReconcileContinues, ClaimRun, ReadSession,
              ReadSessionFails, MarkSubmission, SubmitFails, SubmitAccepted, StreamCompletes,
              StreamBreaks, PersistResult, ResultReadFails, HandleError, ClearSubmission,
              Requeue, BackoffEnds, offTask
<1>4. ASSUME NEW r \in Runs, ClientStep(r) PROVE UNCHANGED budget
  BY <1>4 DEF ClientStep, PostRun, CreateRun, RepostRun, RequeueByClient, PostAnswer,
              ReplayAnswer, offTask
<1>5. ASSUME NEW q \in Requests, ReadForAnswer(q) \/ AcceptAnswer(q) PROVE UNCHANGED budget
  BY <1>5 DEF ReadForAnswer, AcceptAnswer
<1>6. CASE Crash \/ Restart \/ \E s \in Sessions : ChatStep(s) \/ HermesStep(s)
  <2>1. budget'.faults = budget.faults
    BY <1>0, <1>6 DEF Crash, Restart, ChatStep, HermesStep, ChatStarts, ChatPosts, ChatEnds,
                      HermesWorks, HermesEnds, HermesDrops, CloseSession, Budget
  <2> QED BY <1>2, <2>1, <1>0
<1> QED BY <1>1, <1>2, <1>3, <1>4, <1>5, <1>6 DEF Next, vars, offTask

LEMMA OutcomesType ==
  ASSUME TypeOK, NEW r \in Runs
  PROVE  Outcomes(r) \subseteq Outcome
BY RecoveredType, OwnOutcomeType DEF Outcomes

(* What an outcome makes of a record.                                      *)
LEMMA OutcomeKeeps ==
  ASSUME NEW run \in Run, NEW outcome \in Outcome
  PROVE  /\ PersistOutcome(run, outcome).epoch = run.epoch
         /\ PersistOutcome(run, outcome).attempts = run.attempts
         /\ PersistOutcome(run, outcome).receipts = run.receipts
         /\ PersistOutcome(run, outcome).status =
              IF outcome.kind = "clarify" THEN "waiting_input" ELSE "succeeded"
BY DEF PersistOutcome, MarkWaitingInput, MarkSucceeded, Run, Outcome

LEMMA OutcomeSays ==
  ASSUME NEW run \in Run, NEW outcome \in Outcome
  PROVE  /\ PersistOutcome(run, outcome).status = "waiting_input" =>
              PersistOutcome(run, outcome).clarification =
                [question |-> outcome.answer, attempt |-> run.attempts]
         /\ PersistOutcome(run, outcome).status = "succeeded" =>
              PersistOutcome(run, outcome).result = outcome
BY DEF PersistOutcome, MarkWaitingInput, MarkSucceeded, Run, Outcome

LEMMA ResumedKeeps ==
  ASSUME NEW run \in Run, NEW key, NEW baseline, NEW files
  PROVE  LET next == ResumeWithInput(run, key, baseline, files)
         IN /\ next.epoch = run.attempts /\ next.attempts = run.attempts
            /\ next.receipts = run.receipts \cup {[key |-> key, clarification |-> run.clarification]}
            /\ next.status = "pending"
            /\ next.baseline = baseline /\ next.artifacts = files
BY DEF ResumeWithInput, Run

LEMMA ClaimKeeps ==
  ASSUME NEW run \in Run
  PROVE  LET next == ClaimPending(run)
         IN /\ next.epoch = run.epoch /\ next.attempts = run.attempts + 1
            /\ next.receipts = run.receipts
            /\ next.status = "running"
            /\ next.baseline = run.baseline /\ next.artifacts = run.artifacts
BY DEF ClaimPending, Run

LEMMA CountedStep ==
  ASSUME TypeOK, AllGood, AllCounted, [Next]_vars
  PROVE  AllCounted'
<1> SUFFICES ASSUME NEW r \in Runs PROVE Counted(runs'[r]) BY DEF AllCounted
<1>1. /\ runs[r] \in Run /\ Counted(runs[r]) /\ Changed(r)
      /\ runs[r].attempts \in Nat /\ runs[r].epoch \in Nat
  BY NextChanges DEF TypeOK, AllCounted, Run
<1>2. CASE runs'[r] = runs[r] BY <1>1, <1>2
<1>3. CASE Edited(runs[r], runs'[r]) BY <1>1, <1>3 DEF Edited, Active, Counted
<1>4. CASE Claimed(runs[r], runs'[r]) BY <1>1, <1>4, ClaimKeeps DEF Claimed, Counted
<1>5. CASE Settled(r)
  <2>1. PICK outcome \in Outcomes(r) : runs'[r] = PersistOutcome(runs[r], outcome)
    BY <1>5 DEF Settled
  <2>2. outcome \in Outcome BY OutcomesType
  <2>3. /\ runs'[r].epoch = runs[r].epoch /\ runs'[r].attempts = runs[r].attempts
        /\ runs'[r].status \in {"waiting_input", "succeeded"}
    <3>1. runs[r] \in Run BY DEF TypeOK
    <3> QED BY <2>1, <2>2, <3>1, OutcomeKeeps
  <2> QED BY <1>1, <2>3 DEF Counted
<1>6. CASE Created(r) BY <1>6 DEF Created, NewRun, Counted
<1>7. ASSUME NEW q \in Requests, Resumed(r, q) PROVE Counted(runs'[r])
  BY <1>1, <1>7, ResumedKeeps DEF Resumed, Counted
<1> QED BY <1>1, <1>2, <1>3, <1>4, <1>5, <1>6, <1>7 DEF Changed

LEMMA AskedStep ==
  ASSUME TypeOK, AllGood, AllCounted, AllAsked, [Next]_vars
  PROVE  AllAsked'
<1> SUFFICES ASSUME budget'.faults = 0, NEW r \in Runs PROVE Asked(runs'[r], pc'[r])
  BY DEF AllAsked
<1>0. /\ AllCounted' /\ AllGood' BY CountedStep, NextGood
<1>1. /\ runs[r] \in Run /\ Counted(runs[r]) /\ Changed(r) /\ Located(r) /\ ~StoreFails(r)
      /\ Asked(runs[r], pc[r])
      /\ Good(runs[r], pc[r], posting[r].step) /\ Good(runs'[r], pc'[r], posting'[r].step)
      /\ Counted(runs'[r])
      /\ runs[r].attempts \in Nat /\ runs[r].epoch \in Nat
      /\ runs[r].receipts \subseteq Receipt /\ runs[r].clarification \in Clarification \cup {Nil}
  BY <1>0, NextChanges, FaultsCounted DEF TypeOK, AllCounted, AllAsked, AllGood, Run
<1>2. ASSUME pc'[r] \in {"reconcile", "except"} PROVE runs'[r].epoch < runs'[r].attempts
  <2>1. runs'[r] = runs[r] BY <1>1, <1>2 DEF Located
  <2>2. runs'[r].status \in Resumable BY <1>1, <1>2 DEF Good, Exclusive, Sync
  <2>3. CASE pc'[r] = pc[r] BY <1>1, <1>2, <2>1, <2>3 DEF Asked
  <2>4. CASE pc[r] \in Slotted \cup {"result"} BY <1>1, <2>1, <2>4 DEF Good, Counted
  <2>5. CASE RetryAttempts(runs[r]) > 0 BY <1>1, <2>1, <2>5 DEF RetryAttempts
  <2>6. CASE runs[r].submitted
    <3>1. runs'[r].status = "running" BY <1>1, <2>1, <2>2, <2>6 DEF Good, Resumable
    <3> QED BY <1>1, <3>1 DEF Counted
  <2> QED BY <1>1, <1>2, <2>3, <2>4, <2>5, <2>6 DEF Located
<1>3. CASE runs'[r] = runs[r] BY <1>1, <1>2, <1>3 DEF Asked
<1>4. CASE Edited(runs[r], runs'[r]) BY <1>1, <1>2, <1>4 DEF Edited, Active, Asked
<1>5. CASE Claimed(runs[r], runs'[r]) BY <1>1, <1>2, <1>5, ClaimKeeps DEF Claimed, Asked
<1>6. CASE Settled(r)
  <2>1. PICK outcome \in Outcomes(r) : runs'[r] = PersistOutcome(runs[r], outcome)
    BY <1>6 DEF Settled
  <2>2. outcome \in Outcome BY OutcomesType
  <2>3. runs[r].epoch < runs[r].attempts BY <1>1, <1>6 DEF Settled, Good, Counted, Asked
  <2> DEFINE clarification == [question |-> outcome.answer, attempt |-> runs[r].attempts]
  <2>4. clarification # Nil /\ clarification.attempt = runs[r].attempts
    BY <1>1, <2>2, NilAssumption DEF Clarification, Outcome
  <2> HIDE DEF clarification
  <2>5. /\ runs'[r].epoch = runs[r].epoch /\ runs'[r].attempts = runs[r].attempts
        /\ runs'[r].receipts = runs[r].receipts
        /\ runs'[r].status = "waiting_input" => runs'[r].clarification = clarification
    BY <1>1, <2>1, <2>2, OutcomeKeeps, OutcomeSays DEF clarification
  <2> QED BY <1>1, <1>2, <2>3, <2>4, <2>5 DEF Asked
<1>7. CASE Created(r) BY <1>2, <1>7 DEF Created, NewRun, Asked
<1>8. ASSUME NEW q \in Requests, Resumed(r, q) PROVE Asked(runs'[r], pc'[r])
  <2> DEFINE receipt == [key |-> KeyOf[q], clarification |-> runs[r].clarification]
  <2>1. /\ runs'[r].epoch = runs[r].attempts /\ runs'[r].attempts = runs[r].attempts
        /\ runs'[r].receipts = runs[r].receipts \cup {receipt}
        /\ runs'[r].status = "pending"
    BY <1>1, <1>8, ResumedKeeps DEF Resumed
  <2>2. /\ receipt.clarification # Nil /\ runs[r].epoch < receipt.clarification.attempt
        /\ receipt.clarification.attempt <= runs[r].attempts
    BY <1>1, <1>8 DEF Resumed, Asked
  <2>3. ASSUME NEW other \in runs[r].receipts
        PROVE  /\ other.key # receipt.key /\ other.clarification # receipt.clarification
               /\ other.clarification # Nil /\ other.clarification.attempt <= runs[r].attempts
    <3>1. /\ other.key # KeyOf[q] /\ other.clarification # Nil
          /\ other.clarification.attempt <= runs[r].epoch
      BY <1>1, <1>8 DEF Resumed, Asked, HasReceipt
    <3>2. other.clarification.attempt \in Nat BY <1>1, <3>1 DEF Receipt, Clarification
    <3>3. receipt.clarification.attempt \in Nat BY <1>1, <2>2 DEF Clarification
    <3>4. other.clarification # receipt.clarification BY <1>1, <2>2, <3>1, <3>2, <3>3
    <3> QED BY <1>1, <3>1, <3>2, <3>4 DEF Counted
  <2> HIDE DEF receipt
  <2>4. \A one, two \in runs'[r].receipts :
          one.clarification = two.clarification \/ one.key = two.key => one = two
    BY <1>1, <2>1, <2>3 DEF Asked
  <2> QED BY <1>2, <2>1, <2>2, <2>3, <2>4 DEF Asked
<1> QED BY <1>1, <1>3, <1>4, <1>5, <1>6, <1>7, <1>8 DEF Changed

LEMMA AlwaysCounted == Spec => [](AllCounted /\ AllAsked)
<1>1. Init => AllCounted /\ AllAsked
  <2>1. Counted(Absent) /\ Asked(Absent, "none") BY DEF Counted, Asked, Absent, NewRun
  <2> QED BY <2>1 DEF Init, AllCounted, AllAsked
<1>2. TypeOK /\ AllGood /\ AllCounted /\ AllAsked /\ [Next]_vars => (AllCounted /\ AllAsked)'
  BY CountedStep, AskedStep
<1> QED BY <1>1, <1>2, TypeCorrect, AlwaysGood, PTL DEF Spec

(* However many requests race and are repeated, and however often the      *)
(* service crashes: until a write of the state file is refused, a question *)
(* is answered once and a key is used once.  (A refused write in front of  *)
(* the claim sends the handler of the error to look at Hermes again with   *)
(* no attempt of the new leg counted; it may then ask the old question     *)
(* under the old attempt, and have it answered twice.)                     *)
THEOREM OneAnswerPerQuestionHolds == Spec => [](budget.faults = 0 => OneAnswerPerQuestion)
<1>1. AllAsked => (budget.faults = 0 => OneAnswerPerQuestion)
  BY DEF AllAsked, Asked, OneAnswerPerQuestion
<1> QED BY <1>1, AlwaysCounted, PTL

-----------------------------------------------------------------------------
(* Careful clients use a session for one thing at a time: while one of its *)
(* runs is under way, or a request for it, there is no chat, no other run  *)
(* and no turn of another in Hermes.                                       *)

UnderWay(r) == runs[r].status \in Resumable \/ pc[r] \in Sync \/ Requeueing(r)

Engaged(r) == UnderWay(r) \/ posting[r] # NotPosting \/ AnswersTo(r) # {}

Sole(r) ==
  /\ chat[SessionOf[r]] = "idle"
  /\ \A turn \in turns[SessionOf[r]] : turn.by = r
  /\ \A other \in Runs \ {r} : SessionOf[other] = SessionOf[r] => ~Engaged(other)

Serial == \A r \in Runs : Engaged(r) => Sole(r)

(* The requests that engage a run which was not.                           *)
Repeats(r) == RepostRun(r) /\ runs[r].status = "failed"
TakesUp(r) == PostRun(r) \/ Repeats(r) \/ \E q \in Requests : PostAnswer(q, r)

(* The steps that put a run under way, and those that engage it.           *)
Began(r) ==
  \/ UnderWay(r) \/ Repeats(r) \/ CreateRun(r)
  \/ \E q \in Requests : AcceptAnswer(q) /\ answering[q].run = r /\ runs'[r] # runs[r]

LEMMA Known ==
  ASSUME NEW r \in Runs
  PROVE  NotAnswering.run # r
BY NilAssumption DEF NotAnswering

LEMMA TaskEngages ==
  ASSUME TypeOK, AllGood, NEW t \in Runs, TaskStep(t), NEW r \in Runs
  PROVE  /\ UnderWay(r)' => UnderWay(r)
         /\ UNCHANGED <<posting, answering>>
<1>0. Good(runs[r], pc[r], posting[r].step) BY DEF AllGood
<1>1. UNCHANGED <<posting, answering>>
  BY DEF TaskStep, Reconciles, Attempts, StartRun, SessionBusy, ReconcileReadFails,
         ReconcileRecovers, ReconcileGivesUp, ReconcileContinues, ClaimRun, ReadSession,
         ReadSessionFails, MarkSubmission, SubmitFails, SubmitAccepted, StreamCompletes,
         StreamBreaks, PersistResult, ResultReadFails, HandleError, ClearSubmission, Requeue,
         BackoffEnds, offTask
<1>2. CASE t # r
  <2>1. runs'[r] = runs[r] /\ pc'[r] = pc[r] BY <1>2, TaskChanges DEF Others
  <2> QED BY <1>1, <2>1 DEF UnderWay, Requeueing
<1>3. CASE t = r
  <2>1. CASE pc[r] = "queued"
    <3>1. StartRun(r) \/ SessionBusy(r)
      BY <1>3, <2>1 DEF TaskStep, Reconciles, Attempts, ReconcileReadFails,
           ReconcileRecovers, ReconcileGivesUp, ReconcileContinues, ClaimRun, ReadSession,
           ReadSessionFails, MarkSubmission, SubmitFails, SubmitAccepted, StreamCompletes,
           StreamBreaks, PersistResult, ResultReadFails, HandleError, ClearSubmission, Requeue,
           BackoffEnds, At
    <3>2. CASE StartRun(r)
      <4>1. UNCHANGED runs /\ pc'[r] = LoopHead(runs[r])
        BY <3>2 DEF StartRun, Goto, TypeOK
      <4>2. pc'[r] \notin Sync BY <4>1, LoopHeadType DEF Sync
      <4> QED BY <1>1, <4>1, <4>2 DEF UnderWay, Requeueing
    <3>3. CASE SessionBusy(r)
      <4>1. pc'[r] = "none" BY <3>3 DEF SessionBusy, Fail, Goto, TypeOK
      <4>2. runs[r].status \in Resumable \/ runs' = runs BY <3>3 DEF SessionBusy
      <4> QED BY <1>1, <4>1, <4>2 DEF UnderWay, Requeueing, Sync
    <3> QED BY <3>1, <3>2, <3>3
  <2>2. CASE pc[r] # "queued"
    <3>1. pc[r] \in Exclusive
      BY <1>3, <2>2 DEF TaskStep, Reconciles, Attempts, StartRun, SessionBusy,
           ReconcileReadFails, ReconcileRecovers, ReconcileGivesUp, ReconcileContinues,
           ClaimRun, ReadSession, ReadSessionFails, MarkSubmission, SubmitFails,
           SubmitAccepted, StreamCompletes, StreamBreaks, PersistResult, ResultReadFails,
           HandleError, ClearSubmission, Requeue, BackoffEnds, At, Exclusive, Slotted, Sync
    <3>2. UnderWay(r) BY <1>0, <3>1 DEF Good, UnderWay
    <3> QED BY <1>1, <3>2
  <2> QED BY <2>1, <2>2
<1> QED BY <1>1, <1>2, <1>3

LEMMA Beginnings ==
  ASSUME TypeOK, AllGood, [Next]_vars, NEW r \in Runs
  PROVE  /\ UnderWay(r)' => Began(r)
         /\ Engaged(r)' => Engaged(r) \/ TakesUp(r)
<1>0. /\ answering \in [Requests -> Answering]
      /\ posting \in [Runs -> Posting]
  BY DEF TypeOK
<1>1. ASSUME runs'[r] = runs[r], pc'[r] = pc[r] \/ pc'[r] \notin Sync,
             posting'[r] = posting[r] \/ posting'[r] = NotPosting,
             AnswersTo(r)' \subseteq AnswersTo(r)
      PROVE  (UnderWay(r)' => UnderWay(r)) /\ (Engaged(r)' => Engaged(r))
  <2>1. Requeueing(r)' => Requeueing(r) BY <1>1 DEF Requeueing, NotPosting
  <2> QED BY <1>1, <2>1 DEF UnderWay, Engaged
<1>2. ASSUME UNCHANGED answering PROVE AnswersTo(r)' \subseteq AnswersTo(r)
  BY <1>2 DEF AnswersTo
<1>3. ASSUME NEW t \in Runs, pc' = pc \/ pc' = Spawned(t)
      PROVE  pc'[r] = pc[r] \/ pc'[r] \notin Sync
  BY <1>3, SpawnedPlace DEF Sync
<1>4. ASSUME NEW t \in Runs, TaskStep(t)
      PROVE  (UnderWay(r)' => UnderWay(r)) /\ (Engaged(r)' => Engaged(r))
  <2>1. /\ UnderWay(r)' => UnderWay(r)
        /\ UNCHANGED <<posting, answering>>
    BY <1>4, TaskEngages
  <2> QED BY <2>1 DEF Engaged, AnswersTo
<1>5. ASSUME NEW t \in Runs, ClientStep(t), t # r
      PROVE  (UnderWay(r)' => UnderWay(r)) /\ (Engaged(r)' => Engaged(r))
  <2>1. /\ pc' = pc \/ pc' = Spawned(t)
        /\ runs' = runs \/ \E run : Store(t, run)
        /\ posting' = posting \/ \E p : posting' = [posting EXCEPT ![t] = p]
                              \/ \E step : posting' = [posting EXCEPT ![t].step = step]
        /\ answering' = answering \/ \E q \in Requests :
              answering' = [answering EXCEPT ![q] = [step |-> "checked", run |-> t, baseline |-> 0]]
    BY <1>5, ZenonT(60) DEF ClientStep, PostRun, CreateRun, RepostRun, RequeueByClient, PostAnswer,
                ReplayAnswer, offTask
  <2>2. pc'[r] = pc[r] \/ pc'[r] \notin Sync BY <1>3, <2>1
  <2>3. runs'[r] = runs[r] BY <1>5, <2>1 DEF Store, TypeOK
  <2>4. posting'[r] = posting[r] BY <1>0, <1>5, <2>1
  <2>5. AnswersTo(r)' \subseteq AnswersTo(r) BY <1>0, <1>5, <2>1 DEF AnswersTo
  <2> QED BY <1>1, <2>2, <2>3, <2>4, <2>5
<1>6. ASSUME ClientStep(r)
      PROVE  (UnderWay(r)' => Began(r)) /\ (Engaged(r)' => Engaged(r) \/ TakesUp(r))
  <2>1. CASE CreateRun(r)
    <3>1. posting[r] # NotPosting BY <2>1 DEF CreateRun, NotPosting
    <3> QED BY <2>1, <3>1 DEF Began, Engaged
  <2>2. CASE Repeats(r) BY <2>2 DEF Began, TakesUp
  <2>3. CASE RequeueByClient(r)
    <3>1. Requeueing(r) BY <2>3 DEF RequeueByClient
    <3> QED BY <3>1 DEF Began, Engaged, UnderWay
  <2>4. CASE (RepostRun(r) /\ ~Repeats(r)) \/ ReplayAnswer(r)
    <3>1. runs[r].status \in Resumable BY <2>4 DEF RepostRun, Repeats, ReplayAnswer
    <3> QED BY <3>1 DEF Began, Engaged, UnderWay
  <2>5. CASE PostRun(r)
    <3>1. /\ UNCHANGED <<runs, pc>>
          /\ posting' = [posting EXCEPT ![r] =
                            [step |-> "reading", baseline |-> MessageCount(SessionOf[r])]]
      BY <2>5 DEF PostRun
    <3>2. ~Requeueing(r)' BY <1>0, <3>1 DEF Requeueing
    <3> QED BY <2>5, <3>1, <3>2 DEF UnderWay, Began, TakesUp
  <2>6. CASE \E q \in Requests : PostAnswer(q, r)
    <3>1. UNCHANGED <<runs, pc, posting>> BY <2>6 DEF PostAnswer
    <3> QED BY <2>6, <3>1 DEF UnderWay, Requeueing, Began, TakesUp
  <2> QED BY <1>6, <2>1, <2>2, <2>3, <2>4, <2>5, <2>6 DEF ClientStep
<1>7. ASSUME NEW q \in Requests, ReadForAnswer(q)
      PROVE  (UnderWay(r)' => UnderWay(r)) /\ (Engaged(r)' => Engaged(r))
  <2>1. AnswersTo(r)' \subseteq AnswersTo(r)
    BY <1>0, <1>7, Known DEF ReadForAnswer, AnswersTo
  <2> QED BY <1>1, <1>7, <2>1 DEF ReadForAnswer
<1>8. ASSUME NEW q \in Requests, AcceptAnswer(q)
      PROVE  (UnderWay(r)' => Began(r)) /\ (Engaged(r)' => Engaged(r))
  <2> DEFINE t == answering[q].run
  <2>1. t \in Runs BY <1>8 DEF AcceptAnswer, TypeOK, Answering, NotAnswering
  <2>2. AnswersTo(r)' \subseteq AnswersTo(r)
    BY <1>0, <1>8, Known DEF AcceptAnswer, AnswersTo
  <2>3. pc' = pc \/ pc' = Spawned(t) BY <1>8 DEF AcceptAnswer
  <2>4. runs' = runs \/ \E run : Store(t, run) BY <1>8 DEF AcceptAnswer
  <2>5. posting' = posting BY <1>8 DEF AcceptAnswer
  <2>6. pc'[r] = pc[r] \/ pc'[r] \notin Sync
    <3> HIDE DEF t
    <3> QED BY <1>3, <2>1, <2>3
  <2>7. CASE runs'[r] = runs[r] BY <1>1, <2>2, <2>5, <2>6, <2>7 DEF Began
  <2>8. CASE runs'[r] # runs[r]
    <3>1. t = r BY <2>1, <2>4, <2>8 DEF Store, TypeOK
    <3>2. AnswersTo(r) # {} BY <3>1 DEF AnswersTo
    <3> QED BY <1>8, <2>8, <3>1, <3>2 DEF Began, Engaged
  <2> QED BY <2>7, <2>8
<1>9. ASSUME NEW s \in Sessions, ChatStep(s) \/ HermesStep(s)
      PROVE  UNCHANGED <<runs, pc, posting, answering>>
  BY <1>9 DEF ChatStep, HermesStep, ChatStarts, ChatPosts, ChatEnds, HermesWorks, HermesEnds,
              HermesDrops, CloseSession, service
<1>10. ASSUME NEW t \in Runs, StoreFails(t) \/ StoreFailsForClient(t)
       PROVE  (UnderWay(r)' => UnderWay(r)) /\ (Engaged(r)' => Engaged(r))
  <2>1. UNCHANGED <<runs, answering>> BY <1>10 DEF StoreFails, StoreFailsForClient
  <2>2. pc'[r] = pc[r] \/ pc'[r] \notin Sync
    BY <1>10 DEF StoreFails, StoreFailsForClient, Raise, Goto, TypeOK, Sync
  <2>3. posting'[r] = posting[r] \/ posting'[r] = NotPosting
    BY <1>0, <1>10 DEF StoreFails, StoreFailsForClient
  <2> QED BY <1>1, <1>2, <2>1, <2>2, <2>3
<1>11. CASE Crash
  <2>1. AnswersTo(r)' = {} BY <1>11, Known DEF Crash, AnswersTo
  <2>2. /\ runs' = runs /\ pc'[r] = "none" /\ posting'[r] = NotPosting BY <1>11 DEF Crash
  <2> QED BY <1>1, <2>1, <2>2 DEF Sync, Began
<1>12. CASE Restart \/ UNCHANGED vars
  <2>1. UNCHANGED <<runs, posting, answering>> BY <1>12 DEF Restart, vars, offTask
  <2>2. pc'[r] = pc[r] \/ pc'[r] \notin Sync BY <1>12 DEF Restart, vars, Sync
  <2> QED BY <1>1, <1>2, <2>1, <2>2 DEF Began
<1>13. ASSUME UNCHANGED <<runs, pc, posting, answering>>
       PROVE  (UnderWay(r)' => UnderWay(r)) /\ (Engaged(r)' => Engaged(r))
  BY <1>1, <1>2, <1>13
<1>14. UnderWay(r) => Began(r) BY DEF Began
<1> QED BY <1>4, <1>5, <1>6, <1>7, <1>8, <1>9, <1>10, <1>11, <1>12, <1>13, <1>14 DEF Next

(* A careful client takes a run up only when nobody else is in the session *)
(* and nobody else comes in by the same step.                              *)
LEMMA TakesUpAlone ==
  ASSUME SerialClients, TypeOK, NEW r \in Runs, TakesUp(r)
  PROVE  /\ Sole(r) /\ Serving
         /\ UNCHANGED <<chat, turns, messages, accepted>>
         /\ \A other \in Runs \ {r} : Engaged(other)' => Engaged(other)
<1>0. /\ answering \in [Requests -> Answering]
      /\ posting \in [Runs -> Posting]
  BY DEF TypeOK
<1>1. /\ FreeFor(r) /\ Serving /\ UNCHANGED <<chat, turns, messages, accepted>>
  BY DEF TakesUp, Repeats, PostRun, RepostRun, PostAnswer, hermes, Resumable
<1>2. ASSUME NEW other \in Runs, ~InUse(other) PROVE ~Engaged(other)
  BY <1>1, <1>2, ServingIsQuiet DEF InUse, Engaged, UnderWay, Requeueing
<1>3. Sole(r) BY <1>1, <1>2 DEF FreeFor, Sole
<1>4. ASSUME NEW other \in Runs \ {r} PROVE Engaged(other)' => Engaged(other)
  <2>1. /\ UNCHANGED pc
        /\ runs' = runs \/ \E run : Store(r, run)
        /\ posting' = posting \/ \E p : posting' = [posting EXCEPT ![r] = p]
                              \/ \E step : posting' = [posting EXCEPT ![r].step = step]
        /\ answering' = answering \/ \E q \in Requests :
              answering' = [answering EXCEPT ![q] = [step |-> "checked", run |-> r, baseline |-> 0]]
    BY DEF TakesUp, Repeats, PostRun, RepostRun, PostAnswer, Resumable
  <2>2. runs'[other] = runs[other] BY <2>1 DEF Store, TypeOK
  <2>3. posting'[other] = posting[other] BY <1>0, <2>1
  <2>4. AnswersTo(other)' \subseteq AnswersTo(other) BY <1>0, <2>1 DEF AnswersTo
  <2> QED BY <2>1, <2>2, <2>3, <2>4 DEF Engaged, UnderWay, Requeueing
<1> QED BY <1>1, <1>3, <1>4

LEMMA SessionMoves ==
  ASSUME TypeOK, [Next]_vars, NEW s \in Sessions
  PROVE  /\ chat'[s] = chat[s] \/ chat'[s] = "idle" \/ ChatStarts(s) \/ ChatPosts(s)
         /\ \A turn \in turns'[s] :
              \/ turn \in turns[s] \/ ChatPosts(s)
              \/ \E t \in Runs : SubmitAccepted(t) /\ SessionOf[t] = s /\ turn.by = t
<1>0. chat \in [Sessions -> {"idle", "claimed", "posted"}] /\ turns \in [Sessions -> SUBSET Turn]
  BY DEF TypeOK
<1>1. CASE UNCHANGED <<chat, turns>> BY <1>1
<1>2. ASSUME NEW t \in Runs, TaskStep(t), ~SubmitAccepted(t) PROVE UNCHANGED <<chat, turns>>
  BY <1>2 DEF TaskStep, Reconciles, Attempts, StartRun, SessionBusy, ReconcileReadFails,
              ReconcileRecovers, ReconcileGivesUp, ReconcileContinues, ClaimRun, ReadSession,
              ReadSessionFails, MarkSubmission, SubmitFails, StreamCompletes, StreamBreaks,
              PersistResult, ResultReadFails, HandleError, ClearSubmission, Requeue,
              BackoffEnds, offTask, hermes
<1>3. ASSUME NEW t \in Runs, SubmitAccepted(t)
      PROVE  /\ chat' = chat
             /\ \A turn \in turns'[s] : turn \in turns[s] \/ (SessionOf[t] = s /\ turn.by = t)
  <2>1. /\ chat' = chat
        /\ turns' = [turns EXCEPT ![SessionOf[t]] =
                        @ \cup {[by |-> t, attempt |-> runs[t].attempts]}]
    BY <1>3 DEF SubmitAccepted
  <2>2. CASE SessionOf[t] = s
    <3>1. turns'[s] = turns[s] \cup {[by |-> t, attempt |-> runs[t].attempts]}
      BY <1>0, <2>1, <2>2
    <3> QED BY <2>1, <2>2, <3>1
  <2>3. CASE SessionOf[t] # s BY <1>0, <2>1, <2>3
  <2> QED BY <2>2, <2>3
<1>4. ASSUME NEW t \in Runs, ClientStep(t) \/ StoreFails(t) \/ StoreFailsForClient(t)
      PROVE  UNCHANGED <<chat, turns>>
  BY <1>4 DEF ClientStep, PostRun, CreateRun, RepostRun, RequeueByClient, PostAnswer,
              ReplayAnswer, StoreFails, StoreFailsForClient, offTask, hermes
<1>5. ASSUME NEW q \in Requests, ReadForAnswer(q) \/ AcceptAnswer(q)
      PROVE  UNCHANGED <<chat, turns>>
  BY <1>5 DEF ReadForAnswer, AcceptAnswer, hermes
<1>6. ASSUME NEW c \in Sessions, ChatStep(c), ~ChatPosts(s)
      PROVE  /\ turns'[s] = turns[s]
             /\ chat'[s] = chat[s] \/ chat'[s] = "idle" \/ ChatStarts(s)
  BY <1>0, <1>6 DEF ChatStep, ChatStarts, ChatPosts, ChatEnds, hermes
<1>7. ASSUME NEW c \in Sessions, HermesStep(c)
      PROVE  chat' = chat /\ turns'[s] \subseteq turns[s]
  BY <1>0, <1>7 DEF HermesStep, HermesWorks, HermesEnds, HermesDrops, CloseSession, service
<1>8. CASE Crash \/ Restart \/ UNCHANGED vars
  BY <1>8 DEF Crash, Restart, vars, offTask, hermes
<1>9. CASE ChatPosts(s) BY <1>9
<1> QED BY <1>1, <1>2, <1>3, <1>4, <1>5, <1>6, <1>7, <1>8, <1>9 DEF Next

LEMMA SerialStep ==
  ASSUME SerialClients, TypeOK, AllGood, Serial, [Next]_vars
  PROVE  Serial'
<1> SUFFICES ASSUME NEW r \in Runs, Engaged(r)' PROVE Sole(r)' BY DEF Serial
<1> DEFINE s == SessionOf[r]
<1>0. s \in Sessions BY SessionOfAssumption
<1>1. Engaged(r) \/ TakesUp(r) BY Beginnings
<1>2. Sole(r) BY <1>1, TakesUpAlone DEF Serial
<1>3. ASSUME NEW other \in Runs \ {r}, SessionOf[other] = s, Engaged(other)' PROVE FALSE
  <2>1. ~Engaged(other) BY <1>2, <1>3 DEF Sole
  <2>2. TakesUp(other) BY <1>3, <2>1, Beginnings
  <2>3. Sole(other) /\ Engaged(r) BY <2>2, TakesUpAlone
  <2> QED BY <1>3, <2>3 DEF Sole
<1>4. ~ChatPosts(s) BY <1>2 DEF ChatPosts, Sole
<1>5. ~ChatStarts(s)
  <2>1. ASSUME ChatStarts(s) PROVE FALSE
    <3>1. ~InUse(r) /\ Serving /\ UNCHANGED <<runs, pc, posting, answering>>
      BY <2>1 DEF ChatStarts
    <3>2. ~Engaged(r) BY <3>1, ServingIsQuiet DEF InUse, Engaged, UnderWay, Requeueing
    <3> QED BY <3>1, <3>2 DEF Engaged, UnderWay, Requeueing, AnswersTo
  <2> QED BY <2>1
<1>6. chat'[s] = "idle" BY <1>0, <1>2, <1>4, <1>5, SessionMoves DEF Sole
<1>7. ASSUME NEW turn \in turns'[s] PROVE turn.by = r
  <2>1. CASE turn \in turns[s] BY <1>2, <2>1 DEF Sole
  <2>2. ASSUME NEW t \in Runs, SubmitAccepted(t), SessionOf[t] = s, turn.by = t
        PROVE  turn.by = r
    <3>1. runs[t].status = "running" /\ runs' = runs
      BY <2>2 DEF SubmitAccepted, At, AllGood, Good, Slotted
    <3>2. Engaged(t)' BY <3>1 DEF Engaged, UnderWay, Resumable
    <3> QED BY <1>3, <2>2, <3>2
  <2> QED BY <1>0, <1>4, <2>1, <2>2, SessionMoves
<1> QED BY <1>3, <1>6, <1>7 DEF Sole

LEMMA SerialApart == ASSUME Serial PROVE ChatsApart
BY DEF Serial, Engaged, UnderWay, Sole, ChatsApart

LEMMA AlwaysSerial == SerialClients => (Spec => [](Serial /\ AllOnce))
<1> SUFFICES ASSUME SerialClients PROVE Spec => [](Serial /\ AllOnce)
  OBVIOUS
<1>1. Init => Serial /\ AllOnce
  <2> SUFFICES ASSUME Init, NEW r \in Runs
               PROVE  ~Engaged(r) /\ Once(runs[r], pc[r], exc[r], accepted[r])
    BY DEF Serial, AllOnce
  <2>1. AnswersTo(r) = {} BY Known DEF Init, AnswersTo
  <2>2. ~Engaged(r)
    BY <2>1 DEF Init, Engaged, UnderWay, Requeueing, NotPosting, Absent, NewRun, Resumable, Sync
  <2>3. Once(runs[r], pc[r], exc[r], accepted[r])
    BY DEF Init, Once, Spent, Absent, NewRun
  <2> QED BY <2>2, <2>3
<1>2. TypeOK /\ AllGood /\ Serial /\ AllOnce /\ [Next]_vars => (Serial /\ AllOnce)'
  BY SerialStep, SerialApart, OnceStep
<1> QED BY <1>1, <1>2, TypeCorrect, AlwaysGood, PTL DEF Spec

(* Where clients use each session for one thing at a time, interactive     *)
(* chats included, Hermes accepts the POST of at most one attempt of a leg *)
(* and the record accounts for it wherever the service stops.              *)
THEOREM SerialClientsExecuteOnce ==
  SerialClients => (Spec => [](AtMostOncePerLeg /\ ExecutionIsRecorded))
<1> SUFFICES ASSUME SerialClients PROVE Spec => [](AtMostOncePerLeg /\ ExecutionIsRecorded)
  OBVIOUS
<1>1. AllOnce => AtMostOncePerLeg /\ ExecutionIsRecorded BY OnceSays
<1> QED BY <1>1, AlwaysSerial, PTL

-----------------------------------------------------------------------------
(* The turns of the leg a run is in, and what Hermes recorded of them.     *)

Own(r, run, acc) == {[by |-> r, attempt |-> n] : n \in {m \in acc : m > run.epoch}}

Mine(r, run, acc, log, open) ==
  /\ \A turn \in open : turn.by = r => turn \in Own(r, run, acc)
  /\ \A i \in 1 .. Len(log) : log[i].turn.by = r =>
       /\ \E n \in acc : log[i].turn = [by |-> r, attempt |-> n]
       /\ i > run.baseline \/ log[i].turn \notin run.artifacts => log[i].turn \in Own(r, run, acc)
       /\ log[i].kind # "work" => log[i].turn \notin open

Reported(r, run, acc, open) ==
  /\ run.status = "waiting_input" => /\ run.clarification.question \in Own(r, run, acc)
                                     /\ \A turn \in open : turn.by # r
  /\ run.status = "succeeded" => /\ run.result.answer \in Own(r, run, acc)
                                 /\ run.result.artifacts \subseteq Own(r, run, acc)

SameLeg(run, next) ==
  next.epoch = run.epoch /\ next.baseline = run.baseline /\ next.artifacts = run.artifacts

(* What is left of the turns of a session: others may have begun.          *)
Left(r, open, left) == \A turn \in left : turn \in open \/ turn.by # r

LEMMA MineKept ==
  ASSUME NEW r, NEW run, NEW next, NEW acc, NEW log, NEW open, NEW left,
         Mine(r, run, acc, log, open), SameLeg(run, next), Left(r, open, left)
  PROVE  Mine(r, next, acc, log, left)
<1>1. Own(r, next, acc) = Own(r, run, acc) BY DEF Own, SameLeg
<1>2. \A turn \in left : turn.by = r => turn \in Own(r, next, acc) BY <1>1 DEF Mine, Left
<1>3. ASSUME NEW i \in 1 .. Len(log), log[i].turn.by = r
      PROVE  /\ \E n \in acc : log[i].turn = [by |-> r, attempt |-> n]
             /\ i > next.baseline \/ log[i].turn \notin next.artifacts =>
                  log[i].turn \in Own(r, next, acc)
             /\ log[i].kind # "work" => log[i].turn \notin left
  <2>1. /\ \E n \in acc : log[i].turn = [by |-> r, attempt |-> n]
        /\ i > run.baseline \/ log[i].turn \notin run.artifacts => log[i].turn \in Own(r, run, acc)
        /\ log[i].kind # "work" => log[i].turn \notin open
    BY <1>3 DEF Mine
  <2> QED BY <1>1, <1>3, <2>1 DEF SameLeg, Left
<1> QED BY <1>2, <1>3, Zenon DEF Mine

LEMMA MineWorks ==
  ASSUME NEW r, NEW run, NEW acc, NEW log \in Seq(Message), NEW open, NEW left,
         NEW turn \in open, NEW kind, open \subseteq Turn, kind \in Kind,
         Mine(r, run, acc, log, open), left \subseteq open, kind # "work" => turn \notin left
  PROVE  Mine(r, run, acc, Append(log, [turn |-> turn, kind |-> kind]), left)
<1> DEFINE message == [turn |-> turn, kind |-> kind]
           longer  == Append(log, message)
<1>1. message.turn = turn /\ message.kind = kind /\ message \in Message BY DEF Message
<1> HIDE DEF message
<1>2. /\ Len(longer) = Len(log) + 1 /\ Len(log) \in Nat
      /\ longer[Len(log) + 1] = message
      /\ \A i \in 1 .. Len(log) : longer[i] = log[i]
  BY <1>1
<1>3. turn.by = r => turn \in Own(r, run, acc) BY DEF Mine
<1>4. turn.by = r => \E n \in acc : turn = [by |-> r, attempt |-> n] BY <1>3 DEF Own
<1> HIDE DEF longer
<1>5. ASSUME NEW i \in 1 .. Len(longer), longer[i].turn.by = r
      PROVE  /\ \E n \in acc : longer[i].turn = [by |-> r, attempt |-> n]
             /\ i > run.baseline \/ longer[i].turn \notin run.artifacts =>
                  longer[i].turn \in Own(r, run, acc)
             /\ longer[i].kind # "work" => longer[i].turn \notin left
  <2>0. i \in 1 .. Len(log) \/ i = Len(log) + 1 BY <1>2
  <2>1. CASE i = Len(log) + 1
    <3>1. longer[i] = message BY <1>2, <2>1
    <3>2. longer[i].turn = turn /\ longer[i].kind = kind BY <1>1, <3>1
    <3> QED BY <1>3, <1>4, <1>5, <3>2
  <2>2. CASE i \in 1 .. Len(log)
    <3>1. longer[i] = log[i] BY <1>2, <2>2
    <3>2. log[i].turn.by = r BY <1>5, <3>1
    <3>3. /\ \E n \in acc : log[i].turn = [by |-> r, attempt |-> n]
          /\ i > run.baseline \/ log[i].turn \notin run.artifacts => log[i].turn \in Own(r, run, acc)
          /\ log[i].kind # "work" => log[i].turn \notin open
      BY <2>2, <3>2 DEF Mine
    <3> QED BY <3>1, <3>3, Zenon
  <2> QED BY <2>0, <2>1, <2>2
<1>6. \A other \in left : other.by = r => other \in Own(r, run, acc) BY DEF Mine
<1> QED BY <1>5, <1>6 DEF Mine, longer, message

LEMMA MineSubmits ==
  ASSUME NEW r, NEW run \in Run, NEW acc \in SUBSET Nat, NEW log, NEW open,
         Mine(r, run, acc, log, open), run.epoch < run.attempts, run.attempts \notin acc
  PROVE  Mine(r, run, acc \cup {run.attempts}, log,
              open \cup {[by |-> r, attempt |-> run.attempts]})
<1> DEFINE n == run.attempts
           turn == [by |-> r, attempt |-> n]
           more == acc \cup {n}
<1>1. Own(r, run, more) = Own(r, run, acc) \cup {turn} BY DEF Own, Run
<1>2. \A m \in acc : [by |-> r, attempt |-> m] # turn
  <2>1. ASSUME NEW m \in acc, [by |-> r, attempt |-> m] = turn PROVE FALSE
    <3>1. m = n BY <2>1
    <3> QED BY <3>1
  <2> QED BY <2>1
<1> HIDE DEF turn
<1>3. \A other \in open \cup {turn} : other.by = r => other \in Own(r, run, more)
  BY <1>1 DEF Mine
<1>4. ASSUME NEW i \in 1 .. Len(log), log[i].turn.by = r
      PROVE  /\ \E m \in more : log[i].turn = [by |-> r, attempt |-> m]
             /\ i > run.baseline \/ log[i].turn \notin run.artifacts =>
                  log[i].turn \in Own(r, run, more)
             /\ log[i].kind # "work" => log[i].turn \notin open \cup {turn}
  <2>1. /\ \E m \in acc : log[i].turn = [by |-> r, attempt |-> m]
        /\ i > run.baseline \/ log[i].turn \notin run.artifacts => log[i].turn \in Own(r, run, acc)
        /\ log[i].kind # "work" => log[i].turn \notin open
    BY <1>4 DEF Mine
  <2>2. log[i].turn # turn BY <1>2, <2>1
  <2> QED BY <1>1, <2>1, <2>2
<1> QED BY <1>3, <1>4 DEF Mine, turn

(* A new leg has no turns yet, and leaves behind it all that is recorded.  *)
LEMMA MineAnew ==
  ASSUME NEW r, NEW run, NEW acc \in SUBSET Nat, NEW log \in Seq(Message), NEW next,
         NEW open, NEW left, Mine(r, run, acc, log, open), \A turn \in left : turn.by # r,
         next.baseline = Len(log),
         \A i \in 1 .. Len(log) : log[i].turn \in next.artifacts
  PROVE  Mine(r, next, acc, log, left)
<1>1. ASSUME NEW i \in 1 .. Len(log)
      PROVE  ~(i > next.baseline) /\ log[i].turn \in next.artifacts
  BY <1>1
<1>2. \A i \in 1 .. Len(log) : log[i].turn.by = r =>
        /\ \E n \in acc : log[i].turn = [by |-> r, attempt |-> n]
        /\ log[i].turn \notin left
  BY DEF Mine
<1> QED BY <1>1, <1>2, Zenon DEF Mine

LEMMA EveryTurnLeft ==
  ASSUME NEW s, NEW i \in 1 .. Len(messages[s]), messages[s] \in Seq(Message)
  PROVE  messages[s][i].turn \in ArtifactTurns(s)
<1>1. messages[s][i] \in ToSet(messages[s]) BY DEF ToSet
<1> QED BY <1>1 DEF ArtifactTurns

(* An outcome is found among the own turns, and after it none is open.     *)
LEMMA OutcomeIsOwn ==
  ASSUME TypeOK, NEW r \in Runs, NEW outcome \in Outcomes(r),
         Mine(r, runs[r], accepted[r], messages[SessionOf[r]], turns[SessionOf[r]]),
         Undisturbed(r),
         pc[r] = "result" => runs[r].epoch < runs[r].attempts,
         \A m, n \in accepted[r] : m > runs[r].epoch /\ n > runs[r].epoch => m = n
  PROVE  /\ outcome.answer \in Own(r, runs[r], accepted[r])
         /\ outcome.artifacts \subseteq Own(r, runs[r], accepted[r])
         /\ \A turn \in turns[SessionOf[r]] : turn.by # r
<1> DEFINE s == SessionOf[r]
           log == messages[s]
           own == Own(r, runs[r], accepted[r])
<1>0. /\ s \in Sessions /\ log \in Seq(Message) /\ runs[r] \in Run /\ accepted[r] \subseteq Nat
      /\ runs[r].baseline \in Nat /\ runs[r].epoch \in Nat /\ runs[r].attempts \in Nat
  BY SessionOfAssumption DEF TypeOK, Run
<1>1. ASSUME NEW i \in 1 .. Len(log), log[i].turn.by = r
      PROVE  /\ \E n \in accepted[r] : log[i].turn = [by |-> r, attempt |-> n]
             /\ i > runs[r].baseline \/ log[i].turn \notin runs[r].artifacts => log[i].turn \in own
             /\ log[i].kind # "work" => log[i].turn \notin turns[s]
  BY <1>1 DEF Mine
<1>2. ASSUME NEW i \in 1 .. Len(log), i > runs[r].baseline \/ log[i].turn \notin runs[r].artifacts
      PROVE  /\ log[i].turn \in own
             /\ log[i].kind # "work" => log[i].turn \notin turns[s]
  <2>1. log[i].turn.by = r BY <1>2 DEF Undisturbed
  <2> QED BY <1>1, <1>2, <2>1
<1>3. \E i \in 1 .. Len(log) : /\ log[i].turn \in own /\ log[i].turn \notin turns[s]
                               /\ outcome = OutcomeOf(runs[r], s, log[i])
  <2>1. CASE outcome \in Recovered(r)
    <3>1. PICK m \in LastFinal(s, runs[r].baseline) : outcome = OutcomeOf(runs[r], s, m)
      BY <2>1 DEF Recovered
    <3>2. PICK i \in FinalMessages(s, runs[r].baseline) : m = log[i] BY <3>1 DEF LastFinal
    <3>3. i \in 1 .. Len(log) /\ i > runs[r].baseline /\ log[i].kind # "work"
      BY <1>0, <3>2 DEF FinalMessages
    <3> QED BY <1>2, <3>1, <3>2, <3>3
  <2>2. CASE outcome \notin Recovered(r)
    <3>1. pc[r] = "result" /\ \E m \in OwnFinals(r) : outcome = OutcomeOf(runs[r], s, m)
      BY <2>2 DEF Outcomes
    <3>2. PICK m \in OwnFinals(r) : outcome = OutcomeOf(runs[r], s, m) BY <3>1
    <3>3. /\ m \in ToSet(log) /\ m.turn = [by |-> r, attempt |-> runs[r].attempts]
          /\ m.kind # "work" /\ m.turn.by = r
      BY <3>2 DEF OwnFinals
    <3>4. PICK i \in 1 .. Len(log) : m = log[i] BY <1>0, <3>3 DEF ToSet
    <3>5. PICK n \in accepted[r] : m.turn = [by |-> r, attempt |-> n] BY <1>1, <3>3, <3>4
    <3>6. n = runs[r].attempts BY <3>3, <3>5
    <3>7. m.turn \in own BY <1>0, <3>1, <3>3, <3>5, <3>6 DEF Own
    <3>8. m.turn \notin turns[s] BY <1>1, <3>3, <3>4
    <3> QED BY <3>2, <3>4, <3>7, <3>8
  <2> QED BY <2>1, <2>2
<1>4. PICK i \in 1 .. Len(log) : /\ log[i].turn \in own /\ log[i].turn \notin turns[s]
                                 /\ outcome = OutcomeOf(runs[r], s, log[i])
  BY <1>3
<1>5. outcome.answer \in own BY <1>4 DEF OutcomeOf
<1>6. ArtifactTurns(s) \ runs[r].artifacts \subseteq own
  <2>1. ASSUME NEW turn \in ArtifactTurns(s), turn \notin runs[r].artifacts PROVE turn \in own
    <3>1. PICK m \in ToSet(log) : turn = m.turn BY <2>1 DEF ArtifactTurns
    <3>2. PICK j \in 1 .. Len(log) : m = log[j] BY <1>0, <3>1 DEF ToSet
    <3> QED BY <1>2, <2>1, <3>1, <3>2
  <2> QED BY <2>1
<1>7. outcome.artifacts \subseteq own
  <2>1. outcome.artifacts \in {ArtifactTurns(s) \ runs[r].artifacts, {}}
    BY <1>4 DEF OutcomeOf, NewArtifacts
  <2> QED BY <1>6, <2>1
<1>8. ASSUME NEW turn \in turns[s] PROVE turn.by # r
  <2>1. \A one, two \in own : one = two BY DEF Own
  <2>2. turn.by = r => turn \in own BY DEF Mine
  <2> QED BY <1>4, <2>1, <2>2
<1> QED BY <1>5, <1>7, <1>8

-----------------------------------------------------------------------------
(* How a step changes what Hermes holds of a run, and the answers under    *)
(* way to it.                                                              *)

Quiet(r) ==
  /\ accepted'[r] = accepted[r] /\ messages'[SessionOf[r]] = messages[SessionOf[r]]
  /\ Left(r, turns[SessionOf[r]], turns'[SessionOf[r]])

Worked(r) ==
  /\ runs' = runs /\ accepted' = accepted /\ answering' = answering
  /\ \E turn \in turns[SessionOf[r]], kind \in Kind :
       /\ Record(SessionOf[r], turn, kind)
       /\ turns'[SessionOf[r]] \subseteq turns[SessionOf[r]]
       /\ kind # "work" => turn \notin turns'[SessionOf[r]]

AnswersKept(r) == \A q \in Requests : answering'[q].run = r => answering'[q] = answering[q]

LEMMA HermesMoves ==
  ASSUME TypeOK, NEW s \in Sessions, HermesStep(s), NEW r \in Runs
  PROVE  Quiet(r) \/ Worked(r)
<1> DEFINE t == SessionOf[r]
<1>0. t \in Sessions /\ turns[s] \subseteq Turn BY SessionOfAssumption DEF TypeOK
<1>1. /\ runs' = runs /\ accepted' = accepted /\ answering' = answering
  BY DEF HermesStep, HermesWorks, HermesEnds, HermesDrops, CloseSession, service
<1>2. CASE CloseSession(s) BY <1>1, <1>2 DEF CloseSession, Quiet, Left
<1>3. CASE HermesDrops(s)
  <2>1. messages' = messages /\ turns'[t] \subseteq turns[t]
    BY <1>0, <1>3 DEF HermesDrops, TypeOK
  <2> QED BY <1>1, <2>1 DEF Quiet, Left
<1>4. CASE HermesWorks(s)
  <2>1. turns' = turns /\ \E turn \in turns[s] : Record(s, turn, "work") BY <1>4 DEF HermesWorks
  <2>2. CASE s = t BY <1>1, <2>1, <2>2 DEF Worked, Kind
  <2>3. CASE s # t
    <3>1. messages'[t] = messages[t] BY <1>0, <2>1, <2>3 DEF Record, TypeOK
    <3> QED BY <1>1, <2>1, <3>1 DEF Quiet, Left
  <2> QED BY <2>2, <2>3
<1>5. ASSUME NEW kind \in {"final", "clarify"}, HermesEnds(s, kind)
      PROVE  Quiet(r) \/ Worked(r)
  <2>1. PICK turn \in turns[s] : /\ Record(s, turn, kind)
                                 /\ turns' = [turns EXCEPT ![s] = @ \ {turn}]
    BY <1>5 DEF HermesEnds
  <2>2. CASE s = t
    <3>1. turns'[t] \subseteq turns[t] /\ turn \notin turns'[t]
      BY <1>0, <2>1, <2>2 DEF TypeOK
    <3>2. kind \in Kind BY DEF Kind
    <3> QED BY <1>1, <2>1, <2>2, <3>1, <3>2 DEF Worked
  <2>3. CASE s # t
    <3>1. messages'[t] = messages[t] /\ turns'[t] = turns[t]
      BY <1>0, <2>1, <2>3 DEF Record, TypeOK
    <3> QED BY <1>1, <3>1 DEF Quiet, Left
  <2> QED BY <2>2, <2>3
<1> QED BY <1>2, <1>3, <1>4, <1>5 DEF HermesStep

LEMMA HermesChanges ==
  ASSUME TypeOK, [Next]_vars, NEW r \in Runs
  PROVE  Quiet(r) \/ Worked(r) \/ SubmitAccepted(r)
<1>0. SessionOf[r] \in Sessions BY SessionOfAssumption
<1>1. CASE UNCHANGED <<messages, turns, accepted>> BY <1>1 DEF Quiet, Left
<1>2. ASSUME NEW t \in Runs, SubmitAccepted(t)
      PROVE  Quiet(r) \/ SubmitAccepted(r)
  <2>1. CASE t = r BY <1>2, <2>1
  <2>2. CASE t # r
    <3>1. /\ messages' = messages /\ accepted'[r] = accepted[r]
      BY <1>2, <2>2 DEF SubmitAccepted, TypeOK
    <3>2. Left(r, turns[SessionOf[r]], turns'[SessionOf[r]])
      <4>1. turns' = [turns EXCEPT ![SessionOf[t]] =
                        @ \cup {[by |-> t, attempt |-> runs[t].attempts]}]
        BY <1>2 DEF SubmitAccepted
      <4>2. CASE SessionOf[t] = SessionOf[r]
        <5>1. turns'[SessionOf[r]] =
                turns[SessionOf[r]] \cup {[by |-> t, attempt |-> runs[t].attempts]}
          BY <1>0, <4>1, <4>2 DEF TypeOK
        <5> QED BY <2>2, <5>1 DEF Left
      <4>3. CASE SessionOf[t] # SessionOf[r]
        <5>1. turns'[SessionOf[r]] = turns[SessionOf[r]] BY <1>0, <4>1, <4>3 DEF TypeOK
        <5> QED BY <5>1 DEF Left
      <4> QED BY <4>2, <4>3
    <3> QED BY <3>1, <3>2 DEF Quiet
  <2> QED BY <2>1, <2>2
<1>3. ASSUME NEW t \in Runs, TaskStep(t), ~SubmitAccepted(t)
      PROVE  UNCHANGED <<messages, turns, accepted>>
  BY <1>3 DEF TaskStep, Reconciles, Attempts, StartRun, SessionBusy, ReconcileReadFails,
              ReconcileRecovers, ReconcileGivesUp, ReconcileContinues, ClaimRun, ReadSession,
              ReadSessionFails, MarkSubmission, SubmitFails, StreamCompletes, StreamBreaks,
              PersistResult, ResultReadFails, HandleError, ClearSubmission, Requeue,
              BackoffEnds, offTask, hermes
<1>4. ASSUME NEW t \in Runs, ClientStep(t) \/ StoreFails(t) \/ StoreFailsForClient(t)
      PROVE  UNCHANGED <<messages, turns, accepted>>
  BY <1>4 DEF ClientStep, PostRun, CreateRun, RepostRun, RequeueByClient, PostAnswer,
              ReplayAnswer, StoreFails, StoreFailsForClient, offTask, hermes
<1>5. ASSUME NEW q \in Requests, ReadForAnswer(q) \/ AcceptAnswer(q)
      PROVE  UNCHANGED <<messages, turns, accepted>>
  BY <1>5 DEF ReadForAnswer, AcceptAnswer, hermes
<1>6. ASSUME NEW s \in Sessions, ChatStep(s) PROVE Quiet(r)
  <2>1. CASE ChatStarts(s) \/ ChatEnds(s)
    <3>1. UNCHANGED <<messages, turns, accepted>>
      BY <2>1 DEF ChatStarts, ChatEnds, hermes
    <3> QED BY <3>1 DEF Quiet, Left
  <2>2. CASE ChatPosts(s)
    <3>1. /\ messages' = messages /\ accepted' = accepted
          /\ turns' = [turns EXCEPT ![s] = @ \cup {[by |-> Chat, attempt |-> budget.chats]}]
      BY <2>2 DEF ChatPosts
    <3>2. \A turn \in turns'[SessionOf[r]] : turn \in turns[SessionOf[r]] \/ turn.by = Chat
      BY <1>0, <3>1 DEF TypeOK
    <3> QED BY <3>1, <3>2, ChatAssumption DEF Quiet, Left
  <2> QED BY <1>6, <2>1, <2>2 DEF ChatStep
<1>7. CASE Crash \/ Restart \/ UNCHANGED vars
  BY <1>1, <1>7 DEF Crash, Restart, vars, offTask, hermes
<1> QED BY <1>1, <1>2, <1>3, <1>4, <1>5, <1>6, <1>7, HermesMoves DEF Next

LEMMA AnswerChanges ==
  ASSUME TypeOK, [Next]_vars, NEW r \in Runs
  PROVE  \/ AnswersKept(r)
         \/ \E q \in Requests : PostAnswer(q, r) \/ ReadForAnswer(q)
<1>0. answering \in [Requests -> Answering] BY DEF TypeOK
<1>1. CASE UNCHANGED answering BY <1>1 DEF AnswersKept
<1>2. ASSUME NEW t \in Runs, TaskStep(t) \/ StoreFails(t) \/ StoreFailsForClient(t)
      PROVE  UNCHANGED answering
  BY <1>2 DEF TaskStep, Reconciles, Attempts, StartRun, SessionBusy, ReconcileReadFails,
              ReconcileRecovers, ReconcileGivesUp, ReconcileContinues, ClaimRun, ReadSession,
              ReadSessionFails, MarkSubmission, SubmitFails, SubmitAccepted, StreamCompletes,
              StreamBreaks, PersistResult, ResultReadFails, HandleError, ClearSubmission,
              Requeue, BackoffEnds, StoreFails, StoreFailsForClient, offTask
<1>3. ASSUME NEW t \in Runs, ClientStep(t), \A q \in Requests : ~PostAnswer(q, t)
      PROVE  UNCHANGED answering
  BY <1>3 DEF ClientStep, PostRun, CreateRun, RepostRun, RequeueByClient, ReplayAnswer, offTask
<1>4. ASSUME NEW t \in Runs, NEW q \in Requests, PostAnswer(q, t), t # r
      PROVE  AnswersKept(r)
  BY <1>0, <1>4 DEF PostAnswer, AnswersKept
<1>5. ASSUME NEW q \in Requests, AcceptAnswer(q) PROVE AnswersKept(r)
  <2>1. NotAnswering.run # r BY NilAssumption DEF NotAnswering
  <2> QED BY <1>0, <1>5, <2>1 DEF AcceptAnswer, AnswersKept
<1>6. ASSUME NEW s \in Sessions, ChatStep(s) \/ HermesStep(s) PROVE UNCHANGED answering
  BY <1>6 DEF ChatStep, HermesStep, ChatStarts, ChatPosts, ChatEnds, HermesWorks, HermesEnds,
              HermesDrops, CloseSession, service
<1>7. CASE Crash
  <2>1. NotAnswering.run # r BY NilAssumption DEF NotAnswering
  <2> QED BY <1>7, <2>1 DEF Crash, AnswersKept
<1>8. CASE Restart \/ UNCHANGED vars BY <1>1, <1>8 DEF Restart, vars, offTask
<1> QED BY <1>1, <1>2, <1>3, <1>4, <1>5, <1>6, <1>7, <1>8 DEF Next

-----------------------------------------------------------------------------
(* The outcome of a run comes from its own leg.                            *)

Answered(r) ==
  /\ \A q \in AnswersTo(r) : ~HasReceipt(runs[r], KeyOf[q]) =>
       /\ runs[r].status = "waiting_input"
       /\ answering[q].step = "read" => answering[q].baseline = Len(messages[SessionOf[r]])
  /\ \A p, q \in AnswersTo(r) : KeyOf[p] = KeyOf[q]

(* A submission that was read but not yet recorded has read the end.       *)
Fresh(r) ==
  posting[r].step = "reading" /\ runs[r].status = "absent" =>
    posting[r].baseline = Len(messages[SessionOf[r]])

Core(r) ==
  /\ Mine(r, runs[r], accepted[r], messages[SessionOf[r]], turns[SessionOf[r]])
  /\ Reported(r, runs[r], accepted[r], turns[SessionOf[r]])
  /\ Answered(r)

OwnLeg(r) == Core(r) /\ Fresh(r) /\ (UnderWay(r) => Undisturbed(r))

AllOwn == \A r \in Runs : OwnLeg(r)

LEMMA ReportedKept ==
  ASSUME NEW r, NEW run, NEW acc, NEW open, NEW left,
         Reported(r, run, acc, open), Left(r, open, left)
  PROVE  Reported(r, run, acc, left)
BY DEF Reported, Left

(* Answers stay answered when the record keeps its receipts and was not    *)
(* waiting for one.                                                        *)
LEMMA AnswersStay ==
  ASSUME NEW r \in Runs, Answered(r), AnswersKept(r),
         runs[r].status # "waiting_input" \/ runs'[r] = runs[r],
         runs[r].receipts \subseteq runs'[r].receipts,
         runs[r].status = "waiting_input" /\ AnswersTo(r) # {} =>
           messages'[SessionOf[r]] = messages[SessionOf[r]]
  PROVE  Answered(r)'
<1>1. ASSUME NEW q \in AnswersTo(r)' PROVE q \in AnswersTo(r) /\ answering'[q] = answering[q]
  BY <1>1 DEF AnswersTo, AnswersKept
<1>2. ASSUME NEW q \in AnswersTo(r)', ~HasReceipt(runs'[r], KeyOf[q])
      PROVE  /\ runs'[r].status = "waiting_input"
             /\ answering'[q].step = "read" =>
                  answering'[q].baseline = Len(messages'[SessionOf[r]])
  <2>1. q \in AnswersTo(r) /\ answering'[q] = answering[q] BY <1>1
  <2>2. ~HasReceipt(runs[r], KeyOf[q]) BY <1>2 DEF HasReceipt
  <2>3. /\ runs[r].status = "waiting_input"
        /\ answering[q].step = "read" => answering[q].baseline = Len(messages[SessionOf[r]])
    BY <2>1, <2>2 DEF Answered
  <2> QED BY <2>1, <2>3
<1>3. \A p, q \in AnswersTo(r)' : KeyOf[p] = KeyOf[q] BY <1>1 DEF Answered
<1> QED BY <1>2, <1>3 DEF Answered

(* The record of the run is not written: its session's turns may go on,    *)
(* and a request may begin to answer it.                                   *)
LEMMA OwnWithoutWrite ==
  ASSUME SerialClients, TypeOK, NEW r \in Runs, [Next]_vars, Core(r), Quiet(r),
         runs'[r] = runs[r]
  PROVE  Core(r)'
<1> DEFINE s == SessionOf[r]
<1>1. SameLeg(runs[r], runs'[r]) BY DEF SameLeg
<1>2. Mine(r, runs'[r], accepted'[r], messages'[s], turns'[s])
  BY <1>1, MineKept DEF Core, Quiet
<1>3. Reported(r, runs'[r], accepted'[r], turns'[s]) BY ReportedKept DEF Core, Quiet
<1>4. messages'[s] = messages[s] BY DEF Quiet
<1>5. Answered(r) BY DEF Core
<1>6. CASE AnswersKept(r)
  <2>1. Answered(r)' BY <1>4, <1>5, <1>6, AnswersStay
  <2> QED BY <1>2, <1>3, <2>1 DEF Core
<1>7. ASSUME NEW q \in Requests, PostAnswer(q, r) PROVE Core(r)'
  <2>1. /\ answering' = [answering EXCEPT ![q] = [step |-> "checked", run |-> r, baseline |-> 0]]
        /\ \A other \in AnswersTo(r) : KeyOf[other] = KeyOf[q]
        /\ runs[r].status = "waiting_input"
    BY <1>7 DEF PostAnswer
  <2>2. answering'[q].step = "checked" BY <2>1 DEF TypeOK
  <2>3. ASSUME NEW p \in AnswersTo(r)', p # q
        PROVE  p \in AnswersTo(r) /\ answering'[p] = answering[p]
    BY <2>1, <2>3 DEF AnswersTo, TypeOK
  <2>4. \A p1, p2 \in AnswersTo(r)' : KeyOf[p1] = KeyOf[p2]
    BY <1>5, <2>1, <2>3 DEF Answered
  <2>5. \A p \in AnswersTo(r)' : ~HasReceipt(runs'[r], KeyOf[p]) =>
          /\ runs'[r].status = "waiting_input"
          /\ answering'[p].step = "read" => answering'[p].baseline = Len(messages'[s])
    BY <1>4, <1>5, <2>1, <2>2, <2>3 DEF Answered
  <2> QED BY <1>2, <1>3, <2>4, <2>5 DEF Core, Answered
<1>8. ASSUME NEW q \in Requests, ReadForAnswer(q) PROVE Core(r)'
  <2>1. CASE AnswersKept(r) BY <1>6, <2>1
  <2>2. CASE ~AnswersKept(r)
    <3>1. NotAnswering.run # r BY NilAssumption DEF NotAnswering
    <3>2. \A p \in Requests \ {q} : answering'[p] = answering[p]
      BY <1>8 DEF ReadForAnswer, TypeOK
    <3>3. answering'[q].run = r BY <2>2, <3>2 DEF AnswersKept
    <3>4. /\ answering[q].run = r /\ answering'[q].baseline = Len(messages[s])
      BY <1>8, <3>1, <3>3 DEF ReadForAnswer, TypeOK, MessageCount
    <3>5. AnswersTo(r)' = AnswersTo(r) BY <3>2, <3>3, <3>4 DEF AnswersTo
    <3>6. \A p \in AnswersTo(r) : ~HasReceipt(runs'[r], KeyOf[p]) =>
            /\ runs'[r].status = "waiting_input"
            /\ answering'[p].step = "read" => answering'[p].baseline = Len(messages'[s])
      BY <1>4, <1>5, <3>2, <3>4 DEF Answered, AnswersTo
    <3>7. \A p1, p2 \in AnswersTo(r) : KeyOf[p1] = KeyOf[p2] BY <1>5 DEF Answered
    <3> QED BY <1>2, <1>3, <3>5, <3>6, <3>7 DEF Core, Answered
  <2> QED BY <2>1, <2>2
<1> QED BY <1>6, <1>7, <1>8, AnswerChanges

(* An answer in flight was read after the question's turn had ended, and   *)
(* is the only one of its key: the new leg begins after all that is there. *)
LEMMA OwnResumed ==
  ASSUME TypeOK, NEW r \in Runs, Core(r), NEW q \in Requests, Resumed(r, q),
         Quiet(r), AnswersKept(r)
  PROVE  Core(r)'
<1> DEFINE s == SessionOf[r]
<1>0. /\ s \in Sessions /\ messages[s] \in Seq(Message) /\ runs[r] \in Run
      /\ accepted[r] \in SUBSET Nat
  BY SessionOfAssumption DEF TypeOK
<1>1. /\ answering[q].step = "read" /\ answering[q].run = r
      /\ ~HasReceipt(runs[r], KeyOf[q]) /\ runs[r].status = "waiting_input"
      /\ q \in AnswersTo(r)
  BY DEF Resumed, AcceptAnswer, AnswersTo
<1>2. /\ answering[q].baseline = Len(messages[s])
      /\ \A p \in AnswersTo(r) : KeyOf[p] = KeyOf[q]
  BY <1>1 DEF Core, Answered
<1>3. /\ messages'[s] = messages[s] /\ accepted'[r] = accepted[r]
      /\ \A turn \in turns'[s] : turn.by # r
  BY <1>1 DEF Core, Reported, Quiet, Left
<1>4. /\ runs'[r].status = "pending"
      /\ runs'[r].receipts = runs[r].receipts \cup
                               {[key |-> KeyOf[q], clarification |-> runs[r].clarification]}
      /\ runs'[r].baseline = Len(messages[s]) /\ runs'[r].artifacts = ArtifactTurns(s)
  BY <1>0, <1>2, ResumedKeeps DEF Resumed
<1>5. \A i \in 1 .. Len(messages[s]) : messages[s][i].turn \in runs'[r].artifacts
  BY <1>0, <1>4, EveryTurnLeft
<1>6. Mine(r, runs[r], accepted[r], messages[s], turns[s]) BY DEF Core
<1>7. Mine(r, runs'[r], accepted[r], messages[s], turns'[s])
  BY <1>0, <1>3, <1>4, <1>5, <1>6, MineAnew
<1>8. Reported(r, runs'[r], accepted'[r], turns'[s]) BY <1>4 DEF Reported
<1>9. HasReceipt(runs'[r], KeyOf[q])
  <2> DEFINE receipt == [key |-> KeyOf[q], clarification |-> runs[r].clarification]
  <2>1. receipt \in runs'[r].receipts /\ receipt.key = KeyOf[q] BY <1>4
  <2> HIDE DEF receipt
  <2> QED BY <2>1 DEF HasReceipt
<1>10. ASSUME NEW p \in AnswersTo(r)' PROVE p \in AnswersTo(r)
  BY <1>10 DEF AnswersTo, AnswersKept
<1>11. Answered(r)'
  <2>1. \A p \in AnswersTo(r)' : HasReceipt(runs'[r], KeyOf[p]) BY <1>2, <1>9, <1>10
  <2>2. \A p1, p2 \in AnswersTo(r)' : KeyOf[p1] = KeyOf[p2] BY <1>2, <1>10
  <2> QED BY <2>1, <2>2 DEF Answered
<1> QED BY <1>3, <1>7, <1>8, <1>11 DEF Core

LEMMA OwnCreated ==
  ASSUME TypeOK, NEW r \in Runs, Core(r), Fresh(r), Created(r), Quiet(r), AnswersKept(r),
         Counted(runs[r]), Once(runs[r], pc[r], exc[r], accepted[r])
  PROVE  Core(r)'
<1> DEFINE s == SessionOf[r]
<1>0. /\ s \in Sessions /\ messages[s] \in Seq(Message)
      /\ Mine(r, runs[r], accepted[r], messages[s], turns[s])
  BY SessionOfAssumption DEF TypeOK, Core
<1>1. accepted[r] = {} /\ runs[r].receipts = {} /\ runs[r].status = "absent"
  BY DEF Created, Once, Counted
<1>2. /\ runs'[r].status = "pending" /\ runs'[r].artifacts = ArtifactTurns(s)
      /\ runs'[r].baseline = Len(messages[s])
  BY <1>1 DEF Created, NewRun, Fresh
<1>3. /\ messages'[s] = messages[s] /\ accepted'[r] = accepted[r]
      /\ \A turn \in turns'[s] : turn.by # r
  BY <1>0, <1>1 DEF Quiet, Left, Mine, Own
<1>4. \A i \in 1 .. Len(messages[s]) : messages[s][i].turn \in runs'[r].artifacts
  BY <1>0, <1>2, EveryTurnLeft
<1>5. Mine(r, runs'[r], accepted[r], messages[s], turns'[s])
  BY <1>0, <1>1, <1>2, <1>3, <1>4, MineAnew
<1>6. Reported(r, runs'[r], accepted'[r], turns'[s]) BY <1>2 DEF Reported
<1>7. \A q \in AnswersTo(r)' : q \in AnswersTo(r) BY DEF AnswersTo, AnswersKept
<1>8. AnswersTo(r) = {} BY <1>1 DEF Core, Answered, HasReceipt
<1>9. Answered(r)' BY <1>7, <1>8 DEF Answered
<1> QED BY <1>3, <1>5, <1>6, <1>9 DEF Core

(* Nobody else leaves anything in the session while a run is under way.    *)
LEMMA SettledKeepsLeg ==
  ASSUME TypeOK, NEW r \in Runs, Settled(r)
  PROVE  SameLeg(runs[r], runs'[r])
<1>1. PICK outcome \in Outcomes(r) : runs'[r] = PersistOutcome(runs[r], outcome) BY DEF Settled
<1>2. runs[r] \in Run BY DEF TypeOK
<1> QED BY <1>1, <1>2 DEF SameLeg, PersistOutcome, MarkWaitingInput, MarkSucceeded, Run

LEMMA UndisturbedStep ==
  ASSUME SerialClients, TypeOK, AllGood, Serial, NEW r \in Runs, OwnLeg(r), [Next]_vars,
         UnderWay(r)'
  PROVE  Undisturbed(r)'
<1> DEFINE s == SessionOf[r]
<1>0. /\ s \in Sessions /\ messages[s] \in Seq(Message) /\ runs[r] \in Run
      /\ messages \in [Sessions -> Seq(Message)]
      /\ Good(runs[r], pc[r], posting[r].step)
  BY SessionOfAssumption DEF TypeOK, AllGood
<1>1. ASSUME Undisturbed(r), SameLeg(runs[r], runs'[r]), messages'[s] = messages[s]
      PROVE  Undisturbed(r)'
  BY <1>1 DEF Undisturbed, SameLeg
<1>2. ASSUME runs'[r].baseline = Len(messages[s]), runs'[r].artifacts = ArtifactTurns(s),
             messages'[s] = messages[s]
      PROVE  Undisturbed(r)'
  BY <1>0, <1>2, EveryTurnLeft DEF Undisturbed
<1>3. CASE UnderWay(r)
  <2>1. Undisturbed(r) /\ Sole(r) BY <1>3 DEF OwnLeg, Serial, Engaged
  <2>2. runs[r].status \in Resumable \cup {"failed"}
    BY <1>0, <1>3 DEF UnderWay, Good, Requeueing
  <2>3. SameLeg(runs[r], runs'[r])
    BY <1>0, <2>2, NextChanges, SettledKeepsLeg, ClaimKeeps
       DEF Changed, Edited, Claimed, Created, Resumed, SameLeg, Resumable
  <2>4. CASE Worked(r)
    <3>1. PICK turn \in turns[s], kind \in Kind : Record(s, turn, kind) BY <2>4 DEF Worked
    <3>2. turn.by = r BY <2>1 DEF Sole
    <3> DEFINE message == [turn |-> turn, kind |-> kind]
    <3>3. messages'[s] = Append(messages[s], message) BY <1>0, <3>1 DEF Record
    <3>4. message.turn.by = r BY <3>2
    <3> HIDE DEF message
    <3>5. ASSUME NEW i \in 1 .. Len(messages'[s]),
                 \/ i > runs'[r].baseline
                 \/ messages'[s][i].turn \notin runs'[r].artifacts
          PROVE  messages'[s][i].turn.by = r
      <4>1. \/ i \in 1 .. Len(messages[s]) /\ messages'[s][i] = messages[s][i]
            \/ messages'[s][i] = message
        BY <1>0, <3>3, <3>5
      <4> QED BY <2>1, <2>3, <3>4, <3>5, <4>1 DEF Undisturbed, SameLeg
    <3> QED BY <3>5 DEF Undisturbed
  <2>5. CASE Quiet(r) \/ SubmitAccepted(r)
    <3>1. messages'[s] = messages[s] BY <2>5 DEF Quiet, SubmitAccepted
    <3> QED BY <1>1, <2>1, <2>3, <3>1
  <2> QED BY <2>4, <2>5, HermesChanges
<1>4. CASE Repeats(r)
  <2>1. /\ Undisturbed(r) /\ messages' = messages
        /\ Store(r, SetSubmitted(runs[r], FALSE))
    BY <1>4 DEF Repeats, RepostRun, Resumable, hermes
  <2>2. SameLeg(runs[r], runs'[r])
    BY <1>0, <2>1 DEF Store, TypeOK, SetSubmitted, SameLeg, Run
  <2> QED BY <1>1, <2>1, <2>2
<1>5. CASE CreateRun(r)
  <2>1. /\ runs'[r] = NewRun(posting[r].baseline, ArtifactTurns(s)) /\ messages' = messages
    BY <1>5 DEF CreateRun, Store, TypeOK, hermes
  <2>2. posting[r].baseline = Len(messages[s]) BY <1>5 DEF OwnLeg, Fresh, CreateRun
  <2> QED BY <1>2, <2>1, <2>2 DEF NewRun
<1>6. ASSUME NEW q \in Requests, AcceptAnswer(q), answering[q].run = r, runs'[r] # runs[r]
      PROVE  Undisturbed(r)'
  <2>1. Resumed(r, q) /\ messages' = messages
    BY <1>6 DEF AcceptAnswer, Resumed, Store, TypeOK, hermes
  <2>2. answering[q].baseline = Len(messages[s])
    BY <1>6, <2>1 DEF Resumed, AcceptAnswer, OwnLeg, Core, Answered, AnswersTo
  <2>3. /\ runs'[r].baseline = Len(messages[s]) /\ runs'[r].artifacts = ArtifactTurns(s)
    BY <1>0, <2>1, <2>2, ResumedKeeps DEF Resumed
  <2> QED BY <1>2, <2>1, <2>3
<1> QED BY <1>3, <1>4, <1>5, <1>6, Beginnings DEF Began

LEMMA PostingMoves ==
  ASSUME TypeOK, [Next]_vars, NEW r \in Runs, posting'[r].step = "reading"
  PROVE  posting'[r] = posting[r] \/ PostRun(r)
<1>0. posting \in [Runs -> Posting] /\ NotPosting.step = "idle" BY DEF TypeOK, NotPosting
<1>1. CASE UNCHANGED posting BY <1>1
<1>2. ASSUME NEW t \in Runs, TaskStep(t) \/ StoreFails(t) PROVE UNCHANGED posting
  <2>1. CASE TaskStep(t)
    BY <2>1 DEF TaskStep, Reconciles, Attempts, StartRun, SessionBusy, ReconcileReadFails,
                ReconcileRecovers, ReconcileGivesUp, ReconcileContinues, ClaimRun, ReadSession,
                ReadSessionFails, MarkSubmission, SubmitFails, SubmitAccepted, StreamCompletes,
                StreamBreaks, PersistResult, ResultReadFails, HandleError, ClearSubmission,
                Requeue, BackoffEnds, offTask
  <2>2. CASE StoreFails(t) BY <2>2 DEF StoreFails
  <2> QED BY <1>2, <2>1, <2>2
<1>3. ASSUME NEW t \in Runs, ClientStep(t) \/ StoreFailsForClient(t)
      PROVE  posting'[r] = posting[r] \/ PostRun(r)
  <2>1. CASE PostRun(t) BY <1>0, <2>1 DEF PostRun
  <2>2. CASE CreateRun(t) \/ RequeueByClient(t) \/ StoreFailsForClient(t)
    BY <1>0, <2>2 DEF CreateRun, RequeueByClient, StoreFailsForClient
  <2>3. CASE RepostRun(t)
    <3>1. posting' = posting \/ posting' = [posting EXCEPT ![t].step = "requeueing"]
      BY <2>3 DEF RepostRun
    <3>2. posting'[r] = posting[r] \/ posting'[r].step = "requeueing"
      BY <1>0, <3>1 DEF Posting
    <3> QED BY <3>2
  <2>4. CASE ReplayAnswer(t) \/ \E q \in Requests : PostAnswer(q, t)
    BY <1>1, <2>4 DEF ReplayAnswer, PostAnswer, offTask
  <2> QED BY <1>3, <2>1, <2>2, <2>3, <2>4 DEF ClientStep
<1>4. ASSUME NEW q \in Requests, ReadForAnswer(q) \/ AcceptAnswer(q) PROVE UNCHANGED posting
  BY <1>4 DEF ReadForAnswer, AcceptAnswer
<1>5. ASSUME NEW s \in Sessions, ChatStep(s) \/ HermesStep(s) PROVE UNCHANGED posting
  BY <1>5 DEF ChatStep, HermesStep, ChatStarts, ChatPosts, ChatEnds, HermesWorks, HermesEnds,
              HermesDrops, CloseSession, service
<1>6. CASE Crash BY <1>0, <1>6 DEF Crash
<1>7. CASE Restart \/ UNCHANGED vars BY <1>1, <1>7 DEF Restart, vars, offTask
<1> QED BY <1>1, <1>2, <1>3, <1>4, <1>5, <1>6, <1>7 DEF Next

LEMMA FreshStep ==
  ASSUME TypeOK, AllGood, Serial, NEW r \in Runs, OwnLeg(r), [Next]_vars,
         Once(runs[r], pc[r], exc[r], accepted[r])
  PROVE  Fresh(r)'
<1> DEFINE s == SessionOf[r]
<1> SUFFICES ASSUME posting'[r].step = "reading", runs'[r].status = "absent"
             PROVE  posting'[r].baseline = Len(messages'[s])
  BY DEF Fresh
<1>0. runs[r] \in Run /\ posting \in [Runs -> Posting] BY DEF TypeOK
<1>1. CASE PostRun(r)
  BY <1>0, <1>1 DEF PostRun, MessageCount, hermes
<1>2. CASE posting'[r] = posting[r]
  <2>1. runs[r].status = "absent"
    <3>1. Changed(r) BY NextChanges
    <3>2. ~Settled(r)
      <4>1. ASSUME Settled(r) PROVE FALSE
        <5>1. PICK outcome \in Outcomes(r) : runs'[r] = PersistOutcome(runs[r], outcome)
          BY <4>1 DEF Settled
        <5>2. runs'[r].status \in {"waiting_input", "succeeded"}
          BY <1>0, <5>1, OutcomesType, OutcomeKeeps
        <5> QED BY <5>2
      <4> QED BY <4>1
    <3>3. ~Claimed(runs[r], runs'[r]) BY <1>0, ClaimKeeps DEF Claimed
    <3>4. ASSUME NEW q \in Requests PROVE ~Resumed(r, q)
      BY <1>0, ResumedKeeps DEF Resumed
    <3> QED BY <3>1, <3>2, <3>3, <3>4 DEF Changed, Edited, Active, Created, NewRun
  <2>2. accepted[r] = {} BY <2>1 DEF Once
  <2>3. posting[r] # NotPosting BY <1>2 DEF NotPosting
  <2>4. Sole(r) BY <2>3 DEF Serial, Engaged
  <2>5. turns[s] = {}
    <3>1. \A turn \in turns[s] : turn \in Own(r, runs[r], accepted[r])
      BY <2>4 DEF Sole, OwnLeg, Core, Mine
    <3> QED BY <2>2, <3>1 DEF Own
  <2>6. ~Worked(r) BY <2>5 DEF Worked
  <2>7. messages'[s] = messages[s] BY <2>6, HermesChanges DEF Quiet, SubmitAccepted
  <2>8. posting[r].baseline = Len(messages[s]) BY <1>2, <2>1 DEF OwnLeg, Fresh
  <2> QED BY <1>2, <2>7, <2>8
<1> QED BY <1>1, <1>2, PostingMoves

LEMMA CoreStep ==
  ASSUME SerialClients, TypeOK, AllGood, AllCounted, Serial, NEW r \in Runs, OwnLeg(r),
         Once(runs[r], pc[r], exc[r], accepted[r]), [Next]_vars
  PROVE  Core(r)'
<1> DEFINE s == SessionOf[r]
<1>0. /\ s \in Sessions /\ messages[s] \in Seq(Message) /\ runs[r] \in Run
      /\ accepted[r] \in SUBSET Nat /\ turns[s] \subseteq Turn
      /\ runs[r].attempts \in Nat /\ runs[r].epoch \in Nat
  BY SessionOfAssumption DEF TypeOK, Run
<1>1. /\ Core(r) /\ Fresh(r)
      /\ Good(runs[r], pc[r], posting[r].step) /\ Counted(runs[r])
  BY DEF OwnLeg, AllGood, AllCounted
<1>2. /\ Mine(r, runs[r], accepted[r], messages[s], turns[s])
      /\ Reported(r, runs[r], accepted[r], turns[s])
      /\ Answered(r)
  BY <1>1 DEF Core
<1>3. CASE SubmitAccepted(r)
  <2> DEFINE turn == [by |-> r, attempt |-> runs[r].attempts]
  <2>1. /\ runs' = runs /\ answering' = answering /\ messages' = messages
        /\ turns'[s] = turns[s] \cup {turn}
        /\ accepted'[r] = accepted[r] \cup {runs[r].attempts}
        /\ pc[r] = "submit"
    BY <1>0, <1>3 DEF SubmitAccepted, At, TypeOK
  <2>2. runs[r].status = "running" /\ runs[r].epoch < runs[r].attempts
    BY <1>1, <2>1 DEF Good, Slotted, Counted
  <2>3. runs[r].attempts \notin accepted[r]
    BY <1>0, <1>1, <2>1, <2>2 DEF Once, Spent, Recorded
  <2>4. Mine(r, runs'[r], accepted'[r], messages'[s], turns'[s])
    BY <1>0, <1>2, <2>1, <2>2, <2>3, MineSubmits
  <2>5. Reported(r, runs'[r], accepted'[r], turns'[s]) BY <2>1, <2>2 DEF Reported
  <2>6. Answered(r)' BY <1>2, <2>1 DEF Answered, AnswersTo
  <2> QED BY <2>4, <2>5, <2>6 DEF Core
<1>4. CASE Worked(r)
  <2>1. PICK turn \in turns[s], kind \in Kind :
               /\ Record(s, turn, kind) /\ turns'[s] \subseteq turns[s]
               /\ kind # "work" => turn \notin turns'[s]
    BY <1>4 DEF Worked
  <2>2. runs' = runs /\ accepted' = accepted /\ answering' = answering BY <1>4 DEF Worked
  <2>3. messages'[s] = Append(messages[s], [turn |-> turn, kind |-> kind])
    BY <1>0, <2>1 DEF Record, TypeOK
  <2>4. Mine(r, runs'[r], accepted'[r], messages'[s], turns'[s])
    BY <1>0, <1>2, <2>1, <2>2, <2>3, MineWorks
  <2>5. AnswersTo(r) # {} => runs[r].status # "waiting_input"
    BY <1>2 DEF Reported, Serial, Engaged, Sole
  <2>6. Reported(r, runs'[r], accepted'[r], turns'[s])
    BY <1>2, <2>1, <2>2, ReportedKept DEF Left
  <2>7. AnswersKept(r) BY <2>2 DEF AnswersKept
  <2>8. Answered(r)' BY <1>2, <2>2, <2>5, <2>7, AnswersStay
  <2> QED BY <2>4, <2>6, <2>8 DEF Core
<1>5. CASE Quiet(r) /\ runs'[r] = runs[r] BY <1>1, <1>5, OwnWithoutWrite
<1>6. CASE Quiet(r) /\ runs'[r] # runs[r]
  <2>1. AnswersKept(r)
    BY <1>6, AnswerChanges DEF PostAnswer, ReadForAnswer
  <2>2. /\ messages'[s] = messages[s] /\ accepted'[r] = accepted[r]
        /\ Left(r, turns[s], turns'[s])
    BY <1>6 DEF Quiet
  <2>3. ASSUME SameLeg(runs[r], runs'[r]), runs[r].status # "waiting_input",
               runs'[r].receipts = runs[r].receipts,
               Reported(r, runs'[r], accepted[r], turns[s])
        PROVE  Core(r)'
    <3>1. Mine(r, runs'[r], accepted'[r], messages'[s], turns'[s])
      BY <1>2, <2>2, <2>3, MineKept
    <3>2. Reported(r, runs'[r], accepted'[r], turns'[s]) BY <2>2, <2>3, ReportedKept
    <3>3. Answered(r)' BY <1>2, <2>1, <2>3, AnswersStay
    <3> QED BY <3>1, <3>2, <3>3 DEF Core
  <2>4. CASE Edited(runs[r], runs'[r])
    BY <2>3, <2>4 DEF Edited, Active, SameLeg, Reported
  <2>5. CASE Claimed(runs[r], runs'[r])
    BY <1>0, <2>3, <2>5, ClaimKeeps DEF Claimed, SameLeg, Reported
  <2>6. CASE Settled(r)
    <3>1. PICK outcome \in Outcomes(r) : runs'[r] = PersistOutcome(runs[r], outcome)
      BY <2>6 DEF Settled
    <3>2. outcome \in Outcome BY OutcomesType
    <3>3. runs[r].status \in Resumable
      BY <1>1, <2>6 DEF Settled, Good, Exclusive, Sync
    <3>4. pc[r] = "result" => runs[r].epoch < runs[r].attempts
      BY <1>1 DEF Good, Counted
    <3>5. /\ outcome.answer \in Own(r, runs[r], accepted[r])
          /\ outcome.artifacts \subseteq Own(r, runs[r], accepted[r])
          /\ \A turn \in turns[s] : turn.by # r
      <4>1. Undisturbed(r) BY <3>3 DEF OwnLeg, UnderWay
      <4> QED BY <1>2, <3>4, <4>1, OutcomeIsOwn DEF Once
    <3>6. /\ runs'[r].epoch = runs[r].epoch /\ runs'[r].receipts = runs[r].receipts
          /\ runs'[r].status = "waiting_input" =>
               runs'[r].clarification.question = outcome.answer
          /\ runs'[r].status = "succeeded" => runs'[r].result = outcome
      <4>1. runs'[r].epoch = runs[r].epoch /\ runs'[r].receipts = runs[r].receipts
        BY <1>0, <3>1, <3>2, OutcomeKeeps
      <4>2. /\ runs'[r].status = "waiting_input" =>
                 runs'[r].clarification =
                   [question |-> outcome.answer, attempt |-> runs[r].attempts]
            /\ runs'[r].status = "succeeded" => runs'[r].result = outcome
        BY <1>0, <3>1, <3>2, OutcomeSays
      <4> QED BY <4>1, <4>2
    <3>7. SameLeg(runs[r], runs'[r]) BY <2>6, SettledKeepsLeg
    <3>8. Own(r, runs'[r], accepted[r]) = Own(r, runs[r], accepted[r]) BY <3>6 DEF Own
    <3>9. Reported(r, runs'[r], accepted[r], turns[s])
      BY <3>5, <3>6, <3>8 DEF Reported
    <3> QED BY <2>3, <3>3, <3>6, <3>7, <3>9 DEF Resumable
  <2>7. CASE Created(r) BY <1>1, <1>6, <2>1, <2>7, OwnCreated
  <2>8. ASSUME NEW q \in Requests, Resumed(r, q) PROVE Core(r)'
    BY <1>1, <1>6, <2>1, <2>8, OwnResumed
  <2> QED BY <1>6, <2>4, <2>5, <2>6, <2>7, <2>8, NextChanges DEF Changed
<1> QED BY <1>3, <1>4, <1>5, <1>6, HermesChanges

LEMMA OwnStep ==
  ASSUME SerialClients, TypeOK, AllGood, AllCounted, Serial, AllOnce, AllOwn, [Next]_vars
  PROVE  AllOwn'
<1> SUFFICES ASSUME NEW r \in Runs PROVE OwnLeg(r)' BY DEF AllOwn
<1>1. OwnLeg(r) /\ Once(runs[r], pc[r], exc[r], accepted[r]) BY DEF AllOwn, AllOnce
<1>2. Core(r)' BY <1>1, CoreStep
<1>3. Fresh(r)' BY <1>1, FreshStep
<1>4. UnderWay(r)' => Undisturbed(r)' BY <1>1, UndisturbedStep
<1> QED BY <1>2, <1>3, <1>4 DEF OwnLeg

-----------------------------------------------------------------------------
(* The executions of a run are paired with the answers to it: each leg     *)
(* that was answered had one, and the current leg has at most one.         *)

Paired(r) ==
  /\ IsFiniteSet(accepted[r]) /\ IsFiniteSet(runs[r].receipts)
  /\ Cardinality(accepted[r]) =
       Cardinality(runs[r].receipts) + (IF Spent(runs[r], accepted[r]) THEN 1 ELSE 0)

AllPaired == \A r \in Runs : Paired(r)

LEMMA OwnIsSpent ==
  ASSUME NEW r, NEW run, NEW acc
  PROVE  Own(r, run, acc) # {} <=> Spent(run, acc)
BY DEF Own, Spent

LEMMA PairedKept ==
  ASSUME NEW r \in Runs, Paired(r), accepted'[r] = accepted[r],
         runs'[r].epoch = runs[r].epoch, runs'[r].receipts = runs[r].receipts
  PROVE  Paired(r)'
BY DEF Paired, Spent

LEMMA PairedStep ==
  ASSUME TypeOK, AllGood, AllCounted, AllOnce, AllOwn, AllPaired, [Next]_vars
  PROVE  AllPaired'
<1> SUFFICES ASSUME NEW r \in Runs PROVE Paired(r)' BY DEF AllPaired
<1>0. /\ runs[r] \in Run /\ accepted[r] \in SUBSET Nat
      /\ runs[r].attempts \in Nat /\ runs[r].epoch \in Nat
  BY DEF TypeOK, Run
<1>1. /\ Core(r) /\ Once(runs[r], pc[r], exc[r], accepted[r]) /\ Paired(r)
      /\ Good(runs[r], pc[r], posting[r].step) /\ Counted(runs[r])
  BY DEF AllOnce, AllOwn, OwnLeg, AllPaired, AllGood, AllCounted
<1>2. CASE SubmitAccepted(r)
  <2>1. /\ runs' = runs /\ accepted'[r] = accepted[r] \cup {runs[r].attempts} /\ pc[r] = "submit"
    BY <1>2 DEF SubmitAccepted, At, TypeOK
  <2>2. runs[r].status = "running" /\ runs[r].epoch < runs[r].attempts
    BY <1>1, <2>1 DEF Good, Slotted, Counted
  <2>3. ~Spent(runs[r], accepted[r]) BY <1>1, <2>1, <2>2 DEF Once, Recorded
  <2>4. runs[r].attempts \notin accepted[r] BY <2>2, <2>3 DEF Spent
  <2>5. Spent(runs[r], accepted'[r]) BY <2>1, <2>2 DEF Spent
  <2>6. /\ IsFiniteSet(accepted'[r]) /\ Cardinality(accepted'[r]) = Cardinality(accepted[r]) + 1
    <3> DEFINE more == accepted[r] \cup {runs[r].attempts}
    <3>1. IsFiniteSet(accepted[r]) BY <1>1 DEF Paired
    <3>2. IsFiniteSet(more) /\ Cardinality(more) = Cardinality(accepted[r]) + 1
      BY <2>4, <3>1, FS_AddElement
    <3>3. accepted'[r] = more BY <2>1
    <3> HIDE DEF more
    <3> QED BY <3>2, <3>3
  <2>7. Cardinality(runs[r].receipts) \in Nat BY <1>1, FS_CardinalityType DEF Paired
  <2> QED BY <1>1, <2>1, <2>3, <2>5, <2>6, <2>7 DEF Paired
<1>3. CASE runs'[r] = runs[r] /\ accepted'[r] = accepted[r] BY <1>1, <1>3, PairedKept
<1>4. CASE accepted'[r] = accepted[r] /\ runs'[r] # runs[r]
  <2>1. CASE Edited(runs[r], runs'[r]) BY <1>1, <1>4, <2>1, PairedKept DEF Edited
  <2>2. CASE Claimed(runs[r], runs'[r])
    BY <1>0, <1>1, <1>4, <2>2, ClaimKeeps, PairedKept DEF Claimed
  <2>3. CASE Settled(r)
    <3>1. PICK outcome \in Outcomes(r) : runs'[r] = PersistOutcome(runs[r], outcome)
      BY <2>3 DEF Settled
    <3>2. outcome \in Outcome BY OutcomesType
    <3>3. runs'[r].epoch = runs[r].epoch /\ runs'[r].receipts = runs[r].receipts
      BY <1>0, <3>1, <3>2, OutcomeKeeps
    <3> QED BY <1>1, <1>4, <3>3, PairedKept
  <2>4. CASE Created(r)
    <3>1. accepted[r] = {} /\ runs[r].receipts = {}
      BY <1>1, <2>4 DEF Created, Once, Counted
    <3>2. runs'[r].receipts = {} BY <2>4 DEF Created, NewRun
    <3>3. ~Spent(runs'[r], accepted'[r]) BY <1>4, <3>1 DEF Spent
    <3> QED BY <1>4, <3>1, <3>2, <3>3, FS_EmptySet DEF Paired
  <2>5. ASSUME NEW q \in Requests, Resumed(r, q) PROVE Paired(r)'
    <3> DEFINE receipt == [key |-> KeyOf[q], clarification |-> runs[r].clarification]
    <3>1. /\ runs'[r].epoch = runs[r].attempts /\ runs[r].status = "waiting_input"
          /\ runs'[r].receipts = runs[r].receipts \cup {receipt}
      BY <1>0, <2>5, ResumedKeeps DEF Resumed
    <3>2. receipt \notin runs[r].receipts BY <2>5 DEF Resumed, HasReceipt
    <3> HIDE DEF receipt
    <3>3. Spent(runs[r], accepted[r]) BY <1>1, <3>1, OwnIsSpent DEF Core, Reported
    <3>4. ~Spent(runs'[r], accepted'[r]) BY <1>0, <1>1, <1>4, <3>1 DEF Spent, Once
    <3>5. /\ IsFiniteSet(runs'[r].receipts)
          /\ Cardinality(runs'[r].receipts) = Cardinality(runs[r].receipts) + 1
      <4> DEFINE more == runs[r].receipts \cup {receipt}
      <4>1. IsFiniteSet(runs[r].receipts) BY <1>1 DEF Paired
      <4>2. IsFiniteSet(more) /\ Cardinality(more) = Cardinality(runs[r].receipts) + 1
        BY <3>2, <4>1, FS_AddElement
      <4>3. runs'[r].receipts = more BY <3>1
      <4> HIDE DEF more
      <4> QED BY <4>2, <4>3
    <3>6. Cardinality(runs[r].receipts) \in Nat BY <1>1, FS_CardinalityType DEF Paired
    <3> QED BY <1>1, <1>4, <3>3, <3>4, <3>5, <3>6 DEF Paired
  <2> QED BY <1>4, <2>1, <2>2, <2>3, <2>4, <2>5, NextChanges DEF Changed
<1> QED BY <1>1, <1>2, <1>3, <1>4, HermesChanges DEF Quiet, Worked

LEMMA AlwaysOwn == SerialClients => (Spec => [](AllOwn /\ AllPaired))
<1> SUFFICES ASSUME SerialClients PROVE Spec => [](AllOwn /\ AllPaired)
  OBVIOUS
<1>1. Init => AllOwn /\ AllPaired
  <2> SUFFICES ASSUME Init, NEW r \in Runs PROVE OwnLeg(r) /\ Paired(r)
    BY DEF AllOwn, AllPaired
  <2> DEFINE s == SessionOf[r]
  <2>1. /\ runs[r] = Absent /\ turns[s] = {} /\ messages[s] = <<>> /\ accepted[r] = {}
        /\ Absent.status = "absent" /\ Absent.receipts = {}
    BY SessionOfAssumption DEF Init, Absent, NewRun
  <2>2. \A q \in Requests : answering[q].run # r BY Known DEF Init
  <2>3. Core(r) BY <2>1, <2>2 DEF Core, Mine, Reported, Answered, AnswersTo
  <2>4. Fresh(r) /\ Undisturbed(r) BY <2>1 DEF Init, Fresh, NotPosting, Undisturbed
  <2>5. Paired(r) BY <2>1, FS_EmptySet DEF Paired, Spent
  <2> QED BY <2>3, <2>4, <2>5 DEF OwnLeg
<1>2. TypeOK /\ AllGood /\ AllCounted /\ Serial /\ AllOnce /\ AllOwn /\ AllPaired
        /\ [Next]_vars => (AllOwn /\ AllPaired)'
  BY OwnStep, PairedStep
<1> QED BY <1>1, <1>2, TypeCorrect, AlwaysGood, AlwaysCounted, AlwaysSerial, PTL DEF Spec

(* Where clients use each session for one thing at a time, a run after a   *)
(* run or a chat, what a run reports or asks is what the turn of its       *)
(* current leg said, and the files it lists are those of that turn:        *)
(* nothing of an earlier leg, of another run or of a chat, through every   *)
(* crash, refused write and lost response.                                 *)
THEOREM OutcomeOfOwnLegHolds == SerialClients => (Spec => []OutcomeOfOwnLeg)
<1> SUFFICES ASSUME SerialClients PROVE Spec => []OutcomeOfOwnLeg
  OBVIOUS
<1>1. AllOwn => OutcomeOfOwnLeg
  BY DEF AllOwn, OwnLeg, Core, Reported, Own, OutcomeOfOwnLeg
<1> QED BY <1>1, AlwaysOwn, PTL

-----------------------------------------------------------------------------
(* The durable runs implement RunLifecycle: every step is one of its steps *)
(* for one run, or none.                                                   *)

Views      == [r \in Runs |-> ClientView(runs[r])]
Legs       == [r \in Runs |-> Cardinality(runs[r].receipts)]
Executions == [r \in Runs |-> Cardinality(accepted[r])]

Only(r) ==
  \A other \in Runs \ {r} : runs'[other] = runs[other] /\ accepted'[other] = accepted[other]

LEMMA OneAtATime ==
  ASSUME TypeOK, [Next]_vars
  PROVE  UNCHANGED <<runs, accepted>> \/ \E r \in Runs : Only(r)
<1>1. ASSUME NEW r \in Runs, TaskStep(r) PROVE Only(r)
  <2>1. UNCHANGED runs \/ \E run : Store(r, run)
    <3>1. CASE StartRun(r) \/ SessionBusy(r) BY <3>1 DEF StartRun, SessionBusy, Fail
    <3>2. CASE ReconcileReadFails(r) \/ Reconciles(r)
      BY <3>2 DEF ReconcileReadFails, Reconciles, ReconcileRecovers, ReconcileGivesUp,
                  ReconcileContinues, Fail, FailOrRetry
    <3>3. CASE Attempts(r)
      BY <3>3 DEF Attempts, ClaimRun, ReadSession, ReadSessionFails, MarkSubmission,
                  SubmitFails, SubmitAccepted, StreamCompletes, StreamBreaks, PersistResult,
                  ResultReadFails
    <3>4. CASE HandleError(r) BY <3>4 DEF HandleError, FailOrRetry
    <3>5. CASE ClearSubmission(r) \/ Requeue(r) \/ BackoffEnds(r)
      BY <3>5 DEF ClearSubmission, Requeue, BackoffEnds
    <3> QED BY <1>1, <3>1, <3>2, <3>3, <3>4, <3>5 DEF TaskStep
  <2>2. UNCHANGED accepted \/ \E acc : accepted' = [accepted EXCEPT ![r] = acc]
    <3>1. CASE SubmitAccepted(r) BY <3>1 DEF SubmitAccepted
    <3>2. CASE ~SubmitAccepted(r)
      BY <1>1, <3>2 DEF TaskStep, Reconciles, Attempts, StartRun, SessionBusy,
           ReconcileReadFails, ReconcileRecovers, ReconcileGivesUp, ReconcileContinues,
           ClaimRun, ReadSession, ReadSessionFails, MarkSubmission, SubmitFails,
           StreamCompletes, StreamBreaks, PersistResult, ResultReadFails, HandleError,
           ClearSubmission, Requeue, BackoffEnds, offTask
    <3> QED BY <3>1, <3>2
  <2>3. \A other \in Runs \ {r} : runs'[other] = runs[other] BY <2>1 DEF Store, TypeOK
  <2>4. \A other \in Runs \ {r} : accepted'[other] = accepted[other] BY <2>2 DEF TypeOK
  <2> QED BY <2>3, <2>4 DEF Only
<1>2. ASSUME NEW r \in Runs, ClientStep(r) PROVE Only(r)
  <2>1. accepted' = accepted /\ (UNCHANGED runs \/ \E run : Store(r, run))
    BY <1>2 DEF ClientStep, PostRun, CreateRun, RepostRun, RequeueByClient, PostAnswer,
                ReplayAnswer, offTask
  <2> QED BY <2>1 DEF Store, TypeOK, Only
<1>3. ASSUME NEW q \in Requests, AcceptAnswer(q) PROVE \E r \in Runs : Only(r)
  <2>1. answering[q].run \in Runs BY <1>3 DEF AcceptAnswer, TypeOK, Answering, NotAnswering
  <2>2. accepted' = accepted /\ (UNCHANGED runs \/ \E run : Store(answering[q].run, run))
    BY <1>3 DEF AcceptAnswer
  <2> QED BY <2>1, <2>2 DEF Store, TypeOK, Only
<1>4. ASSUME NEW q \in Requests, ReadForAnswer(q) PROVE UNCHANGED <<runs, accepted>>
  BY <1>4 DEF ReadForAnswer
<1>5. ASSUME NEW s \in Sessions, ChatStep(s) \/ HermesStep(s) PROVE UNCHANGED <<runs, accepted>>
  BY <1>5 DEF ChatStep, HermesStep, ChatStarts, ChatPosts, ChatEnds, HermesWorks, HermesEnds,
              HermesDrops, CloseSession, service
<1>6. ASSUME NEW r \in Runs, StoreFails(r) \/ StoreFailsForClient(r)
      PROVE  UNCHANGED <<runs, accepted>>
  BY <1>6 DEF StoreFails, StoreFailsForClient
<1>7. CASE Crash \/ Restart \/ UNCHANGED vars
  BY <1>7 DEF Crash, Restart, vars, offTask
<1> QED BY <1>1, <1>2, <1>3, <1>4, <1>5, <1>6, <1>7 DEF Next

(* The moves of one run, in terms of RunLifecycle.                         *)
LEMMA MoveOf ==
  ASSUME NEW r \in Runs, Only(r)
  PROVE  /\ Views' = [Views EXCEPT ![r] = ClientView(runs'[r])]
         /\ Legs' = [Legs EXCEPT ![r] = Cardinality(runs'[r].receipts)]
         /\ Executions' = [Executions EXCEPT ![r] = Cardinality(accepted'[r])]
BY DEF Only, Views, Legs, Executions

LEMMA ExecutingOf ==
  ASSUME NEW r \in Runs, Paired(r)
  PROVE  Lifecycle!Executing(r) <=> Spent(runs[r], accepted[r])
<1>1. Cardinality(runs[r].receipts) \in Nat BY FS_CardinalityType DEF Paired
<1> QED BY <1>1 DEF Paired, Lifecycle!Executing

(* Which view follows which, and what else the step does then.             *)
LEMMA LifecycleStep ==
  ASSUME SerialClients, TypeOK, TypeOK', AllGood, AllCounted, Serial, AllOnce, AllOwn,
         AllPaired, [Next]_vars, NEW r \in Runs, Only(r)
  PROVE  Lifecycle!Next \/ UNCHANGED Lifecycle!lifecycle
<1> DEFINE s == SessionOf[r]
           view == ClientView(runs[r])
           next == ClientView(runs'[r])
<1>0. /\ runs[r] \in Run /\ runs'[r] \in Run
      /\ AllOnce' /\ AllOwn' /\ AllPaired'
      /\ Once(runs[r], pc[r], exc[r], accepted[r]) /\ Paired(r)
      /\ Good(runs[r], pc[r], posting[r].step) /\ Counted(runs[r])
  BY SerialApart, OnceStep, OwnStep, PairedStep
     DEF TypeOK, AllOnce, AllPaired, AllGood, AllCounted
<1>1. /\ Once(runs'[r], pc'[r], exc'[r], accepted'[r]) /\ Paired(r)' /\ Core(r)'
  BY <1>0 DEF AllOnce, AllOwn, OwnLeg, AllPaired
<1>2. /\ Lifecycle!Executing(r) <=> Spent(runs[r], accepted[r])
      /\ Views[r] = view /\ Legs[r] = Cardinality(runs[r].receipts)
      /\ Executions[r] = Cardinality(accepted[r])
  BY <1>0, ExecutingOf DEF Views, Legs, Executions
<1>3. ASSUME runs'[r].receipts = runs[r].receipts PROVE Legs' = Legs
  BY <1>2, <1>3, MoveOf DEF Legs
<1>4. ASSUME accepted'[r] = accepted[r] PROVE Executions' = Executions
  BY <1>2, <1>4, MoveOf DEF Executions
<1>5. ASSUME next = view PROVE Views' = Views
  BY <1>2, <1>5, MoveOf DEF Views
<1>6. Lifecycle!Move(r, view, next)
  BY <1>2, MoveOf DEF Lifecycle!Move, Views
<1> HIDE DEF view, next
<1>7. CASE SubmitAccepted(r)
  <2>1. /\ runs' = runs /\ pc[r] = "submit"
        /\ accepted'[r] = accepted[r] \cup {runs[r].attempts}
    BY <1>7 DEF SubmitAccepted, At, TypeOK
  <2>2. runs[r].status = "running" /\ runs[r].epoch < runs[r].attempts
    BY <1>0, <2>1 DEF Good, Slotted, Counted
  <2>3. ~Spent(runs[r], accepted[r]) BY <1>0, <2>1, <2>2 DEF Once, Recorded
  <2>4. Spent(runs'[r], accepted'[r]) BY <2>1, <2>2 DEF Spent
  <2>5. Cardinality(accepted'[r]) = Cardinality(accepted[r]) + 1
    <3>1. Cardinality(runs[r].receipts) \in Nat BY <1>0, FS_CardinalityType DEF Paired
    <3> QED BY <1>0, <1>1, <2>1, <2>3, <2>4, <3>1 DEF Paired
  <2>6. Executions' = [Executions EXCEPT ![r] = @ + 1] BY <1>2, <2>5, MoveOf
  <2>7. view = "working" BY <2>2 DEF view, ClientView, Resumable
  <2>8. Views' = Views /\ Legs' = Legs BY <2>1 DEF Views, Legs
  <2>9. Lifecycle!Execute(r)
    BY <1>2, <2>3, <2>6, <2>7, <2>8 DEF Lifecycle!Execute, Views, Legs, Executions
  <2> QED BY <2>9 DEF Lifecycle!Next
<1>8. CASE runs'[r] = runs[r] /\ accepted'[r] = accepted[r]
  <2>1. Views' = Views /\ Legs' = Legs /\ Executions' = Executions
    BY <1>3, <1>4, <1>5, <1>8 DEF view, next
  <2> QED BY <2>1 DEF Lifecycle!lifecycle, Views, Legs, Executions
<1>9. ASSUME accepted'[r] = accepted[r], runs'[r].receipts = runs[r].receipts
      PROVE  UNCHANGED <<Legs, Executions>>
  BY <1>3, <1>4, <1>9
<1>10. CASE accepted'[r] = accepted[r] /\ Edited(runs[r], runs'[r])
  <2>1. UNCHANGED <<Legs, Executions>> BY <1>9, <1>10 DEF Edited
  <2>2. Spent(runs'[r], accepted'[r]) <=> Spent(runs[r], accepted[r])
    BY <1>10 DEF Edited, Spent
  <2>3. CASE next = view
    <3>1. Views' = Views BY <1>5, <2>3
    <3> QED BY <2>1, <3>1 DEF Lifecycle!lifecycle, Views, Legs, Executions
  <2>4. CASE view = "working" /\ next = "failed"
    <3>1. Lifecycle!FailForGood(r)
      BY <1>6, <2>1, <2>4 DEF Lifecycle!FailForGood, Legs, Executions
    <3> QED BY <3>1 DEF Lifecycle!Next
  <2>5. CASE view = "working" /\ next = "retryable"
    <3>1. runs'[r].status = "failed" /\ MayRetry(runs'[r].error)
      BY <2>5, <1>0 DEF next, ClientView
    <3>2. ~Spent(runs'[r], accepted'[r]) BY <1>1, <3>1 DEF Once, Recorded
    <3>3. Lifecycle!FailSafely(r)
      BY <1>2, <1>6, <2>1, <2>2, <2>5, <3>2 DEF Lifecycle!FailSafely, Legs, Executions
    <3> QED BY <3>3 DEF Lifecycle!Next
  <2>6. CASE view = "retryable" /\ next = "working"
    <3>1. Lifecycle!Retry(r) BY <1>6, <2>1, <2>6 DEF Lifecycle!Retry, Legs, Executions
    <3> QED BY <3>1 DEF Lifecycle!Next
  <2>7. next = view \/ <<view, next>> \in {<<"working", "failed">>, <<"working", "retryable">>,
                                           <<"retryable", "working">>}
    <3>1. Allowed(runs[r], runs'[r]) BY NextAllowed
    <3>2. CASE runs'[r] = runs[r] BY <3>2 DEF view, next
    <3>3. CASE Open(runs[r])
      BY <1>10, <3>3 DEF view, next, ClientView, Edited, Active, Open, Resumable
    <3>4. CASE Answers(runs[r], runs'[r]) BY <1>10, <3>4 DEF Edited, Active, Answers
    <3> QED BY <3>1, <3>2, <3>3, <3>4 DEF Allowed
  <2> QED BY <2>3, <2>4, <2>5, <2>6, <2>7
<1>11. CASE accepted'[r] = accepted[r] /\ Claimed(runs[r], runs'[r])
  <2>1. runs'[r].receipts = runs[r].receipts /\ next = view
    BY <1>0, <1>11, ClaimKeeps DEF Claimed, view, next, ClientView, Resumable
  <2>2. Views' = Views /\ UNCHANGED <<Legs, Executions>> BY <1>5, <1>9, <1>11, <2>1
  <2> QED BY <2>2 DEF Lifecycle!lifecycle, Views, Legs, Executions
<1>12. CASE accepted'[r] = accepted[r] /\ Settled(r)
  <2>1. PICK outcome \in Outcomes(r) : runs'[r] = PersistOutcome(runs[r], outcome)
    BY <1>12 DEF Settled
  <2>2. outcome \in Outcome BY OutcomesType
  <2>3. /\ runs'[r].receipts = runs[r].receipts /\ runs'[r].epoch = runs[r].epoch
        /\ runs'[r].status \in {"waiting_input", "succeeded"}
    BY <1>0, <2>1, <2>2, OutcomeKeeps
  <2>4. Spent(runs'[r], accepted'[r])
    BY <1>1, <2>3, OwnIsSpent DEF Core, Reported
  <2>5. Lifecycle!Executing(r) BY <1>2, <1>12, <2>3, <2>4 DEF Spent
  <2>6. runs[r].status \in Resumable BY <1>0, <1>12 DEF Settled, Good, Exclusive, Sync
  <2>7. view = "working" BY <2>6 DEF view, ClientView, Resumable
  <2>8. UNCHANGED <<Legs, Executions>> BY <1>9, <1>12, <2>3
  <2>9. CASE runs'[r].status = "waiting_input"
    <3>1. next = "waiting" BY <2>9 DEF next, ClientView, Resumable
    <3>2. Lifecycle!Ask(r)
      BY <1>6, <2>5, <2>7, <2>8, <3>1 DEF Lifecycle!Ask, Legs, Executions
    <3> QED BY <3>2 DEF Lifecycle!Next
  <2>10. CASE runs'[r].status = "succeeded"
    <3>1. next = "done" BY <2>10 DEF next, ClientView, Resumable
    <3>2. Lifecycle!Finish(r)
      BY <1>6, <2>5, <2>7, <2>8, <3>1 DEF Lifecycle!Finish, Legs, Executions
    <3> QED BY <3>2 DEF Lifecycle!Next
  <2> QED BY <2>3, <2>9, <2>10
<1>13. CASE accepted'[r] = accepted[r] /\ Created(r)
  <2>1. runs[r].receipts = {} /\ runs'[r].receipts = {}
        /\ runs[r].status = "absent" /\ runs'[r].status = "pending"
    BY <1>0, <1>13 DEF Created, NewRun, Counted
  <2>2. view = "absent" /\ next = "working"
    BY <2>1 DEF view, next, ClientView, Resumable
  <2>3. UNCHANGED <<Legs, Executions>> BY <1>9, <1>13, <2>1
  <2>4. Lifecycle!Submit(r) BY <1>6, <2>2, <2>3 DEF Lifecycle!Submit, Legs, Executions
  <2> QED BY <2>4 DEF Lifecycle!Next
<1>14. ASSUME NEW q \in Requests, Resumed(r, q), accepted'[r] = accepted[r]
       PROVE  Lifecycle!Next
  <2> DEFINE receipt == [key |-> KeyOf[q], clarification |-> runs[r].clarification]
  <2>1. /\ runs[r].status = "waiting_input" /\ runs'[r].status = "pending"
        /\ runs'[r].receipts = runs[r].receipts \cup {receipt}
    BY <1>0, <1>14, ResumedKeeps DEF Resumed
  <2>2. receipt \notin runs[r].receipts BY <1>14 DEF Resumed, HasReceipt
  <2> HIDE DEF receipt
  <2>3. Cardinality(runs'[r].receipts) = Cardinality(runs[r].receipts) + 1
    <3> DEFINE more == runs[r].receipts \cup {receipt}
    <3>1. IsFiniteSet(runs[r].receipts) BY <1>0 DEF Paired
    <3>2. Cardinality(more) = Cardinality(runs[r].receipts) + 1
      BY <2>2, <3>1, FS_AddElement
    <3>3. runs'[r].receipts = more BY <2>1
    <3> HIDE DEF more
    <3> QED BY <3>2, <3>3
  <2>4. Legs' = [Legs EXCEPT ![r] = @ + 1] BY <1>2, <2>3, MoveOf
  <2>5. Executions' = Executions BY <1>4, <1>14
  <2>6. view = "waiting" /\ next = "working"
    BY <2>1 DEF view, next, ClientView, Resumable
  <2>7. Lifecycle!Answer(r)
    BY <1>6, <2>4, <2>5, <2>6 DEF Lifecycle!Answer, Legs, Executions
  <2> QED BY <2>7 DEF Lifecycle!Next
<1>15. Changed(r) /\ (SubmitAccepted(r) \/ accepted'[r] = accepted[r])
  BY <1>0, NextChanges, HermesChanges DEF Quiet, Worked
<1> QED BY <1>7, <1>8, <1>10, <1>11, <1>12, <1>13, <1>14, <1>15 DEF Changed

(* Where clients use each session for one thing at a time, the client is   *)
(* kept the promises of RunLifecycle: in a leg Hermes executes one turn, a *)
(* run finishes or asks only after executing one, and an error that        *)
(* invites a retry means that none was.                                    *)
THEOREM LifecycleImplemented == SerialClients => (Spec => ImplementsLifecycle)
<1> SUFFICES ASSUME SerialClients PROVE Spec => ImplementsLifecycle
  OBVIOUS
<1>1. Init => Lifecycle!Init
  <2> SUFFICES ASSUME Init PROVE Lifecycle!Init OBVIOUS
  <2>1. ClientView(Absent) = "absent" /\ Absent.receipts = {}
    BY DEF ClientView, Absent, NewRun, Resumable
  <2>2. Cardinality({}) = 0 BY FS_EmptySet
  <2> QED BY <2>1, <2>2 DEF Init, Lifecycle!Init
<1>2. TypeOK /\ TypeOK' /\ AllGood /\ AllCounted /\ Serial /\ AllOnce /\ AllOwn /\ AllPaired
        /\ [Next]_vars => [Lifecycle!Next]_(Lifecycle!lifecycle)
  <2> SUFFICES ASSUME TypeOK, TypeOK', AllGood, AllCounted, Serial, AllOnce, AllOwn, AllPaired,
                      [Next]_vars
               PROVE  Lifecycle!Next \/ UNCHANGED Lifecycle!lifecycle
    OBVIOUS
  <2>1. CASE UNCHANGED <<runs, accepted>> BY <2>1 DEF Lifecycle!lifecycle
  <2>2. ASSUME NEW r \in Runs, Only(r)
        PROVE  Lifecycle!Next \/ UNCHANGED Lifecycle!lifecycle
    BY <2>2, LifecycleStep
  <2> QED BY <2>1, <2>2, OneAtATime
<1> QED
  BY <1>1, <1>2, AlwaysOwn, TypeCorrect, AlwaysGood, AlwaysCounted, AlwaysSerial, PTL
     DEF Spec, ImplementsLifecycle, Lifecycle!Spec
=============================================================================
