----------------------- MODULE StrategyPipelineProofs -----------------------
(***************************************************************************)
(* Every step of a strategy pipeline, a help request, a student or the     *)
(* teacher is a step of the lease specification or leaves the lease alone, *)
(* so what RoomLeaseProofs shows of the lease holds of the whole system.   *)
(***************************************************************************)
EXTENDS StrategyPipeline, RoomLeaseProofs

\* The variables of the worker, the discussion and the help flow.
WorkTypes ==
  /\ pc \in [Pipes -> Working \cup {"idle", "queued", "done", "dead"}]
  /\ attempts \in [Pipes -> 0 .. MaxAttempts]
  /\ cutoff \in [Pipes -> Nat]
  /\ verdict \in [Pipes -> Terminal \cup {"PENDING_STAGE3", "UNDECIDED"}]
  /\ talk \in Seq({Student} \cup Pipes \cup {-h : h \in Helps})
  /\ posting \in BOOLEAN /\ cool \in BOOLEAN
  /\ stage \in [Helps -> {"idle", "open", "messaged", "queued", "claimed", "preempted", "dead"}]
  /\ closer \in {"open", "closing", "closed"}
  /\ preempted \subseteq Pipes

\* A worker that is about to write its decision has taken one.
Decided == \A p \in Pipes :
  pc[p] \in {"judged", "finish"} => verdict[p] \in Terminal \cup {"PENDING_STAGE3"}

\* A batch is queued again only with an attempt left.
AttemptLeft == \A p \in Pipes :
  /\ pc[p] \in {"queued", "requeue", "retrying"} => attempts[p] < MaxAttempts
  /\ pc[p] = "idle" => attempts[p] = 0

WorkInv == WorkTypes /\ Decided /\ AttemptLeft
PipelineInv == LeaseTypeOK /\ WorkInv

\* Writing or ending a row is a step of the lease when WrittenRows admits it.
LEMMA WriteIsLease ==
  ASSUME Rows \subseteq WrittenRows, NEW p \in Pipes, NEW r \in Rows, WriteRow(p, r) \/ EndRow(p, r)
  PROVE  LeaseNext
BY DEF LeaseNext

\* What the services write in a row is a row.
LEMMA RowFields ==
  ASSUME NEW r \in Rows, NEW f \in Terminal \cup Active, NEW i \in BOOLEAN,
         NEW s \in {"PENDING", "RUNNING", "SUCCEEDED", "FAILED"},
         NEW b \in {"none", "pending", "running", "succeeded", "failed", "over"}
  PROVE  /\ [r EXCEPT !.final = f] \in Rows
         /\ [r EXCEPT !.batch = b] \in Rows
         /\ [r EXCEPT !.stage2 = s, !.final = f] \in Rows
         /\ [r EXCEPT !.stage2 = s, !.intervene = i, !.final = f] \in Rows
         /\ [r EXCEPT !.final = f, !.published = i] \in Rows
BY DEF Rows

\* A renewal, a pulse and a claim are steps of the lease.
LEMMA PulseIsLease ==
  ASSUME NEW p \in Pipes, Pulse(p) \/ ClaimLease(p) PROVE [LeaseNext]_leaseVars
BY DEF Pulse, ClaimLease, LeaseNext

-----------------------------------------------------------------------------
(* The worker's own state. *)

Places == Working \cup {"queued", "done", "dead"}

\* A worker that moves on keeps the invariant when the place it moves to does.
LEMMA GoKeeps ==
  ASSUME WorkInv, NEW p \in Pipes, NEW from, NEW to \in Places \ {"judged", "finish"},
         Go(p, from, to), to \in {"queued", "requeue", "retrying"} => attempts[p] < MaxAttempts
  PROVE  WorkInv'
<1>1. /\ pc' = [pc EXCEPT ![p] = to]
      /\ UNCHANGED <<attempts, cutoff, verdict, talk, posting, cool, stage, closer, preempted>>
  BY DEF Go, roomVars, otherVars
<1>2. WorkTypes' BY <1>1 DEF WorkInv, WorkTypes, Places
<1>3. Decided' BY <1>1 DEF WorkInv, WorkTypes, Decided
<1>4. AttemptLeft' BY <1>1 DEF WorkInv, WorkTypes, AttemptLeft, Places, Working
<1> QED BY <1>2, <1>3, <1>4 DEF WorkInv

LEMMA DecideKeeps ==
  ASSUME WorkInv, NEW p \in Pipes, NEW from, NEW to \in Working \ {"requeue", "retrying"},
         NEW v \in Terminal \cup {"PENDING_STAGE3", "UNDECIDED"}, Decide(p, from, to, v),
         to \in {"judged", "finish"} => v # "UNDECIDED"
  PROVE  WorkInv' /\ [LeaseNext]_leaseVars
<1>1. /\ pc' = [pc EXCEPT ![p] = to] /\ verdict' = [verdict EXCEPT ![p] = v]
      /\ UNCHANGED <<leaseVars, attempts, cutoff, talk, posting, cool, stage, closer, preempted>>
  BY DEF Decide, roomVars, otherVars
<1>2. WorkTypes' BY <1>1 DEF WorkInv, WorkTypes
<1>3. Decided' BY <1>1 DEF WorkInv, WorkTypes, Decided
<1>4. AttemptLeft' BY <1>1 DEF WorkInv, WorkTypes, AttemptLeft, Working
<1> QED BY <1>1, <1>2, <1>3, <1>4 DEF WorkInv

\* A step that writes a legal row and moves on.
LEMMA WriteKeeps ==
  ASSUME WorkInv, Rows \subseteq WrittenRows,
         NEW p \in Pipes, NEW r \in Rows, WriteRow(p, r) \/ EndRow(p, r),
         NEW from, NEW to \in Places \ {"judged", "finish"}, Go(p, from, to),
         to \in {"queued", "requeue", "retrying"} => attempts[p] < MaxAttempts
  PROVE  WorkInv' /\ [LeaseNext]_leaseVars
BY GoKeeps, WriteIsLease

\* The steps of the batch.
LEMMA BatchStep ==
  ASSUME PipelineInv, Rows \subseteq WrittenRows, NEW p \in Pipes,
         Request(p) \/ Reopen(p) \/ ClaimBatch(p) \/ Prepare(p) \/ Retry(p) \/ PrepareRetry(p)
           \/ Exhaust(p) \/ LoseBatch(p)
  PROVE  WorkInv' /\ [LeaseNext]_leaseVars
<1>0. WorkInv /\ row[p] \in Rows BY DEF PipelineInv, LeaseTypeOK
<1>1. \A b \in {"none", "pending", "running", "succeeded", "failed", "over"} :
        [row[p] EXCEPT !.batch = b] \in Rows
  BY <1>0, RowFields DEF Terminal
<1>. USE DEF Places, Working
<1>2. CASE Request(p)
  <2>1. PICK c \in DOMAIN talk : cutoff' = [cutoff EXCEPT ![p] = c] BY <1>2 DEF Request
  <2>2. /\ pc[p] = "idle" /\ pc' = [pc EXCEPT ![p] = "queued"]
        /\ UNCHANGED <<attempts, verdict, talk, posting, cool, stage, closer, preempted>>
        /\ WriteRow(p, [row[p] EXCEPT !.batch = "pending"])
    BY <1>2 DEF Request, roomVars, otherVars
  <2>3. c \in Nat BY <1>0 DEF WorkInv, WorkTypes
  <2>4. WorkTypes' BY <1>0, <2>1, <2>2, <2>3 DEF WorkInv, WorkTypes
  <2>5. Decided' BY <1>0, <2>2 DEF WorkInv, WorkTypes, Decided
  <2>6. AttemptLeft' BY <1>0, <2>2, AttemptsAssumption DEF WorkInv, WorkTypes, AttemptLeft
  <2> QED BY <1>1, <2>2, <2>4, <2>5, <2>6, WriteIsLease DEF WorkInv
<1>3. CASE Reopen(p) BY <1>0, <1>1, <1>3, WriteKeeps DEF Reopen
<1>4. CASE ClaimBatch(p)
  <2>1. PICK b \in {"running", "failed"}, to \in {"claimed", "done"} :
          pc' = [pc EXCEPT ![p] = to] /\ WriteRow(p, [row[p] EXCEPT !.batch = b])
    BY <1>4 DEF ClaimBatch
  <2>2. /\ pc[p] = "queued" /\ attempts' = [attempts EXCEPT ![p] = @ + 1]
        /\ UNCHANGED <<cutoff, verdict, talk, posting, cool, stage, closer, preempted>>
    BY <1>4 DEF ClaimBatch, roomVars, otherVars
  <2>3. attempts[p] + 1 \in 0 .. MaxAttempts
    BY <1>0, <2>2, AttemptsAssumption DEF WorkInv, WorkTypes, AttemptLeft
  <2>4. WorkTypes' BY <1>0, <2>1, <2>2, <2>3 DEF WorkInv, WorkTypes
  <2>5. Decided' BY <1>0, <2>1, <2>2 DEF WorkInv, WorkTypes, Decided
  <2>6. AttemptLeft' BY <1>0, <2>1, <2>2 DEF WorkInv, WorkTypes, AttemptLeft
  <2> QED BY <1>1, <2>1, <2>4, <2>5, <2>6, WriteIsLease DEF WorkInv
<1>5. CASE Prepare(p)
  <2>1. Prepared(row[p]) \in Rows BY <1>0, RowFields DEF Prepared, Active
  <2> QED BY <1>0, <1>5, <2>1, WriteKeeps DEF Prepare
<1>6. CASE Retry(p) BY <1>0, <1>1, <1>6, WriteKeeps DEF Retry
<1>7. CASE PrepareRetry(p)
  <2>1. pc[p] \in {"retrying", "requeue"} => attempts[p] < MaxAttempts
    BY <1>0 DEF WorkInv, AttemptLeft
  <2>2. CASE NoActiveBatch /\ WriteRow(p, [row[p] EXCEPT !.batch = "pending"])
               /\ (Go(p, "retrying", "queued") \/ Go(p, "requeue", "queued"))
    BY <1>0, <1>1, <2>1, <2>2, WriteKeeps DEF Go
  <2>3. CASE UNCHANGED leaseVars /\ (Go(p, "retrying", "done") \/ Go(p, "requeue", "erred"))
    BY <1>0, <2>3, GoKeeps
  <2> QED BY <1>7, <2>2, <2>3 DEF PrepareRetry
<1>8. CASE Exhaust(p) BY <1>0, <1>1, <1>8, WriteKeeps DEF Exhaust
<1>9. CASE LoseBatch(p) BY <1>0, <1>1, <1>9, WriteKeeps DEF LoseBatch
<1> QED BY <1>2, <1>3, <1>4, <1>5, <1>6, <1>7, <1>8, <1>9

\* The steps of Stage 2.
LEMMA Stage2Step ==
  ASSUME PipelineInv, Rows \subseteq WrittenRows, NEW p \in Pipes,
         Lease2(p) \/ LeaseMiss(p) \/ Start(p) \/ Assessed(p) \/ FailStage2(p) \/ Save(p)
           \/ Judge(p) \/ Persist(p)
  PROVE  WorkInv' /\ [LeaseNext]_leaseVars
<1>0. WorkInv /\ row[p] \in Rows BY DEF PipelineInv, LeaseTypeOK
<1>. USE DEF Places, Working
<1>1. CASE Lease2(p) BY <1>0, <1>1, GoKeeps, PulseIsLease DEF Lease2
<1>2. CASE LeaseMiss(p)
  <2>1. [row[p] EXCEPT !.final = "WAITING_FOR_LOCK"] \in Rows BY <1>0, RowFields DEF Active
  <2> QED BY <1>0, <1>2, <2>1, WriteKeeps DEF LeaseMiss
<1>3. CASE Start(p)
  <2>1. [row[p] EXCEPT !.stage2 = "RUNNING", !.final = "ASSESSING"] \in Rows
    BY <1>0, RowFields DEF Active
  <2> QED BY <1>0, <1>3, <2>1, WriteKeeps, GoKeeps DEF Start
<1>4. CASE Assessed(p) BY <1>0, <1>4, GoKeeps, PulseIsLease DEF Assessed
<1>5. CASE FailStage2(p)
  <2>1. [row[p] EXCEPT !.stage2 = "FAILED", !.intervene = FALSE, !.final = "FAILED"] \in Rows
    BY <1>0, RowFields DEF Terminal
  <2> QED BY <1>0, <1>5, <2>1, WriteKeeps DEF FailStage2
<1>6. CASE Save(p)
  <2>1. [row[p] EXCEPT !.batch = "succeeded"] \in Rows BY <1>0, RowFields DEF Terminal
  <2> QED BY <1>0, <1>6, <2>1, WriteKeeps DEF Save
<1>7. CASE Judge(p)
  <2>1. PICK v \in {"STALE", "PENDING_STAGE3", "SUPPRESSED", "FAILED"} :
          Decide(p, "saved", "judged", v)
    BY <1>7 DEF Judge
  <2> QED BY <1>0, <2>1, DecideKeeps DEF Terminal
<1>8. CASE Persist(p)
  <2>1. pc[p] = "judged" BY <1>8 DEF Persist, Go
  <2>2. verdict[p] \in Terminal \cup {"PENDING_STAGE3"} BY <1>0, <2>1 DEF WorkInv, Decided
  <2>3. verdict[p] \in Terminal \cup Active BY <2>2 DEF Active
  <2>4. /\ [row[p] EXCEPT !.stage2 = "SUCCEEDED", !.intervene = TRUE, !.final = verdict[p]] \in Rows
        /\ [row[p] EXCEPT !.stage2 = "SUCCEEDED", !.intervene = FALSE, !.final = verdict[p]] \in Rows
    BY <1>0, <2>3, RowFields
  <2>5. CASE verdict[p] = "PENDING_STAGE3" BY <1>0, <1>8, <2>4, <2>5, WriteKeeps DEF Persist
  <2>6. CASE verdict[p] # "PENDING_STAGE3" BY <1>0, <1>8, <2>4, <2>6, WriteKeeps DEF Persist
  <2> QED BY <2>5, <2>6
<1> QED BY <1>1, <1>2, <1>3, <1>4, <1>5, <1>6, <1>7, <1>8

\* The steps of Stage 3.
LEMMA Stage3Step ==
  ASSUME PipelineInv, Rows \subseteq WrittenRows, NEW p \in Pipes,
         Preflight(p) \/ Lease3(p) \/ Generate(p) \/ Generated(p) \/ Draft(p)
  PROVE  WorkInv' /\ [LeaseNext]_leaseVars
<1>0. WorkInv /\ row[p] \in Rows BY DEF PipelineInv, LeaseTypeOK
<1>. USE DEF Places, Working
<1>1. CASE Preflight(p)
  <2>1. CASE UNCHANGED leaseVars /\ Go(p, "preflight", "lease3") BY <1>0, <2>1, GoKeeps
  <2>2. CASE Decide(p, "preflight", "finish", "SUPPRESSED")
    BY <1>0, <2>2, DecideKeeps DEF Terminal
  <2> QED BY <1>1, <2>1, <2>2 DEF Preflight
<1>2. CASE Lease3(p)
  <2>1. CASE ClaimLease(p) /\ Go(p, "lease3", "generate") BY <1>0, <2>1, GoKeeps, PulseIsLease
  <2>2. CASE Decide(p, "lease3", "finish", "FAILED") BY <1>0, <2>2, DecideKeeps DEF Terminal
  <2> QED BY <1>2, <2>1, <2>2 DEF Lease3
<1>3. CASE Generate(p)
  <2>1. [row[p] EXCEPT !.final = "GENERATING"] \in Rows BY <1>0, RowFields DEF Active
  <2> QED BY <1>0, <1>3, <2>1, WriteKeeps DEF Generate
<1>4. CASE Generated(p)
  <2>1. CASE Pulse(p) /\ Go(p, "generating", "drafted") BY <1>0, <2>1, GoKeeps, PulseIsLease
  <2>2. CASE Decide(p, "generating", "finish", "FAILED")
    BY <1>0, <2>2, DecideKeeps DEF Terminal
  <2> QED BY <1>4, <2>1, <2>2 DEF Generated
<1>5. CASE Draft(p)
  <2>1. [row[p] EXCEPT !.final = "PENDING_DECISION_GATE"] \in Rows BY <1>0, RowFields DEF Active
  <2> QED BY <1>0, <1>5, <2>1, WriteKeeps DEF Draft
<1> QED BY <1>1, <1>2, <1>3, <1>4, <1>5

\* The steps of the publish gate.
LEMMA PublishStep ==
  ASSUME PipelineInv, Rows \subseteq WrittenRows, NEW p \in Pipes,
         Gate(p) \/ Confirm(p) \/ Publish(p) \/ Refused(p) \/ DbLocked(p) \/ Mark(p) \/ Finish(p)
  PROVE  WorkInv' /\ [LeaseNext]_leaseVars
<1>0. WorkInv /\ row[p] \in Rows BY DEF PipelineInv, LeaseTypeOK
<1>. USE DEF Places, Working
<1>1. CASE Gate(p)
  <2>1. GateAnswer(p) \in {"FAILED", "SUPPRESSED", "STALE", "UNDECIDED"} BY DEF GateAnswer
  <2>2. PICK here \in {<<"gate", "passed">>, <<"regate", "resending">>} :
          Decide(p, here[1], IF GateAnswer(p) = "UNDECIDED" THEN here[2] ELSE "finish", GateAnswer(p))
    BY <1>1 DEF Gate
  <2>3. CASE GateAnswer(p) = "UNDECIDED" BY <1>0, <2>1, <2>2, <2>3, DecideKeeps
  <2>4. CASE GateAnswer(p) # "UNDECIDED"
    BY <1>0, <2>1, <2>2, <2>4, DecideKeeps DEF Terminal
  <2> QED BY <2>3, <2>4
<1>2. CASE Confirm(p)
  <2>1. CASE Pulse(p) /\ Go(p, "passed", "sending") BY <1>0, <2>1, GoKeeps, PulseIsLease
  <2>2. CASE Decide(p, "passed", "finish", "FAILED") BY <1>0, <2>2, DecideKeeps DEF Terminal
  <2> QED BY <1>2, <2>1, <2>2 DEF Confirm
<1>3. CASE Publish(p)
  <2>1. /\ pc' = [pc EXCEPT ![p] = "sent"] /\ talk' = Append(talk, p) /\ cool' = TRUE
        /\ UNCHANGED <<attempts, cutoff, verdict, posting, stage, closer, preempted>>
        /\ PublishPipe(p)
    BY <1>3 DEF Publish, otherVars
  <2>2. talk' \in Seq({Student} \cup Pipes \cup {-h : h \in Helps})
    <3>1. talk \in Seq({Student} \cup Pipes \cup {-h : h \in Helps}) BY <1>0 DEF WorkInv, WorkTypes
    <3> QED BY <2>1, <3>1
  <2>3. WorkTypes' BY <1>0, <2>1, <2>2 DEF WorkInv, WorkTypes
  <2>4. Decided' BY <1>0, <2>1 DEF WorkInv, WorkTypes, Decided
  <2>5. AttemptLeft' BY <1>0, <2>1 DEF WorkInv, WorkTypes, AttemptLeft
  <2>6. LeaseNext BY <2>1 DEF LeaseNext
  <2> QED BY <2>3, <2>4, <2>5, <2>6 DEF WorkInv
<1>4. CASE Refused(p)
  <2>1. PICK from \in {"sending", "resending"}, v \in {"STALE", "FAILED"} : Decide(p, from, "finish", v)
    BY <1>4 DEF Refused
  <2> QED BY <1>0, <2>1, DecideKeeps DEF Terminal
<1>5. CASE DbLocked(p)
  <2>1. CASE UNCHANGED leaseVars /\ Go(p, "sending", "regate") BY <1>0, <2>1, GoKeeps
  <2>2. CASE Decide(p, "resending", "finish", "FAILED") BY <1>0, <2>2, DecideKeeps DEF Terminal
  <2> QED BY <1>5, <2>1, <2>2 DEF DbLocked
<1>6. CASE Mark(p)
  <2>1. [row[p] EXCEPT !.final = "PUBLISHED", !.published = TRUE] \in Rows
    BY <1>0, RowFields DEF Terminal
  <2> QED BY <1>0, <1>6, <2>1, WriteKeeps DEF Mark
<1>7. CASE Finish(p)
  <2>1. pc[p] = "finish" BY <1>7 DEF Finish, Go
  <2>2. verdict[p] \in Terminal \cup Active BY <1>0, <2>1 DEF WorkInv, Decided, Active
  <2>3. [row[p] EXCEPT !.final = verdict[p]] \in Rows BY <1>0, <2>2, RowFields
  <2> QED BY <1>0, <1>7, <2>3, WriteKeeps DEF Finish
<1> QED BY <1>1, <1>2, <1>3, <1>4, <1>5, <1>6, <1>7

\* Help requests, students and the teacher leave the workers where they are.
LEMMA OthersKeep ==
  ASSUME WorkInv, UNCHANGED <<pc, attempts, cutoff, verdict>>,
         talk' = talk \/ (\E a \in {Student} \cup {-h : h \in Helps} : talk' = Append(talk, a)),
         posting' \in BOOLEAN, cool' \in BOOLEAN, closer' \in {"open", "closing", "closed"},
         stage' \in [Helps -> {"idle", "open", "messaged", "queued", "claimed", "preempted", "dead"}],
         preempted' \subseteq Pipes
  PROVE  WorkInv'
<1>1. talk' \in Seq({Student} \cup Pipes \cup {-h : h \in Helps})
  <2>1. talk \in Seq({Student} \cup Pipes \cup {-h : h \in Helps}) BY DEF WorkInv, WorkTypes
  <2>2. ASSUME NEW a \in {Student} \cup {-h : h \in Helps}, talk' = Append(talk, a)
        PROVE  talk' \in Seq({Student} \cup Pipes \cup {-h : h \in Helps})
    BY <2>1, <2>2
  <2> QED BY <2>1, <2>2
<1>2. WorkTypes' BY <1>1 DEF WorkInv, WorkTypes
<1>3. Decided' /\ AttemptLeft' BY DEF WorkInv, Decided, AttemptLeft
<1> QED BY <1>2, <1>3 DEF WorkInv

\* The steps of one help request.
LEMMA HelpStep ==
  ASSUME PipelineInv, NEW h \in Helps,
         HelpSee(h) \/ HelpPost(h) \/ HelpQueue(h) \/ HelpStart(h) \/ HelpPreempt(h)
           \/ HelpLease(h) \/ HelpUnwinds(h) \/ HelpAnswer(h) \/ HelpDies(h)
  PROVE  WorkInv' /\ [LeaseNext]_leaseVars
<1>0. WorkInv /\ -h \in Askers BY AskersAreInt DEF PipelineInv
<1>1. /\ posting \in BOOLEAN /\ cool \in BOOLEAN /\ closer \in {"open", "closing", "closed"}
      /\ stage \in [Helps -> {"idle", "open", "messaged", "queued", "claimed", "preempted", "dead"}]
      /\ preempted \subseteq Pipes
  BY <1>0 DEF WorkInv, WorkTypes
<1>2. ASSUME NEW from, NEW to \in {"open", "messaged", "queued", "claimed", "preempted", "dead"},
             Stage(h, from, to)
      PROVE  /\ UNCHANGED <<pc, attempts, cutoff, verdict, posting, cool, closer>>
             /\ stage' \in [Helps -> {"idle", "open", "messaged", "queued", "claimed", "preempted", "dead"}]
  BY <1>1, <1>2 DEF Stage, workVars
<1>3. ASSUME UNCHANGED <<talk, preempted>>,
             NEW from, NEW to \in {"open", "messaged", "queued", "claimed", "preempted", "dead"},
             Stage(h, from, to)
      PROVE  WorkInv'
  BY <1>0, <1>1, <1>2, <1>3, OthersKeep
<1>4. CASE HelpSee(h) BY <1>3, <1>4 DEF HelpSee
<1>5. CASE HelpPost(h)
  <2>1. Stage(h, "open", "messaged") /\ talk' = Append(talk, Student)
        /\ UNCHANGED <<leaseVars, preempted>>
    BY <1>5 DEF HelpPost
  <2> QED BY <1>0, <1>1, <1>2, <2>1, OthersKeep
<1>6. CASE HelpQueue(h) BY <1>3, <1>6 DEF HelpQueue, LeaseNext
<1>7. CASE HelpStart(h) BY <1>3, <1>7 DEF HelpStart, LeaseNext
<1>8. CASE HelpPreempt(h)
  <2>1. Stage(h, "claimed", "preempted") /\ UNCHANGED talk /\ Preempt(h) /\ preempted' \subseteq Pipes
    BY <1>1, <1>8 DEF HelpPreempt
  <2> QED BY <1>0, <1>1, <1>2, <2>1, OthersKeep DEF LeaseNext
<1>9. CASE HelpLease(h)
  <2>1. /\ UNCHANGED <<pc, attempts, cutoff, verdict, talk, posting, cool, stage, closer, preempted>>
        /\ ReadVersion(-h) \/ Acquire(-h) \/ HelpFail(h) \/ Release(-h)
    BY <1>9 DEF HelpLease, workVars, roomVars, otherVars
  <2>2. LeaseNext BY <1>0, <2>1 DEF LeaseNext
  <2> QED BY <1>0, <1>1, <2>1, <2>2, OthersKeep
<1>9a. CASE HelpUnwinds(h)
  <2>1. /\ UNCHANGED <<pc, attempts, cutoff, verdict, talk, posting, cool, stage, closer, preempted>>
        /\ GiveUp(-h) \/ HelpRaises(h) \/ HandlerFrees(h) \/ HandlerRecords(h)
    BY <1>9a DEF HelpUnwinds, workVars, roomVars, otherVars
  <2>2. LeaseNext BY <1>0, <2>1 DEF LeaseNext
  <2> QED BY <1>0, <1>1, <2>1, <2>2, OthersKeep
<1>10. CASE HelpAnswer(h)
  <2>1. /\ UNCHANGED <<pc, attempts, cutoff, verdict, posting, cool, stage, closer, preempted>>
        /\ talk' = Append(talk, -h) /\ HelpPublish(h)
    BY <1>10 DEF HelpAnswer, workVars, otherVars
  <2> QED BY <1>0, <1>1, <2>1, OthersKeep DEF LeaseNext
<1>11. CASE HelpDies(h)
  <2>1. PICK from \in {"claimed", "preempted"} : Stage(h, from, "dead") BY <1>11 DEF HelpDies
  <2> QED BY <1>3, <1>11, <2>1 DEF HelpDies
<1> QED BY <1>4, <1>5, <1>6, <1>7, <1>8, <1>9, <1>9a, <1>10, <1>11

\* The steps of the students, of the teacher and of time.
LEMMA OtherStep ==
  ASSUME PipelineInv, SeeRoom \/ Post \/ Close \/ CancelRuns \/ Clock \/ CoolDown
  PROVE  WorkInv' /\ [LeaseNext]_leaseVars
<1>0. WorkInv BY DEF PipelineInv
<1>1. /\ posting \in BOOLEAN /\ cool \in BOOLEAN /\ closer \in {"open", "closing", "closed"}
      /\ stage \in [Helps -> {"idle", "open", "messaged", "queued", "claimed", "preempted", "dead"}]
      /\ preempted \subseteq Pipes
  BY <1>0 DEF WorkInv, WorkTypes
<1>. USE DEF workVars, roomVars, otherVars
<1>2. CASE SeeRoom BY <1>0, <1>1, <1>2, OthersKeep DEF SeeRoom
<1>3. CASE Post BY <1>0, <1>1, <1>3, OthersKeep DEF Post
<1>4. CASE Close BY <1>0, <1>1, <1>4, OthersKeep DEF Close, LeaseNext
<1>5. CASE CancelRuns BY <1>0, <1>1, <1>5, OthersKeep DEF CancelRuns, LeaseNext
<1>6. CASE Clock BY <1>0, <1>1, <1>6, OthersKeep DEF Clock, LeaseNext
<1>7. CASE CoolDown BY <1>0, <1>1, <1>7, OthersKeep DEF CoolDown
<1> QED BY <1>2, <1>3, <1>4, <1>5, <1>6, <1>7

-----------------------------------------------------------------------------
(* The refinement. *)

LEMMA PipelineInitOK == Rows \subseteq WrittenRows /\ PipelineInit => LeaseInit /\ PipelineInv
<1> SUFFICES ASSUME Rows \subseteq WrittenRows, PipelineInit PROVE LeaseInit /\ PipelineInv
  OBVIOUS
<1>1. LeaseInit BY DEF PipelineInit
<1>2. WorkTypes
  <2>1. talk \in Seq({Student} \cup Pipes \cup {-h : h \in Helps}) BY DEF PipelineInit
  <2>2. /\ pc \in [Pipes -> Working \cup {"idle", "queued", "done", "dead"}]
        /\ attempts \in [Pipes -> 0 .. MaxAttempts] /\ cutoff \in [Pipes -> Nat]
        /\ verdict \in [Pipes -> Terminal \cup {"PENDING_STAGE3", "UNDECIDED"}]
    BY AttemptsAssumption DEF PipelineInit
  <2>3. /\ posting \in BOOLEAN /\ cool \in BOOLEAN /\ closer = "open" /\ preempted = {}
        /\ stage \in [Helps -> {"idle", "open", "messaged", "queued", "claimed", "preempted", "dead"}]
    BY DEF PipelineInit
  <2> QED BY <2>1, <2>2, <2>3 DEF WorkTypes
<1>3. Decided /\ AttemptLeft BY AttemptsAssumption DEF PipelineInit, Decided, AttemptLeft
<1> QED BY <1>1, <1>2, <1>3, LeaseInitType DEF PipelineInv, WorkInv

LEMMA PipelineStep ==
  Rows \subseteq WrittenRows /\ PipelineInv /\ [PipelineNext]_pipelineVars
    => [LeaseNext]_leaseVars /\ PipelineInv'
<1> SUFFICES ASSUME Rows \subseteq WrittenRows, PipelineInv, [PipelineNext]_pipelineVars
             PROVE  WorkInv' /\ [LeaseNext]_leaseVars
  BY LeaseTypeStep DEF PipelineInv
<1>0. WorkInv BY DEF PipelineInv
<1>1. CASE UNCHANGED pipelineVars
  BY <1>0, <1>1 DEF pipelineVars, workVars, roomVars, otherVars, WorkInv, WorkTypes, Decided, AttemptLeft
<1>2. ASSUME NEW p \in Pipes, Request(p) \/ Reopen(p) \/ Work(p) PROVE WorkInv' /\ [LeaseNext]_leaseVars
  BY <1>2, BatchStep, Stage2Step, Stage3Step, PublishStep DEF Work
<1>3. ASSUME NEW p \in Pipes, Heartbeat(p) PROVE WorkInv' /\ [LeaseNext]_leaseVars
  <2>1. /\ UNCHANGED <<pc, attempts, cutoff, verdict, talk, posting, cool, stage, closer, preempted>>
        /\ Renew(p)
    BY <1>3 DEF Heartbeat, workVars, roomVars, otherVars
  <2>2. WorkInv' BY <1>0, <2>1 DEF WorkInv, WorkTypes, Decided, AttemptLeft
  <2> QED BY <2>1, <2>2 DEF LeaseNext
<1>4. ASSUME NEW p \in Pipes, Crash(p) PROVE WorkInv' /\ [LeaseNext]_leaseVars
  BY <1>0, <1>4, GoKeeps DEF Crash, Places
<1> QED BY <1>1, <1>2, <1>3, <1>4, HelpStep, OtherStep DEF PipelineNext

\* The whole flow (_schedule_limited_retry() included) keeps its types: no batch
\* is claimed more than max_attempts times, no row gets a status out of nothing.
THEOREM PipelineTypeCorrect ==
  ASSUME Rows \subseteq WrittenRows PROVE PipelineSpec => []PipelineTypeOK
<1>1. PipelineInv => PipelineTypeOK BY DEF PipelineInv, WorkInv, WorkTypes, PipelineTypeOK
<1> QED BY <1>1, PipelineInitOK, PipelineStep, PTL DEF PipelineSpec

\* Whatever the workers, the students and the teacher do, the room sees only
\* steps of the lease: RoomLease is the abstraction of the whole flow.
THEOREM PipelineKeepsLease ==
  ASSUME Rows \subseteq WrittenRows PROVE PipelineSpec => LeaseSpec
BY PipelineInitOK, PipelineStep, PTL DEF PipelineSpec, LeaseSpec

\* What is promised of the lease holds while batches, workers, help requests and
\* the teacher run: one holder, a capped renewal, a help worker with a token that
\* keeps the room, versions that fence, leases that do not revive.  claim_strategy_pipeline(),
\* renew_strategy_pipeline() and publish_agent_intervention() are steps of LeaseNext.
THEOREM LeasePromisesInFlow ==
  ASSUME Rows \subseteq WrittenRows
  PROVE  PipelineSpec => /\ [](OneHolder /\ HardCap /\ NoOrphanHelp /\ VersionFence)
                         /\ ExpiredStaysExpired
BY PipelineKeepsLease, SingleHolder, CappedRenewal, HelpKeepsRoom, OptimisticLock, NoRevival, PTL

-----------------------------------------------------------------------------
(* A strategy message answers the last student message. *)

\* What a step does to the discussion and to the cutoffs.
Quiet == talk' = talk /\ \A p \in Pipes : cutoff'[p] = cutoff[p] \/ pc[p] = "idle"
Spoken == cutoff' = cutoff /\ \E a \in {Student} \cup {-h : h \in Helps} : talk' = Append(talk, a)
Answered == cutoff' = cutoff /\ \E p \in Pipes : Fresh(p) /\ pc[p] # "idle" /\ talk' = Append(talk, p)
NeverIdleAgain == \A p \in Pipes : pc'[p] = "idle" => pc[p] = "idle"

LEMMA TalkKinds ==
  PipelineInv /\ [PipelineNext]_pipelineVars => (Quiet \/ Spoken \/ Answered) /\ NeverIdleAgain
<1> SUFFICES ASSUME PipelineInv, [PipelineNext]_pipelineVars
             PROVE  (Quiet \/ Spoken \/ Answered) /\ NeverIdleAgain
  OBVIOUS
<1>0. /\ pc \in [Pipes -> Working \cup {"idle", "queued", "done", "dead"}]
      /\ cutoff \in [Pipes -> Nat]
  BY DEF PipelineInv, WorkInv, WorkTypes
<1>. USE DEF workVars, roomVars, otherVars
<1>1. ASSUME NEW p \in Pipes, NEW from, NEW to \in Places, Go(p, from, to)
      PROVE  Quiet /\ NeverIdleAgain
  BY <1>0, <1>1 DEF Go, Quiet, NeverIdleAgain, Places, Working
<1>2. ASSUME NEW p \in Pipes, NEW from, NEW to \in Working, NEW v, Decide(p, from, to, v)
      PROVE  Quiet /\ NeverIdleAgain
  BY <1>0, <1>2 DEF Decide, Quiet, NeverIdleAgain, Working
<1>3. ASSUME UNCHANGED <<pc, cutoff>>, talk' = talk PROVE Quiet /\ NeverIdleAgain
  BY <1>3 DEF Quiet, NeverIdleAgain
<1>4. ASSUME UNCHANGED <<pc, cutoff>>,
             NEW a \in {Student} \cup {-h : h \in Helps}, talk' = Append(talk, a)
      PROVE  Spoken /\ NeverIdleAgain
  BY <1>4 DEF Spoken, NeverIdleAgain
<1>5. CASE UNCHANGED pipelineVars BY <1>3, <1>5 DEF pipelineVars
<1>6. ASSUME NEW p \in Pipes, Request(p) \/ Reopen(p) \/ Work(p) \/ Heartbeat(p) \/ Crash(p)
      PROVE  (Quiet \/ Answered) /\ NeverIdleAgain
  <2>1. CASE Request(p) BY <1>0, <2>1 DEF Request, Quiet, NeverIdleAgain
  <2>2. CASE ClaimBatch(p) BY <1>0, <2>2 DEF ClaimBatch, Quiet, NeverIdleAgain
  <2>3. CASE Publish(p) BY <1>0, <2>3 DEF Publish, Answered, NeverIdleAgain
  <2>4. CASE Judge(p) BY <1>2, <2>4 DEF Judge, Working
  <2>5. CASE Gate(p)
    <3>1. PICK here \in {<<"gate", "passed">>, <<"regate", "resending">>} :
            Decide(p, here[1], IF GateAnswer(p) = "UNDECIDED" THEN here[2] ELSE "finish", GateAnswer(p))
      BY <2>5 DEF Gate
    <3>2. PICK to \in Working : Decide(p, here[1], to, GateAnswer(p)) BY <3>1 DEF Working
    <3> QED BY <1>2, <3>2
  <2>6. CASE Heartbeat(p) BY <1>3, <2>6 DEF Heartbeat
  <2>7. CASE Reopen(p) \/ Prepare(p) \/ Retry(p) \/ PrepareRetry(p) \/ Exhaust(p) \/ LoseBatch(p)
    BY <1>1, <2>7 DEF Reopen, Prepare, Retry, PrepareRetry, Exhaust, LoseBatch, Places, Working
  <2>8. CASE Lease2(p) \/ LeaseMiss(p) \/ Start(p) \/ Assessed(p) \/ FailStage2(p) \/ Save(p) \/ Persist(p)
    BY <1>1, <2>8 DEF Lease2, LeaseMiss, Start, Assessed, FailStage2, Save, Persist, Places, Working
  <2>9. CASE Preflight(p) \/ Lease3(p) \/ Generate(p) \/ Generated(p) \/ Draft(p)
    BY <1>1, <1>2, <2>9 DEF Preflight, Lease3, Generate, Generated, Draft, Places, Working
  <2>10. CASE Confirm(p) \/ Refused(p) \/ DbLocked(p) \/ Mark(p) \/ Finish(p) \/ Crash(p)
    BY <1>1, <1>2, <2>10 DEF Confirm, Refused, DbLocked, Mark, Finish, Crash, Places, Working
  <2> QED BY <1>6, <2>1, <2>2, <2>3, <2>4, <2>5, <2>6, <2>7, <2>8, <2>9, <2>10 DEF Work
<1>7. ASSUME NEW h \in Helps,
             HelpSee(h) \/ HelpPost(h) \/ HelpQueue(h) \/ HelpStart(h) \/ HelpPreempt(h)
               \/ HelpLease(h) \/ HelpUnwinds(h) \/ HelpAnswer(h) \/ HelpDies(h)
      PROVE  (Quiet \/ Spoken) /\ NeverIdleAgain
  <2>1. UNCHANGED <<pc, cutoff>>
    BY <1>7 DEF HelpSee, HelpPost, HelpQueue, HelpStart, HelpPreempt, HelpLease,
                HelpUnwinds, HelpAnswer, HelpDies, Stage
  <2>2. talk' = talk \/ talk' = Append(talk, Student) \/ talk' = Append(talk, -h)
    BY <1>7 DEF HelpSee, HelpPost, HelpQueue, HelpStart, HelpPreempt, HelpLease,
                HelpUnwinds, HelpAnswer, HelpDies
  <2> QED BY <1>3, <1>4, <2>1, <2>2
<1>8. CASE SeeRoom \/ Post \/ Close \/ CancelRuns \/ Clock \/ CoolDown
  <2>1. UNCHANGED <<pc, cutoff>> /\ (talk' = talk \/ talk' = Append(talk, Student))
    BY <1>8 DEF SeeRoom, Post, Close, CancelRuns, Clock, CoolDown
  <2> QED BY <1>3, <1>4, <2>1
<1> QED BY <1>5, <1>6, <1>7, <1>8 DEF PipelineNext

\* A pipeline whose message is out has had a batch, so its cutoff stands.
FreshInv == FreshAnswer /\ \A p \in Pipes : Said(p) => pc[p] # "idle"

LEMMA FreshStep ==
  PipelineInv /\ FreshInv /\ [PipelineNext]_pipelineVars => FreshInv'
<1> SUFFICES ASSUME PipelineInv, FreshInv, [PipelineNext]_pipelineVars PROVE FreshInv' OBVIOUS
<1>0. NeverIdleAgain BY TalkKinds
<1>1. /\ talk \in Seq({Student} \cup Pipes \cup {-h : h \in Helps})
      /\ cutoff \in [Pipes -> Nat]
  BY DEF PipelineInv, WorkInv, WorkTypes
<1>2. DOMAIN talk = 1 .. Len(talk) /\ Len(talk) \in Nat BY <1>1
<1>3. CASE Quiet
  <2>1. \A p \in Pipes : Said(p)' => Said(p) BY <1>3 DEF Quiet, Said
  <2>2. \A p \in Pipes : Said(p) => cutoff'[p] = cutoff[p] BY <1>3 DEF Quiet, FreshInv
  <2>3. FreshAnswer' BY <1>3, <2>1, <2>2 DEF Quiet, FreshInv, FreshAnswer, Said
  <2> QED BY <1>0, <2>1, <2>3 DEF FreshInv, NeverIdleAgain
<1>4. ASSUME NEW a, talk' = Append(talk, a)
      PROVE  /\ DOMAIN talk' = 1 .. Len(talk) + 1 /\ talk'[Len(talk) + 1] = a
             /\ \A i \in 1 .. Len(talk) : talk'[i] = talk[i]
  BY <1>1, <1>2, <1>4
<1>5. CASE Spoken
  <2>1. PICK a \in {Student} \cup {-h : h \in Helps} : talk' = Append(talk, a) BY <1>5 DEF Spoken
  <2>2. a \notin Pipes BY IdsAssumption, AskersAreInt DEF Student
  <2>3. \A p \in Pipes, i \in DOMAIN talk' : talk'[i] = p => i \in 1 .. Len(talk) /\ talk[i] = p
    BY <1>2, <1>4, <2>1, <2>2
  <2>4. FreshAnswer'
    <3> SUFFICES ASSUME NEW p \in Pipes, NEW i \in DOMAIN talk', talk'[i] = p,
                        NEW j \in cutoff'[p] + 1 .. i - 1
                 PROVE  talk'[j] # Student
      BY DEF FreshAnswer
    <3>1. i \in 1 .. Len(talk) /\ talk[i] = p /\ cutoff'[p] = cutoff[p] /\ cutoff[p] \in Nat
      BY <1>1, <1>5, <2>3 DEF Spoken
    <3>2. j \in 1 .. Len(talk) /\ j \in cutoff[p] + 1 .. i - 1 BY <1>2, <3>1
    <3>3. talk[j] # Student BY <1>2, <3>1, <3>2 DEF FreshInv, FreshAnswer
    <3> QED BY <1>4, <2>1, <3>2, <3>3
  <2>5. \A p \in Pipes : Said(p)' => Said(p) BY <1>2, <2>3 DEF Said
  <2> QED BY <1>0, <2>4, <2>5 DEF FreshInv, NeverIdleAgain
<1>6. CASE Answered
  <2>1. PICK q \in Pipes : Fresh(q) /\ pc[q] # "idle" /\ talk' = Append(talk, q) BY <1>6 DEF Answered
  <2>2. FreshAnswer'
    <3> SUFFICES ASSUME NEW p \in Pipes, NEW i \in DOMAIN talk', talk'[i] = p,
                        NEW j \in cutoff'[p] + 1 .. i - 1
                 PROVE  talk'[j] # Student
      BY DEF FreshAnswer
    <3>1. cutoff'[p] = cutoff[p] /\ cutoff[p] \in Nat BY <1>1, <1>6 DEF Answered
    <3>2. i \in 1 .. Len(talk) + 1 BY <1>4, <2>1
    <3>3. j \in 1 .. Len(talk) /\ j > cutoff[p] BY <1>2, <3>1, <3>2
    <3>4. CASE i = Len(talk) + 1
      <4>1. p = q BY <1>4, <2>1, <3>4
      <4>2. talk[j] # Student BY <1>2, <2>1, <3>3, <4>1 DEF Fresh, Newer
      <4> QED BY <1>4, <2>1, <3>3, <4>2
    <3>5. CASE i \in 1 .. Len(talk)
      <4>1. talk[i] = p BY <1>4, <2>1, <3>5
      <4>2. j \in cutoff[p] + 1 .. i - 1 BY <3>1
      <4>3. talk[j] # Student BY <1>2, <3>5, <4>1, <4>2 DEF FreshInv, FreshAnswer
      <4> QED BY <1>4, <2>1, <3>3, <4>3
    <3> QED BY <1>2, <3>2, <3>4, <3>5
  <2>3. \A p \in Pipes : Said(p)' => Said(p) \/ p = q
    BY <1>2, <1>4, <2>1 DEF Said
  <2> QED BY <1>0, <2>1, <2>2, <2>3 DEF FreshInv, NeverIdleAgain
<1> QED BY <1>3, <1>5, <1>6, TalkKinds

\* publish_agent_intervention() compares the latest student message with the
\* cutoff in the transaction that inserts the answer: no student message lies
\* between a strategy message and what it answers, whoever posts when.
THEOREM AnswersAreFresh ==
  ASSUME Rows \subseteq WrittenRows PROVE PipelineSpec => []FreshAnswer
<1>1. PipelineInit => FreshInv BY DEF PipelineInit, FreshInv, FreshAnswer, Said
<1>2. FreshInv => FreshAnswer BY DEF FreshInv
<1> QED BY <1>1, <1>2, FreshStep, PipelineInitOK, PipelineStep, PTL DEF PipelineSpec
=============================================================================
