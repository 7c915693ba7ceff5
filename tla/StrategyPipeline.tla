-------------------------- MODULE StrategyPipeline --------------------------
(***************************************************************************)
(* The life of a strategy intervention: one Huey worker per assessment     *)
(* batch runs Stage 2 (state assessment), Stage 3 (text generation) and    *)
(* the publish gate for one strategy_pipeline_runs row, while students     *)
(* post, a help request preempts, leases expire and the teacher closes the *)
(* session.  services/state_assessment_scheduler.py drives                 *)
(* three_stage_stage2.py, three_stage_stage3.py and                        *)
(* three_stage_publish.py; every transaction of theirs is one action.      *)
(*                                                                         *)
(* The actions are those of RoomLease joined with the worker's own         *)
(* progress, so a pipeline step is a step of the lease by construction.    *)
(*                                                                         *)
(* The discussion is the sequence of its messages, each its author: 0 a    *)
(* student, p the pipeline p, -h the answer to help request h.  A message  *)
(* sequence number is a position in it.                                    *)
(***************************************************************************)
EXTENDS RoomLease, Sequences

CONSTANTS MaxAttempts,   \* max_attempts of an assessment batch
          MaxPosts,      \* bound of the model: student messages
          CanCrash       \* pipelines whose worker may die

ASSUME AttemptsAssumption == MaxAttempts \in Nat \ {0} /\ MaxPosts \in Nat /\ CanCrash \subseteq Pipes

VARIABLES pc,         \* per pipeline, where its worker is
          attempts,   \* per pipeline, attempt_count of its batch
          cutoff,     \* per pipeline, input_cutoff_student_sequence (0: no batch yet)
          verdict,    \* per pipeline, the final status its worker has decided on
          talk,       \* the messages of the discussion
          posting,    \* a student has seen the room open and is about to post
          stage,      \* per help request, where its route or its worker is
          closer,     \* close_session(): open, closing (cancellation pending), closed
          cool,       \* the last strategy message is younger than the cooldown
          preempted   \* history: pipelines a help request has superseded

workVars == <<pc, attempts, cutoff, verdict>>
roomVars == <<talk, posting, cool>>
otherVars == <<stage, closer, preempted>>
pipelineVars == <<leaseVars, workVars, roomVars, otherVars>>

Student == 0
\* _latest_student_sequence() is beyond what the pipeline has been asked to answer.
Newer(p) == \E i \in DOMAIN talk : talk[i] = Student /\ i > cutoff[p]
Said(p) == \E i \in DOMAIN talk : talk[i] = p

Working == {"claimed", "lease2", "missed", "start", "assess", "pulsed", "erred", "failed",
            "requeue", "retrying", "lost", "doomed", "saved", "judged", "preflight", "lease3", "generate", "generating",
            "drafted", "gate", "passed", "sending", "regate", "resending", "sent", "finish"}

PipelineTypeOK ==
  /\ LeaseTypeOK
  /\ pc \in [Pipes -> Working \cup {"idle", "queued", "done", "dead"}]
  /\ attempts \in [Pipes -> 0 .. MaxAttempts]
  /\ cutoff \in [Pipes -> Nat]
  /\ verdict \in [Pipes -> Terminal \cup {"PENDING_STAGE3", "UNDECIDED"}]
  /\ talk \in Seq({Student} \cup Pipes \cup {-h : h \in Helps})
  /\ posting \in BOOLEAN /\ cool \in BOOLEAN
  /\ stage \in [Helps -> {"idle", "open", "messaged", "queued", "claimed", "preempted", "dead"}]
  /\ closer \in {"open", "closing", "closed"}
  /\ preempted \subseteq Pipes

StartRows == {[batch |-> "none", coarse |-> c, stage2 |-> "PENDING", intervene |-> FALSE,
               final |-> "PENDING_STAGE2", published |-> FALSE] : c \in BOOLEAN}

PipelineInit ==
  /\ row \in [Pipes -> StartRows]
  /\ LeaseInit
  /\ pc = [p \in Pipes |-> "idle"]
  /\ attempts = [p \in Pipes |-> 0]
  /\ cutoff = [p \in Pipes |-> 0]
  /\ verdict = [p \in Pipes |-> "UNDECIDED"]
  /\ talk = <<>> /\ posting = FALSE /\ cool = FALSE
  /\ stage = [h \in Helps |-> "idle"]
  /\ closer = "open" /\ preempted = {}

\* The worker of p moves on and touches nothing but the lease variables.
Go(p, from, to) ==
  /\ pc[p] = from
  /\ pc' = [pc EXCEPT ![p] = to]
  /\ UNCHANGED <<attempts, cutoff, verdict, roomVars, otherVars>>

\* The same with a decision the worker keeps in a local variable.
Decide(p, from, to, v) ==
  /\ pc[p] = from
  /\ pc' = [pc EXCEPT ![p] = to]
  /\ verdict' = [verdict EXCEPT ![p] = v]
  /\ UNCHANGED <<leaseVars, attempts, cutoff, roomVars, otherVars>>

-----------------------------------------------------------------------------
(* The batch. *)

\* One batch of a discussion at a time, in a window behind the cursor: no batch
\* that succeeded or was given up (recover_exhausted_batches() comes first)
\* reaches as far.
Spent(q) == \/ row[q].batch \in {"succeeded", "over"}
            \/ row[q].batch = "failed" /\ attempts[q] >= MaxAttempts
NoActiveBatch == \A q \in Pipes : row[q].batch \notin {"pending", "running"}
AfterCursor(c) == \A q \in Pipes : Spent(q) => cutoff[q] < c

\* request_state_assessment(): a new window of student messages ...
Request(p) ==
  /\ pc[p] = "idle" /\ enabled /\ NoActiveBatch
  /\ \E c \in DOMAIN talk :
       /\ talk[c] = Student /\ AfterCursor(c) /\ \A q \in Pipes : cutoff[q] # c
       /\ cutoff' = [cutoff EXCEPT ![p] = c]
  /\ WriteRow(p, [row[p] EXCEPT !.batch = "pending"])
  /\ pc' = [pc EXCEPT ![p] = "queued"]
  /\ UNCHANGED <<attempts, verdict, roomVars, otherVars>>

\* ... or the window of a batch that failed and may be tried again.
Reopen(p) ==
  /\ row[p].batch = "failed" /\ attempts[p] < MaxAttempts
  /\ enabled /\ NoActiveBatch /\ AfterCursor(cutoff[p])
  /\ WriteRow(p, [row[p] EXCEPT !.batch = "pending"])
  /\ Go(p, "done", "queued") \/ Go(p, "dead", "queued")

\* claim_batch() and the look at the discussion that follows.
ClaimBatch(p) ==
  /\ pc[p] = "queued" /\ row[p].batch = "pending"
  /\ WriteRow(p, [row[p] EXCEPT !.batch = IF enabled THEN "running" ELSE "failed"])
  /\ pc' = [pc EXCEPT ![p] = IF enabled THEN "claimed" ELSE "done"]
  /\ attempts' = [attempts EXCEPT ![p] = @ + 1]
  /\ UNCHANGED <<cutoff, verdict, roomVars, otherVars>>

\* prepare_for_batch(): whatever happened to the row, Stage 2 starts over.
Prepared(r) == IF r.stage2 = "SUCCEEDED" THEN r
               ELSE [r EXCEPT !.stage2 = "PENDING", !.final = "PENDING_STAGE2"]
Prepare(p) ==
  /\ WriteRow(p, Prepared(row[p]))
  /\ Go(p, "claimed", IF row[p].coarse THEN "lease2" ELSE "start")

\* _schedule_limited_retry(): mark_batch_failed(), then prepare_retry() in a
\* transaction of its own.
RetryAlways(p) ==                              \* mutant: attempt_count is not compared
  /\ WriteRow(p, [row[p] EXCEPT !.batch = "failed"])
  /\ Go(p, "failed", "retrying") \/ Go(p, "missed", "requeue")
Retry(p) ==
  /\ attempts[p] < MaxAttempts
  /\ WriteRow(p, [row[p] EXCEPT !.batch = "failed"])
  /\ Go(p, "failed", "retrying") \/ Go(p, "missed", "requeue")

\* The index of active batches refuses a second one: the exception is caught as
\* an application error after a lease miss, and ends the task after a failure.
PrepareRetry(p) ==
  \/ /\ NoActiveBatch
     /\ WriteRow(p, [row[p] EXCEPT !.batch = "pending"])
     /\ Go(p, "retrying", "queued") \/ Go(p, "requeue", "queued")
  \/ /\ ~NoActiveBatch /\ UNCHANGED leaseVars
     /\ Go(p, "retrying", "done") \/ Go(p, "requeue", "erred")

\* terminalize_exhausted_batch(): the last attempt, or at once after a
\* structured-output error.
ExhaustFailedOnly(p) ==                        \* mutant: a batch that never got the lease is left
  /\ WriteRow(p, [row[p] EXCEPT !.batch = "over"])
  /\ Go(p, "failed", "done")
Exhaust(p) ==
  /\ WriteRow(p, [row[p] EXCEPT !.batch = "over"])
  /\ Go(p, "failed", "done") \/ (attempts[p] >= MaxAttempts /\ Go(p, "missed", "doomed"))

\* A lost lease is not retried: mark_batch_failed(), unless the batch is over.
LoseBatch(p) ==
  /\ WriteRow(p, IF row[p].batch = "running" THEN [row[p] EXCEPT !.batch = "failed"] ELSE row[p])
  /\ Go(p, "lost", "done")

-----------------------------------------------------------------------------
(* The lease, as the worker of p uses it. *)

\* What claim_strategy_pipeline() needs of the room.
RoomClaimable(p) ==
  \/ room.state = "OPEN"
  \/ Renewable(p)
  \/ /\ room.owner = -p /\ room.token # lease[p].token /\ room.ttl > 0
     /\ lease[p].age < MaxTotal
  \/ \E q \in Pipes \ {p} : room.owner = -q /\ CanTransfer(q, p)

\* A renewal; the deadline may already be the one it sets.
Pulse(p) ==
  \/ Renew(p)
  \/ Renewable(p) /\ RenewTtl(lease[p].age) = room.ttl /\ UNCHANGED leaseVars

ClaimLease(p) ==
  \/ ClaimOpen(p) \/ ClaimOwned(p) \/ ClaimTransfer(p)
  \/ Claimable(row[p]) /\ Pulse(p)

\* The heartbeat thread: Stage 2 has one if it started under a lease.
Heartbeat(p) ==
  /\ pc[p] \in {"generate", "generating"} \/ (pc[p] = "assess" /\ row[p].coarse)
  /\ Renew(p)
  /\ UNCHANGED <<workVars, roomVars, otherVars>>

-----------------------------------------------------------------------------
(* Stage 2. *)

\* The room is leased before Stage 2 only for a row Stage 1 wants to escalate.
Lease2(p) == ClaimLease(p) /\ Go(p, "lease2", "start")

\* mark_waiting_for_lock()
LeaseMiss(p) ==
  /\ ~(Claimable(row[p]) /\ RoomClaimable(p))
  /\ WriteRow(p, IF row[p].stage2 = "PENDING" THEN [row[p] EXCEPT !.final = "WAITING_FOR_LOCK"]
                 ELSE row[p])
  /\ Go(p, "lease2", "missed")

\* mark_started(): a conditional UPDATE; a row it does not match is an
\* application error.
Startable(r) == r.stage2 = "PENDING" /\ r.final \in {"PENDING_STAGE2", "WAITING_FOR_LOCK", "LOCKED"}
Start(p) ==
  \/ /\ Startable(row[p])
     /\ WriteRow(p, [row[p] EXCEPT !.stage2 = "RUNNING", !.final = "ASSESSING"])
     /\ Go(p, "start", "assess")
  \/ /\ ~Startable(row[p])
     /\ UNCHANGED leaseVars /\ Go(p, "start", "erred")

\* The state model has answered; a worker with a lease checks it once more.
Assessed(p) ==
  \/ /\ IF row[p].coarse THEN Pulse(p) ELSE UNCHANGED leaseVars
     /\ Go(p, "assess", "pulsed")
  \/ /\ row[p].coarse /\ ~Renewable(p)
     /\ UNCHANGED leaseVars /\ Go(p, "assess", "doomed")

\* mark_failed(): unconditional, and the end of the lease.  A lost lease ends
\* the batch, any other error is retried.
FailStage2(p) ==
  /\ EndRow(p, [row[p] EXCEPT !.stage2 = "FAILED", !.intervene = FALSE, !.final = "FAILED"])
  /\ \/ \E from \in {"assess", "pulsed", "erred"} : Go(p, from, "failed")
     \/ Go(p, "doomed", "lost")

\* save_successful_segments()
Save(p) ==
  /\ WriteRow(p, [row[p] EXCEPT !.batch = "succeeded"])
  /\ Go(p, "pulsed", "saved")

\* persist_success() compares the latest student message with the cutoff
\* before its transaction begins.
Judge(p) ==
  \E v \in IF Newer(p) THEN {"STALE"} ELSE {"PENDING_STAGE3", "SUPPRESSED", "FAILED"} :
    Decide(p, "saved", "judged", v)

\* UPDATE ... WHERE id=?: the status the row has by now does not matter.
Persist(p) ==
  IF verdict[p] = "PENDING_STAGE3"
  THEN /\ WriteRow(p, [row[p] EXCEPT !.stage2 = "SUCCEEDED", !.intervene = TRUE, !.final = verdict[p]])
       /\ Go(p, "judged", "preflight")
  ELSE /\ EndRow(p, [row[p] EXCEPT !.stage2 = "SUCCEEDED", !.intervene = FALSE, !.final = verdict[p]])
       /\ Go(p, "judged", "done")

-----------------------------------------------------------------------------
(* Stage 3. *)

\* _cooldown_check() reads the rows already marked PUBLISHED.
Cooling(p) == \E q \in Pipes \ {p} :
  /\ row[q].published
  /\ cool \/ \E i \in DOMAIN talk : talk[i] = q /\ cutoff[p] <= i

\* evaluate_preflight(), without a lease.
Preflight(p) ==
  IF enabled /\ ~Cooling(p)
  THEN UNCHANGED leaseVars /\ Go(p, "preflight", "lease3")
  ELSE Decide(p, "preflight", "finish", "SUPPRESSED")

Lease3(p) ==
  \/ ClaimLease(p) /\ Go(p, "lease3", "generate")
  \/ /\ ~(Claimable(row[p]) /\ RoomClaimable(p))
     /\ Decide(p, "lease3", "finish", "FAILED")

\* _mark_stage3_running() looks at the stages, not at the final status.
Generate(p) ==
  /\ WriteRow(p, IF Stage2Ready(row[p]) THEN [row[p] EXCEPT !.final = "GENERATING"] ELSE row[p])
  /\ Go(p, "generate", "generating")

\* The strategy model has answered: a lost lease, an unusable text, or a draft.
Generated(p) ==
  \/ Pulse(p) /\ Go(p, "generating", "drafted")
  \/ Decide(p, "generating", "finish", "FAILED")

\* _persist_success()
Draft(p) ==
  /\ WriteRow(p, [row[p] EXCEPT !.final = "PENDING_DECISION_GATE"])
  /\ Go(p, "drafted", "gate")

-----------------------------------------------------------------------------
(* The publish gate. *)

LeaseValid(p) == lease[p].token # NoToken /\ Owns(p) /\ room.ttl > 0

HelpActiveQueued(p) ==                         \* mutant: only a waiting request counts
  p \notin HelpTriggered /\ \E h \in Helps : help[h] = "QUEUED"
HelpActive(p) == p \notin HelpTriggered /\ \E h \in Helps : help[h] \in {"QUEUED", "RUNNING"}

\* InterventionDecisionGate.evaluate(): the first check that fails decides.
GateAnswer(p) ==
  IF row[p].stage2 # "SUCCEEDED" THEN "FAILED"
  ELSE IF ~row[p].intervene THEN "SUPPRESSED"
  ELSE IF row[p].final \notin {"PENDING_DECISION_GATE", "READY_TO_PUBLISH", "VALIDATING"} THEN "FAILED"
  ELSE IF ~enabled THEN "SUPPRESSED"
  ELSE IF ~LeaseValid(p) THEN "FAILED"
  ELSE IF Newer(p) THEN "STALE"
  ELSE IF HelpActive(p) \/ Cooling(p) THEN "SUPPRESSED"
  ELSE "UNDECIDED"

Gate(p) ==
  \E here \in {<<"gate", "passed">>, <<"regate", "resending">>} :
    Decide(p, here[1], IF GateAnswer(p) = "UNDECIDED" THEN here[2] ELSE "finish", GateAnswer(p))

\* The last renewal before the message is sent.
Confirm(p) ==
  \/ Pulse(p) /\ Go(p, "passed", "sending")
  \/ ~Renewable(p) /\ Decide(p, "passed", "finish", "FAILED")

\* publish_agent_intervention(): one transaction checks token, owner, deadline,
\* session and the latest student message again, and inserts the message.
FreshUnchecked(p) == enabled                   \* mutant: no expected_latest_student_sequence
Fresh(p) == enabled /\ ~Newer(p)
PublishUnleased(p) ==                          \* mutant: the token is not asked for
  /\ pc[p] \in {"sending", "resending"}
  /\ Fresh(p) /\ room' = Open(room) /\ UNCHANGED <<row, lease, help, run, seen, held, handler, enabled, issued>>
  /\ talk' = Append(talk, p) /\ cool' = TRUE
  /\ pc' = [pc EXCEPT ![p] = "sent"]
  /\ UNCHANGED <<attempts, cutoff, verdict, posting, otherVars>>
Publish(p) ==
  /\ pc[p] \in {"sending", "resending"}
  /\ Fresh(p) /\ PublishPipe(p)
  /\ talk' = Append(talk, p) /\ cool' = TRUE
  /\ pc' = [pc EXCEPT ![p] = "sent"]
  /\ UNCHANGED <<attempts, cutoff, verdict, posting, otherVars>>
Refused(p) ==
  /\ ~(LeaseValid(p) /\ Fresh(p))
  /\ \E from \in {"sending", "resending"} :
       Decide(p, from, "finish", IF LeaseValid(p) /\ enabled THEN "STALE" ELSE "FAILED")

\* "database is locked": the gate is asked again, the lease is not renewed.
DbLocked(p) ==
  \/ UNCHANGED leaseVars /\ Go(p, "sending", "regate")
  \/ Decide(p, "resending", "finish", "FAILED")

\* _mark_published(), a transaction of its own.
MarkIfActive(p) ==                             \* mutant: a conditional UPDATE
  /\ WriteRow(p, IF row[p].final \in Terminal THEN row[p]
                 ELSE [row[p] EXCEPT !.final = "PUBLISHED", !.published = TRUE])
  /\ Go(p, "sent", "done")
Mark(p) ==
  /\ WriteRow(p, [row[p] EXCEPT !.final = "PUBLISHED", !.published = TRUE])
  /\ Go(p, "sent", "done")

\* finish_preflight(), Stage3PipelineService.mark_failed() and
\* _finish_without_publish(): status and lease in one transaction.
FinishKeepsLease(p) ==                         \* mutant: the lease is left to expire
  /\ WriteRow(p, [row[p] EXCEPT !.final = verdict[p]])
  /\ Go(p, "finish", "done")
Finish(p) ==
  /\ EndRow(p, [row[p] EXCEPT !.final = verdict[p]])
  /\ Go(p, "finish", "done")

\* The worker process dies between two of its transactions.
Crash(p) ==
  /\ p \in CanCrash /\ pc[p] \in Working
  /\ UNCHANGED leaseVars /\ Go(p, pc[p], "dead")

-----------------------------------------------------------------------------
(* Students, help requests, the teacher. *)

RoomSeenOpen == room.state = "OPEN" /\ enabled

\* api_message(): the room is looked at in one statement and the message
\* inserted in another.
SeeRoom ==
  /\ ~posting /\ RoomSeenOpen /\ posting' = TRUE
  /\ UNCHANGED <<leaseVars, workVars, talk, cool, otherVars>>
Post ==
  /\ posting /\ posting' = FALSE /\ Len(SelectSeq(talk, LAMBDA a : a = Student)) < MaxPosts
  /\ talk' = Append(talk, Student)
  /\ UNCHANGED <<leaseVars, workVars, cool, otherVars>>

Stage(h, from, to) ==
  /\ stage[h] = from
  /\ stage' = [stage EXCEPT ![h] = to]
  /\ UNCHANGED <<workVars, posting, cool, closer>>

\* api_student_help(): look, post the request as a student message, insert the
\* help_requests row, each in a transaction of its own.
HelpSee(h) == RoomSeenOpen /\ Stage(h, "idle", "open") /\ UNCHANGED <<leaseVars, talk, preempted>>
HelpPost(h) ==
  /\ Stage(h, "open", "messaged") /\ talk' = Append(talk, Student)
  /\ UNCHANGED <<leaseVars, preempted>>
HelpQueue(h) == HelpAsk(h) /\ Stage(h, "messaged", "queued") /\ UNCHANGED <<talk, preempted>>

\* _execute_help_flow()
HelpStart(h) == HelpClaim(h) /\ Stage(h, "queued", "claimed") /\ UNCHANGED <<talk, preempted>>
HelpPreempt(h) ==
  /\ Preempt(h) /\ Stage(h, "claimed", "preempted") /\ UNCHANGED talk
  /\ preempted' = preempted \cup {p \in Pipes : row'[p].final # row[p].final}
HelpLease(h) ==
  /\ stage[h] = "preempted"
  /\ ReadVersion(-h) \/ Acquire(-h) \/ HelpFail(h) \/ Release(-h)
  /\ UNCHANGED <<workVars, roomVars, otherVars>>
\* An exception of the worker, before it has preempted anything as well.
HelpUnwinds(h) ==
  /\ stage[h] \in {"queued", "claimed", "preempted"}
  /\ GiveUp(-h) \/ HelpRaises(h) \/ HandlerFrees(h) \/ HandlerRecords(h)
  /\ UNCHANGED <<workVars, roomVars, otherVars>>
HelpAnswer(h) ==
  /\ stage[h] = "preempted" /\ HelpPublish(h)
  /\ talk' = Append(talk, -h)
  /\ UNCHANGED <<workVars, posting, cool, otherVars>>
HelpDies(h) ==
  /\ CanCrash # {}
  /\ \E from \in {"claimed", "preempted"} : Stage(h, from, "dead")
  /\ UNCHANGED <<leaseVars, talk, preempted>>

\* close_session(): the status first, the cancellation of the runs after it.
Close ==
  /\ closer = "open" /\ closer' = "closing" /\ enabled /\ Switch
  /\ UNCHANGED <<workVars, roomVars, stage, preempted>>
CancelRuns ==
  /\ closer = "closing" /\ closer' = "closed" /\ CancelActive
  /\ UNCHANGED <<workVars, roomVars, stage, preempted>>

Clock == (Tick \/ Expire) /\ UNCHANGED <<workVars, roomVars, otherVars>>
CoolDown == cool /\ cool' = FALSE /\ UNCHANGED <<leaseVars, workVars, talk, posting, otherVars>>

-----------------------------------------------------------------------------

Work(p) ==
  \/ ClaimBatch(p) \/ Prepare(p) \/ Retry(p) \/ PrepareRetry(p) \/ Exhaust(p) \/ LoseBatch(p)
  \/ Lease2(p) \/ LeaseMiss(p) \/ Start(p) \/ Assessed(p) \/ FailStage2(p)
  \/ Save(p) \/ Judge(p) \/ Persist(p)
  \/ Preflight(p) \/ Lease3(p) \/ Generate(p) \/ Generated(p) \/ Draft(p)
  \/ Gate(p) \/ Confirm(p) \/ Publish(p) \/ Refused(p) \/ DbLocked(p) \/ Mark(p) \/ Finish(p)

PipelineNext ==
  \/ \E p \in Pipes : Request(p) \/ Reopen(p) \/ Work(p) \/ Heartbeat(p) \/ Crash(p)
  \/ SeeRoom \/ Post
  \/ \E h \in Helps : \/ HelpSee(h) \/ HelpPost(h) \/ HelpQueue(h) \/ HelpStart(h)
                      \/ HelpPreempt(h) \/ HelpLease(h) \/ HelpUnwinds(h)
                      \/ HelpAnswer(h) \/ HelpDies(h)
  \/ Close \/ CancelRuns \/ Clock \/ CoolDown

PipelineSpec == PipelineInit /\ [][PipelineNext]_pipelineVars

\* A Huey worker that lives goes on with its task, and a queued batch is
\* delivered.
FairPipelineSpec == PipelineSpec /\ \A p \in Pipes : WF_pipelineVars(Work(p))

-----------------------------------------------------------------------------
(* Properties. *)

\* What a strategy message answers is still the last thing a student said: no
\* student message lies between the cutoff of its pipeline and the message,
\* though students may post at any moment after the gate.
FreshAnswer ==
  \A p \in Pipes, i \in DOMAIN talk : talk[i] = p =>
    \A j \in cutoff[p] + 1 .. i - 1 : talk[j] # Student

\* Two strategy messages always have a student message between them, even
\* while the first pipeline has not been marked PUBLISHED yet.
StudentsAnswer ==
  \A i, j \in DOMAIN talk : i < j /\ talk[i] \in Pipes /\ talk[j] \in Pipes =>
    \E k \in i .. j : talk[k] = Student

\* A lease of a pipeline has a row that is still active and a worker that will
\* end it (or that died: then the deadline ends it).
NoForgottenLease ==
  \A p \in Pipes : Owns(p) /\ lease[p].token # NoToken =>
    /\ row[p].final \in Active
    /\ pc[p] \in (Working \ {"claimed", "failed", "missed", "requeue", "retrying", "lost", "sent"})
                \cup {"dead"}

\* When the worker is done the audit row tells whether students saw a message,
\* whatever a preemption or a cancellation wrote in between.
SaidIsRecorded ==
  \A p \in Pipes : pc[p] = "done" =>
    /\ Said(p) <=> row[p].published
    /\ Said(p) <=> row[p].final = "PUBLISHED"

\* Once a help request has preempted the strategy work, no ordinary pipeline
\* publishes before that request is over.
PreemptionHolds ==
  [][ \A p \in Pipes \ HelpTriggered : Said(p)' /\ ~Said(p) =>
        \A h \in Helps : ~(stage[h] = "preempted" /\ help[h] = "RUNNING") ]_pipelineVars

\* preempt_for_student_help(): unpublished work it has preempted is not published.
PreemptedNeverPublished ==
  [][ \A p \in preempted : Said(p)' => Said(p) ]_pipelineVars

\* Every batch that is asked for comes to an end, and its pipeline to a verdict
\* unless the session is closed under it.
PipelineEnds ==
  \A p \in Pipes : pc[p] = "queued" ~>
    pc[p] = "done" /\ (row[p].final \in Terminal \/ closer # "open")
=============================================================================
