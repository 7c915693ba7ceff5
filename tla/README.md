# Formal models of SSRL-ESP

SSRL-ESP runs collaborative-learning experiments: groups of students discuss in
chat rooms and write a document together, an LLM assesses every discussion in
batches, and an agent may post an intervention or feedback on emotions.  This
directory holds TLA+ models of the parts of the service where correctness is hard
to see and hard to test: who may speak in a room; how a strategy intervention
travels from an assessment batch to a message while students, help requests, the
teacher, the clock and dying workers interfere; how a shared document reaches the
database and is submitted exactly when it should be; and how a class session runs
from the first student to the finalization of its groups.

The service is a Flask process, a collaboration (WebSocket) process and a Huey
consumer with two worker processes by default.  The web process and the workers share
nothing but one SQLite database, so their interleavings are interleavings of
transactions; the collaboration server is called over HTTP and keeps documents in
memory.  Accordingly **one action of a model is one transaction, one call to the
collaboration server, or one read whose result is used later**.

## The modules

| module | what it is |
|---|---|
| `RoomLease` | the lease of a room (`services/intervention_pipeline_v2/room_lease_service.py`) and every writer of a lease column |
| `RoomLeaseProofs` | theorems about the lease, for any number of pipelines, requests, runs and seconds |
| `StrategyPipeline` | the flow of a strategy intervention: batch, Stage 2, Stage 3, publish gate, publisher; students, help requests, teacher |
| `StrategyPipelineProofs` | type correctness, refinement of `RoomLease`, freshness of messages |
| `PipelineAuditProofs` | audit row, lease and worker of a pipeline: truthful rows, no forgotten lease, preemption, students between two messages |
| `Observation` | what follows a published intervention: the observing cursor, the assessments that judge it, their outcomes |
| `ObservationProofs` | the promises of `Observation`, for any number of messages and assessments |
| `AssessmentBatch` | the windows, the two cursors and the continuation requests of one discussion: who asks for an assessment, who executes it, who goes on |
| `BatchProofs` | the promises of `AssessmentBatch`, for any number of workers, messages, attempts, failures and replays |
| `DocumentStore` | what a collaborative document promises: its status moves as documents move, its text only grows by what was typed |
| `CollabRoom` | the collaboration server of one document: two registries of rooms, browsers, saves, recycling, restarts |
| `CollabSubmission` | submitting the document: the two-phase commit of the pages, the forced submission, the teacher's return; EXTENDS `CollabRoom` |
| `CollabProofs` | refinement of `DocumentStore` and the promises of a submission, for any number of pages, rooms and requests |
| `Discussion` | one class session: entering, the timer, handing in, the scan at the deadline, return, end, state finalization |
| `EmotionSlots` | the emotion agent's feedback slots over a running discussion; EXTENDS `Discussion` |
| `DiscussionProofs`, `EmotionProofs` | the promises of a session, with the emotion agent beside it, for any number of groups, students, minutes and tries |
| `MCRoomLease`, `MCStrategyPipeline`, `MCObservation`, `MCAssessmentBatch`, `MCCollab`, `MCDiscussion` | finite sets, scenarios and symmetry for TLC |

`RoomLease` is at once a component model and the abstract specification of the
lease: it says what any pipeline may do to a lease, with the lifecycle columns
of a pipeline row written arbitrarily (`WriteRow`, `EndRow` with any row of
`WrittenRows`).  `StrategyPipeline` EXTENDS it and replaces those arbitrary
writes by the worker's real steps; that it still implements `LeaseSpec` is
checked (`LeaseSpec` in `pipeline_live`) and proved (`PipelineKeepsLease`).

`DocumentStore` is the abstract specification of the document: users' contributions
as counters, four operations.  `CollabSubmission` implements it under the mapping
`INSTANCE DocumentStore WITH Users <- Pages, status <- doc.status, text <- doc.y`; rooms,
browsers and requests disappear (`StoreKept` in `collab`).

`AssessmentBatch` looks at the same batches from the other side.  In
`StrategyPipeline` a batch is a status and a number of attempts, requested with
any cutoff, and its worker's steps are spelled out; in `AssessmentBatch` the
worker's assessment is one step and what is spelled out is which messages a
batch covers and who requests the next one.  `Reopen` of `StrategyPipeline`
starts from a worker that is done or dead; `AssessmentBatch` has the reopening
that races a retry.

`Observation` takes up where `StrategyPipeline` ends and keeps of both only what the
judgement of an intervention depends on: the stage of a worker, the window and the trigger
of its batch, and the request that waits for it.  Here the triggers have their
priorities, and windows their beginnings and ends in a discussion in which students and
interventions take turns.

## Inventory of the system

| component | state | operations | hard part | correct when | here |
|---|---|---|---|---|---|
| Room lease | `groups.state, version, lock_token, lock_expires_at, active_intervention_run_id` | acquire, release, claim, transfer, renew, expire, recover | optimistic lock over two connections; owner numbers of two tables; late expiry tasks; renewals against deadlines | one holder, capped, no revival, owner ended when the lease is taken | `RoomLease` |
| Strategy pipeline | `strategy_pipeline_runs` (`stage2_status`, `should_intervene`, `final_status`, `published`, …) | Stage 2 `prepare/mark_started/persist/mark_failed`, Stage 3 `mark_running/persist`, gate, publish, mark | dozens of transactions per intervention, ended from outside at any point | fresh answers, no second message without a student between, audit row tells the truth, no lease left behind, it ends | `StrategyPipeline` |
| Help request | `help_requests.status` | ask, queue, preempt, acquire, answer, fail | preempts pipelines of lower priority, competes for the same room | preemption holds; a help worker that goes on keeps its room | both |
| Publisher | the transaction in `agent_intervention_publisher.py` | check and insert | refused or retried when SQLite is locked | inserts only what is still fresh and leased | `StrategyPipeline` |
| Assessment batches | `state_assessment_batches`, `discussion_assessment_cursors` | request, claim, fail, retry, terminalize, save | unique active batch per discussion, retry in a second transaction | attempts bounded, cursor monotone, no message skipped or left waiting | `AssessmentBatch`, without segments |
| Stage 1 monitoring | coarse states, rules | evaluate messages | — | — | its verdict is the `coarse` flag |
| Session and discussion | `experiment_sessions`, `group_session_discussions`, `collaborative_documents` | enter, time out, submit, return, end, archive | roster, timer, scan and end decide from what they read earlier | timer set once, closed stays closed, ended leaves nothing open, overdue is settled | `Discussion`; status and cancellation of the runs in `StrategyPipeline` (`Close`, `CancelRuns`) |
| Collaboration server | `app.rooms`, `ws_server.rooms`, Y.Docs in memory, `collaborative_documents.yjs_state` | connect, update, periodic save, freeze, flush, close, recycle | two registries that may disagree; memory against database | what counts as saved is saved, nothing not typed is stored | `CollabRoom`, `DocumentStore` |
| Submission | `submission_prepares`, `submissions`, status of the document, the page's state machine | prepare, commit, unfreeze, forced submission, return | six transactions and four calls; lost answers; two submitters | a submitted document has its row, pages tell the truth | `CollabSubmission` |
| Emotion slots | `emotion_reflection_slots`, their runs and messages | due scan, claim, generate, publish, settle, expire | timeouts against slow workers, unique active slot | one active slot, each speaks once, an interval between two, each ends | `EmotionSlots` |
| State finalization | `collaboration_state_finalizations` | request, claim, gate, analyse | duplicates, dead claimants | every group of an ended session is finalized | `Discussion` |
| Legacy intervention runs | `intervention_runs` | evaluate, acquire, publish | same room | as the lease | competitors in `RoomLease` |
| Observation | observation columns of `discussion_assessment_cursors` and `strategy_pipeline_runs` | begin, first answer, request, outcome, finalize | begun in two transactions; outcomes recorded while the next intervention is under way | the interval starts at the first answer, the outcome is read off later messages | `Observation` |
| Segments | derived audit rows | write once per batch | idempotency | no duplicates | not modelled |
| Discussion monitoring v2 | `monitor_runs` | features, rule and LLM detection, fusion | — | — | not modelled: one assessment's computation, its outcome is left open |
| Emotion classification and wording, teacher analyses, LLM calls, pages, exports, migrations, load test, front end | — | — | — | — | not modelled: text, read-only views, I/O |

`PROJECT.json` lists, under *hazards*, the concrete lines where this code can go
wrong in a way a unit test would hardly reach, and the property that covers each.

## How the models correspond to the code

### RoomLease

Variables: `room` is the `groups` row (time is relative: `room.ttl` is
`lock_expires_at` minus now); `row` and `lease` are the lifecycle and the lock
columns of each pipeline row; `help`, `run` are the statuses of requests and
legacy runs; `seen` is the version `acquire()` has read and not yet compared;
`held` the token a worker keeps in a local variable; `handler[h]` how far the exception
handler of a help worker has come; `enabled` stands for all
conditions "session running, discussion running, agents switched on"; `issued`
numbers the uuids.

| action | code |
|---|---|
| `ReadVersion`, `Acquire`, `GiveUp`, `Release` | `acquire()`, `release()` and the callers' failure branches |
| `ClaimOpen`, `ClaimOwned`, `ClaimTransfer` | the three branches of `claim_strategy_pipeline()` |
| `Renew` | `renew_strategy_pipeline()`; `RenewTtl` is the new deadline |
| `Expire` | `_expire_locked_room()`, reached by delayed release tasks and by recovery |
| `EndRow`, `EndActive`, `Preempt`, `CancelActive` | the `_release_pipeline_lock()` of the services, `_mark_pipeline_terminal()`, preemption, session end |
| `PublishPipe`, `HelpPublish` | the part of the publisher that frees the room |
| `HelpFail` | the failure branches inside `_execute_help_flow()`: FAILED first, then `Release` |
| `HelpRaises`, `HandlerFrees`, `HandlerRecords` | any other exception: the handler of `process_student_help()` |
| `HelpAsk`, `HelpClaim`, `RunEnds`, `Switch`, `Tick` | life of the competitors, switches, clock |

The handler goes the other way round than `HelpFail`.  It has not got the token of the worker
that raised; it reads the one in the room whenever the room names `-help_id`, frees the room
with it while the request is still RUNNING, and writes FAILED in a transaction of its own.
Both steps may be swallowed, so a request may stay RUNNING without its room, a lease may be
left to its deadline, and the lease of a pipeline with the number of the request may be freed.
`GiveUp` includes an exception that `_acquire_help_room_lock()` swallows: the request fails
although the room is open.

A renewal that would leave the deadline where it is bumps only the version in
the code; in the model it is a stutter.  That removes an unbounded counter and
loses only failures of a concurrent `acquire()` that needs an open room anyway.

### StrategyPipeline

There is one pipeline row per batch, present from `Init`; `idle` means that its
batch has not been requested.  `pc[p]` is the point between two transactions
where the Huey worker of batch `p` stands; the worker's local decision is
`verdict[p]`.  `talk` is the discussion as the sequence of its authors, so a
message sequence number is a position in it; `cutoff[p]` is
`input_cutoff_student_sequence`.  `stage[h]` is where the route or the worker of
a help request stands; `preempted` is a history variable.

The path of a worker:

    queued -ClaimBatch-> claimed -Prepare-> (lease2 -Lease2->) start -Start-> assess
      -Assessed-> pulsed -Save-> saved -Judge-> judged -Persist-> preflight -Preflight-> lease3
      -Lease3-> generate -Generate-> generating -Generated-> drafted -Draft-> gate
      -Gate-> passed -Confirm-> sending -Publish-> sent -Mark-> done

The steps of a help request, `HelpSee` to `HelpAnswer`, have the exceptions of its worker
beside them (`HelpUnwinds`), before and after it has preempted anything.

A worker of a batch has the error paths `LeaseMiss`, `Retry`, `PrepareRetry`, `Exhaust`,
`LoseBatch`, `FailStage2`, `Refused`, `DbLocked`, `Finish` and, outside the
worker, `Request`, `Reopen`, `Heartbeat`, `Crash`.

Choices a reader should know of:

* The gate is one action.  In the code it is a series of SELECTs; the row, the
  lease and the latest student message are read again by the renewal and by the
  publisher, help requests and cooldown are read last.
* The publisher's transaction is atomic.  When another writer commits in
  between, SQLite answers "database is locked"; the code evaluates the gate
  again without renewing and tries again (`DbLocked`, bounded to one retry).
* `Request` allows any student message behind the cursor as the cutoff; where
  the code picks the window from its trigger, the model admits every choice.
* `Exhaust` from `failed` with attempts left is the structured-output error,
  which is terminal at once.
* A missed lease does not tell its reasons apart; an assessment answers any
  verdict, a model call may fail.
* Stage 3 and strategy mode are switched on.  Preliminary (batch-less) sibling
  rows and leases of older releases occur in `RoomLease` only; replacement
  links and optional-support counters are left out; what follows a publish is in
  `Observation`.  The ranking of triggers is represented by `HelpTriggered`, the
  pipelines a help request does not preempt.
* The branches for an intervention that is already published are not modelled:
  the batch has succeeded by then and its worker is not run again.

### Observation

`chat` is the discussion, 0 for a message of a student, *r* for the intervention of run *r*
and `Answer` for the answer to a help request; `watch` the observation and scheduling columns of the cursor; `judge[r]` the batch of
a run, the stage of its worker and the observation columns of its pipeline row; `noticed`
the messages whose task has read the cursor as observing and has not yet asked.

| action | code |
|---|---|
| `StudentSpeaks` | `create_message()` with `record_observation_student_sequence()` |
| `Notice` | `process_new_message_task()` reads the cursor (`agent/monitoring_tasks.py:112`) |
| `RequestJudgement`, `ContinueQueued` | `request_state_assessment()`: a new or reopened window (`Assess`), a higher trigger (`Raise`), a request that waits (`QueueRequest`) and its continuation |
| `FailJudgement`, `RetryJudgement`, `GiveUpWindow`, `SaveJudgement` | what becomes of the batch; attempts are counted in `AssessmentBatch` |
| `RecordOutcome` | `persist_success()` and `record_observation_assessment()`: which intervention, how many answers and rounds, what outcome |
| `PublishIntervention`, `MarkObserving` | the publisher's transaction, and the one that notes the publication: both begin the observation |
| `AnswerHelp` | the publisher's transaction for a help request, which begins an observation too |
| `GiveUpRun` | the pipeline is refused, or its worker dies, after any of its transactions |
| `EndSession`, `FinalizeObservations` | the end of the session, and `close_session()`, which ends the observations |

* The gate and the publisher's transaction are one action; what can come between them is
  in `StrategyPipeline`.
* A help request occurs here as an urgent trigger and by its answer.  The publisher begins an
  observation for every new strategy message that is not a teacher's, and a help answer is
  one: the cursor then observes a message no pipeline row is behind, and no outcome is ever
  recorded for it.  An answer may come when the session has ended.
* A message noticed while observing may be asked about at any later time, also never.
  Periodic and urgent requests may come at any time: their thresholds are left open.
* A verdict is how the new state relates to the one before the intervention, and whether
  to intervene; that is all `_classify_observation_result()` looks at.
* A worker that dies while its batch is running is left to `AssessmentBatch`.
* Left out: times and seconds, the details kept with an outcome, the links between an
  intervention and the next, and the release of the cursor by an assessment of the
  previous pipeline version.

Five things the code does that the properties allow for.  A help answer takes the cursor
away from the intervention that was being observed.  An outcome recorded for an
older intervention switches the cursor off although a newer one is being observed.  A
worker that dies between publishing and noting it leaves the cursor observing an
intervention no row is observing; no property speaks of that.  A publication noted after
the observations were finalized leaves its row `observing`.  `end_session()` does not
finalize observations; only `close_session()` does, which nothing outside the tests calls.

### AssessmentBatch

Messages are positions among the student messages of one discussion; a window
is a pair of positions, and because of the UNIQUE constraint it names its row.
`batch` is the table of rows (`cut` is a row's own bound when it lies beyond the
window, `queued` its continuation request, `backoff` a `next_retry_at` in the
future, `terminal` a `terminal_status`), `cursor` the two cursors, `tasks` what
Huey has queued.  Callers and workers make requests with the same actions; `pc`
is where the process stands, `req` its request, `back` where it returns to (a
worker returns from a replacement request to its batch), `target` the window it
has claimed and not yet enqueued.  `plan` is what a worker has read of its row
before it saves.

| action | code |
|---|---|
| `Recover` | `recover_exhausted_batches()` at the start of `request_state_assessment()` |
| `Join`, `Create`, `Reopen`, `Skip` | its transaction: an active batch, a new window, a failed one, nothing to do |
| `Enqueue`, `EnqueueLost`, `EnqueueUnmarked`, `Refused` | the task after the commit, and its two failures |
| `Scan`, `Trigger`, `Replay` | the periodic scan, explicit triggers, `scripts/requeue_failed_state_assessments.py` |
| `Claim`, `DropTask`, `Start`, `StopClosed` | `claim_batch()` and the look at the discussion |
| `LoseLease`, `GiveUp`, `Fail`, `PrepareRetry`, `DropRetry` | the failures: without retry, terminal, with a retry in a second transaction |
| `ReadBatch`, `Save`, `Replace`, `Continue` | the flag and contract are read, segments saved, newer messages asked for, the next window requested |

* The thresholds of periodic requests are a choice (`Skip`); priorities decide
  only between two requests for one cutoff, and there either may win.
* The trigger type of a row is overwritten by later requests but not its
  sequence; which bound that yields for the continuation is left open (`OwnBounds`).
* `recover_exhausted_batches()` closes its rows one by one; in the model at once.
* What is written into segments, and whether a replayed window is state-only, is
  left out.  No worker dies, because nothing recovers a batch that is `running`.

### CollabRoom and CollabSubmission

`doc` is the row (status and text), `typed` what the students have ever typed; a text
counts the edits of each page, because a Y.Doc merges edits and never loses one it
has.  `room` are the room objects in memory, `managed` and `path` the two registries of
the collaboration server (`app.rooms`, `ws_server.rooms`), `browser` the pages.  A room
that neither registry and no connection refers to does not exist (`Tidy`).

| action | code |
|---|---|
| `Visit`, `Leave`, `Break`, `Type` | a page, its socket, its student |
| `Open`, `Serve`, `Deliver` | the WebSocket handler: authorize and load, accept and look the path up again, updates both ways |
| `PeriodicSave`, `Recycle`, `Restart` | the save loop, the drop of a room without clients, a restart of the server |
| `Restore`, `SubmitForm`, `GiveUpWaiting`, `Answer` | `useSubmitStateMachine.js`: what a page does and what it makes of an answer or of none |
| `Check`, `Freeze`, `Flush`, `Thaw`, `Clean`, `Insert`, `Respond`, `Update`, `Record`, `Mark`, `ForceSubmit`, `Close`, `SetReturned` | the handlers of `collaborative_api.py` and `auto_submit_service.py`, one action per transaction or call |
| `Deadline`, `Scan`, `PageTimeout`, `TeacherEnds`, `TeacherReturns`, `Die` | who starts a handler, and the death of its process |

* A request is a record whose `pc` names its next step, with the letters of its kind
  (`prepare`, `commit`, `unfreeze`, `auto`, `end`, `return`); slot 0 is the periodic scan.
  A page waits for at most one request; the request goes on when the page has left.
* A call to the collaboration server may not arrive, or arrive and not be answered.
* Consecutive reads of a handler, its two flush attempts and repeated unfreezing are
  fused.  An update is broadcast to the pages of a room at once.  The revision of the
  row is kept as one bit of the room (`known`).
* Left out: view-only connections, tokens, closed sessions (403), the locked status, the
  older single-step submission, failures to load, and the mismatch of text and
  revision in a checkpoint.  pycrdt's starting and stopping of a room is external.

### Discussion

One session; `runtime[g]` is the row of `group_session_discussions` with its entries
(`ready`), timer and submission mark; `document[g]` the status of the document and
whether it was ever handed in; `visit[t]` where the request of a student stands; `scan`
and `ending` are the two loops that walk over the groups, with what they have read;
`late` is a history variable: the groups whose document came to be editable after the
end began.

| action | code |
|---|---|
| `Arrive`, `EnterStage`, `Create` | `api_discussion_enter()`, `enter_group_discussion_stage()`, `get_or_create_document()` |
| `StartCommit`, `Commit` | a student's submission, here one transaction |
| `StartScan`, `ScanList`, `ScanSubmit`, `ScanMark`, `StartPage` | `scan_and_auto_submit()` and the page whose timer ran out |
| `StartSession`, `Return`, `StartEnd`, `EndSubmit`, `EndListRuntimes`, `EndMark`, `EndSession`, `EndRequest`, `Archive` | the teacher's session page, `end_session()` step by step |
| `Take`, `ClaimFinal`, `Gate`, `Analyse` | `finalize_collaboration_states()` |
| `ScanDies`, `EndDies`, `FinalizerDies` | a process dies between two transactions |

* The expected roster is the group; group controls and pause, the locked status, change
  of task, and the range of messages a finalization analyses are left out.
* Queued finalizations of a group beyond `MaxQueued` change nothing and are not counted.
* A finalization that has been `running` for ten minutes (`StaleAfter`) is taken again, that of
  a worker that is only slow too (`Stale`).  A worker marks the row by its id, whoever has
  taken it since.

### EmotionSlots

`slot[k]` is the row of the k-th interval, `runs[k]` its rows of `intervention_runs`,
`said[k]` when its messages were published, `task[k]` the queued executions, `agent[w]` the
workers with the time of their claim.  All times are ticks of one unit.

| action | code |
|---|---|
| `ScanDue` | `ensure_latest_due_slot()` and the task after it: `Aged` is what time does to older rows, `Revived` to the due one |
| `ExpireInactive` | `expire_inactive_slots()` |
| `Claim`, `Check`, `Generate`, `Publish`, `Settle` | `execute_slot()`: claim, precheck and begin, model calls and run, gate and message, mark |
| `MarkFails` | the mark is refused: the handler of the exception marks once more, and when that is refused too the slot is left `running` (`lost`) |
| `AgentDies` | the worker dies |

Only one discussion is followed, since slots of different discussions share nothing.
The compensation interval is taken to be longer than an interval.  A running timeout of
one tick is shorter than an interval, so that workers outlive their timeout.  A model
call may fail or answer; what it answers is left out.  `Rival` is the unique index
`idx_intervention_runs_emotion_slot_active`: of one slot one run at a time may be alive.  A
worker whose run was given up by another one, and followed by the next run, is refused
at publishing (its run fails) or at superseding (the slot fails without another try).

## The runs

| run | instance | shows |
|---|---|---|
| `room_lease` | 2 pipelines beside a help request, a help request with the number of a pipeline, or a legacy run; a legacy lease; apart from it 3 assessments of a discussion of 5 messages | one holder, hard cap, no help worker loses its room, leases handed over by number only, no revival, every lease ends; the cursor is at the latest strategy message, an observation starts at the first answer to it, and an outcome comes from later messages |
| `room_lease_alias` | pipelines 1 and 2, help request 1 | **violation**: the newer pipeline takes the room from a running help request |
| `pipeline_safe` | 2 batches, or one tried twice whose worker may die beside a help request | freshness, a student between two strategy messages, no forgotten lease, truthful audit row, preemption holds |
| `pipeline_live` | 1 pipeline with 2 attempts and heartbeats, 1 help request with the same number | every queued batch ends; every step is a lease step or leaves the lease alone |
| `pipeline_preempt` | 1 pipeline, 1 help request | **violation**: preempted work comes back and is published |
| `batch_safe` | 2 workers, a caller, 2 messages in windows of one, an unmarked task, a replay | one assessment at a time, attempts bounded, cursors |
| `batch_live` | 1 worker, 2 messages in windows of up to two, a refused task, a closing discussion | no message skipped, no row stranded, every message is settled |
| `batch_replay` | 1 worker, 3 windows, a replay | **violation**: the replay stops at a closed window it did not prepare |
| `collab` | 2 pages, 3 rooms, five scenarios | the row only gains what was typed, what counts as saved is saved, submitted documents have their row |
| `collab_told` | 1 page, 1 request | **violation**: a page reports success for a document that is not submitted |
| `discussion` | 2 students or groups and 2 finalizers, or 2 emotion workers, nine scenarios | timers, closing, end and finalization; slots speak once, an interval apart, and end |
| `emotion_stuck` | 1 slot, 1 worker that dies | **violation**: the slot stays `running` for ever |

Every property of a passing run has a mutant, a variant of one definition that a
plausible slip in the code would produce, under which TLC finds it violated.

### Bounds

`LockSeconds`, `InitialTtl`, `MaxTotal` are 1 to 3 seconds: enough for a renewal
that is cut by the cap, a renewal in the last second and a deadline that passes
between two steps.  In `room_lease` and `pipeline_live` a lease begins with two seconds
under a cap of three, so that a heartbeat moves a deadline; in the other pipeline runs a
lease lasts one second and every deadline may pass between any two steps.  Ages are not
counted beyond `MaxTotal`, where nothing depends on them.  `MaxTokens` bounds the leases
granted; two suffice for each hazard of the lease, which is about an old and a new one.  In
`pipeline_live` the bound is never reached (one per attempt before Stage 2, one more for
Stage 3, one for the help request), so it excuses nothing.  In `pipeline_safe` it cuts
behaviours with more than four leases; there only safety is checked.  `MaxPosts` bounds
student messages; a help request posts one more.  `WrittenRows` is a set of shapes a
pipeline's row reaches (`MCWrittenRows`, `BatchRows`).

The action constraints `Cast` of `room_lease` and `pipeline_safe` name the casts of
actors followed: three kinds of competitor of the pipelines, one at a time; two batches
tried once without a help request and without a crash, or one batch with them.  Beside a
help request of `pipeline_safe` one of these happens at most: a second attempt of the batch,
the death of its worker, the end of the session, an exception of the help worker.  In
`room_lease` a help worker raises only while everything is switched on.  `Calm` in
`pipeline_live` restrains the teacher and the help worker, of whom fairness asks nothing: no
session is closed beside a help request, and the help worker raises in the first attempt
only.  What is left out is the meeting of three: two pipelines, a help request and a legacy
run; a second batch during a help request or after a crash; two of the four above.  The
theorems about the lease have no such bound.

`room_lease` has two parts that share nothing, chosen by `part` in the initial state
(`MCObservation`, which names every action so that TLC counts each).  In the second, three
assessments (`Judged`) are the two that publish and the one that judges; four messages hold
two interventions with an answer to each, five (`MaxTalk`) answers before, between and
after them; with the fifth message nothing fails any more, the session stays open and the
third assessment publishes nothing (`Talks`).  One of the first four messages may be the
answer to a help request, with two assessments beside it.  Windows have at most two messages (`MaxWindow`), so that one can
end before the newest message; two rounds and two answers (`MaxRounds`, `MinResponses`) are
what the code has by default for the answers and enough for every outcome.  One assessment
may fail (`Failing`).  The proofs have none of these bounds.

In the batch runs two messages give every relation of two windows: one after the
other, one containing the other, the same one again.  A trigger may name a message
before, at or behind the end of the active window.  Two attempts are the default
of `STATE_LLM_FAILURE_MAX_ATTEMPTS`; one attempt, in `batch_replay`, only shortens
the history.  A second worker is there for two executions at once and needs no
second kind of window, so `batch_safe` has windows of one message.

In `collab` each page makes one edit: what matters is whether an edit arrives.  Three
rooms are a managed one, a different one under the path, and one a browser is still
connected to.  One fault is a refused transaction or a death; one freeze id is given
out, one return made.  The scenarios are: two students write while the server
restarts; two submit; one submits as the deadline passes and a process dies; one
submits while the teacher ends and returns; one submits and is returned the document
with a request left behind.  Pages are interchangeable (`PageSymmetry`).

In `discussion` the scenarios are: two students enter while the teacher ends the
session; one student with a return, a page timer and a death; two groups of which one
fails; finalization by two workers; one emotion worker that may die; two emotion
workers; two emotion workers with a failure; one with a submission; one whose slot cannot
even be failed.  A finalization is stale after one tick, so that a slow worker meets the one
that took its row.  A slot is tried three
times (`MaxTries`; the code's default is two), because only at the third try is a run
that one worker gave up followed by another worker's.  Five ticks with an interval of
two are two slots and the end of the discussion between them and after them.

`CHECK_DEADLOCK FALSE` is stated where the service may rest: all batches done, all
requests answered, the session archived, or the bounds reached.

### Fairness

`FairLeaseSpec`: weak fairness of `Tick` and `Expire`.  The clock runs; expiry
is attempted by the delayed release task of each lease and by every poll of the
room by a browser (`routes/api.py`, `recover_expired`).  Nothing is assumed of the
holders.

`FairPipelineSpec`: weak fairness of `Work(p)`: a worker that lives takes its
next transaction, and Huey delivers a queued batch.  Where `Work` offers a
choice (the model answered or failed) fairness does not say which.  Nothing is
assumed of students, help requests, the teacher or the clock.  No worker dies in
that run: a dead worker's batch stays where it is (see *hazards*).

`BatchFairSpec`: weak fairness of every process inside a request, of every worker and
of the backoff, which ends.  `Scan` is strongly fair: the scan has a Huey
schedule of its own and comes around every minute whatever the other callers do.
Claiming a window (`Create`, `Reopen`) is strongly fair because the thresholds that
put a periodic request off are times and counts that are reached in the end.
Which way an assessment ends is left open.  `EveryMessageSettled` asks nothing of a
discussion that has closed.

`DiscFairness`: weak fairness of the clock, of a student's request once it runs, of the
scan (Huey's schedule brings it every minute), of the end once begun, and of every
finalization worker.  Nobody has to come, to submit, to end the session; nobody has to
die.  `SlotFairness` adds the scan for slots and every worker's execution.
`EndIsFinalized`, `DueIsSettled` and `SlotsEndUnlessLost` say themselves what a failure
excuses.  `collab` checks safety only: pages, students and calls owe nothing.

`PipelineEnds` promises a terminal row only while the session stays open: one that is
closed between the claim and the preparation of a batch, or between a missed
lease and its retry, leaves the row `PENDING_STAGE2` or `WAITING_FOR_LOCK`.

## The five disagreements

*Transfer by number* (`room_lease_alias`).  Pipelines and help requests write the
negated id of their own table into `active_intervention_run_id`.
`claim_strategy_pipeline()` looks a negative owner up in `strategy_pipeline_runs` and
does not compare the token.  If help request *n* holds the room and pipeline *n*
is batch-less and active, a newer pipeline takes the lease.  The docstring at
`services/intervention_pipeline_v2/room_lease_service.py:241` restricts transfers to
legacy preliminary leases.  What does hold is `TransferByNumber`: a room that changes hands
directly has the number of an active batch-less pipeline as its owner, and that pipeline's
own lease unless a help request has the same number.

*Preempted work is published* (`pipeline_preempt`).  `preempt_for_student_help()`
(docstring at `services/three_stage_coordination.py:382`) marks the row SUPERSEDED
while its worker waits for the state model.  `persist_success()` updates the row
by id alone and makes it PENDING_STAGE3 again; the worker claims the open room
before the help request does; the help request fails with `room_ai_intervening`;
the gate sees no active request any more and the message goes out.  What does
hold is `PreemptionHolds`: nothing is published while the preempting request
is running.

*A replay that stops* (`batch_replay`).  `prepare_scope_reprocessing()` moves the
scheduling cursor back before the first window it prepares, and so also behind
closed windows whose error code it does not select.  When the continuation comes
to one of those, its row is failed with its attempts used up:
`request_state_assessment()` answers `retry_limit_reached` and claims nothing,
`recover_exhausted_batches()` takes it for finished, and every later request
computes the same window.  The prepared windows after it, and all new messages,
wait for ever, whereas `scripts/requeue_failed_state_assessments.py:6` promises that
normal continuation schedules the rest.  When the closed window has attempts left it
is reopened although it is terminal, and if it fails again it stays `running`,
because `terminalize_exhausted_batch()` finds it terminal already.

*Told before it is true* (`collab_told`).  A page whose `prepare` is not answered in
time looks the document up (`_resolveTimeout`); an existing prepare row counts as
success, `submit()` resolves, and `CollaborativeEditor.vue:381` reports that the result has
been submitted, although nothing was committed
(`frontend/collaborative-editor/src/composables/useSubmitStateMachine.js:294`; line 13 of
that file says that submitted follows the commit).  A conflict answer to a commit with
an unknown freeze id is taken for "already submitted" in the same way.

*A slot that stays running* (`emotion_stuck`).  The timeout of a running slot is applied in
`ensure_latest_due_slot()`, which is reached only while the discussion may still publish;
afterwards `expire_inactive_slots()` (`services/emotion_slot_service.py:155`) leaves running
slots to their workers.  A worker that dies near the end leaves its slot `running`, while
line 237 says that a crash must not leave a permanent running slot.

Two things the batch properties do not claim.  `Covered` stops at the first replay: a
replay may come between a worker's `mark_batch_failed()` and its `prepare_retry()`,
sees no active batch, rewinds the cursor, and the retried window then carries
the cursor past the prepared ones.  `OneWorker` stops at the first unmarked task: when
`mark_enqueued()` fails after the task was queued, the batch is failed under the
worker that executes it and may be reopened for another.

## What is proved

All proofs are for any constants that satisfy the named assumptions of the modules
(`IdsAssumption`, `SecondsAssumption`, `AttemptsAssumption`, `ObservationAssumption`,
`BatchAssumption`, `RoomAssumption`, `SubmissionAssumption`, `DiscussionAssumption`,
`SlotsAssumption`), which say that ids and bounds are numbers and scenarios of the right
shape.  Every safety property of a passing run is proved.

**RoomLeaseProofs.**  `TypeCorrect` is the type invariant.  Of the others:

* `TokensNameOwners`: the invariant `TokenInv` behind everything else.
  An open room carries no token (`RoomShape`), no token in use exceeds the counter
  (`TokensIssued`), and whoever carries the token of the current lease is the
  owner the room names (`TokenOwner`).  `OneHolder` alone is not
  inductive: a grant needs to know that its token is new.  `StepKinds` reduces
  all actions to four effects on the lease (grant to an asker, grant to a pipeline,
  extension, release), so each invariant is proved over the effects.
* `SingleHolder` (`OneHolder`) needs no assumption on the ids: a token in anybody's
  hand names the owner in the room, and only a pipeline and a help request of one
  number share it (`OwnerNumbers`).
* `OptimisticLock` (`VersionFence`), from `FenceInv`: a version that was read is
  never ahead of the room's, and every change to the lease increases it.  No run checks it;
  what it is for, that `acquire()` never takes a lease over, `room_lease` checks with
  `TransferByNumber`.
* `CappedRenewal` (`HardCap`), from `CapInv`.
* `HelpKeepsRoom` (`NoOrphanHelp`), from `HelpInv`, which adds that an owner that
  is a help request holds the room's token (`OwnerHolds`) and at which status a request
  may be inside `acquire()` (`HelpStage`).  It speaks of requests whose number no pipeline
  has, and of workers that still have a token: one that has raised has none, and the
  handler frees the room while the request is RUNNING.
* `NoRevival` (`ExpiredStaysExpired`), an action property.
* `HandedOverByNumber` (`TransferByNumber`), from `OwnerInv`, for all ids: the two tables number
  their rows independently, so the statement names the help request that may be meant
  instead; `room_lease_alias` shows that it is.

**StrategyPipelineProofs.**  The hypothesis `Rows \subseteq WrittenRows` says that
the abstract lease admits every row the services can write.

* `PipelineTypeCorrect`, from `PipelineInv`: the type invariant is not inductive
  alone.  A worker that writes its verdict must have one (`Decided`), and a
  batch that is queued or about to be must have an attempt left
  (`AttemptLeft`), else `attempts` would pass `max_attempts`.
* `PipelineKeepsLease`: `PipelineSpec => LeaseSpec`.  Every action is, given the
  types, a `LeaseNext` step or a stutter of `leaseVars`.  With it the theorems about
  `LeaseSpec` are theorems about the flow; `LeasePromisesInFlow` draws them together.
* `AnswersAreFresh` (`FreshAnswer`), from `FreshInv`: steps fall into three kinds
  (`TalkKinds`: the discussion is unchanged, somebody other than a pipeline speaks,
  a pipeline answers); only the third could break it, and there the publisher's check
  of the latest student message is what is needed.

**PipelineAuditProofs.**  All under `Rows \subseteq WrittenRows`; the invariants add to
`PipelineInv` and `TokenInv` what the place of a worker says about its row.

* `AuditTellsTruth` (`SaidIsRecorded`), from `RoomInv`.  `Fits` relates the worker's place,
  its verdict, its row, its lease and what the students have seen: whoever is past the
  gate has a row that is still active, or no lease any more.  A step is the pipeline's
  own (`OwnStep`) or leaves it alone but for ending its row and taking its room
  (`Untouched`), and each kind keeps `Fits`.
* `LeaseHasWorker` (`NoForgottenLease`), from `KeptInv`: a pipeline that holds the room has a
  worker at a place that ends the lease, or one that died.  It assumes `LegacyOwners = {}`,
  that no lease of an older release is in the room at the start: such a lease has no
  worker in this model.
* `PreemptionKept` (`PreemptionHolds`), an action property, from `ClearInv`: while the
  preempting help request is running, no ordinary pipeline past the gate has the room.
* `StudentsSpeakBetween` (`StudentsAnswer`), from `AnswerInv`: freshness, together with cutoffs
  that are messages of students and differ from batch to batch, and one answer per pipeline.

**ObservationProofs.**  All from one invariant, `ObservationIInv`.  The promises alone are not
inductive: that a publication noted late does not begin its observation again holds
because the cursor stands at or after every published intervention (`Placed`), that an
intervention is not published twice because only a finished worker has noted one
(`NotedLast`), and that an outcome finds a first answer because windows begin with
messages of students.  Steps that add no message are shown to be `Quiet`, which says what they
may touch, and `QuietKeeps` does the rest once; the three that add one (`SpeakKeeps`,
`AnswerKeeps`, `PublishKeeps`) rest on how the answers to an intervention grow (`AnswersAppend`).

* `ObservationTyped`: the types.
* `WindowsLimited` (`ObservationTypeOK`): the sizes of windows too, from `WindowsSized`.  A new
  window has at most `MaxWindow` messages because its last one has fewer before it
  (`FirstOnesFit`); a window that continues a queued request lies inside the one the request
  waited for (`QueuedFits`), so the invariant also says where queued requests lie.  That
  messages are added does not change a window that ends before them (`CoversStays`).
* `ObservationStart` (`StartIsFirstResponse`), `ObservationLatest` (`WatchAtLatest`),
  `ObservationCredit` (`CreditedAfter`).

**BatchProofs.**  One invariant, `BatchInv`, of four parts.

* `TypesInv`: besides the types, a pending row has an attempt left, and a process that
  enqueues or executes a window has one.  `BatchTyped` (`BatchTypeOK`) follows.
* `StartsInv`: until a replay, every message behind the scheduling cursor lies in a settled
  window, and every window that exists, is planned or is requested begins at or
  before the next message to be scheduled.  The second half is what makes the
  first inductive: the cursor moves to the end of a window, and a window that began
  further on would let it pass messages nobody assessed.  That the next window begins with
  the earliest waiting message needs the least element of a set of numbers (`LeastOf`, by
  well-founded minimality).  `NothingSkipped` (`Covered`) follows.
* `SoloInv`: one window is active at a time, and while every queued task was marked it is
  active for one reason: one task, or one process that enqueues it, or one worker.
  `OneAssessment` (`OneWorker`) follows, for any number of workers.
* `NoStranded` is inductive with the types alone (`NothingStranded`).  It is about pending rows
  only: each has a queued task, or a process that is about to queue one or to fail the row.
  That everything else goes on is liveness, and stays with the run.

`CursorsAdvance` (`CursorsForward`) is the action property: the steps that move a cursor are
`Save`, the closing of a row, and a replay.

**CollabProofs.**

* `TextIsKept`: `SubSpec => Store!StoreSpec` (`StoreKept`).  `TextInv` orders the copies of the
  text: whatever was typed contains every page and every room, and the managed room
  contains the row.  The second is what a stale room would break; it needs that a
  room known to have the row's revision has its text, and that a clean room is equal
  to the row.  Every action of rooms, pages and requests is then a step of the store or
  leaves it alone.
* `CleanRoomIsSaved` (`CleanMeansSaved`), a part of `TextInv`.
* `CollabTyped` (`CollabTypeOK`) and `SubmissionRecorded` (`SubmittedHasRecord`), from `SubInv`,
  which adds `FormInv`: only a commit writes its submission row in a transaction of its
  own, and a page waits for an answer only at a step that knows what to make of one.

**DiscussionProofs, EmotionProofs.**  The theorems are about `SlotSpec`, the session with the
agent.  `SessionInv` is kept by every step of `Discussion` and by the agent, of which the
discussion sees at most a fault that is used up (`OnlyFaults`).

* `DiscussionTyped`, `SubmissionsAreReal` (`SubmittedIsReal`), `EndLeavesNothingOpen`
  (`EndLeavesNothing`), `NothingReopens` (`ClosedStaysClosed`).  The scan, a page and the end act
  on what they read in an earlier transaction; `SessionInv` says what stays true of
  it: a document reported as handed in has been (documents only grow,
  `DocumentsGrow`), and an end that has not failed still has on its list whatever
  could be edited when it began (`EndInv`).
* `EmotionTyped`, `OneSlotActive` (`OneActive`), `SlotSpeaksOnce` (`SpeaksOnce`), `MessagesApart`
  (`Cadence`), from `EmotionInv`.  `TimerInv` and `Reached` say that a slot exists only once
  its time has come; the due slot is then the newest there can be, and the scan, the one
  step that makes a slot active, leaves no older one active.  Two messages of a slot are
  excluded by the publisher, which looks for the first, and messages too near to each
  other by the gate; an older slot cannot speak after a newer one because the gate
  refuses it as superseded.  `RunsInv` says that a slot has one run at a time that is not
  over, which is the one a worker takes up.

What stays with TLC is liveness, which is beyond TLAPS: `LeaseEnds`, `PipelineEnds`,
`EveryMessageSettled`, `DueIsSettled`, `EndIsFinalized` and `SlotsEndUnlessLost`; and the five
violations, which need one behaviour each.  No module uses a recursive operator.

## Not modelled

* **Discussion monitoring v2** (`services/discussion_pipeline_v2`): one check per message,
  a duplicate request is not queued, and what the check decides is a function of texts
  and of a model's answer.  No outcome of it is relied on by another transaction than
  the one that stores it.
* **Stage 1 rules, emotion classification, wording of interventions and feedback, the
  model gateway**: what they compute from texts is left open wherever a model needs it
  (the verdict of an assessment, the outcome of a generation).
* **Silence intervals**: `record_negative_silence_if_applicable()` reads, and
  `save_or_update_silence_interval()` writes in another transaction without reading again.
  Two saves at once may store two intervals; nothing in `src/` says that they may not.
* **Pages, polling, questionnaires, exports, the teacher's read-only analyses, the admin
  routes**: they read, or write one row in one transaction that nobody else writes.
* **Schema migrations, deployment, load test, the rest of the front end**: run once, or
  outside the service.

Four things seen while modelling that no run is about:

* `start_session()` reads whether another session is running before it writes
  (`services/teacher_session_service.py:333`); two starts at once may both pass.
* `end_session()` leaves strategy pipelines and legacy runs to notice that the session is
  over, whereas `close_session()` cancels them.
* A returned document is not submitted again by the scan, whatever the time.
* A message that a finalization did not see, or a finalization that failed, is not taken
  up again; `EndIsFinalized` excuses the failures.

## Plan

Done: the lease; the strategy pipeline and its refinement of the lease; the observation of
an intervention; the batches and cursors; the collaborative document with its abstract
store; the class session, finalization and emotion slots; for each of them the proofs of
every safety property its runs check.

Next, in this order:

1. An abstract specification of the batches, "each message is settled once, in order",
   which `AssessmentBatch` implements until a replay; `StartsInv` is most of the proof.
2. The strategy flow against an abstract conversation in which a strategy message is only
   a function of the messages since the last one, from `FreshInv` and `AnswerInv`.
3. `NoForgottenLease` with leases of an older release, once the recovery that ends them is
   told apart from the expiry by their deadline.
4. State segments: one audit row per batch.

## Running

    tlc -config MCRoomLease.cfg MCObservation
    tlapm RoomLeaseProofs.tla

`PROJECT.json` pairs every run with its configuration.  The theorems are in
`RoomLeaseProofs`, `StrategyPipelineProofs`, `PipelineAuditProofs`, `ObservationProofs`,
`BatchProofs`, `CollabProofs`, `DiscussionProofs` and `EmotionProofs`.  The longest run takes
two to three minutes, the proofs of each module less.
