-------------------------- MODULE AssessmentBatch --------------------------
(***************************************************************************)
(* The assessment batches of one discussion:                               *)
(* services/state_assessment_batch_service.py (the rows and the cursor) and*)
(* services/state_assessment_scheduler.py (who asks for a window, who      *)
(* executes it, who goes on afterwards).                                   *)
(*                                                                         *)
(* A batch is an immutable window <<first, last>> of student messages; a   *)
(* message is its position among the student messages of the discussion,   *)
(* and a window has at most one row, so a row is named by its window.      *)
(* Requests come from the periodic scan, from explicit triggers (help, high*)
(* risk, silence), from the operator's replay script and from the workers  *)
(* themselves, which continue after the window they have finished.  What a *)
(* worker does between claim and save is StrategyPipeline.                 *)
(***************************************************************************)
EXTENDS Integers, FiniteSets

CONSTANTS Workers,       \* Huey workers
          Callers,       \* everybody else who requests an assessment
          MaxMessages,   \* bound of the model: student messages
          MaxCandidate,  \* STATE_LLM_MAX_CANDIDATE_MESSAGES
          MaxAttempts,   \* STATE_LLM_FAILURE_MAX_ATTEMPTS
          MaxLost,       \* bound: times the queue refuses a task
          MaxUnmarked,   \* bound: times it takes the task and mark_enqueued() fails
          MaxReplays,    \* bound: runs of requeue_failed_state_assessments.py
          CanClose       \* the discussion may be closed

ASSUME BatchAssumption ==
  /\ Workers \cap Callers = {}
  /\ MaxMessages \in Nat /\ MaxCandidate \in Nat \ {0} /\ MaxAttempts \in Nat \ {0}
  /\ MaxLost \in Nat /\ MaxUnmarked \in Nat /\ MaxReplays \in Nat /\ CanClose \in BOOLEAN

VARIABLES posted,   \* student messages so far
          open,     \* discussion and session are running
          batch,    \* per window, its state_assessment_batches row
          cursor,   \* discussion_assessment_cursors
          tasks,    \* per window, queued process_state_assessment_batch tasks
          pc,       \* per process, where it is
          back,     \* per process, where its request returns to
          req,      \* per process, the request it makes
          target,   \* per process, the window it is about to enqueue
          win,      \* per worker, the window it executes
          plan,     \* per worker, what it has read of the batch: flag and next request
          lost, unmarked,  \* faults so far
          replays          \* replays so far

batchVars == <<posted, open, batch, cursor, tasks, pc, back, req, target, win, plan,
               lost, unmarked, replays>>
worldVars == <<posted, open, lost, unmarked, replays>>
workVars == <<win, plan>>

Procs == Workers \cup Callers
Positions == 1 .. MaxMessages
Windows == {w \in Positions \X Positions : w[1] <= w[2] /\ w[2] < w[1] + MaxCandidate}
NoWindow == <<0, 0>>

\* A request: the last message it may cover (0: no bound), the first one of a
\* fixed window (0: the one after the cursor), whether it continues a batch.
Requests == [cut : 0 .. MaxMessages, start : 0 .. MaxMessages, continuation : BOOLEAN]
Anything(k) == [cut |-> 0, start |-> 0, continuation |-> k]
NoPlan == [rerun |-> FALSE, next |-> Anything(FALSE)]
NoQueued == [cut |-> 0, start |-> 0]

NoBatch == [status |-> "none", terminal |-> FALSE, attempts |-> 0, rerun |-> FALSE,
            backoff |-> FALSE, cut |-> 0, queued |-> NoQueued]

ActiveStatus == {"pending", "running"}
Batches == [status : {"none", "pending", "running", "failed", "succeeded"}, terminal : BOOLEAN,
            attempts : 0 .. MaxAttempts, rerun : BOOLEAN, backoff : BOOLEAN,
            cut : 0 .. MaxMessages, queued : [cut : 0 .. MaxMessages, start : 0 .. MaxMessages]]

\* A window is never executed more often than its attempts allow, and every
\* variable has its type (attempt_count < max_attempts in each UPDATE that reopens a row).
BatchTypeOK ==
  /\ posted \in 0 .. MaxMessages /\ open \in BOOLEAN
  /\ batch \in [Windows -> Batches]
  /\ cursor \in [finalized : 0 .. MaxMessages, scheduled : 0 .. MaxMessages]
  /\ tasks \in [Windows -> Nat]
  /\ pc \in [Procs -> {"idle", "recover", "ask", "enqueue", "refused", "claimed", "assess",
                       "retrying", "read", "saved", "judged"}]
  /\ back \in [Procs -> {"idle", "judged"}]
  /\ req \in [Procs -> Requests]
  /\ target \in [Procs -> Windows \cup {NoWindow}]
  /\ win \in [Workers -> Windows \cup {NoWindow}]
  /\ plan \in [Workers -> [rerun : BOOLEAN, next : Requests]]
  /\ lost \in 0 .. MaxLost /\ unmarked \in 0 .. MaxUnmarked /\ replays \in 0 .. MaxReplays

BatchInit ==
  /\ posted = 0 /\ open = TRUE /\ lost = 0 /\ unmarked = 0 /\ replays = 0
  /\ batch = [w \in Windows |-> NoBatch]
  /\ cursor = [finalized |-> 0, scheduled |-> 0]
  /\ tasks = [w \in Windows |-> 0]
  /\ pc = [p \in Procs |-> "idle"] /\ back = [p \in Procs |-> "idle"]
  /\ req = [p \in Procs |-> Anything(FALSE)]
  /\ target = [p \in Procs |-> NoWindow]
  /\ win = [v \in Workers |-> NoWindow]
  /\ plan = [v \in Workers |-> NoPlan]

Low(a, b) == IF a <= b THEN a ELSE b
High(a, b) == IF a >= b THEN a ELSE b
Go(p, place) == pc' = [pc EXCEPT ![p] = place]
ActiveWindows == {w \in Windows : batch[w].status \in ActiveStatus}

-----------------------------------------------------------------------------
(* Rows and cursor. *)

\* mark_batch_failed(): only an active batch.
Failed(b, backoff) ==
  IF b.status \in ActiveStatus THEN [b EXCEPT !.status = "failed", !.backoff = backoff] ELSE b

\* terminalize_exhausted_batch() closes a row once, and only then moves the
\* scheduling cursor; saving moves both cursors; neither moves back.
Closable(b) == ~b.terminal /\ b.status # "succeeded"
Terminated(b) ==
  IF Closable(b)
  THEN [b EXCEPT !.status = "failed", !.terminal = TRUE, !.rerun = FALSE, !.backoff = FALSE]
  ELSE b
ScheduledPosted(c, last) ==                   \* mutant: to the newest message
  IF last = 0 THEN c ELSE [c EXCEPT !.scheduled = posted]
Scheduled(c, last) == [c EXCEPT !.scheduled = High(@, last)]
Finalized(c, last) == [finalized |-> High(c.finalized, last), scheduled |-> High(c.scheduled, last)]

\* _continuation_contract(): the queued request, the rest of an explicit
\* request that did not fit, or whatever there is.
Contract(w) ==
  LET b == batch[w] IN
  IF b.queued.cut # 0 THEN [cut |-> b.queued.cut, start |-> b.queued.start, continuation |-> TRUE]
  ELSE [Anything(TRUE) EXCEPT !.cut = IF b.cut > w[2] THEN b.cut ELSE 0]

-----------------------------------------------------------------------------
(* request_state_assessment() *)

Ask(p, r, place) ==
  /\ Go(p, "recover")
  /\ req' = [req EXCEPT ![p] = r]
  /\ back' = [back EXCEPT ![p] = place]

\* The call is over.
Return(p) ==
  /\ Go(p, back[p])
  /\ back' = [back EXCEPT ![p] = "idle"]
  /\ req' = [req EXCEPT ![p] = Anything(FALSE)]
  /\ target' = [target EXCEPT ![p] = NoWindow]

\* recover_exhausted_batches()
ExhaustedLate(w) ==                           \* mutant: off by one
  batch[w].status = "failed" /\ ~batch[w].terminal /\ batch[w].attempts > MaxAttempts
Exhausted(w) ==
  batch[w].status = "failed" /\ ~batch[w].terminal /\ batch[w].attempts >= MaxAttempts
Recover(p) ==
  LET over == {w \in Windows : Exhausted(w)}
      last == CHOOSE m \in 0 .. MaxMessages :
                (\A w \in over : w[2] <= m) /\ (m = 0 \/ \E w \in over : w[2] = m) IN
  /\ pc[p] = "recover" /\ Go(p, "ask")
  /\ batch' = [w \in Windows |-> IF w \in over THEN Terminated(batch[w]) ELSE batch[w]]
  /\ cursor' = Scheduled(cursor, last)
  /\ UNCHANGED <<worldVars, workVars, tasks, back, req, target>>

\* The rows a request may cover, and the window of the first MaxCandidate of them.
FirstRow(r) == IF r.start # 0 THEN r.start ELSE cursor.scheduled + 1
LastRow(r) == IF r.cut = 0 THEN posted ELSE Low(r.cut, posted)
Window(r) == <<FirstRow(r), Low(LastRow(r), FirstRow(r) + MaxCandidate - 1)>>
More(r) == (IF r.start = 0 THEN posted ELSE LastRow(r)) > Window(r)[2]

\* The bound of a row's own trigger: its type is replaced by a later request
\* but not its sequence, so that which bound results is left open.
OwnBounds(w) == {0} \cup (w[2] + 1 .. posted)

\* A batch is active: it is asked to run again, and an explicit request is
\* queued on it, the earliest cutoff first, then the higher priority.
SameWindow(w, r) == r.cut = w[2] /\ r.start \in {0, w[1]}
Queueable(w, r) ==
  [cut |-> r.cut,
   start |-> IF r.cut < w[2] THEN High(cursor.finalized + 1, w[1]) ELSE r.start]
QueuedOnes(b, w, r) ==
  LET q == Queueable(w, r) IN
  IF r.cut = 0 \/ SameWindow(w, r) \/ (r.cut < w[2] /\ q.start > r.cut) THEN {b.queued}
  ELSE IF b.queued.cut = 0 \/ r.cut < b.queued.cut THEN {q}
  ELSE IF r.cut = b.queued.cut THEN {b.queued, q} ELSE {b.queued}
Join(p) ==
  LET r == req[p] IN
  /\ pc[p] = "ask" /\ open
  /\ \E w \in ActiveWindows :
       \E q \in QueuedOnes(batch[w], w, r),
          c \in {batch[w].cut} \cup (IF SameWindow(w, r) THEN OwnBounds(w) ELSE {}) :
         batch' = [batch EXCEPT ![w] = [@ EXCEPT !.rerun = TRUE, !.queued = q, !.cut = c]]
  /\ Return(p)
  /\ UNCHANGED <<worldVars, workVars, cursor, tasks>>

\* No batch is active: the window is new, or its failed row is reopened.
MayClaim(p) ==
  pc[p] = "ask" /\ open /\ ActiveWindows = {} /\ FirstRow(req[p]) <= LastRow(req[p])
Claimed(p, b) ==
  /\ batch' = [batch EXCEPT ![Window(req[p])] = b]
  /\ target' = [target EXCEPT ![p] = Window(req[p])]
  /\ Go(p, "enqueue")
  /\ UNCHANGED <<worldVars, workVars, cursor, tasks, back, req>>
Create(p) ==
  LET r == req[p] IN
  /\ MayClaim(p) /\ batch[Window(r)].status = "none"
  /\ Claimed(p, [NoBatch EXCEPT !.status = "pending", !.rerun = More(r),
                                !.cut = IF r.cut > Window(r)[2] THEN r.cut ELSE 0])
ReopenableAlways(b) == b.status = "failed" /\ ~b.backoff      \* mutant: attempts unchecked
Reopenable(b) == b.status = "failed" /\ b.attempts < MaxAttempts /\ ~b.backoff
Reopen(p) ==
  /\ MayClaim(p) /\ Reopenable(batch[Window(req[p])])
  /\ \E c \in OwnBounds(Window(req[p])) :
       Claimed(p, [batch[Window(req[p])] EXCEPT !.status = "pending", !.cut = c])

\* Nothing to do: the discussion is over, there is no row, the thresholds of a
\* periodic request are not reached, or the window's row cannot be reopened.
Skip(p) ==
  LET r == req[p] IN
  /\ pc[p] = "ask"
  /\ \/ ~open
     \/ ActiveWindows = {} /\ FirstRow(r) > LastRow(r)
     \/ MayClaim(p) /\ ~r.continuation /\ r.cut = 0
     \/ MayClaim(p) /\ batch[Window(r)].status # "none" /\ ~Reopenable(batch[Window(r)])
  /\ Return(p)
  /\ UNCHANGED <<worldVars, workVars, batch, cursor, tasks>>

\* _enqueue_batch() and mark_enqueued(); if either fails the batch is failed,
\* in a later transaction.
Enqueue(p) ==
  /\ pc[p] = "enqueue" /\ Return(p)
  /\ tasks' = [tasks EXCEPT ![target[p]] = @ + 1]
  /\ UNCHANGED <<worldVars, workVars, batch, cursor>>
EnqueueLost(p) ==
  /\ pc[p] = "enqueue" /\ lost < MaxLost /\ Go(p, "refused")
  /\ lost' = lost + 1
  /\ UNCHANGED <<workVars, posted, open, unmarked, replays, batch, cursor, tasks, back, req,
                 target>>
EnqueueUnmarked(p) ==
  /\ pc[p] = "enqueue" /\ unmarked < MaxUnmarked /\ Go(p, "refused")
  /\ unmarked' = unmarked + 1
  /\ tasks' = [tasks EXCEPT ![target[p]] = @ + 1]
  /\ UNCHANGED <<workVars, posted, open, lost, replays, batch, cursor, back, req, target>>
RefusedPending(p) ==                          \* mutant: only the error is reported
  /\ pc[p] = "refused" /\ Return(p)
  /\ UNCHANGED <<worldVars, workVars, batch, cursor, tasks>>
Refused(p) ==
  /\ pc[p] = "refused" /\ Return(p)
  /\ batch' = [batch EXCEPT ![target[p]] = Failed(@, TRUE)]
  /\ UNCHANGED <<worldVars, workVars, cursor, tasks>>

Request(p) ==
  \/ Recover(p) \/ Join(p) \/ Create(p) \/ Reopen(p) \/ Skip(p)
  \/ Enqueue(p) \/ EnqueueLost(p) \/ EnqueueUnmarked(p) \/ Refused(p)

-----------------------------------------------------------------------------
(* The other callers. *)

callerRest == <<posted, open, lost, unmarked, workVars, tasks, target>>

\* scan_due_state_assessments(): only running discussions.
Scan(c) ==
  /\ pc[c] = "idle" /\ open /\ Ask(c, Anything(FALSE), "idle")
  /\ UNCHANGED <<callerRest, replays, batch, cursor>>

\* request_state_assessment_for_message() and the help, risk and silence
\* triggers: one student message is the bound.
Trigger(c) ==
  /\ pc[c] = "idle"
  /\ \E m \in 1 .. posted : Ask(c, [Anything(FALSE) EXCEPT !.cut = m], "idle")
  /\ UNCHANGED <<callerRest, replays, batch, cursor>>

\* prepare_scope_reprocessing(): the terminal windows with certain error codes
\* stay failed, and the scheduling cursor goes back before the first of them.
Prepared(b) == [b EXCEPT !.terminal = FALSE, !.attempts = 0, !.rerun = TRUE, !.backoff = FALSE]
ReplayableAlways(ws, from) ==                 \* mutant: the overlap is not refused
  from = (CHOOSE m \in Positions :
            (\E w \in ws : w[1] = m) /\ \A w \in ws : m <= w[1]) - 1
Replayable(ws, from) ==
  /\ from = (CHOOSE m \in Positions :
               (\E w \in ws : w[1] = m) /\ \A w \in ws : m <= w[1]) - 1
  /\ cursor.finalized <= from
Replay(c) ==
  /\ replays < MaxReplays /\ replays' = replays + 1
  /\ pc[c] = "idle" /\ ActiveWindows = {}
  /\ \E ws \in SUBSET {w \in Windows : batch[w].terminal /\ batch[w].status = "failed"} :
       /\ ws # {}
       /\ \E from \in 0 .. MaxMessages :
            /\ Replayable(ws, from)
            /\ cursor' = [cursor EXCEPT !.scheduled = High(cursor.finalized, from)]
       /\ batch' = [w \in Windows |-> IF w \in ws THEN Prepared(batch[w]) ELSE batch[w]]
  /\ \/ Ask(c, Anything(TRUE), "idle")        \* --enqueue
     \/ UNCHANGED <<pc, req, back>>
  /\ UNCHANGED callerRest

-----------------------------------------------------------------------------
(* execute_state_assessment_batch() *)

Work(v, b) == batch' = [batch EXCEPT ![win[v]] = b]
Leave(v) == win' = [win EXCEPT ![v] = NoWindow] /\ plan' = [plan EXCEPT ![v] = NoPlan]
Stop(v) == Go(v, "idle") /\ Leave(v) /\ UNCHANGED <<back, req>>

\* claim_batch(): a task whose row is not pending is dropped.  The task of a
\* retry is delayed until the row's backoff is over; only an older one meets it.
Claim(v) ==
  /\ pc[v] = "idle"
  /\ \E w \in Windows :
       /\ tasks[w] > 0 /\ batch[w].status = "pending" /\ ~batch[w].backoff
       /\ tasks' = [tasks EXCEPT ![w] = @ - 1]
       /\ batch' = [batch EXCEPT ![w].status = "running", ![w].attempts = @ + 1]
       /\ win' = [win EXCEPT ![v] = w]
  /\ Go(v, "claimed")
  /\ UNCHANGED <<worldVars, cursor, back, req, target, plan>>
DropTask(v) ==
  /\ pc[v] = "idle"
  /\ \E w \in Windows :
       /\ tasks[w] > 0
       /\ batch[w].status # "pending" \/ (batch[w].backoff /\ tasks[w] > 1)
       /\ tasks' = [tasks EXCEPT ![w] = @ - 1]
  /\ UNCHANGED <<worldVars, workVars, batch, cursor, pc, back, req, target>>

Start(v) ==
  /\ pc[v] = "claimed" /\ open /\ Go(v, "assess")
  /\ UNCHANGED <<worldVars, workVars, batch, cursor, tasks, back, req, target>>
StopClosed(v) ==
  /\ pc[v] = "claimed" /\ ~open
  /\ Work(v, Failed(batch[win[v]], FALSE)) /\ Stop(v)
  /\ UNCHANGED <<worldVars, cursor, tasks, target>>

\* The room lease is lost: no retry and no continuation.
LoseLease(v) ==
  /\ pc[v] = "assess"
  /\ Work(v, Failed(batch[win[v]], FALSE)) /\ Stop(v)
  /\ UNCHANGED <<worldVars, cursor, tasks, target>>

\* _schedule_limited_retry(), after the assessment failed or could not be saved.
\* The attempts are exhausted or the output was malformed: the window is closed
\* and the next one requested, except when it was the lease that was missing.
GiveUp(v) ==
  LET w == win[v] IN
  /\ pc[v] \in {"assess", "read"}
  /\ pc[v] = "assess" \/ batch[w].attempts >= MaxAttempts
  /\ Work(v, Terminated(batch[w]))
  /\ cursor' = IF Closable(batch[w]) THEN Scheduled(cursor, w[2]) ELSE cursor
  /\ \/ batch'[w].terminal /\ Ask(v, Contract(w), "idle") /\ Leave(v)
     \/ pc[v] = "assess" /\ batch[w].attempts >= MaxAttempts /\ Stop(v)
     \/ ~batch'[w].terminal /\ Stop(v)
  /\ UNCHANGED <<worldVars, tasks, target>>

\* Attempts are left: the row is failed, and made pending again in a transaction
\* of its own; the index of the one active batch may refuse that.
Fail(v) ==
  /\ pc[v] \in {"assess", "read"} /\ batch[win[v]].attempts < MaxAttempts
  /\ Work(v, Failed(batch[win[v]], TRUE)) /\ Go(v, "retrying")
  /\ UNCHANGED <<worldVars, workVars, cursor, tasks, back, req, target>>
RetryableAny(b) == b.status # "succeeded" /\ b.attempts < MaxAttempts   \* mutant
Retryable(b) == b.status = "failed" /\ b.attempts < MaxAttempts
PrepareRetry(v) ==
  /\ pc[v] = "retrying" /\ Retryable(batch[win[v]]) /\ ActiveWindows \subseteq {win[v]}
  /\ Work(v, [batch[win[v]] EXCEPT !.status = "pending", !.backoff = TRUE])
  /\ target' = [target EXCEPT ![v] = win[v]]
  /\ Go(v, "enqueue") /\ Leave(v)
  /\ UNCHANGED <<worldVars, cursor, tasks, back, req>>
DropRetry(v) ==
  /\ pc[v] = "retrying" /\ ~(Retryable(batch[win[v]]) /\ ActiveWindows \subseteq {win[v]})
  /\ Stop(v)
  /\ UNCHANGED <<worldVars, batch, cursor, tasks, target>>

\* The assessment has succeeded: the row is read for what comes next, then
\* save_successful_segments(), which raises unless the row is still running.
\* (What is never read again of a succeeded row is cleared.)
ReadBatch(v) ==
  /\ pc[v] = "assess" /\ Go(v, "read")
  /\ plan' = [plan EXCEPT ![v] = [rerun |-> batch[win[v]].rerun, next |-> Contract(win[v])]]
  /\ UNCHANGED <<worldVars, win, batch, cursor, tasks, back, req, target>>
Save(v) ==
  /\ pc[v] = "read" /\ Go(v, "saved")
  /\ \/ /\ batch[win[v]].status = "running"
        /\ Work(v, [NoBatch EXCEPT !.status = "succeeded",
                                   !.terminal = batch[win[v]].terminal])
        /\ cursor' = Finalized(cursor, win[v][2])
     \/ batch[win[v]].status = "succeeded" /\ UNCHANGED <<batch, cursor>>
  /\ UNCHANGED <<worldVars, workVars, tasks, back, req, target>>

\* The pipeline found newer messages and asks for them before anything else.
Replace(v) ==
  /\ pc[v] = "saved" /\ posted > win[v][2]
  /\ Ask(v, [Anything(TRUE) EXCEPT !.cut = posted], "judged")
  /\ UNCHANGED <<worldVars, workVars, batch, cursor, tasks, target>>

Continue(v) ==
  /\ pc[v] \in {"saved", "judged"}
  /\ IF plan[v].rerun \/ posted > win[v][2]
     THEN Ask(v, plan[v].next, "idle") /\ Leave(v) ELSE Stop(v)
  /\ UNCHANGED <<worldVars, batch, cursor, tasks, target>>

Execute(v) ==
  \/ Claim(v) \/ DropTask(v) \/ Start(v) \/ StopClosed(v) \/ LoseLease(v) \/ GiveUp(v)
  \/ Fail(v) \/ PrepareRetry(v) \/ DropRetry(v) \/ ReadBatch(v) \/ Save(v) \/ Replace(v)
  \/ Continue(v)

-----------------------------------------------------------------------------
(* The world: students, the teacher, the clock. *)

Post ==
  /\ open /\ posted < MaxMessages
  /\ posted' = posted + 1
  /\ UNCHANGED <<open, lost, unmarked, replays, workVars, batch, cursor, tasks, pc, back, req,
                 target>>
CloseDiscussion ==
  /\ CanClose /\ open /\ open' = FALSE
  /\ UNCHANGED <<posted, lost, unmarked, replays, workVars, batch, cursor, tasks, pc, back, req,
                 target>>
Elapse ==
  /\ \E w \in Windows : batch[w].backoff /\ batch' = [batch EXCEPT ![w].backoff = FALSE]
  /\ UNCHANGED <<worldVars, workVars, cursor, tasks, pc, back, req, target>>

BatchNext ==
  \/ \E p \in Procs : Request(p)
  \/ \E c \in Callers : Scan(c) \/ Trigger(c) \/ Replay(c)
  \/ \E v \in Workers : Execute(v)
  \/ Post \/ CloseDiscussion \/ Elapse

BatchSpec == BatchInit /\ [][BatchNext]_batchVars

\* Running processes proceed and workers take tasks, retries become due, the
\* scan comes around every minute, and its thresholds are reached in the end.
BatchFairness ==
  /\ \A p \in Procs : WF_batchVars(Request(p)) /\ SF_batchVars(Create(p) \/ Reopen(p))
  /\ \A v \in Workers : WF_batchVars(Execute(v))
  /\ \A c \in Callers : SF_batchVars(Scan(c))
  /\ WF_batchVars(Elapse)
BatchFairSpec == BatchSpec /\ BatchFairness

-----------------------------------------------------------------------------
(* Properties. *)

Within(m, w) == w[1] <= m /\ m <= w[2]

\* Until the operator replays, no message is skipped: whatever the scheduling cursor
\* has passed lies in a window that was assessed or whose failure was made final
\* (_student_rows_after_cursor never looks at it again).
Covered ==
  replays = 0 => \A m \in 1 .. cursor.scheduled :
    \E w \in Windows : Within(m, w) /\ (batch[w].status = "succeeded" \/ batch[w].terminal)

\* One assessment at a time in a discussion, of a row that says so, whatever
\* retries, requests and replays cross; only a task whose enqueueing was reported
\* as failed can break it (_schedule_limited_retry, request_state_assessment).
Executing == {v \in Workers : pc[v] \in {"claimed", "assess", "read"}}
OneWorker ==
  unmarked = 0 =>
    /\ Cardinality(Executing) <= 1
    /\ \A v \in Executing : batch[win[v]].status = "running"

\* A pending row, which keeps every other window from being claimed, has a task
\* in the queue or a process that will put one there or fail the row.
NoStranded ==
  \A w \in Windows : batch[w].status = "pending" =>
    tasks[w] > 0 \/ \E p \in Procs : target[p] = w /\ pc[p] \in {"enqueue", "refused"}

\* The finalized cursor never goes back, and the scheduling cursor only while
\* nothing is active and never behind what was finalized; a window whose closing
\* a replay undoes lies ahead of it (prepare_scope_reprocessing).
CursorsForward ==
  [][ /\ cursor'.finalized >= cursor.finalized
      /\ cursor'.scheduled < cursor.scheduled =>
           ActiveWindows = {} /\ cursor'.scheduled >= cursor.finalized
      /\ \A w \in Windows :
           batch[w].terminal /\ ~batch'[w].terminal => cursor'.scheduled < w[1] ]_batchVars

\* Every student message is assessed or given up, whatever fails on the way.
EveryMessageSettled ==
  \A m \in Positions : (posted >= m) ~> (cursor.scheduled >= m \/ ~open)

\* "``--enqueue`` also requests the first window; normal continuation then schedules
\* the rest" (scripts/requeue_failed_state_assessments.py): a window prepared for
\* replay, which lies ahead of the cursor, is passed by it again.
Awaiting(w) ==
  /\ batch[w].status = "failed" /\ ~batch[w].terminal
  /\ batch[w].attempts = 0 /\ cursor.scheduled < w[1]
ReplaySchedulesRest == \A w \in Windows : Awaiting(w) ~> cursor.scheduled >= w[2]
=============================================================================
