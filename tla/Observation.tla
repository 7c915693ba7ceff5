---------------------------- MODULE Observation ----------------------------
(***************************************************************************)
(* What follows an intervention in one discussion:                         *)
(* services/three_stage_observation.py, the observation columns of         *)
(* discussion_assessment_cursors (db.py), and how                          *)
(* agent/monitoring_tasks.py and services/state_assessment_scheduler.py    *)
(* start and order the assessments that judge it.                          *)
(*                                                                         *)
(* The discussion is the sequence chat: 0 is a message of a student, r the *)
(* intervention of run r, Answer a strategy message without a pipeline (an *)
(* answer to a help request); a position in it is messages.sequence.  A run*)
(* is a state_assessment_batches row with its strategy_pipeline_runs row;  *)
(* of the life of a batch (AssessmentBatch) and of a pipeline              *)
(* (StrategyPipeline) only what an observation depends on is kept.  0 also *)
(* stands for NULL where a position is stored.                             *)
(***************************************************************************)
EXTENDS Integers, Sequences, FiniteSets

CONSTANTS Judged,       \* batches, numbered in the order of their rows
          Failing,      \* bound: those whose assessment may fail
          MaxTalk,      \* bound: messages of the discussion
          MaxWindow,    \* STATE_LLM_MAX_CANDIDATE_MESSAGES
          MaxRounds,    \* OBSERVATION_MAX_ASSESSMENT_ROUNDS
          MinResponses  \* MIN_RECOVERY_STUDENT_MESSAGES

ASSUME ObservationAssumption ==
  /\ Judged \subseteq Nat \ {0} /\ Failing \subseteq Judged
  /\ MaxTalk \in Nat /\ MaxWindow \in Nat \ {0}
  /\ MaxRounds \in Nat \ {0} /\ MinResponses \in Nat

VARIABLES chat,     \* the messages
          live,     \* session and discussion are running
          watch,    \* observation and scheduling columns of the cursor
          noticed,  \* messages whose task has read the cursor as observing
          judge     \* per run, its batch, its worker and its observation

obsVars == <<chat, live, watch, noticed, judge>>

Answer == -1
Spots == 1 .. Len(chat)
Students == {i \in Spots : chat[i] = 0}
Between(i, j) == {k \in Students : i < k /\ k <= j}
IsEarliest(i, S) == i \in S /\ \A j \in S : i <= j
IsLatest(i, S) == i \in S /\ \A j \in S : j <= i
IsFirstIn(i, S) == IF S = {} THEN i = 0 ELSE IsEarliest(i, S)     \* or NULL
Later(i, j) == IF i < j THEN j ELSE i

\* The worker of a batch: it is pending or running; it failed and may be tried
\* again; its attempts are used up; the assessment is saved; it is recorded and the
\* pipeline may publish; it has published and not yet said so; it is done.
Stages == {"none", "active", "failed", "lost", "saved", "recorded", "published", "over"}
Succeeded == {"saved", "recorded", "published", "over"}
Triggers == {"none", "periodic", "observation", "urgent"}
Outcomes == {"none", "continue", "insufficient", "recovered", "persistent", "migrated",
             "moved_on", "expired", "finalization_only"}
Terminating == Outcomes \ {"none", "continue", "insufficient"}

\* queued: the request that waits for the batch to end.  credit: the first message
\* of the batch the outcome was taken from.
NoQueue == [first |-> 0, bound |-> 0, trigger |-> "none"]
NoRun == [stage |-> "none", trigger |-> "none", rank |-> 0, first |-> 0, last |-> 0,
          queued |-> NoQueue, said |-> 0, status |-> "none", outcome |-> "none",
          response |-> 0, credit |-> 0]

ObservationTypes ==
  /\ chat \in Seq({0, Answer} \cup Judged) /\ Len(chat) <= MaxTalk /\ live \in BOOLEAN
  /\ watch \in [on : BOOLEAN, started : 0 .. MaxTalk, last : 0 .. MaxTalk,
                scheduled : 0 .. MaxTalk]
  /\ noticed \subseteq 1 .. MaxTalk
  /\ judge \in [Judged -> [stage : Stages, trigger : Triggers, rank : 0 .. 2,
                           first : 0 .. MaxTalk, last : 0 .. MaxTalk, said : 0 .. MaxTalk,
                           queued : [first : 0 .. MaxTalk, bound : 0 .. MaxTalk,
                                     trigger : Triggers],
                           status : {"none", "observing", "completed", "finalization_only"},
                           outcome : Outcomes, response : 0 .. MaxTalk, credit : 0 .. MaxTalk]]

\* No batch covers more messages than the limit, and every variable has its type.
ObservationTypeOK ==
  /\ ObservationTypes
  /\ \A r \in Judged : judge[r].first # 0 =>
       Cardinality(Between(judge[r].first - 1, judge[r].last)) \in 1 .. MaxWindow

ObservationInit ==
  /\ chat = << >> /\ live = TRUE /\ noticed = {}
  /\ watch = [on |-> FALSE, started |-> 0, last |-> 0, scheduled |-> 0]
  /\ judge = [r \in Judged |-> NoRun]

ActiveRuns == {r \in Judged : judge[r].stage = "active"}

-----------------------------------------------------------------------------
(* The cursor. *)

\* begin_discussion_observation(), by the publisher and again when the
\* publication is noted: only a later intervention starts an interval.
BegunAny(w, i) == [w EXCEPT !.on = TRUE, !.started = 0, !.last = i]   \* mutant: an older one too
BegunAgain(w, i) ==                           \* mutant: the same one restarts it
  IF w.last <= i THEN [w EXCEPT !.on = TRUE, !.started = 0, !.last = i] ELSE w
Begun(w, i) ==
  IF w.last < i THEN [w EXCEPT !.on = TRUE, !.started = 0, !.last = i] ELSE w

\* create_message() and record_observation_student_sequence(), one transaction.
Answered(w, i) ==
  IF w.on /\ w.last < i /\ (w.started = 0 \/ i < w.started) THEN [w EXCEPT !.started = i] ELSE w
StudentSpeaks ==
  /\ live /\ Len(chat) < MaxTalk
  /\ chat' = Append(chat, 0)
  /\ watch' = Answered(watch, Len(chat) + 1)
  /\ UNCHANGED <<live, noticed, judge>>

\* publish_agent_intervention() for a help request: a strategy message begins an
\* observation although no pipeline row is behind it.  Nobody asks whether the
\* session still runs.
AnswerHelp ==
  /\ Len(chat) < MaxTalk
  /\ chat' = Append(chat, Answer)
  /\ watch' = Begun(watch, Len(chat) + 1)
  /\ UNCHANGED <<live, noticed, judge>>

\* process_new_message_task() reads the cursor; it asks for the assessment later.
\* A request for a message that a window has passed does nothing.
Notice(i) ==
  /\ i \in Students \ noticed /\ i > watch.scheduled /\ watch.on
  /\ noticed' = noticed \cup {i}
  /\ UNCHANGED <<chat, live, watch, judge>>

-----------------------------------------------------------------------------
(* request_state_assessment(): a request for one message covers nothing after *)
(* it; help, high risk and silence are urgent.                                *)

Rank(t) == CASE t = "urgent" -> 2 [] t = "observation" -> 1 [] OTHER -> 0
Bounds(t) == CASE t = "urgent" -> Students [] t = "observation" -> noticed
               [] OTHER -> {Len(chat)}

\* The first messages after the cursor, up to the bound.
Waiting(bound) == Between(watch.scheduled, bound)
FirstOnesAll(S) == S                          \* mutant: the limit is dropped
FirstOnes(S) == {i \in S : Cardinality({j \in S : j < i}) < MaxWindow}
IsWindow(r, S) == IsEarliest(judge[r].first, S) /\ IsLatest(judge[r].last, S)

\* A window gets a new row, or its failed row is opened again with the trigger of
\* the request; of two priorities the higher one stays.
Free(r) == judge[r].stage = "none" /\ \A s \in Judged : s < r => judge[s].stage # "none"
Serves(r, window) ==
  /\ ActiveRuns = {}
  /\ \/ Free(r) /\ ~\E s \in Judged : IsWindow(s, window)
     \/ judge[r].stage = "failed" /\ IsWindow(r, window)
Opened(b, t, i, j) == [b EXCEPT !.stage = "active", !.trigger = t, !.first = i, !.last = j,
                                !.rank = Later(@, Rank(t))]
Assess(r, t, bound) ==
  LET window == FirstOnes(Waiting(bound)) IN
  /\ Serves(r, window)
  /\ \E i, j \in window :
       /\ IsEarliest(i, window) /\ IsLatest(j, window)
       /\ judge' = [judge EXCEPT ![r] = Opened(@, t, i, j)]

\* A request for the window that is being assessed may raise its trigger.
Raise(r, t, bound) ==
  /\ judge[r].stage = "active" /\ bound = judge[r].last /\ t # "periodic"
  /\ Rank(t) > judge[r].rank
  /\ judge' = [judge EXCEPT ![r].trigger = t, ![r].rank = Rank(t)]

\* A request for an earlier message of that window waits for its end, the
\* earliest one first; it makes a batch of the window's beginning, once more.
SavedEnds == {0} \cup {judge[s].last : s \in {s \in Judged : judge[s].stage \in Succeeded}}
QueueRequest(r, t, bound) ==
  /\ judge[r].stage = "active" /\ t # "periodic" /\ bound < judge[r].last
  /\ LET q == judge[r].queued IN
       q = NoQueue \/ bound < q.bound \/ (bound = q.bound /\ Rank(t) > Rank(q.trigger))
  /\ \E k \in SavedEnds :
       /\ IsLatest(k, SavedEnds)
       /\ LET i == Later(k + 1, judge[r].first) IN
            /\ i <= bound
            /\ judge' = [judge EXCEPT ![r].queued = [first |-> i, bound |-> bound, trigger |-> t]]

RequestJudgement(r) ==
  /\ live
  /\ \E t \in Triggers \ {"none"} : \E bound \in Bounds(t) :
       Assess(r, t, bound) \/ Raise(r, t, bound) \/ QueueRequest(r, t, bound)
  /\ UNCHANGED <<chat, live, watch, noticed>>

\* _continue_after_terminal() with a queued request.
ContinueQueued(s) ==
  LET q == judge[s].queued
      window == Between(q.first - 1, q.bound) IN
  /\ live /\ judge[s].stage \in Succeeded \cup {"lost"} /\ q # NoQueue
  /\ \E r \in Judged : \E i, j \in window :
       /\ Serves(r, window) /\ IsEarliest(i, window) /\ IsLatest(j, window)
       /\ judge' = [judge EXCEPT ![s].queued = NoQueue,
                                 ![r] = Opened(judge[r], q.trigger, i, j)]
  /\ UNCHANGED <<chat, live, watch, noticed>>

-----------------------------------------------------------------------------
(* execute_state_assessment_batch() *)

\* The scheduling cursor passes the window.
Pass(r) ==
  /\ watch' = [watch EXCEPT !.scheduled = Later(@, judge[r].last)]
  /\ noticed' = {i \in noticed : i > judge[r].last}

\* The assessment fails; with the last attempt (AssessmentBatch counts them) the
\* window is given up, before it the worker retries it itself.
FailJudgement(r) ==
  /\ r \in Failing /\ judge[r].stage = "active"
  /\ judge' = [judge EXCEPT ![r].stage = "failed"]
  /\ UNCHANGED <<chat, live, watch, noticed>>
RetryJudgement(r) ==
  /\ judge[r].stage = "failed" /\ ActiveRuns = {}
  /\ judge' = [judge EXCEPT ![r].stage = "active"]
  /\ UNCHANGED <<chat, live, watch, noticed>>
GiveUpWindow(r) ==
  /\ judge[r].stage = "failed" /\ Pass(r)
  /\ judge' = [judge EXCEPT ![r].stage = "lost"]
  /\ UNCHANGED <<chat, live>>

\* save_successful_segments()
SaveJudgement(r) ==
  /\ judge[r].stage = "active" /\ Pass(r)
  /\ judge' = [judge EXCEPT ![r].stage = "saved"]
  /\ UNCHANGED <<chat, live>>

\* _find_observed_pipeline(): the latest one before the assessed messages.
ObservedAnytime(i) == {o \in Judged : judge[o].status = "observing"}    \* mutant: not before
Observed(i) == {o \in Judged : judge[o].status = "observing" /\ judge[o].said < i}
IsLatestOf(o, S) == o \in S /\ \A p \in S : judge[p].said <= judge[o].said

\* _completed_observation_rounds(), _student_response_count()
Rounds(o) == Cardinality({s \in Judged : judge[s].stage \in Succeeded
                            /\ judge[s].trigger = "observation" /\ judge[s].last > judge[o].said})
Responses(o, r) == Cardinality(Between(judge[o].said, judge[r].last))

\* What an assessment says: the state, relative to the one before the
\* intervention, and whether to intervene.
Verdicts == [state : {"unknown", "recovery", "same", "other"}, should : BOOLEAN]

\* _classify_observation_result()
Classified(v, responses, rounds) ==
  CASE v.state = "unknown" -> IF rounds >= MaxRounds THEN "expired" ELSE "continue"
    [] v.state = "recovery" ->
         IF responses >= MinResponses \/ rounds >= MaxRounds THEN "recovered" ELSE "insufficient"
    [] v.state = "same" ->
         IF v.should THEN "persistent" ELSE IF rounds >= MaxRounds THEN "expired" ELSE "continue"
    [] v.state = "other" -> IF v.should THEN "migrated" ELSE "moved_on"

\* _deactivate_observation_cursor(), whichever intervention the cursor is at.
Unwatched(w) == [w EXCEPT !.on = FALSE]

\* record_observation_assessment(), after the pipeline's own row was written; a
\* later student message or a gate ends the pipeline there.
Concluded(o, r, outcome, response) ==
  [judge[o] EXCEPT !.outcome = outcome, !.credit = judge[r].first,
                   !.status = IF outcome \in Terminating THEN "completed" ELSE "observing",
                   !.response = IF @ = 0 THEN response ELSE @]
Outcome(o, r, v) == Classified(v, Responses(o, r), Rounds(o))
Conclude(o, r, v, next) ==
  LET later == Between(judge[o].said, Len(chat)) IN
  /\ IsLatestOf(o, Observed(judge[r].first))
  /\ \E i \in later \cup {0} :
       /\ IsFirstIn(i, later)
       /\ judge' = [judge EXCEPT ![o] = Concluded(o, r, Outcome(o, r, v), i), ![r].stage = next]
  /\ watch' = IF Outcome(o, r, v) \in Terminating THEN Unwatched(watch) ELSE watch
RecordOutcome(r) ==
  /\ judge[r].stage = "saved"
  /\ \E v \in Verdicts : \E next \in {"over"} \cup (IF v.should THEN {"recorded"} ELSE {}) :
       IF judge[r].trigger = "observation" /\ Observed(judge[r].first) # {}
       THEN \E o \in Judged : Conclude(o, r, v, next)
       ELSE judge' = [judge EXCEPT ![r].stage = next] /\ UNCHANGED watch
  /\ UNCHANGED <<chat, live, noticed>>

\* The gate and publish_agent_intervention(): nothing newer of a student, and no
\* intervention noted as published since the assessed messages (_cooldown_check()).
PublishIntervention(r) ==
  /\ judge[r].stage = "recorded" /\ live /\ Len(chat) < MaxTalk
  /\ Between(judge[r].last, Len(chat)) = {}
  /\ \A s \in Judged : judge[s].status # "none" => judge[s].said < judge[r].last
  /\ chat' = Append(chat, r)
  /\ watch' = Begun(watch, Len(chat) + 1)
  /\ judge' = [judge EXCEPT ![r].stage = "published", ![r].said = Len(chat) + 1]
  /\ UNCHANGED <<live, noticed>>

\* _mark_published() and mark_observation_started(), a transaction of its own,
\* whatever has happened since.
MarkObserving(r) ==
  /\ judge[r].stage = "published"
  /\ judge' = [judge EXCEPT ![r].stage = "over", ![r].status = "observing"]
  /\ watch' = Begun(watch, judge[r].said)
  /\ UNCHANGED <<chat, live, noticed>>

\* The pipeline is refused, or the worker dies between two transactions.
GiveUpRun(r) ==
  /\ judge[r].stage \in {"saved", "recorded", "published"}
  /\ judge' = [judge EXCEPT ![r].stage = "over"]
  /\ UNCHANGED <<chat, live, watch, noticed>>

-----------------------------------------------------------------------------
(* The end of the session; only close_session() ends its observations, after *)
(* it has set the status.                                                    *)

EndSession ==
  /\ live /\ live' = FALSE
  /\ UNCHANGED <<chat, watch, noticed, judge>>

\* mark_session_observations_finalization_only()
FinalizeObservations ==
  /\ ~live
  /\ watch' = [watch EXCEPT !.on = FALSE]
  /\ judge' = [r \in Judged |->
       IF judge[r].status = "observing"
       THEN [judge[r] EXCEPT !.status = "finalization_only", !.outcome = "finalization_only"]
       ELSE judge[r]]
  /\ UNCHANGED <<chat, live, noticed>>

ObservationNext ==
  \/ StudentSpeaks \/ AnswerHelp \/ EndSession \/ FinalizeObservations
  \/ \E i \in Spots : Notice(i)
  \/ \E r \in Judged :
       \/ RequestJudgement(r) \/ ContinueQueued(r) \/ FailJudgement(r)
       \/ RetryJudgement(r) \/ GiveUpWindow(r) \/ SaveJudgement(r)
       \/ RecordOutcome(r) \/ PublishIntervention(r) \/ MarkObserving(r) \/ GiveUpRun(r)

ObservationSpec == ObservationInit /\ [][ObservationNext]_obsVars

-----------------------------------------------------------------------------
(* What an observation promises. *)

\* "observation_started_sequence deliberately remains NULL until the first later
\* student message is written", and then is that one, though the interval is
\* begun in two transactions with students in between, and by runs that note
\* their publication in another order (db.py:457).
StartIsFirstResponse ==
  watch.on => IsFirstIn(watch.started, Between(watch.last, Len(chat)))

\* The outcome of an intervention is read off messages that came after it, even
\* when another was published between the assessment and its recording, and the
\* response it notes is the first one.
CreditedAfter ==
  \A r \in Judged : judge[r].credit # 0 =>
    /\ judge[r].said < judge[r].credit
    /\ IsFirstIn(judge[r].response, Between(judge[r].said, Len(chat)))

\* "Replaying an older or duplicate publish cannot reset a newer observation
\* interval" (db.py:461): the cursor stands at the latest strategy message, help
\* answers included, though a worker notes its own publication late or never.
WatchAtLatest == IsLatest(watch.last, {0} \cup {i \in Spots : chat[i] # 0})
=============================================================================
