---------------------------- MODULE EmotionSlots ----------------------------
(* The emotion agent over the discussion of Discussion: one feedback per     *)
(* interval of a running discussion, reserved by a scan every minute and     *)
(* executed by the workers of a task queue. Slots of different discussions   *)
(* share nothing, so one discussion is followed.                             *)
EXTENDS Discussion, Sequences, FiniteSetsExt

CONSTANTS
  Interval,         \* EMOTION_INTERVAL_SECONDS, as all times, in ticks
  MaxTries,         \* EMOTION_SLOT_MAX_ATTEMPTS
  RetryDelay,       \* EMOTION_SLOT_RETRY_DELAY_SECONDS
  PendingTimeout,   \* EMOTION_SLOT_PENDING_TIMEOUT_SECONDS
  RunningTimeout,   \* EMOTION_SLOT_RUNNING_TIMEOUT_SECONDS
  MaxDefers,        \* EMOTION_SLOT_DEFER_MAX_ATTEMPTS
  DeferDelay,       \* EMOTION_SLOT_DEFER_INITIAL_SECONDS
  Agents,           \* workers that execute slots
  MaxTasks          \* bound on the queued tasks of a slot; more are redundant

ASSUME SlotsAssumption ==
  /\ {Interval, MaxTries, RetryDelay, PendingTimeout, RunningTimeout,
      MaxDefers, DeferDelay, MaxTasks} \subseteq Nat \ {0}
  /\ \A s \in Scenarios :
       /\ s.agents \subseteq Agents
       /\ s.mode = "emotion" => \E g \in Groups : s.members[g] # {}

VARIABLES
  slot,     \* emotion_reflection_slots of the discussion
  runs,     \* intervention_runs of each slot
  said,     \* the emotion messages of each slot: when each was published
  task,     \* queued executions of each slot
  agent,    \* what each worker is at
  lost      \* a worker has died in an execution

slotVars == <<slot, runs, said, task, agent, lost>>
vars == <<discVars, slotVars>>

SlotIds == 1..(MaxTime \div Interval)
Never == MaxTime + 100     \* no time at all

NewSlot == [status |-> "none", tries |-> 0, enqueued |-> Never, started |-> Never,
            retry |-> Never, defers |-> 0, until |-> Never]
Idle == [pc |-> "idle", slot |-> 0, run |-> 0, at |-> 0, outcome |-> "none"]

SlotInit ==
  /\ DiscInit
  /\ slot = [k \in SlotIds |-> NewSlot]
  /\ runs = [k \in SlotIds |-> << >>]
  /\ said = [k \in SlotIds |-> << >>]
  /\ task = [k \in SlotIds |-> 0]
  /\ agent = [w \in Agents |-> Idle]
  /\ lost = FALSE

-----------------------------------------------------------------------------
(* The discussion, as the emotion agent sees it.                             *)

Here == CHOOSE g \in Present : TRUE
Start == runtime[Here].deadline - scenario.limit
Scheduled(k) == Start + Interval * k

\* May the agent speak at time t? And is the document handed in?
ActiveAt(t) ==
  /\ scenario.mode = "emotion" /\ session = "running"
  /\ runtime[Here].status = "running" /\ ~runtime[Here].sent /\ t < runtime[Here].deadline

HandedIn == document[Here].filed \/ document[Here].status = "submitted"

\* due_slot_index()
Current == (now - Start) \div Interval

Active == {"pending", "running", "deferred"}
Terminal == {"sent", "skipped", "expired", "superseded"}

Newer(k) == \E j \in SlotIds : j > k /\ slot[j].status # "none"

StatusOnly(s, status) == [s EXCEPT !.status = status]
Status(s, status) == [s EXCEPT !.status = status, !.enqueued = Never, !.retry = Never]

-----------------------------------------------------------------------------
(* The scan.                                                                 *)

\* What time has done to slot s, k-th of the discussion, when slot c is due: a
\* worker crash must not leave it running, a deferral is bounded, older slots
\* have been missed.
Aged(s, k, c) ==
  LET timedOut == s.status = "running" /\ s.started + RunningTimeout <= now
      failed == [s EXCEPT !.status = "failed",
                          !.retry = IF s.tries < MaxTries THEN now ELSE Never]
  IN  CASE timedOut /\ k >= c -> failed
        [] s.status = "deferred" /\ k >= c /\ s.until <= now -> Status(s, "expired")
        [] s.status = "deferred" /\ k < c -> Status(s, "superseded")
        [] (timedOut \/ s.status \in {"pending", "failed"}) /\ k < c -> Status(s, "skipped")
        [] OTHER -> s

\* The row of the due slot, made ready for another try when its time has come.
Revived(s) ==
  LET again == [s EXCEPT !.status = "pending", !.enqueued = Never] IN
  CASE s.status = "none" -> [s EXCEPT !.status = "pending"]
    [] s.status = "deferred" /\ s.defers >= MaxDefers -> Status(s, "expired")
    [] s.status = "deferred" /\ s.defers < MaxDefers /\ s.retry <= now -> again
    [] s.status = "failed" /\ s.tries < MaxTries /\ s.retry <= now -> again
    [] s.status = "pending" /\ s.enqueued + PendingTimeout <= now -> again
    [] OTHER -> s

Ready(s) == s.status = "pending" /\ s.enqueued = Never /\ s.tries < MaxTries

Enqueue(k) == task' = [task EXCEPT ![k] = Min({MaxTasks, @ + 1})]

\* An older slot that is still running keeps the due one waiting.
NeverBlocked(aged, c) == FALSE
Blocked(aged, c) == \E k \in SlotIds : k < c /\ aged[k].status = "running"

\* ensure_latest_due_slot(), one transaction, and the queue, which may fail: the
\* slot is failed then, unless the scan has died.
ScanDue ==
  LET c == Current
      aged == [k \in SlotIds |-> Aged(slot[k], k, c)]
      due == Revived(aged[c])
      rows == [k \in SlotIds |->
        IF k = c THEN IF Ready(due) THEN [due EXCEPT !.enqueued = now] ELSE due
        ELSE IF k < c /\ aged[k].status = "none" THEN [aged[k] EXCEPT !.status = "skipped"]
        ELSE aged[k]]
  IN  /\ ActiveAt(now) /\ c >= 1
      /\ IF Blocked(aged, c)
         THEN slot' = aged /\ UNCHANGED <<task, faults>>
         ELSE IF ~Ready(due)
         THEN slot' = rows /\ UNCHANGED <<task, faults>>
         ELSE \/ slot' = rows /\ Enqueue(c) /\ UNCHANGED faults
              \/ slot' = [rows EXCEPT ![c] = [Status(due, "failed")
                            EXCEPT !.retry = now + RetryDelay]]
                 /\ Fault /\ UNCHANGED task
              \/ slot' = rows /\ Dies /\ UNCHANGED task
      /\ UNCHANGED <<scenario, now, session, runtime, document, visit, scan, ending, late,
                     returns, queue, final, finalizer, runs, said, agent, lost>>

\* expire_inactive_slots(): the discussion can no longer publish. What runs is
\* left to its worker.
FreshOnly == {"pending"}
Waiting == {"pending", "deferred", "failed"}

ExpireInactive ==
  /\ scenario.mode = "emotion" /\ ~ActiveAt(now)
  /\ slot' = [k \in SlotIds |-> IF slot[k].status \in Waiting
                                THEN Status(slot[k], "expired") ELSE slot[k]]
  /\ UNCHANGED <<discVars, runs, said, task, agent, lost>>

-----------------------------------------------------------------------------
(* The workers: execute_slot().                                              *)

Step(w, pc) == agent' = [agent EXCEPT ![w].pc = pc]
Conclude(w, outcome) == agent' = [agent EXCEPT ![w].pc = "mark", ![w].outcome = outcome]
\* An exception: its handler is to fail the slot.
Raised(w, outcome) == agent' = [agent EXCEPT ![w].pc = "fail", ![w].outcome = outcome]

\* claim_slot(): a task whose slot is not pending is dropped.
Claim(w) ==
  /\ w \in scenario.agents /\ agent[w].pc = "idle"
  /\ \E k \in SlotIds :
       /\ task[k] > 0
       /\ task' = [task EXCEPT ![k] = @ - 1]
       /\ IF slot[k].status = "pending" /\ slot[k].tries < MaxTries
          THEN /\ slot' = [slot EXCEPT ![k].status = "running", ![k].started = now,
                                       ![k].enqueued = Never, ![k].retry = Never]
               /\ agent' = [agent EXCEPT ![w] =
                    [pc |-> "check", slot |-> k, run |-> 0, at |-> now, outcome |-> "none"]]
          ELSE UNCHANGED <<slot, agent>>
  /\ UNCHANGED <<discVars, runs, said, lost>>

\* precheck(), at the time of the claim, and _begin_generation().
Check(w) ==
  LET k == agent[w].slot IN
  /\ agent[w].pc = "check"
  /\ IF ~ActiveAt(agent[w].at) THEN Conclude(w, "expired") /\ UNCHANGED slot
     ELSE IF Newer(k) THEN Conclude(w, "superseded") /\ UNCHANGED slot
     ELSE IF HandedIn THEN Conclude(w, "expired") /\ UNCHANGED slot
     ELSE IF slot[k].status = "running" /\ slot[k].tries < MaxTries
     THEN slot' = [slot EXCEPT ![k].tries = @ + 1] /\ Step(w, "generate")
     ELSE Conclude(w, "dead") /\ UNCHANGED slot
  /\ UNCHANGED <<discVars, runs, said, task, lost>>

\* A run that is none of these is not taken up again.
Over == {"FAILED", "EXPIRED", "STALE"}

\* _create_intervention_run(): the one run of the slot that is not over (a unique
\* index), or a new one.
RunFor(k) ==
  LET open == {i \in 1..Len(runs[k]) : runs[k][i] \notin Over}
  IN  IF open = {} THEN Len(runs[k]) + 1 ELSE Max(open)

\* The model calls, and the run. A failed call is not repeated, an exception may
\* be.
Generate(w) ==
  LET k == agent[w].slot IN
  /\ agent[w].pc = "generate"
  /\ \/ /\ agent' = [agent EXCEPT ![w].pc = "publish", ![w].run = RunFor(k)]
        /\ runs' = IF RunFor(k) > Len(runs[k]) THEN [runs EXCEPT ![k] = Append(@, "PENDING")]
                   ELSE runs
        /\ UNCHANGED faults
     \/ /\ Fault
        /\ \/ Conclude(w, "dead")
           \/ \E outcome \in {"failed", "dead"} : Raised(w, outcome)
        /\ UNCHANGED runs
  /\ UNCHANGED <<scenario, now, session, runtime, document, visit, scan, ending, late,
                 returns, queue, final, finalizer, slot, said, task, lost>>

\* A message of this slot, and one of another slot less than an interval ago.
NeverSpoken(k) == FALSE
Spoken(k) == said[k] # << >>

NeverRecent(k) == FALSE
Recent(k) == \E j \in SlotIds \ {k} : \E i \in 1..Len(said[j]) : said[j][i] > now - Interval

\* The gate of _publish_emotion_message().
Objection(k) ==
  IF ~ActiveAt(now) \/ HandedIn THEN "expired"
  ELSE IF Newer(k) \/ slot[k].status # "running" THEN "superseded"
  ELSE IF Recent(k) THEN "deferred"
  ELSE "none"

RunStatus == [expired |-> "EXPIRED", superseded |-> "SUPERSEDED", deferred |-> "STALE"]

\* Another run of the slot is not over: the unique index refuses to take run i up.
Rival(k, i) == \E j \in 1..Len(runs[k]) \ {i} : runs[k][j] \notin Over

\* Gate and message in one transaction. A message there is already counts as
\* this one's; with another run mark_sent() raises. A run given up by another
\* worker may have been followed by the next one, and the index raises.
Publish(w) ==
  LET k == agent[w].slot
      i == agent[w].run
      objection == Objection(k)
  IN  /\ agent[w].pc = "publish"
      /\ \/ /\ Spoken(k)
            /\ IF runs[k][i] = "PUBLISHED" THEN Conclude(w, "sent") ELSE Raised(w, "failed")
            /\ UNCHANGED <<runs, said, faults>>
         \/ /\ ~Spoken(k) /\ objection # "none"
            /\ IF objection = "superseded" /\ Rival(k, i)
               THEN Raised(w, "dead") /\ UNCHANGED runs
               ELSE /\ runs' = [runs EXCEPT ![k][i] = RunStatus[objection]]
                    /\ Conclude(w, objection)
            /\ UNCHANGED <<said, faults>>
         \/ /\ ~Spoken(k) /\ objection = "none" /\ ~Rival(k, i)
            /\ runs' = [runs EXCEPT ![k][i] = "PUBLISHED"]
            /\ said' = [said EXCEPT ![k] = Append(@, now)]
            /\ Conclude(w, "sent")
            /\ UNCHANGED faults
         \/ /\ ~Spoken(k)
            /\ IF objection = "none" /\ Rival(k, i) THEN UNCHANGED faults ELSE Fault
            /\ runs' = [runs EXCEPT ![k][i] = "FAILED"]
            /\ Conclude(w, "failed")
            /\ UNCHANGED said
      /\ UNCHANGED <<scenario, now, session, runtime, document, visit, scan, ending, late,
                     returns, queue, final, finalizer, slot, task, lost>>

\* _mark_terminal()
Finished(s, status) == IF s.status \in Active \cup {"failed"} THEN Status(s, status) ELSE s

\* mark_deferred(): until the next slot or the deadline, from the time of the
\* claim; the configured compensation is longer than an interval.
Deferred(s, k, at) ==
  LET limit == Min({Scheduled(k) + Interval, s.until, runtime[Here].deadline}) IN
  IF at >= limit \/ s.defers >= MaxDefers THEN Finished(s, "expired")
  ELSE IF s.status # "running" THEN s
  ELSE [s EXCEPT !.status = "deferred", !.enqueued = Never, !.until = limit,
                 !.retry = Min({at + DeferDelay, limit}), !.defers = @ + 1]

\* mark_failed()
Failed(s, at, retryable) ==
  IF s.status \notin {"pending", "running", "failed"} THEN s
  ELSE [Status(s, "failed") EXCEPT
          !.retry = IF retryable /\ s.tries < MaxTries THEN at + RetryDelay ELSE Never]

\* What the outcome of worker w makes of the slot, which another worker may have
\* by now: mark_sent(), mark_expired(), mark_superseded(), ...
Marked(s, k, at, outcome) ==
  CASE outcome = "sent" -> IF s.status = "running" THEN Status(s, "sent") ELSE s
    [] outcome \in {"expired", "superseded"} -> Finished(s, outcome)
    [] outcome = "deferred" -> Deferred(s, k, at)
    [] outcome = "failed" -> Failed(s, at, TRUE)
    [] outcome = "dead" -> Failed(s, at, FALSE)

Settle(w) ==
  LET k == agent[w].slot IN
  /\ agent[w].pc \in {"mark", "fail"}
  /\ slot' = [slot EXCEPT ![k] = Marked(@, k, agent[w].at, agent[w].outcome)]
  /\ agent' = [agent EXCEPT ![w] = Idle]
  /\ UNCHANGED <<discVars, runs, said, task, lost>>

\* The database refuses. The handler of the exception fails the slot; when that is
\* refused too, the slot is left as it is.
MarkFails(w) ==
  /\ Fault
  /\ \/ /\ agent[w].pc = "mark"
        /\ \E outcome \in {"failed", "dead"} : Raised(w, outcome)
        /\ UNCHANGED lost
     \/ /\ agent[w].pc = "fail"
        /\ agent' = [agent EXCEPT ![w] = Idle]
        /\ lost' = TRUE
  /\ UNCHANGED <<scenario, now, session, runtime, document, visit, scan, ending, late,
                 returns, queue, final, finalizer, slot, runs, said, task>>

AgentDies(w) ==
  /\ Dies /\ agent[w].pc # "idle"
  /\ agent' = [agent EXCEPT ![w] = Idle]
  /\ lost' = TRUE
  /\ UNCHANGED <<scenario, now, session, runtime, document, visit, scan, ending, late,
                 returns, queue, final, finalizer, slot, runs, said, task>>

-----------------------------------------------------------------------------
ScanSlots == ScanDue \/ ExpireInactive
Execute(w) == Claim(w) \/ Check(w) \/ Generate(w) \/ Publish(w) \/ Settle(w)

SlotNext ==
  \/ DiscNext /\ UNCHANGED slotVars
  \/ ScanSlots
  \/ \E w \in Agents : Execute(w) \/ MarkFails(w) \/ AgentDies(w)

\* The periodic task runs every minute, and a worker that does not die goes on.
SlotFairness ==
  /\ DiscFairness
  /\ WF_vars(ScanSlots)
  /\ \A w \in Agents : WF_vars(Execute(w))

SlotSpec == SlotInit /\ [][SlotNext]_vars /\ SlotFairness

-----------------------------------------------------------------------------
(* Properties.                                                               *)

Times == 0..MaxTime + Interval + RetryDelay + DeferDelay
\* Types; and a slot that is over waits for nothing.
EmotionTypeOK ==
  /\ slot \in [SlotIds -> [status : {"none", "failed"} \cup Active \cup Terminal,
                           tries : 0..MaxTries, enqueued : Times \cup {Never},
                           started : Times \cup {Never}, retry : Times \cup {Never},
                           defers : 0..MaxDefers, until : Times \cup {Never}]]
  /\ \A k \in SlotIds : slot[k].status \in Terminal \cup {"running"} =>
       slot[k].enqueued = Never /\ slot[k].retry = Never
  /\ \A k \in SlotIds : \A i \in 1..Len(runs[k]) :
       runs[k][i] \in {"PENDING", "PUBLISHED", "SUPERSEDED"} \cup Over
  /\ task \in [SlotIds -> 0..MaxTasks]
  /\ \A w \in Agents :
       /\ agent[w].pc \in {"idle", "check", "generate", "publish", "mark", "fail"}
       /\ agent[w].pc # "idle" => agent[w].slot \in SlotIds /\ agent[w].at <= now
  /\ lost \in BOOLEAN

\* At most one slot of a discussion is being worked on or waited for, whatever
\* workers outlive their timeout: the unique index idx_emotion_slots_one_active
\* never makes a scan fail.
OneActive == Cardinality({k \in SlotIds : slot[k].status \in Active}) <= 1

\* A slot speaks at most once, by retries, repeated tasks and workers given up
\* for dead, and one that counts as sent has spoken.
SpeaksOnce ==
  \A k \in SlotIds : Len(said[k]) <= 1 /\ (slot[k].status = "sent" => said[k] # << >>)

\* Messages of two slots are an interval apart, also when the first was late.
Cadence ==
  \A j, k \in SlotIds : j < k => \A a \in 1..Len(said[j]), b \in 1..Len(said[k]) :
    said[j][a] + Interval <= said[k][b]

\* "A worker crash must not leave a permanent running slot": every slot comes to
\* an end.
SlotsEnd == \A k \in SlotIds : (slot[k].status # "none") ~> (slot[k].status \in Terminal)

\* Every slot comes to an end, by its feedback, by a newer slot or by the end of
\* the discussion, unless a worker has died.
SlotsEndUnlessLost ==
  \A k \in SlotIds : (slot[k].status # "none") ~> (slot[k].status \in Terminal \/ lost)
=============================================================================
