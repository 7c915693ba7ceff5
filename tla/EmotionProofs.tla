--------------------------- MODULE EmotionProofs ---------------------------
(* What a session with an emotion agent promises, for any number of groups,  *)
(* workers, minutes and tries: the discussion's own promises, which hold     *)
(* whatever the agent does, and the agent's: one slot at a time, one message *)
(* per slot, messages an interval apart.                                     *)
(*                                                                           *)
(* EmotionInv says why: a slot exists only once its time has come, so the    *)
(* due slot is the newest there can be, and the scan, the one step that      *)
(* makes a slot active, leaves no older one active.                          *)
EXTENDS EmotionSlots, DiscussionProofs, FiniteSetTheorems, SequenceTheorems

Statuses == {"none", "failed"} \cup Active \cup Terminal
SlotRecs == [status : Statuses,
             tries : 0..MaxTries, enqueued : Times \cup {Never},
             started : Times \cup {Never}, retry : Times \cup {Never},
             defers : 0..MaxDefers, until : Times \cup {Never}]
RunStates == {"PENDING", "PUBLISHED", "SUPERSEDED"} \cup Over
Outcomes == {"sent", "expired", "superseded", "deferred", "failed", "dead"}
AgentRecs == [pc : {"idle", "check", "generate", "publish", "mark", "fail"},
              slot : SlotIds \cup {0}, run : Nat, at : Nat, outcome : Outcomes \cup {"none"}]

\* A row that is there, and one that is not.
SlotFits(s) ==
  /\ s \in SlotRecs
  /\ s.status = "none" => s = NewSlot
  /\ s.status \in Terminal \cup {"running"} => s.enqueued = Never /\ s.retry = Never

\* The discussion's clock has started, and slot k is due or was.
Reached(k) == scenario.mode = "emotion" /\ runtime[Here].deadline # 0 /\ Scheduled(k) <= now

\* A timer starts from the present.
TimerInv ==
  \A g \in Groups : runtime[g].deadline # 0 => runtime[g].deadline - scenario.limit \in 0..now

SlotsInv ==
  /\ slot \in [SlotIds -> SlotRecs]
  /\ \A k \in SlotIds : SlotFits(slot[k]) /\ (slot[k].status # "none" => Reached(k))
  /\ \A j, k \in SlotIds : slot[j].status \in Active /\ slot[k].status \in Active => j = k

TasksInv ==
  /\ task \in [SlotIds -> 0..MaxTasks]
  /\ \A k \in SlotIds : task[k] > 0 => slot[k].status # "none"

SaidInv ==
  /\ said \in [SlotIds -> Seq(0..MaxTime)]
  /\ \A k \in SlotIds :
       /\ Len(said[k]) <= 1
       /\ said[k] # << >> => slot[k].status # "none"
       /\ slot[k].status = "sent" => said[k] # << >>
  /\ Cadence

\* A slot has at most one run that is not over (idx_intervention_runs_emotion_slot_active).
RunsInv ==
  /\ runs \in [SlotIds -> Seq(RunStates)]
  /\ \A k \in SlotIds : \A i, j \in 1..Len(runs[k]) :
       runs[k][i] \notin Over /\ runs[k][j] \notin Over => i = j

\* A worker is at a slot that exists, since some time that has come.
AgentFits(a) ==
  /\ a \in AgentRecs
  /\ a.pc # "idle" => a.slot \in SlotIds /\ a.at <= now /\ slot[a.slot].status # "none"
  /\ a.pc \in {"mark", "fail"} => a.outcome # "none"
  /\ a.pc \in {"mark", "fail"} /\ a.outcome = "sent" => said[a.slot] # << >>

AgentsInv ==
  /\ agent \in [Agents -> AgentRecs]
  /\ \A w \in Agents : AgentFits(agent[w])
  /\ lost \in BOOLEAN

RowsInv == SlotsInv /\ TasksInv /\ SaidInv /\ RunsInv /\ AgentsInv
EmotionInv == TimerInv /\ RowsInv

-----------------------------------------------------------------------------
(* The discussion, under the emotion agent.                                  *)

\* What a step of the agent does to the discussion: nothing, or it uses up a
\* fault.
AgentStep == ScanSlots \/ \E w \in Agents : Execute(w) \/ MarkFails(w) \/ AgentDies(w)

LEMMA AgentsUseFaults ==
  ASSUME SessionInv, AgentStep PROVE OnlyFaults \/ UNCHANGED discVars
<1>1. faults \in Nat BY ScenarioFacts DEF SessionInv, CountsInv
<1>2. CASE ScanDue BY <1>2 DEF ScanDue, OnlyFaults, discVars, Fault, Dies
<1>3. CASE ExpireInactive BY <1>3 DEF ExpireInactive
<1>4. ASSUME NEW w \in Agents, Execute(w) \/ MarkFails(w) \/ AgentDies(w)
      PROVE  OnlyFaults \/ UNCHANGED discVars
  <2>1. CASE Claim(w) \/ Check(w) \/ Settle(w) BY <2>1 DEF Claim, Check, Settle
  <2>2. CASE Generate(w) BY <2>2 DEF Generate, OnlyFaults, discVars, Fault
  <2>3. CASE Publish(w) BY <2>3 DEF Publish, OnlyFaults, discVars, Fault
  <2>4. CASE MarkFails(w) BY <2>4 DEF MarkFails, OnlyFaults, discVars, Fault
  <2>5. CASE AgentDies(w) BY <2>5 DEF AgentDies, OnlyFaults, discVars, Dies, Fault
  <2> QED BY <1>4, <2>1, <2>2, <2>3, <2>4, <2>5 DEF Execute
<1> QED BY <1>2, <1>3, <1>4 DEF AgentStep, ScanSlots

LEMMA DiscussionSteps ==
  ASSUME SessionInv, [SlotNext]_vars PROVE [DiscNext]_discVars \/ OnlyFaults
<1>1. CASE UNCHANGED vars BY <1>1 DEF vars
<1>2. CASE DiscNext BY <1>2
<1>3. CASE AgentStep BY <1>3, AgentsUseFaults
<1> QED BY <1>1, <1>2, <1>3 DEF SlotNext, AgentStep

LEMMA SessionAlways == SlotSpec => []SessionInv
<1>1. SlotInit => SessionInv BY SessionInvStart DEF SlotInit
<1>2. SessionInv /\ [SlotNext]_vars => SessionInv' BY DiscussionSteps, SessionInvStep
<1> QED BY <1>1, <1>2, PTL DEF SlotSpec

\* Types of the session's tables, and the timer and roster of a running
\* discussion (group_session_discussions).
THEOREM DiscussionTyped == SlotSpec => []DiscussionTypeOK
<1>1. SessionInv => DiscussionTypeOK BY SessionTypes
<1> QED BY <1>1, SessionAlways, PTL

\* A discussion counts as submitted only when its document has been handed in,
\* although scan, page and end of the session decide it in a later transaction
\* (_mark_group_discussion(), end_session()).
THEOREM SubmissionsAreReal == SlotSpec => []SubmittedIsReal
<1>1. SessionInv => SubmittedIsReal
  BY DEF SessionInv, RuntimesInv, RuntimeFits, SubmittedIsReal
<1> QED BY <1>1, SessionAlways, PTL

\* An ended session leaves nothing that can be edited but what was opened or
\* returned after its end began (end_session()).
THEOREM EndLeavesNothingOpen == SlotSpec => []EndLeavesNothing
<1>1. SessionInv => EndLeavesNothing BY DEF SessionInv, EndInv
<1> QED BY <1>1, SessionAlways, PTL

\* No step opens a discussion again or moves its deadline, an entry after the
\* deadline, a second scan and the end of the session included
\* (enter_group_discussion_stage()).
THEOREM NothingReopens == SlotSpec => ClosedStaysClosed
<1>1. ASSUME SessionInv, [SlotNext]_vars
      PROVE  [\A g \in Groups :
                /\ Closed(runtime[g]) => Closed(runtime[g]')
                /\ runtime[g].deadline # 0 => runtime[g].deadline' = runtime[g].deadline]_discVars
  BY <1>1, DiscussionSteps, RuntimeStep
<1> QED BY <1>1, SessionAlways, PTL DEF SlotSpec, ClosedStaysClosed

-----------------------------------------------------------------------------
(* Time.                                                                     *)

LEMMA DivFacts ==
  ASSUME NEW n \in Nat \ {0}, NEW x \in Nat
  PROVE  /\ x \div n \in Nat /\ n * (x \div n) <= x
         /\ \A k \in Nat : n * k <= x => k <= x \div n
OBVIOUS

LEMMA Parameters ==
  /\ Interval \in Nat \ {0} /\ MaxTries \in Nat \ {0} /\ RetryDelay \in Nat \ {0}
  /\ MaxDefers \in Nat \ {0} /\ DeferDelay \in Nat \ {0} /\ MaxTasks \in Nat \ {0}
  /\ MaxTime \in Nat /\ Never \in Nat
BY SlotsAssumption, DiscussionAssumption DEF Never

LEMMA NowFacts == ASSUME SessionInv PROVE now \in 0..MaxTime /\ now \in Times
BY ScenarioFacts, Parameters DEF SessionInv, CountsInv, Times

LEMMA HereFacts ==
  ASSUME SessionInv, scenario.mode = "emotion" PROVE Here \in Present /\ Here \in Groups
<1>1. PICK g \in Groups : scenario.members[g] # {}
  BY SlotsAssumption DEF SessionInv, CountsInv
<1>2. Here \in Present BY <1>1 DEF Here, Present
<1> QED BY <1>2, PresentGroups

LEMMA HereSet ==
  ASSUME SessionInv, scenario.mode = "emotion" PROVE runtime[Here].deadline \in Nat
BY HereFacts DEF SessionInv, RuntimesInv, Runtimes

\* The due slot is the newest of those whose time has come.
LEMMA CurrentFacts ==
  ASSUME SessionInv, TimerInv, scenario.mode = "emotion", runtime[Here].deadline # 0
  PROVE  /\ Start \in 0..now
         /\ Current \in Nat
         /\ Current >= 1 => Current \in SlotIds
         /\ \A k \in SlotIds : /\ Scheduled(k) \in Nat
                               /\ Scheduled(k) <= now <=> k <= Current
<1>1. Start \in 0..now BY HereFacts DEF TimerInv, Start
<1>2. now \in 0..MaxTime BY NowFacts
<1>3. now - Start \in Nat /\ now - Start <= MaxTime BY <1>1, <1>2, Parameters
<1>4. /\ Current \in Nat /\ Interval * Current <= now - Start
      /\ \A k \in Nat : Interval * k <= now - Start => k <= Current
  BY <1>3, Parameters, DivFacts DEF Current
<1>5. Interval * Current <= MaxTime BY <1>3, <1>4, Parameters
<1>6. Current <= MaxTime \div Interval BY <1>4, <1>5, Parameters, DivFacts
<1>7. MaxTime \div Interval \in Nat BY Parameters, DivFacts
<1>8. ASSUME NEW k \in SlotIds
      PROVE  Scheduled(k) \in Nat /\ (Scheduled(k) <= now <=> k <= Current)
  <2>1. k \in Nat BY <1>7 DEF SlotIds
  <2>2. Interval * k \in Nat BY <2>1, Parameters
  <2>3. Scheduled(k) \in Nat BY <1>1, <1>2, <2>2 DEF Scheduled
  <2>4. Scheduled(k) <= now <=> Interval * k <= now - Start
    BY <1>1, <1>2, <2>2 DEF Scheduled
  <2>5. k <= Current => Interval * k <= Interval * Current BY <1>4, <2>1, Parameters
  <2> QED BY <1>3, <1>4, <2>1, <2>2, <2>3, <2>4, <2>5, Parameters
<1> QED BY <1>1, <1>4, <1>6, <1>7, <1>8 DEF SlotIds

\* Time goes on, and a timer that is set stays.
ClockGoesOn ==
  /\ scenario' = scenario /\ now <= now' /\ now \in Nat /\ now' \in Nat
  /\ \A g \in Groups : runtime[g].deadline # 0 => runtime'[g].deadline = runtime[g].deadline

LEMMA ClockStep ==
  ASSUME SessionInv, SessionInv', [SlotNext]_vars PROVE ClockGoesOn
<1>1. [DiscNext]_discVars \/ OnlyFaults BY DiscussionSteps
<1>2. scenario' = scenario /\ now' \in {now, now + 1}
  BY <1>1 DEF DiscNext, OnlyFaults, discVars, Tick, Arrive, StartCommit, StudentStep, EnterStage, Create,
         Commit, StartPage, Return, ScanStep, StartScan, ScanList, ScanSubmit, ScanMark, StartSession,
         StartEnd, EndStep, EndSubmit, EndListRuntimes, EndMark, EndSession, EndRequest, Archive,
         FinalStep, Take, ClaimFinal, Gate, Analyse, FinalizerDies, ScanDies, EndDies
<1>3. now \in Nat /\ now' \in Nat BY NowFacts, <1>2
<1>4. ASSUME NEW g \in Groups, runtime[g].deadline # 0
      PROVE  runtime'[g].deadline = runtime[g].deadline
  BY <1>1, <1>4, RuntimeStep
<1> QED BY <1>2, <1>3, <1>4 DEF ClockGoesOn

LEMMA TimerStep ==
  ASSUME SessionInv, SessionInv', TimerInv, [SlotNext]_vars PROVE TimerInv'
<1>1. ClockGoesOn BY ClockStep
<1>2. \A g \in Groups : runtime'[g].deadline \in {runtime[g].deadline, now + scenario.limit}
  BY DiscussionSteps, RuntimeStep
<1>3. scenario.limit \in Nat BY ScenarioFacts DEF SessionInv
<1>4. SUFFICES ASSUME NEW g \in Groups, runtime'[g].deadline # 0
               PROVE  runtime'[g].deadline - scenario'.limit \in 0..now'
  BY DEF TimerInv
<1>5. CASE runtime[g].deadline # 0 BY <1>1, <1>5 DEF ClockGoesOn, TimerInv
<1>6. CASE runtime[g].deadline = 0
  <2>1. runtime'[g].deadline = now + scenario.limit BY <1>2, <1>4, <1>6
  <2> QED BY <1>1, <1>3, <2>1 DEF ClockGoesOn
<1> QED BY <1>5, <1>6

LEMMA ReachedStays ==
  ASSUME SessionInv, ClockGoesOn, NEW k \in SlotIds, Reached(k) PROVE Reached(k)'
<1>1. Here' = Here BY DEF ClockGoesOn, Here, Present
<1>2. Here \in Groups BY HereFacts DEF Reached
<1>3. runtime'[Here].deadline = runtime[Here].deadline BY <1>2 DEF ClockGoesOn, Reached
<1>4. Scheduled(k)' = Scheduled(k) BY <1>1, <1>3 DEF Scheduled, Start, ClockGoesOn
<1>5. runtime[Here].deadline \in Nat /\ scenario.limit \in Nat /\ Interval * k \in Int
  <2>1. k \in Int BY DEF SlotIds
  <2> QED BY <2>1, HereSet, Parameters, ScenarioFacts DEF SessionInv, Reached
<1>6. Scheduled(k) \in Int BY <1>5 DEF Scheduled, Start
<1> QED BY <1>1, <1>3, <1>4, <1>6 DEF Reached, ClockGoesOn

-----------------------------------------------------------------------------
(* What is kept by the steps that leave it alone.                            *)

\* No row is taken away, and no message.
SlotsGrow == \A k \in SlotIds : slot[k].status # "none" => slot'[k].status # "none"
SaidGrows == \A k \in SlotIds : said[k] # << >> => said'[k] # << >>

\* A step that makes no slot active: k becomes s.
Retold(k, s) ==
  /\ SlotFits(s)
  /\ s.status = "none" <=> slot[k].status = "none"
  /\ s.status \in Active => slot[k].status \in Active

LEMMA SlotsRetold ==
  ASSUME SessionInv, ClockGoesOn, SlotsInv, slot' \in [SlotIds -> SlotRecs],
         \A k \in SlotIds : Retold(k, slot'[k])
  PROVE  SlotsInv' /\ SlotsGrow
<1>1. ASSUME NEW k \in SlotIds
      PROVE  SlotFits(slot[k])' /\ (slot'[k].status # "none" => Reached(k)')
  <2>1. SlotFits(slot'[k]) BY DEF Retold
  <2>2. SlotFits(slot[k])' BY <2>1 DEF SlotFits
  <2>3. slot'[k].status # "none" => Reached(k) BY DEF Retold, SlotsInv
  <2> QED BY <2>2, <2>3, ReachedStays
<1>2. ASSUME NEW j \in SlotIds, NEW k \in SlotIds,
             slot'[j].status \in Active, slot'[k].status \in Active
      PROVE  j = k
  BY <1>2 DEF Retold, SlotsInv
<1>3. SlotsInv' BY <1>1, <1>2 DEF SlotsInv, Active
<1> QED BY <1>3 DEF SlotsGrow, Retold

LEMMA OneRetold ==
  ASSUME SessionInv, ClockGoesOn, SlotsInv, NEW k \in SlotIds, NEW s, Retold(k, s),
         slot' = [slot EXCEPT ![k] = s]
  PROVE  SlotsInv' /\ SlotsGrow /\ slot'[k] = s /\ \A j \in SlotIds \ {k} : slot'[j] = slot[j]
<1>1. s \in SlotRecs BY DEF Retold, SlotFits
<1>2. slot' \in [SlotIds -> SlotRecs] BY <1>1 DEF SlotsInv
<1>3. slot'[k] = s /\ \A j \in SlotIds \ {k} : slot'[j] = slot[j] BY DEF SlotsInv
<1>4. \A j \in SlotIds : Retold(j, slot'[j]) BY <1>3 DEF Retold, SlotsInv
<1> QED BY <1>2, <1>3, <1>4, SlotsRetold

LEMMA SlotsStay ==
  ASSUME SessionInv, ClockGoesOn, SlotsInv, UNCHANGED slot PROVE SlotsInv' /\ SlotsGrow
<1>1. \A k \in SlotIds : Retold(k, slot'[k]) BY DEF Retold, SlotsInv
<1> QED BY <1>1, SlotsRetold DEF SlotsInv

LEMMA TasksStay ==
  ASSUME TasksInv, SlotsGrow, UNCHANGED task PROVE TasksInv'
BY DEF TasksInv, SlotsGrow

LEMMA SaidStays ==
  ASSUME SaidInv, SlotsGrow, UNCHANGED said,
         \A k \in SlotIds : slot'[k].status = "sent" => slot[k].status = "sent" \/ said[k] # << >>
  PROVE  SaidInv' /\ SaidGrows
<1>1. Cadence' BY DEF SaidInv, Cadence
<1> QED BY <1>1 DEF SaidInv, SlotsGrow, SaidGrows

LEMMA RunsStay == ASSUME RunsInv, UNCHANGED runs PROVE RunsInv'
BY DEF RunsInv

LEMMA AgentsStay ==
  ASSUME AgentsInv, SlotsGrow, SaidGrows, now \in Nat, now' \in Nat, now <= now', UNCHANGED <<agent, lost>>
  PROVE  AgentsInv'
<1>1. ASSUME NEW w \in Agents PROVE AgentFits(agent[w])'
  <2>1. AgentFits(agent[w]) /\ agent[w] \in AgentRecs BY DEF AgentsInv
  <2>2. agent[w].pc # "idle" => /\ agent[w].slot \in SlotIds /\ agent[w].at <= now'
                               /\ slot'[agent[w].slot].status # "none"
    BY <2>1 DEF AgentFits, AgentRecs, SlotsGrow
  <2>3. agent[w].pc \in {"mark", "fail"} /\ agent[w].outcome = "sent" => said'[agent[w].slot] # << >>
    BY <2>1, <2>2 DEF AgentFits, SaidGrows
  <2> QED BY <2>1, <2>2, <2>3 DEF AgentFits
<1> QED BY <1>1 DEF AgentsInv

\* What worker a comes to be.
FitsNext(a) ==
  /\ a \in AgentRecs
  /\ a.pc # "idle" => a.slot \in SlotIds /\ a.at <= now /\ slot'[a.slot].status # "none"
  /\ a.pc \in {"mark", "fail"} => a.outcome # "none"
  /\ a.pc \in {"mark", "fail"} /\ a.outcome = "sent" => said'[a.slot] # << >>

LEMMA AgentReplaced ==
  ASSUME AgentsInv, SlotsGrow, SaidGrows, now \in Nat, now' = now, lost' \in BOOLEAN,
         NEW w \in Agents, NEW a, FitsNext(a), agent' = [agent EXCEPT ![w] = a]
  PROVE  AgentsInv'
<1>1. agent'[w] = a /\ \A v \in Agents \ {w} : agent'[v] = agent[v] BY DEF AgentsInv
<1>2. agent' \in [Agents -> AgentRecs] BY DEF AgentsInv, FitsNext
<1>3. AgentFits(agent[w])' BY <1>1 DEF AgentFits, FitsNext
<1>4. ASSUME NEW v \in Agents \ {w} PROVE AgentFits(agent[v])'
  <2>1. AgentFits(agent[v]) /\ agent'[v] = agent[v] BY <1>1 DEF AgentsInv
  <2> QED BY <2>1 DEF AgentFits, SlotsGrow, SaidGrows
<1> QED BY <1>2, <1>3, <1>4 DEF AgentsInv

LEMMA IdleFits == FitsNext(Idle)
BY DEF FitsNext, Idle, AgentRecs, Outcomes

\* A worker that has its outcome, or an exception.
Turns(w, outcome) == Conclude(w, outcome) \/ (outcome # "sent" /\ Raised(w, outcome))

LEMMA ConcludeFits ==
  ASSUME AgentsInv, SlotsGrow, SaidGrows, now \in Nat, now' = now, lost' \in BOOLEAN,
         NEW w \in Agents, agent[w].pc # "idle", NEW outcome \in Outcomes, Turns(w, outcome),
         outcome = "sent" => said'[agent[w].slot] # << >>
  PROVE  AgentsInv'
<1>1. agent[w] \in AgentRecs /\ AgentFits(agent[w]) BY DEF AgentsInv
<1>2. PICK pc \in {"mark", "fail"} :
        /\ agent' = [agent EXCEPT ![w].pc = pc, ![w].outcome = outcome]
        /\ pc = "fail" => outcome # "sent"
  BY DEF Turns, Conclude, Raised
<1> DEFINE a == [agent[w] EXCEPT !.pc = pc, !.outcome = outcome]
<1>3. a \in AgentRecs BY <1>1 DEF AgentRecs
<1>4. a.pc = pc /\ a.outcome = outcome /\ a.slot = agent[w].slot /\ a.at = agent[w].at
  BY <1>1 DEF AgentRecs
<1>5. agent' = [agent EXCEPT ![w] = a] BY <1>2 DEF AgentsInv
<1> HIDE DEF a
<1>6. FitsNext(a) BY <1>1, <1>3, <1>4 DEF FitsNext, AgentFits, SlotsGrow, Outcomes
<1> QED BY <1>5, <1>6, AgentReplaced

-----------------------------------------------------------------------------
(* What is made of a row.                                                    *)

LEMMA MinFacts ==
  ASSUME NEW a \in Int, NEW b \in Int
  PROVE  Min({a, b}) \in {a, b} /\ Min({a, b}) <= a /\ Min({a, b}) <= b
<1>1. \E x \in {a, b} : \A y \in {a, b} : x <= y OBVIOUS
<1> QED BY <1>1 DEF Min

LEMMA Min3Facts ==
  ASSUME NEW a \in Int, NEW b \in Int, NEW c \in Int
  PROVE  Min({a, b, c}) \in {a, b, c} /\ Min({a, b, c}) <= a
<1>1. \E x \in {a, b, c} : \A y \in {a, b, c} : x <= y OBVIOUS
<1> QED BY <1>1 DEF Min

LEMMA NewFits == SlotFits(NewSlot)
BY Parameters DEF SlotFits, NewSlot, SlotRecs, Statuses, Active, Terminal

LEMMA StatusFacts ==
  ASSUME NEW s, SlotFits(s), NEW status \in Terminal \cup {"failed"}
  PROVE  /\ SlotFits(Status(s, status)) /\ Status(s, status).status = status
         /\ Status(s, status).tries = s.tries /\ Status(s, status).started = s.started
         /\ Status(s, status).defers = s.defers /\ Status(s, status).until = s.until
BY DEF Status, SlotFits, SlotRecs, Statuses, Active, Terminal, NewSlot

LEMMA AgedFacts ==
  ASSUME SessionInv, NEW s, SlotFits(s), NEW k \in Int, NEW c \in Int
  PROVE  /\ SlotFits(Aged(s, k, c))
         /\ Aged(s, k, c).status = "none" <=> s.status = "none"
         /\ Aged(s, k, c).status \in Active => s.status \in Active
         /\ Aged(s, k, c).status = "sent" => s.status = "sent"
         /\ k < c /\ Aged(s, k, c).status \in Active => Aged(s, k, c).status = "running"
<1> DEFINE timedOut == s.status = "running" /\ s.started + RunningTimeout <= now
           failed == [s EXCEPT !.status = "failed",
                               !.retry = IF s.tries < MaxTries THEN now ELSE Never]
           Good(r) == /\ SlotFits(r)
                      /\ r.status = "none" <=> s.status = "none"
                      /\ r.status \in Active => s.status \in Active
                      /\ r.status = "sent" => s.status = "sent"
                      /\ k < c /\ r.status \in Active => r.status = "running"
<1>1. CASE timedOut /\ k >= c
  <2>1. SlotFits(failed) /\ failed.status = "failed"
    BY <1>1, NowFacts DEF SlotFits, SlotRecs, Statuses, Active, Terminal
  <2>2. Aged(s, k, c) = failed BY <1>1 DEF Aged
  <2> HIDE DEF failed
  <2> QED BY <1>1, <2>1, <2>2 DEF Active
<1>2. ASSUME NEW status \in {"expired", "superseded", "skipped"}, s.status # "none" PROVE Good(Status(s, status))
  BY <1>2, StatusFacts DEF Terminal, Active
<1>3. ASSUME k >= c \/ s.status \notin {"deferred", "pending"} PROVE Good(s)
  BY <1>3 DEF Active
<1>4. Aged(s, k, c) = CASE timedOut /\ k >= c -> failed
        [] s.status = "deferred" /\ k >= c /\ s.until <= now -> Status(s, "expired")
        [] s.status = "deferred" /\ k < c -> Status(s, "superseded")
        [] (timedOut \/ s.status \in {"pending", "failed"}) /\ k < c -> Status(s, "skipped")
        [] OTHER -> s
  BY DEF Aged
<1> HIDE DEF Good, failed
<1>5. CASE ~(timedOut /\ k >= c)
  <2>1. Good(Aged(s, k, c))
    <3>1. CASE s.status = "deferred" /\ k >= c /\ s.until <= now BY <1>2, <1>4, <1>5, <3>1
    <3>2. CASE s.status = "deferred" /\ k < c BY <1>2, <1>4, <1>5, <3>2
    <3>3. CASE (timedOut \/ s.status \in {"pending", "failed"}) /\ k < c
      BY <1>2, <1>4, <1>5, <3>3
    <3>4. CASE /\ ~(s.status = "deferred" /\ k >= c /\ s.until <= now)
               /\ ~(s.status = "deferred" /\ k < c)
               /\ ~((timedOut \/ s.status \in {"pending", "failed"}) /\ k < c)
      <4>1. Aged(s, k, c) = s BY <1>4, <1>5, <3>4
      <4> QED BY <1>3, <3>4, <4>1
    <3> QED BY <3>1, <3>2, <3>3, <3>4
  <2> QED BY <2>1 DEF Good
<1> QED BY <1>1, <1>5

LEMMA RevivedFacts ==
  ASSUME NEW s, SlotFits(s)
  PROVE  /\ SlotFits(Revived(s)) /\ Revived(s).status # "none"
         /\ Revived(s).status = "sent" => s.status = "sent"
<1> DEFINE again == [s EXCEPT !.status = "pending", !.enqueued = Never]
           fresh == [s EXCEPT !.status = "pending"]
<1>1. /\ SlotFits(again) /\ again.status = "pending"
      /\ SlotFits(fresh) /\ fresh.status = "pending"
  BY DEF SlotFits, SlotRecs, Statuses, Active, Terminal
<1>2. SlotFits(Status(s, "expired")) /\ Status(s, "expired").status = "expired"
  BY StatusFacts DEF Terminal
<1>3. Revived(s) \in {again, fresh, Status(s, "expired"), s}
  BY DEF Revived
<1>4. Revived(s) = s => s.status # "none"
  <2>1. s.status = "none" => Revived(s) = fresh BY DEF Revived
  <2> HIDE DEF fresh
  <2> QED BY <1>1, <2>1
<1> HIDE DEF again, fresh
<1> QED BY <1>1, <1>2, <1>3, <1>4

LEMMA FailedFacts ==
  ASSUME SessionInv, NEW s, SlotFits(s), s.status # "none", NEW at \in Nat, at <= now,
         NEW retryable \in BOOLEAN
  PROVE  /\ SlotFits(Failed(s, at, retryable))
         /\ Failed(s, at, retryable) = s \/ Failed(s, at, retryable).status = "failed"
<1> DEFINE f == Status(s, "failed")
           retry == IF retryable /\ s.tries < MaxTries THEN at + RetryDelay ELSE Never
           r == [f EXCEPT !.retry = retry]
<1>1. SlotFits(f) /\ f.status = "failed" BY StatusFacts
<1>2. retry \in Times \cup {Never} BY NowFacts, Parameters DEF Times
<1>3. Failed(s, at, retryable) \in {s, r} BY DEF Failed
<1> HIDE DEF f, retry
<1>4. SlotFits(r) /\ r.status = "failed"
  BY <1>1, <1>2 DEF SlotFits, SlotRecs, Statuses, Active, Terminal
<1> HIDE DEF r
<1> QED BY <1>3, <1>4

LEMMA DeferredFacts ==
  ASSUME SessionInv, TimerInv, NEW k \in SlotIds, Reached(k), NEW s, SlotFits(s), s.status # "none",
         NEW at \in Nat, at <= now
  PROVE  /\ SlotFits(Deferred(s, k, at))
         /\ \/ Deferred(s, k, at) = s
            \/ Deferred(s, k, at).status = "expired"
            \/ Deferred(s, k, at).status = "deferred" /\ s.status = "running"
<1> DEFINE next == Scheduled(k) + Interval
           deadline == runtime[Here].deadline
           limit == Min({next, s.until, deadline})
           retry == Min({at + DeferDelay, limit})
           r == [s EXCEPT !.status = "deferred", !.enqueued = Never, !.until = limit,
                          !.retry = retry, !.defers = @ + 1]
<1>1. s.until \in Nat /\ s.defers \in 0..MaxDefers
  BY Parameters DEF SlotFits, SlotRecs, Times
<1>2. next \in Nat /\ next <= MaxTime + Interval
  BY CurrentFacts, NowFacts, Parameters DEF Reached
<1>3. deadline \in Nat BY HereSet DEF Reached
<1> HIDE DEF next, deadline
<1>4. limit \in Nat /\ limit <= MaxTime + Interval
  <2>1. limit \in {next, s.until, deadline} /\ limit <= next BY <1>1, <1>2, <1>3, Min3Facts
  <2> HIDE DEF limit
  <2> QED BY <1>1, <1>2, <1>3, <2>1, Parameters
<1> HIDE DEF limit
<1>5. limit \in Times /\ retry \in Times
  <2>1. at + DeferDelay \in Times /\ limit \in Times BY <1>4, NowFacts, Parameters DEF Times
  <2>2. retry \in {at + DeferDelay, limit} BY <1>4, Parameters, MinFacts
  <2> HIDE DEF retry
  <2> QED BY <2>1, <2>2
<1>6. Deferred(s, k, at) = IF at >= limit \/ s.defers >= MaxDefers THEN Finished(s, "expired")
                           ELSE IF s.status # "running" THEN s ELSE r
  BY DEF Deferred, limit, next, deadline
<1>7. /\ SlotFits(Finished(s, "expired"))
      /\ Finished(s, "expired") = s \/ Finished(s, "expired").status = "expired"
  <2>1. SlotFits(Status(s, "expired")) /\ Status(s, "expired").status = "expired"
    BY StatusFacts DEF Terminal
  <2> QED BY <2>1 DEF Finished
<1> HIDE DEF retry
<1>8. s.defers < MaxDefers => SlotFits(r) /\ r.status = "deferred"
  <2>1. s \in SlotRecs BY DEF SlotFits
  <2>2. s.defers < MaxDefers => s.defers + 1 \in 0..MaxDefers BY <1>1, Parameters
  <2>3. s.defers < MaxDefers => r \in SlotRecs
    BY <1>5, <2>1, <2>2 DEF SlotRecs, Statuses, Active
  <2>4. r.status = "deferred" BY <2>1 DEF SlotRecs
  <2> HIDE DEF r
  <2> QED BY <2>3, <2>4 DEF SlotFits, Terminal
<1> HIDE DEF r
<1> QED BY <1>1, <1>6, <1>7, <1>8, Parameters

LEMMA MarkedFacts ==
  ASSUME SessionInv, TimerInv, NEW k \in SlotIds, Reached(k), NEW s, SlotFits(s), s.status # "none",
         NEW at \in Nat, at <= now, NEW outcome \in Outcomes
  PROVE  /\ SlotFits(Marked(s, k, at, outcome)) /\ Marked(s, k, at, outcome).status # "none"
         /\ Marked(s, k, at, outcome).status \in Active => s.status \in Active
         /\ Marked(s, k, at, outcome).status = "sent" => s.status = "sent" \/ outcome = "sent"
<1>1. CASE outcome \in {"sent", "expired", "superseded"}
  <2>1. /\ SlotFits(Status(s, outcome)) /\ Status(s, outcome).status = outcome
    BY <1>1, StatusFacts DEF Terminal
  <2>2. Marked(s, k, at, outcome) \in {s, Status(s, outcome)} BY <1>1 DEF Marked, Finished
  <2> QED BY <1>1, <2>1, <2>2 DEF Active
<1>2. CASE outcome = "deferred"
  <2>1. Marked(s, k, at, outcome) = Deferred(s, k, at) BY <1>2 DEF Marked
  <2> QED BY <2>1, DeferredFacts DEF Active
<1>3. CASE outcome \in {"failed", "dead"}
  <2>1. \E retryable \in BOOLEAN : Marked(s, k, at, outcome) = Failed(s, at, retryable)
    BY <1>3 DEF Marked
  <2> QED BY <2>1, FailedFacts DEF Active
<1> QED BY <1>1, <1>2, <1>3 DEF Outcomes

-----------------------------------------------------------------------------
(* The scan.                                                                 *)

\* A scan touches nothing but slots and tasks.
LEMMA ScansKeep ==
  ASSUME EmotionInv, SlotsInv', SlotsGrow, UNCHANGED <<now, runs, said, agent, lost>>, now \in Nat,
         \A k \in SlotIds : slot'[k].status = "sent" => slot[k].status = "sent",
         TasksInv'
  PROVE  RowsInv'
<1>1. SaidInv' /\ SaidGrows BY SaidStays DEF EmotionInv, RowsInv
<1>2. RunsInv' BY RunsStay DEF EmotionInv, RowsInv
<1>3. AgentsInv' BY <1>1, AgentsStay DEF EmotionInv, RowsInv
<1> QED BY <1>1, <1>2, <1>3 DEF RowsInv

LEMMA ExpireInactiveInv ==
  ASSUME SessionInv, EmotionInv, ClockGoesOn, ExpireInactive PROVE RowsInv'
<1>1. \A k \in SlotIds : SlotFits(slot[k]) BY DEF EmotionInv, RowsInv, SlotsInv
<1> DEFINE e(k) == IF slot[k].status \in Waiting THEN Status(slot[k], "expired") ELSE slot[k]
<1>2. ASSUME NEW k \in SlotIds
      PROVE  Retold(k, e(k)) /\ e(k) \in SlotRecs /\ (e(k).status = "sent" => slot[k].status = "sent")
  <2>1. /\ SlotFits(Status(slot[k], "expired")) /\ Status(slot[k], "expired").status = "expired"
    BY <1>1, StatusFacts DEF Terminal
  <2> QED BY <1>1, <2>1 DEF Retold, SlotFits, Waiting, Active
<1>3. slot' = [k \in SlotIds |-> e(k)] BY DEF ExpireInactive
<1> HIDE DEF e
<1>4. slot' \in [SlotIds -> SlotRecs] /\ \A k \in SlotIds : Retold(k, slot'[k])
  BY <1>2, <1>3
<1>5. SlotsInv' /\ SlotsGrow BY <1>4, SlotsRetold DEF EmotionInv, RowsInv
<1>6. TasksInv' BY <1>5, TasksStay DEF ExpireInactive, EmotionInv, RowsInv
<1> QED BY <1>2, <1>3, <1>5, <1>6, ScansKeep, NowFacts DEF ExpireInactive, discVars

\* What is left of a slot that is not due.
OlderRow(k) ==
  LET aged == Aged(slot[k], k, Current) IN
  IF k < Current /\ aged.status = "none" THEN [aged EXCEPT !.status = "skipped"] ELSE aged

\* The rows of a scan that is not kept waiting: older slots are over, the due
\* one is d, and there is no newer one.
LEMMA DueRows ==
  ASSUME SessionInv, EmotionInv, ClockGoesOn, ActiveAt(now), Current >= 1,
         ~Blocked([k \in SlotIds |-> Aged(slot[k], k, Current)], Current),
         NEW d, SlotFits(d), d.status # "none", d.status = "sent" => slot[Current].status = "sent",
         slot' = [k \in SlotIds |-> slot'[k]],
         \A k \in SlotIds : slot'[k] = IF k = Current THEN d ELSE OlderRow(k)
  PROVE  /\ SlotsInv' /\ SlotsGrow /\ slot'[Current].status # "none"
         /\ \A k \in SlotIds : slot'[k].status = "sent" => slot[k].status = "sent"
<1>1. /\ slot \in [SlotIds -> SlotRecs]
      /\ \A k \in SlotIds : SlotFits(slot[k]) /\ (slot[k].status # "none" => Reached(k))
  BY DEF EmotionInv, RowsInv, SlotsInv
<1>2. scenario.mode = "emotion" /\ runtime[Here].deadline # 0
  <2>1. scenario.mode = "emotion" /\ runtime[Here].status = "running" BY DEF ActiveAt
  <2>2. Here \in Groups BY <2>1, HereFacts
  <2> QED BY <2>1, <2>2 DEF SessionInv, RuntimesInv, RuntimeFits
<1>3. /\ Current \in SlotIds /\ Current \in Nat
      /\ \A k \in SlotIds : Scheduled(k) <= now <=> k <= Current
  BY <1>2, CurrentFacts DEF EmotionInv
<1>4. \A k \in SlotIds : k \in Int BY DEF SlotIds
<1> DEFINE c == Current
           aged == [k \in SlotIds |-> Aged(slot[k], k, c)]
           skipped(k) == [aged[k] EXCEPT !.status = "skipped"]
<1>5. ASSUME NEW k \in SlotIds
      PROVE  /\ SlotFits(aged[k])
             /\ aged[k].status = "none" <=> slot[k].status = "none"
             /\ aged[k].status = "sent" => slot[k].status = "sent"
             /\ k < c => aged[k].status \notin Active
             /\ k > c => aged[k].status = "none"
  <2>1. aged[k] = Aged(slot[k], k, Current) BY <1>5
  <2>2. aged[k].status # "running" \/ ~(k < c) BY DEF Blocked
  <2> HIDE DEF aged
  <2>3. SlotFits(slot[k]) /\ (k > c => slot[k].status = "none") BY <1>1, <1>3, <1>4 DEF Reached
  <2> QED BY <1>3, <1>4, <2>1, <2>2, <2>3, AgedFacts
<1>6. ASSUME NEW k \in SlotIds, aged[k].status = "none"
      PROVE  SlotFits(skipped(k)) /\ skipped(k).status = "skipped"
  <2>1. aged[k] = NewSlot BY <1>5, <1>6 DEF SlotFits
  <2>2. NewSlot \in SlotRecs BY NewFits DEF SlotFits
  <2>3. /\ [NewSlot EXCEPT !.status = "skipped"].status = "skipped"
        /\ SlotFits([NewSlot EXCEPT !.status = "skipped"])
    BY <2>2 DEF SlotFits, NewSlot, SlotRecs, Statuses, Active, Terminal
  <2> QED BY <2>1, <2>3
<1> DEFINE row(k) == IF k = c THEN d ELSE IF k < c /\ aged[k].status = "none" THEN skipped(k)
                     ELSE aged[k]
<1>7. slot' = [k \in SlotIds |-> slot'[k]] /\ \A k \in SlotIds : slot'[k] = row(k)
  BY DEF OlderRow
<1> HIDE DEF aged
<1> HIDE DEF skipped
<1>8. ASSUME NEW k \in SlotIds
      PROVE  /\ SlotFits(row(k))
             /\ k > c => row(k).status = "none"
             /\ slot[k].status # "none" => row(k).status # "none"
             /\ row(k).status \in Active => k = c
             /\ row(k).status = "sent" => slot[k].status = "sent"
  <2>1. CASE k = c BY <1>3, <1>4, <2>1
  <2>2. CASE k < c /\ aged[k].status = "none" BY <1>3, <1>4, <1>6, <2>2 DEF Active
  <2>3. CASE k < c /\ aged[k].status # "none" BY <1>3, <1>4, <1>5, <2>3
  <2>4. CASE k > c BY <1>3, <1>4, <1>5, <2>4 DEF Active
  <2> QED BY <1>3, <1>4, <2>1, <2>2, <2>3, <2>4
<1> HIDE DEF row
<1>9. ASSUME NEW k \in SlotIds
      PROVE  SlotFits(slot[k])' /\ (slot'[k].status # "none" => Reached(k)')
  <2>1. slot'[k] = row(k) BY <1>7
  <2>2. SlotFits(slot'[k]) BY <1>8, <2>1
  <2>3. slot'[k].status # "none" => Reached(k) BY <1>2, <1>3, <1>4, <1>8, <2>1 DEF Reached
  <2>4. SlotFits(slot[k])' BY <2>2 DEF SlotFits
  <2> QED BY <2>3, <2>4, ReachedStays
<1>10. slot' \in [SlotIds -> SlotRecs] BY <1>7, <1>8 DEF SlotFits
<1>11. \A j, k \in SlotIds : slot'[j].status \in Active /\ slot'[k].status \in Active => j = k
  BY <1>7, <1>8
<1>12. SlotsInv' BY <1>9, <1>10, <1>11 DEF SlotsInv, Active
<1> QED BY <1>3, <1>7, <1>8, <1>12 DEF SlotsGrow, row

LEMMA ScanDueInv ==
  ASSUME SessionInv, EmotionInv, ClockGoesOn, ScanDue PROVE RowsInv'
<1> DEFINE c == Current
           aged == [k \in SlotIds |-> Aged(slot[k], k, c)]
           due == Revived(aged[c])
           older(k) == IF k < c /\ aged[k].status = "none" THEN [aged[k] EXCEPT !.status = "skipped"]
                       ELSE aged[k]
           ready == IF Ready(due) THEN [due EXCEPT !.enqueued = now] ELSE due
           rows == [k \in SlotIds |-> IF k = c THEN ready ELSE older(k)]
           gone == [Status(due, "failed") EXCEPT !.retry = now + RetryDelay]
<1>1. /\ slot \in [SlotIds -> SlotRecs] /\ \A k \in SlotIds : SlotFits(slot[k])
      /\ TasksInv /\ SlotsInv
  BY DEF EmotionInv, RowsInv, SlotsInv
<1>2. ActiveAt(now) /\ c >= 1 /\ UNCHANGED <<now, runs, said, agent, lost>> BY DEF ScanDue
<1>3. c \in SlotIds /\ \A k \in SlotIds : k \in Int /\ c \in Int
  <2>1. scenario.mode = "emotion" /\ runtime[Here].status = "running" BY <1>2 DEF ActiveAt
  <2>2. Here \in Groups BY <2>1, HereFacts
  <2>3. runtime[Here].deadline # 0 BY <2>1, <2>2 DEF SessionInv, RuntimesInv, RuntimeFits
  <2> QED BY <1>2, <2>1, <2>3, CurrentFacts DEF EmotionInv, SlotIds
<1>4. ASSUME NEW k \in SlotIds
      PROVE  /\ Retold(k, aged[k]) /\ aged[k] \in SlotRecs /\ SlotFits(aged[k])
             /\ aged[k].status = "sent" => slot[k].status = "sent"
  BY <1>1, <1>3, AgedFacts DEF Retold, SlotFits
<1>5. /\ SlotFits(due) /\ due.status # "none" /\ (due.status = "sent" => slot[c].status = "sent")
  BY <1>3, <1>4, RevivedFacts
<1>6. CASE Blocked(aged, c)
  <2>1. slot' = aged /\ UNCHANGED task BY <1>6 DEF ScanDue
  <2>2. SlotsInv' /\ SlotsGrow BY <1>1, <1>4, <2>1, SlotsRetold
  <2>3. TasksInv' BY <1>1, <2>1, <2>2, TasksStay
  <2> QED BY <1>2, <1>4, <2>1, <2>2, <2>3, ScansKeep, NowFacts
<1>7. CASE ~Blocked(aged, c)
  <2> HIDE DEF due, aged
  <2>1. SlotFits(ready) /\ ready.status = due.status
    BY <1>5, NowFacts DEF SlotFits, SlotRecs, Ready, Terminal, Statuses
  <2>2. SlotFits(gone) /\ gone.status = "failed"
    <3>1. SlotFits(Status(due, "failed")) /\ Status(due, "failed").status = "failed"
      BY <1>5, StatusFacts
    <3>2. now + RetryDelay \in Times BY NowFacts, Parameters DEF Times
    <3> QED BY <3>1, <3>2 DEF SlotFits, SlotRecs, Terminal
  <2>3. /\ UNCHANGED task \/ Enqueue(c)
        /\ slot' = rows \/ slot' = [rows EXCEPT ![c] = gone]
    BY <1>7 DEF ScanDue, due, aged
  <2> HIDE DEF ready, gone, older
  <2>4. PICK d \in {ready, gone} : slot' = [k \in SlotIds |-> IF k = c THEN d ELSE older(k)]
    BY <1>3, <2>3
  <2>5. SlotFits(d) /\ d.status # "none" /\ (d.status = "sent" => slot[c].status = "sent")
    BY <1>5, <2>1, <2>2, <2>4
  <2>6. slot' = [k \in SlotIds |-> slot'[k]] BY <2>4
  <2>7. \A k \in SlotIds : slot'[k] = IF k = c THEN d ELSE OlderRow(k)
    BY <2>4 DEF older, aged, OlderRow
  <2>8. /\ SlotsInv' /\ SlotsGrow /\ slot'[c].status # "none"
        /\ \A k \in SlotIds : slot'[k].status = "sent" => slot[k].status = "sent"
    BY <1>2, <1>7, <2>5, <2>6, <2>7, DueRows DEF aged
  <2>9. TasksInv'
    <3>1. CASE UNCHANGED task BY <1>1, <2>8, <3>1, TasksStay
    <3>2. CASE Enqueue(c)
      <4>1. task[c] \in 0..MaxTasks BY <1>1, <1>3 DEF TasksInv
      <4>2. Min({MaxTasks, task[c] + 1}) \in 0..MaxTasks
        <5>1. MaxTasks \in Nat /\ task[c] + 1 \in Nat BY <4>1, Parameters
        <5>2. ASSUME NEW n \in Nat PROVE Min({MaxTasks, n}) \in 0..MaxTasks
          <6>1. Min({MaxTasks, n}) \in {MaxTasks, n} /\ Min({MaxTasks, n}) <= MaxTasks
            BY <5>1, MinFacts
          <6> QED BY <5>1, <6>1
        <5>3. \A n : n = task[c] + 1 => Min({MaxTasks, n}) \in 0..MaxTasks BY <5>1, <5>2
        <5> QED BY <5>3
      <4>3. task' = [task EXCEPT ![c] = Min({MaxTasks, task[c] + 1})] BY <3>2 DEF Enqueue
      <4> QED BY <1>1, <1>3, <2>8, <4>2, <4>3 DEF TasksInv, SlotsGrow
    <3> QED BY <2>3, <3>1, <3>2
  <2> QED BY <1>2, <2>8, <2>9, ScansKeep, NowFacts
<1> QED BY <1>6, <1>7

-----------------------------------------------------------------------------
(* The workers.                                                              *)

\* What a worker that is not idle knows of its slot.
LEMMA AgentFacts ==
  ASSUME EmotionInv, NEW w \in Agents, agent[w].pc # "idle"
  PROVE  /\ agent[w] \in AgentRecs /\ AgentFits(agent[w])
         /\ agent[w].slot \in SlotIds /\ agent[w].at \in Nat /\ agent[w].at <= now
         /\ SlotFits(slot[agent[w].slot]) /\ slot[agent[w].slot].status # "none"
         /\ Reached(agent[w].slot)
<1>1. agent[w] \in AgentRecs /\ AgentFits(agent[w]) BY DEF EmotionInv, RowsInv, AgentsInv
<1>2. agent[w].at \in Nat BY <1>1 DEF AgentRecs
<1>3. /\ agent[w].slot \in SlotIds /\ agent[w].at <= now /\ slot[agent[w].slot].status # "none"
  BY <1>1 DEF AgentFits
<1> QED BY <1>1, <1>2, <1>3 DEF EmotionInv, RowsInv, SlotsInv

LEMMA Claims ==
  ASSUME SessionInv, EmotionInv, ClockGoesOn, NEW w \in Agents, Claim(w) PROVE RowsInv'
<1>1. PICK k \in SlotIds :
       /\ task[k] > 0
       /\ task' = [task EXCEPT ![k] = @ - 1]
       /\ IF slot[k].status = "pending" /\ slot[k].tries < MaxTries
          THEN /\ slot' = [slot EXCEPT ![k].status = "running", ![k].started = now,
                                       ![k].enqueued = Never, ![k].retry = Never]
               /\ agent' = [agent EXCEPT ![w] =
                    [pc |-> "check", slot |-> k, run |-> 0, at |-> now, outcome |-> "none"]]
          ELSE UNCHANGED <<slot, agent>>
  BY DEF Claim
<1>2. now' = now /\ now \in Nat /\ UNCHANGED <<runs, said, lost>>
  BY NowFacts DEF Claim, discVars
<1>3. /\ slot \in [SlotIds -> SlotRecs] /\ SlotFits(slot[k])
      /\ TasksInv /\ SlotsInv /\ SaidInv /\ RunsInv /\ AgentsInv
  BY DEF EmotionInv, RowsInv, SlotsInv
<1> DEFINE s == [slot[k] EXCEPT !.status = "running", !.started = now, !.enqueued = Never, !.retry = Never]
           a == [pc |-> "check", slot |-> k, run |-> 0, at |-> now, outcome |-> "none"]
<1>4. /\ SlotsInv' /\ SlotsGrow
      /\ \A j \in SlotIds : slot'[j].status = "sent" => slot[j].status = "sent"
      /\ UNCHANGED agent \/ agent' = [agent EXCEPT ![w] = a]
  <2>1. CASE UNCHANGED <<slot, agent>> BY <1>3, <2>1, SlotsStay
  <2>2. CASE slot[k].status = "pending" /\ slot[k].tries < MaxTries
    <3>1. s \in SlotRecs /\ s.status = "running" /\ s.enqueued = Never /\ s.retry = Never
      BY <1>3, NowFacts DEF SlotRecs, Statuses, Active
    <3>2. slot' = [slot EXCEPT ![k] = s] BY <1>1, <1>3, <2>2
    <3> HIDE DEF s
    <3>3. Retold(k, s) BY <2>2, <3>1 DEF Retold, SlotFits, Active
    <3>4. /\ SlotsInv' /\ SlotsGrow /\ slot'[k] = s
          /\ \A j \in SlotIds \ {k} : slot'[j] = slot[j]
      BY <1>3, <3>2, <3>3, OneRetold
    <3> QED BY <1>1, <2>2, <3>1, <3>4
  <2> QED BY <1>1, <2>1, <2>2
<1>5. SaidInv' /\ SaidGrows BY <1>2, <1>3, <1>4, SaidStays
<1>6. RunsInv' BY <1>2, <1>3, RunsStay
<1>7. TasksInv'
  <2>1. task[k] \in 0..MaxTasks /\ task[k] - 1 \in 0..MaxTasks BY <1>1, <1>3, Parameters DEF TasksInv
  <2>2. task' \in [SlotIds -> 0..MaxTasks] BY <1>1, <1>3, <2>1 DEF TasksInv
  <2>3. \A j \in SlotIds : task'[j] > 0 => task[j] > 0 BY <1>1, <1>3, <2>1 DEF TasksInv
  <2> QED BY <1>3, <1>4, <2>2, <2>3 DEF TasksInv, SlotsGrow
<1>8. AgentsInv'
  <2>1. CASE UNCHANGED agent BY <1>2, <1>3, <1>4, <1>5, <2>1, AgentsStay
  <2>2. CASE agent' = [agent EXCEPT ![w] = a]
    <3>1. slot'[k].status # "none" BY <1>1, <1>3, <1>4 DEF TasksInv, SlotsGrow
    <3>2. FitsNext(a) BY <1>2, <3>1 DEF FitsNext, AgentRecs, Outcomes
    <3>3. lost' \in BOOLEAN BY <1>2, <1>3 DEF AgentsInv
    <3> HIDE DEF a
    <3> QED BY <1>2, <1>3, <1>4, <1>5, <2>2, <3>2, <3>3, AgentReplaced
  <2> QED BY <1>4, <2>1, <2>2
<1> QED BY <1>4, <1>5, <1>6, <1>7, <1>8 DEF RowsInv

\* A worker goes on to pc.
LEMMA StepFits ==
  ASSUME EmotionInv, SlotsGrow, SaidGrows, now \in Nat, now' = now, lost' \in BOOLEAN,
         NEW w \in Agents, agent[w].pc # "idle", Step(w, "generate")
  PROVE  AgentsInv'
<1> DEFINE a == [agent[w] EXCEPT !.pc = "generate"]
<1>1. /\ agent[w] \in AgentRecs /\ agent[w].slot \in SlotIds /\ agent[w].at <= now
      /\ slot[agent[w].slot].status # "none" /\ AgentsInv
  BY AgentFacts DEF EmotionInv, RowsInv
<1>2. a \in AgentRecs /\ a.pc = "generate" /\ a.slot = agent[w].slot /\ a.at = agent[w].at
  BY <1>1 DEF AgentRecs
<1>3. agent' = [agent EXCEPT ![w] = a] BY <1>1 DEF Step, AgentsInv
<1> HIDE DEF a
<1>4. FitsNext(a) BY <1>1, <1>2 DEF FitsNext, SlotsGrow
<1> QED BY <1>1, <1>3, <1>4, AgentReplaced

LEMMA Checks ==
  ASSUME SessionInv, EmotionInv, ClockGoesOn, NEW w \in Agents, Check(w) PROVE RowsInv'
<1> DEFINE k == agent[w].slot
           s == [slot[k] EXCEPT !.tries = @ + 1]
<1>1. /\ agent[w].pc # "idle" /\ k \in SlotIds /\ SlotFits(slot[k]) /\ slot[k].status # "none"
      /\ TasksInv /\ SlotsInv /\ SaidInv /\ RunsInv /\ AgentsInv
  BY AgentFacts DEF Check, EmotionInv, RowsInv
<1>2. now' = now /\ now \in Nat /\ UNCHANGED <<runs, said, task, lost>>
  BY NowFacts DEF Check, discVars
<1>3. \/ UNCHANGED slot /\ \E outcome \in {"expired", "superseded", "dead"} : Conclude(w, outcome)
      \/ /\ slot[k].tries < MaxTries /\ slot' = [slot EXCEPT ![k].tries = @ + 1]
         /\ Step(w, "generate")
  BY DEF Check
<1>4. /\ SlotsInv' /\ SlotsGrow
      /\ \A j \in SlotIds : slot'[j].status = "sent" => slot[j].status = "sent"
  <2>1. CASE UNCHANGED slot BY <1>1, <2>1, SlotsStay
  <2>2. CASE slot[k].tries < MaxTries /\ slot' = [slot EXCEPT ![k].tries = @ + 1]
    <3>1. slot[k] \in SlotRecs /\ slot[k].tries + 1 \in 0..MaxTries
      BY <1>1, <2>2, Parameters DEF SlotFits, SlotRecs
    <3>2. s \in SlotRecs /\ s.status = slot[k].status /\ s.enqueued = slot[k].enqueued
          /\ s.retry = slot[k].retry
      BY <3>1 DEF SlotRecs
    <3>3. slot' = [slot EXCEPT ![k] = s] BY <1>1, <2>2 DEF SlotsInv
    <3> HIDE DEF s
    <3>4. Retold(k, s) BY <1>1, <3>2 DEF Retold, SlotFits
    <3>5. /\ SlotsInv' /\ SlotsGrow /\ slot'[k] = s
          /\ \A j \in SlotIds \ {k} : slot'[j] = slot[j]
      BY <1>1, <3>3, <3>4, OneRetold
    <3> QED BY <3>2, <3>5
  <2> QED BY <1>3, <2>1, <2>2
<1>5. SaidInv' /\ SaidGrows BY <1>1, <1>2, <1>4, SaidStays
<1>6. RunsInv' /\ TasksInv' BY <1>1, <1>2, <1>4, RunsStay, TasksStay
<1>7. lost' \in BOOLEAN BY <1>1, <1>2 DEF AgentsInv
<1>8. AgentsInv'
  <2>1. ASSUME NEW outcome \in {"expired", "superseded", "dead"}, Conclude(w, outcome)
        PROVE  AgentsInv'
    BY <1>1, <1>2, <1>4, <1>5, <1>7, <2>1, ConcludeFits DEF Outcomes, Turns
  <2>2. CASE Step(w, "generate") BY <1>1, <1>2, <1>4, <1>5, <1>7, <2>2, StepFits
  <2> QED BY <1>3, <2>1, <2>2
<1> QED BY <1>4, <1>5, <1>6, <1>8 DEF RowsInv

\* A worker that is not at the end leaves slots and messages alone.
LEMMA SlotsKept ==
  ASSUME SessionInv, EmotionInv, ClockGoesOn, UNCHANGED <<slot, task, said>>
  PROVE  SlotsInv' /\ SlotsGrow /\ TasksInv' /\ SaidInv' /\ SaidGrows
<1>1. SlotsInv' /\ SlotsGrow BY SlotsStay DEF EmotionInv, RowsInv
<1>2. TasksInv' BY <1>1, TasksStay DEF EmotionInv, RowsInv
<1>3. SaidInv' /\ SaidGrows BY <1>1, SaidStays DEF EmotionInv, RowsInv
<1> QED BY <1>1, <1>2, <1>3

\* The run that is not over, or the next.
LEMMA RunForFacts ==
  ASSUME RunsInv, NEW k \in SlotIds
  PROVE  /\ RunFor(k) \in 1..(Len(runs[k]) + 1)
         /\ RunFor(k) > Len(runs[k]) => \A i \in 1..Len(runs[k]) : runs[k][i] \in Over
<1> DEFINE open == {i \in 1..Len(runs[k]) : runs[k][i] \notin Over}
<1>1. Len(runs[k]) \in Nat BY DEF RunsInv
<1>2. CASE open = {}
  <2>1. RunFor(k) = Len(runs[k]) + 1 BY <1>2 DEF RunFor
  <2> QED BY <1>1, <1>2, <2>1
<1>3. CASE open # {}
  <2>1. PICK i \in open : TRUE BY <1>3
  <2>2. open = {i} BY <2>1 DEF RunsInv
  <2>3. i \in 1..Len(runs[k]) BY <2>1
  <2>4. RunFor(k) = Max({i}) BY <1>3, <2>2 DEF RunFor
  <2>5. Max({i}) = i
    <3>1. \E x \in {i} : \A y \in {i} : x >= y BY <2>3
    <3> QED BY <3>1 DEF Max
  <2> QED BY <1>1, <2>3, <2>4, <2>5
<1> QED BY <1>2, <1>3

LEMMA Generates ==
  ASSUME SessionInv, EmotionInv, ClockGoesOn, NEW w \in Agents, Generate(w) PROVE RowsInv'
<1> DEFINE k == agent[w].slot
           a == [agent[w] EXCEPT !.pc = "publish", !.run = RunFor(k)]
<1>1. /\ agent[w].pc # "idle" /\ k \in SlotIds /\ agent[w] \in AgentRecs /\ agent[w].at <= now
      /\ slot[k].status # "none" /\ RunsInv /\ AgentsInv
  BY AgentFacts DEF Generate, EmotionInv, RowsInv
<1>2. now' = now /\ now \in Nat /\ UNCHANGED <<slot, task, said, lost>> /\ lost' \in BOOLEAN
  BY <1>1, NowFacts DEF Generate, AgentsInv
<1>3. SlotsInv' /\ SlotsGrow /\ TasksInv' /\ SaidInv' /\ SaidGrows BY <1>2, SlotsKept
<1>4. RunFor(k) \in 1..(Len(runs[k]) + 1) /\ Len(runs[k]) \in Nat
  BY <1>1, RunForFacts DEF RunsInv
<1>5. \/ /\ agent' = [agent EXCEPT ![w].pc = "publish", ![w].run = RunFor(k)]
         /\ runs' = IF RunFor(k) > Len(runs[k]) THEN [runs EXCEPT ![k] = Append(@, "PENDING")]
                    ELSE runs
      \/ /\ UNCHANGED runs
         /\ \E outcome \in {"failed", "dead"} : Turns(w, outcome)
  BY DEF Generate, Turns
<1>6. AgentsInv'
  <2>1. ASSUME NEW outcome \in {"failed", "dead"}, Turns(w, outcome) PROVE AgentsInv'
    BY <1>1, <1>2, <1>3, <2>1, ConcludeFits DEF Outcomes
  <2>2. CASE agent' = [agent EXCEPT ![w].pc = "publish", ![w].run = RunFor(k)]
    <3>0. RunFor(k) \in Nat BY <1>4
    <3>1. a \in AgentRecs /\ a.pc = "publish" /\ a.slot = k /\ a.at = agent[w].at
      BY <1>1, <3>0 DEF AgentRecs
    <3>2. agent' = [agent EXCEPT ![w] = a] BY <1>1, <2>2 DEF AgentsInv
    <3> HIDE DEF a
    <3>3. FitsNext(a) BY <1>1, <1>2, <3>1 DEF FitsNext
    <3> QED BY <1>1, <1>2, <1>3, <3>2, <3>3, AgentReplaced
  <2> QED BY <1>5, <2>1, <2>2
<1>7. RunsInv'
  <2>1. CASE UNCHANGED runs BY <1>1, <2>1, RunsStay
  <2>2. CASE RunFor(k) > Len(runs[k]) /\ runs' = [runs EXCEPT ![k] = Append(@, "PENDING")]
    <3>1. \A i \in 1..Len(runs[k]) : runs[k][i] \in Over BY <1>1, <2>2, RunForFacts
    <3>2. runs \in [SlotIds -> Seq(RunStates)] /\ runs[k] \in Seq(RunStates) BY <1>1 DEF RunsInv
    <3> DEFINE rs == Append(runs[k], "PENDING")
    <3>3. /\ rs \in Seq(RunStates) /\ Len(rs) = Len(runs[k]) + 1
          /\ \A i \in 1..Len(runs[k]) : rs[i] = runs[k][i]
      BY <3>2 DEF RunStates
    <3>4. runs' = [runs EXCEPT ![k] = rs] BY <2>2
    <3> HIDE DEF rs
    <3>5. runs' \in [SlotIds -> Seq(RunStates)] /\ runs'[k] = rs BY <1>1, <3>2, <3>3, <3>4
    <3>6. \A j \in SlotIds \ {k} : runs'[j] = runs[j] BY <3>2, <3>4
    <3>7. ASSUME NEW i \in 1..Len(rs), rs[i] \notin Over PROVE i = Len(rs)
      <4>1. i \notin 1..Len(runs[k]) BY <3>1, <3>3, <3>7
      <4> QED BY <1>4, <3>3, <4>1
    <3>8. \A j \in SlotIds : \A i, l \in 1..Len(runs'[j]) :
            runs'[j][i] \notin Over /\ runs'[j][l] \notin Over => i = l
      BY <1>1, <3>5, <3>6, <3>7 DEF RunsInv
    <3> QED BY <3>5, <3>8 DEF RunsInv
  <2> QED BY <1>5, <2>1, <2>2
<1> QED BY <1>3, <1>6, <1>7 DEF RowsInv

\* One run of a slot takes a state; one that is taken up again is the only one.
LEMMA RunRetold ==
  ASSUME RunsInv, NEW k \in SlotIds, NEW i, NEW state \in RunStates,
         state \in Over \/ ~Rival(k, i),
         runs' = [runs EXCEPT ![k] = [@ EXCEPT ![i] = state]]
  PROVE  RunsInv'
<1> DEFINE rs == [runs[k] EXCEPT ![i] = state]
<1>1. runs \in [SlotIds -> Seq(RunStates)] /\ runs[k] \in Seq(RunStates) BY DEF RunsInv
<1>2. /\ rs \in Seq(RunStates) /\ Len(rs) = Len(runs[k])
      /\ \A j \in 1..Len(runs[k]) : rs[j] = IF j = i THEN state ELSE runs[k][j]
  <2>1. CASE i \in 1..Len(runs[k]) BY <1>1, <2>1, ExceptSeq
  <2>2. CASE i \notin 1..Len(runs[k])
    <3>1. rs = runs[k] BY <1>1, <2>2
    <3> HIDE DEF rs
    <3> QED BY <1>1, <2>2, <3>1
  <2> QED BY <2>1, <2>2
<1>3. runs' = [runs EXCEPT ![k] = rs] OBVIOUS
<1> HIDE DEF rs
<1>4. /\ runs' \in [SlotIds -> Seq(RunStates)] /\ runs'[k] = rs
      /\ \A j \in SlotIds \ {k} : runs'[j] = runs[j]
  BY <1>1, <1>2, <1>3
<1>5. ASSUME NEW j \in 1..Len(rs), NEW l \in 1..Len(rs), rs[j] \notin Over, rs[l] \notin Over
      PROVE  j = l
  BY <1>2, <1>5 DEF RunsInv, Rival
<1>6. \A h \in SlotIds : \A j, l \in 1..Len(runs'[h]) :
        runs'[h][j] \notin Over /\ runs'[h][l] \notin Over => j = l
  BY <1>4, <1>5 DEF RunsInv
<1> QED BY <1>4, <1>6 DEF RunsInv

\* A message that passes the gate is an interval after those of the other slots.
LEMMA SaysNow ==
  ASSUME SessionInv, EmotionInv, NEW k \in SlotIds, slot[k].status # "none", ~Spoken(k), Objection(k) = "none",
         said' = [said EXCEPT ![k] = Append(@, now)], UNCHANGED slot
  PROVE  SaidInv' /\ SaidGrows /\ said'[k] # << >>
<1>1. /\ said \in [SlotIds -> Seq(0..MaxTime)] /\ SaidInv /\ now \in 0..MaxTime /\ said[k] = << >>
  BY NowFacts DEF EmotionInv, RowsInv, SaidInv, Spoken
<1>2. ~Newer(k) /\ ~Recent(k) BY DEF Objection
<1>3. \A j \in SlotIds \ {k} : \A i \in 1..Len(said[j]) : said[j][i] + Interval <= now
  <2>1. ASSUME NEW j \in SlotIds \ {k}, NEW i \in 1..Len(said[j])
        PROVE  said[j][i] + Interval <= now
    <3>0. said[j] \in Seq(0..MaxTime) BY <1>1
    <3>1. said[j][i] \in 0..MaxTime BY <3>0, ElementOfSeq
    <3>2. ~(said[j][i] > now - Interval) BY <1>2 DEF Recent
    <3>3. \A t \in Int : ~(t > now - Interval) => t + Interval <= now BY <1>1, Parameters
    <3>4. said[j][i] \in Int BY <3>1, Parameters
    <3> QED BY <3>2, <3>3, <3>4
  <2> QED BY <2>1
<1>4. \A j \in SlotIds : j > k => said[j] = << >> BY <1>1, <1>2 DEF Newer, SaidInv
<1> DEFINE m == Append(said[k], now)
<1>5. m \in Seq(0..MaxTime) /\ Len(m) = 1 /\ m[1] = now /\ m # << >> BY <1>1
<1>6. said' = [said EXCEPT ![k] = m] OBVIOUS
<1> HIDE DEF m
<1>7. /\ said' \in [SlotIds -> Seq(0..MaxTime)] /\ said'[k] = m
      /\ \A j \in SlotIds \ {k} : said'[j] = said[j]
  BY <1>1, <1>5, <1>6
<1>8. Cadence'
  <2>1. SUFFICES ASSUME NEW j \in SlotIds, NEW l \in SlotIds, j < l,
                        NEW a \in 1..Len(said'[j]), NEW b \in 1..Len(said'[l])
                 PROVE  said'[j][a] + Interval <= said'[l][b]
    BY DEF Cadence
  <2>2. CASE l = k
    <3>1. j \in SlotIds \ {k} BY <2>1, <2>2 DEF SlotIds
    <3>2. said'[j] = said[j] /\ said'[l][b] = now BY <1>5, <1>7, <2>2, <3>1
    <3> QED BY <1>3, <3>1, <3>2
  <2>3. CASE j = k
    <3>1. l \in SlotIds \ {k} /\ l > k BY <2>1, <2>3 DEF SlotIds
    <3>2. said'[l] = << >> BY <1>4, <1>7, <3>1
    <3> QED BY <3>2
  <2>4. CASE j # k /\ l # k BY <1>1, <1>7, <2>1, <2>4 DEF SaidInv, Cadence
  <2> QED BY <2>2, <2>3, <2>4
<1>9. \A j \in SlotIds : /\ Len(said'[j]) <= 1
                         /\ said'[j] # << >> => slot'[j].status # "none"
                         /\ slot'[j].status = "sent" => said'[j] # << >>
  BY <1>1, <1>5, <1>7 DEF SaidInv
<1> QED BY <1>5, <1>7, <1>8, <1>9 DEF SaidInv, SaidGrows

LEMMA Publishes ==
  ASSUME SessionInv, EmotionInv, ClockGoesOn, NEW w \in Agents, Publish(w) PROVE RowsInv'
<1> DEFINE k == agent[w].slot
           i == agent[w].run
           objection == Objection(k)
<1>1. /\ agent[w].pc # "idle" /\ k \in SlotIds /\ slot[k].status # "none" /\ RunsInv /\ AgentsInv
  BY AgentFacts DEF Publish, EmotionInv, RowsInv
<1>2. now' = now /\ now \in Nat /\ UNCHANGED <<slot, task, lost>> /\ lost' \in BOOLEAN
  BY <1>1, NowFacts DEF Publish, AgentsInv
<1>3. objection \in {"expired", "superseded", "deferred", "none"} BY DEF Objection
<1>4. CASE /\ Spoken(k) /\ UNCHANGED <<runs, said>>
           /\ \E outcome \in {"sent", "failed"} : Turns(w, outcome)
  <2>1. SlotsInv' /\ SlotsGrow /\ TasksInv' /\ SaidInv' /\ SaidGrows BY <1>2, <1>4, SlotsKept
  <2>2. said'[k] # << >> BY <1>4 DEF Spoken
  <2>3. AgentsInv' BY <1>1, <1>2, <1>4, <2>1, <2>2, ConcludeFits DEF Outcomes
  <2>4. RunsInv' BY <1>1, <1>4, RunsStay
  <2> QED BY <2>1, <2>3, <2>4 DEF RowsInv
<1>5. CASE /\ UNCHANGED said
           /\ \E outcome \in {"expired", "superseded", "deferred", "failed", "dead"} : Turns(w, outcome)
           /\ \/ UNCHANGED runs
              \/ \E state \in RunStates :
                   /\ state \in Over \/ ~Rival(k, i)
                   /\ runs' = [runs EXCEPT ![k] = [@ EXCEPT ![i] = state]]
  <2>1. SlotsInv' /\ SlotsGrow /\ TasksInv' /\ SaidInv' /\ SaidGrows BY <1>2, <1>5, SlotsKept
  <2>2. AgentsInv' BY <1>1, <1>2, <1>5, <2>1, ConcludeFits DEF Outcomes
  <2>3. RunsInv' BY <1>1, <1>5, RunsStay, RunRetold
  <2> QED BY <2>1, <2>2, <2>3 DEF RowsInv
<1>6. CASE /\ ~Spoken(k) /\ objection = "none" /\ ~Rival(k, i)
           /\ runs' = [runs EXCEPT ![k] = [@ EXCEPT ![i] = "PUBLISHED"]]
           /\ said' = [said EXCEPT ![k] = Append(@, now)]
           /\ Turns(w, "sent")
  <2>1. SaidInv' /\ SaidGrows /\ said'[k] # << >> BY <1>1, <1>2, <1>6, SaysNow
  <2>2. SlotsInv' /\ SlotsGrow BY <1>2, SlotsStay DEF EmotionInv, RowsInv
  <2>3. TasksInv' BY <1>2, <2>2, TasksStay DEF EmotionInv, RowsInv
  <2>4. AgentsInv' BY <1>1, <1>2, <1>6, <2>1, <2>2, ConcludeFits DEF Outcomes
  <2>5. "PUBLISHED" \in RunStates BY DEF RunStates
  <2>6. RunsInv' BY <1>1, <1>6, <2>5, RunRetold
  <2> QED BY <2>1, <2>2, <2>3, <2>4, <2>6 DEF RowsInv
<1>7. CASE Spoken(k) BY <1>4, <1>7 DEF Publish, Turns
<1>8. CASE ~Spoken(k)
  <2>1. \/ /\ objection # "none"
           /\ IF objection = "superseded" /\ Rival(k, i)
              THEN Turns(w, "dead") /\ UNCHANGED runs
              ELSE /\ runs' = [runs EXCEPT ![k][i] = RunStatus[objection]]
                   /\ Turns(w, objection)
           /\ UNCHANGED said
        \/ /\ objection = "none" /\ ~Rival(k, i)
           /\ runs' = [runs EXCEPT ![k][i] = "PUBLISHED"]
           /\ said' = [said EXCEPT ![k] = Append(@, now)]
           /\ Turns(w, "sent")
        \/ /\ runs' = [runs EXCEPT ![k][i] = "FAILED"]
           /\ Turns(w, "failed")
           /\ UNCHANGED said
    BY <1>3, <1>8 DEF Publish, Turns
  <2> HIDE DEF objection
  <2>2. CASE objection # "none" /\ Turns(w, "dead") /\ UNCHANGED <<runs, said>> BY <1>5, <2>2
  <2>3. CASE /\ objection # "none" /\ ~(objection = "superseded" /\ Rival(k, i))
             /\ runs' = [runs EXCEPT ![k][i] = RunStatus[objection]]
             /\ Turns(w, objection) /\ UNCHANGED said
    <3>1. RunStatus[objection] \in RunStates /\ (RunStatus[objection] \in Over \/ ~Rival(k, i))
      BY <1>3, <2>3 DEF RunStatus, RunStates, Over
    <3> QED BY <1>3, <1>5, <2>3, <3>1
  <2>4. CASE /\ objection = "none" /\ ~Rival(k, i)
             /\ runs' = [runs EXCEPT ![k][i] = "PUBLISHED"]
             /\ said' = [said EXCEPT ![k] = Append(@, now)]
             /\ Turns(w, "sent")
    BY <1>6, <1>8, <2>4
  <2>5. CASE /\ runs' = [runs EXCEPT ![k][i] = "FAILED"]
             /\ Turns(w, "failed") /\ UNCHANGED said
    <3>1. "FAILED" \in RunStates /\ "FAILED" \in Over BY DEF RunStates, Over
    <3> QED BY <1>5, <2>5, <3>1
  <2> QED BY <2>1, <2>2, <2>3, <2>4, <2>5
<1> QED BY <1>7, <1>8

LEMMA Settles ==
  ASSUME SessionInv, EmotionInv, ClockGoesOn, NEW w \in Agents, Settle(w) PROVE RowsInv'
<1> DEFINE k == agent[w].slot
           outcome == agent[w].outcome
           s == Marked(slot[k], k, agent[w].at, outcome)
<1>1. /\ agent[w].pc \in {"mark", "fail"} /\ k \in SlotIds /\ slot[k].status # "none" /\ SlotFits(slot[k])
      /\ agent[w].at \in Nat /\ agent[w].at <= now /\ Reached(k)
      /\ agent[w] \in AgentRecs /\ AgentFits(agent[w])
      /\ SlotsInv /\ SaidInv /\ TasksInv /\ RunsInv /\ AgentsInv /\ TimerInv
  BY AgentFacts DEF Settle, EmotionInv, RowsInv
<1>2. now' = now /\ now \in Nat /\ UNCHANGED <<runs, said, task, lost>> /\ lost' \in BOOLEAN
  BY <1>1, NowFacts DEF Settle, AgentsInv, discVars
<1>3. outcome \in Outcomes /\ (outcome = "sent" => said[k] # << >>)
  BY <1>1 DEF AgentFits, AgentRecs
<1>4. /\ SlotFits(s) /\ s.status # "none" /\ (s.status \in Active => slot[k].status \in Active)
      /\ s.status = "sent" => slot[k].status = "sent" \/ outcome = "sent"
  BY <1>1, <1>3, MarkedFacts
<1>5. slot' = [slot EXCEPT ![k] = s] BY <1>1 DEF Settle, SlotsInv
<1> HIDE DEF s
<1>6. Retold(k, s) BY <1>1, <1>4 DEF Retold
<1>7. SlotsInv' /\ SlotsGrow /\ slot'[k] = s /\ \A j \in SlotIds \ {k} : slot'[j] = slot[j]
  BY <1>1, <1>5, <1>6, OneRetold
<1>8. \A j \in SlotIds : slot'[j].status = "sent" => slot[j].status = "sent" \/ said[j] # << >>
  BY <1>3, <1>4, <1>7
<1>9. SaidInv' /\ SaidGrows BY <1>1, <1>2, <1>7, <1>8, SaidStays
<1>10. TasksInv' /\ RunsInv' BY <1>1, <1>2, <1>7, TasksStay, RunsStay
<1>11. AgentsInv' BY <1>1, <1>2, <1>7, <1>9, IdleFits, AgentReplaced DEF Settle
<1> QED BY <1>7, <1>9, <1>10, <1>11 DEF RowsInv

LEMMA Failures ==
  ASSUME SessionInv, EmotionInv, ClockGoesOn, NEW w \in Agents, MarkFails(w) \/ AgentDies(w)
  PROVE  RowsInv'
<1>1. agent[w].pc # "idle" /\ RunsInv /\ AgentsInv
  BY DEF MarkFails, AgentDies, EmotionInv, RowsInv
<1>2. now' = now /\ now \in Nat /\ UNCHANGED <<slot, task, said, runs>> /\ lost' \in BOOLEAN
  <2>1. now' = now /\ UNCHANGED <<slot, task, said, runs>> /\ (lost' = lost \/ lost' = TRUE)
    BY DEF MarkFails, AgentDies
  <2>2. lost \in BOOLEAN BY <1>1 DEF AgentsInv
  <2>3. lost' \in BOOLEAN BY <2>1, <2>2, Zenon
  <2> QED BY <2>1, <2>3, NowFacts
<1>3. SlotsInv' /\ SlotsGrow /\ TasksInv' /\ SaidInv' /\ SaidGrows BY <1>2, SlotsKept
<1>4. RunsInv' BY <1>1, <1>2, RunsStay
<1>5. \/ agent' = [agent EXCEPT ![w] = Idle]
      \/ \E outcome \in {"failed", "dead"} : Turns(w, outcome)
  BY DEF MarkFails, AgentDies, Turns
<1>6. AgentsInv'
  <2>1. CASE agent' = [agent EXCEPT ![w] = Idle]
    BY <1>1, <1>2, <1>3, <2>1, IdleFits, AgentReplaced
  <2>2. ASSUME NEW outcome \in {"failed", "dead"}, Turns(w, outcome) PROVE AgentsInv'
    BY <1>1, <1>2, <1>3, <2>2, ConcludeFits DEF Outcomes
  <2> QED BY <1>5, <2>1, <2>2
<1> QED BY <1>3, <1>4, <1>6 DEF RowsInv

-----------------------------------------------------------------------------
(* Every step.                                                               *)

LEMMA EmotionInvStart ==
  ASSUME SlotInit, SessionInv PROVE EmotionInv
<1>1. TimerInv
  <2>1. PICK s \in Scenarios :
      /\ scenario = s
      /\ runtime = [g \in Groups |-> IF s.begins = "discussing" /\ s.members[g] # {}
                                     THEN Discussing(s, g) ELSE NoRuntime]
    BY DEF SlotInit, DiscInit
  <2>2. s.limit \in Nat /\ now \in Nat BY <2>1, ScenarioFacts, NowFacts DEF SessionInv
  <2> QED BY <2>1, <2>2 DEF TimerInv, Discussing, NoRuntime
<1>2. /\ slot = [k \in SlotIds |-> NewSlot]
      /\ runs = [k \in SlotIds |-> << >>] /\ said = [k \in SlotIds |-> << >>]
      /\ task = [k \in SlotIds |-> 0] /\ agent = [w \in Agents |-> Idle] /\ lost = FALSE
  BY DEF SlotInit
<1>3. NewSlot \in SlotRecs /\ NewSlot.status = "none" BY NewFits DEF SlotFits, NewSlot
<1>4. SlotsInv BY <1>2, <1>3, NewFits DEF SlotsInv, Active
<1>5. TasksInv BY <1>2, Parameters DEF TasksInv
<1>6. << >> \in Seq(0..MaxTime) /\ << >> \in Seq(RunStates) /\ Len(<< >>) = 0 OBVIOUS
<1>7. SaidInv BY <1>2, <1>3, <1>6 DEF SaidInv, Cadence
<1>8. RunsInv BY <1>2, <1>6 DEF RunsInv
<1>9. AgentsInv BY <1>2 DEF AgentsInv, AgentFits, AgentRecs, Idle, Outcomes
<1> QED BY <1>1, <1>4, <1>5, <1>7, <1>8, <1>9 DEF EmotionInv, RowsInv

LEMMA EmotionInvStep ==
  ASSUME SessionInv, SessionInv', EmotionInv, [SlotNext]_vars PROVE EmotionInv'
<1>1. TimerInv' BY TimerStep DEF EmotionInv
<1>2. ClockGoesOn BY ClockStep
<1>3. CASE UNCHANGED slotVars
  <2>1. SlotsInv' /\ SlotsGrow /\ TasksInv' /\ SaidInv' /\ SaidGrows
    BY <1>2, <1>3, SlotsKept DEF slotVars
  <2>2. RunsInv' BY <1>3, RunsStay DEF slotVars, EmotionInv, RowsInv
  <2>3. AgentsInv'
    BY <1>2, <1>3, <2>1, AgentsStay DEF slotVars, EmotionInv, RowsInv, ClockGoesOn
  <2> QED BY <1>1, <2>1, <2>2, <2>3 DEF EmotionInv, RowsInv
<1>4. CASE ScanSlots BY <1>1, <1>2, <1>4, ScanDueInv, ExpireInactiveInv DEF ScanSlots, EmotionInv
<1>5. ASSUME NEW w \in Agents, Execute(w) \/ MarkFails(w) \/ AgentDies(w) PROVE EmotionInv'
  BY <1>1, <1>2, <1>5, Claims, Checks, Generates, Publishes, Settles, Failures
     DEF Execute, EmotionInv
<1> QED BY <1>3, <1>4, <1>5 DEF SlotNext, vars

LEMMA EmotionAlways == SlotSpec => [](SessionInv /\ EmotionInv)
<1>1. SlotInit => SessionInv /\ EmotionInv BY SessionInvStart, EmotionInvStart DEF SlotInit
<1>2. SessionInv /\ EmotionInv /\ [SlotNext]_vars => (SessionInv /\ EmotionInv)'
  BY DiscussionSteps, SessionInvStep, EmotionInvStep
<1> QED BY <1>1, <1>2, PTL DEF SlotSpec

-----------------------------------------------------------------------------
(* The theorems.                                                             *)

\* Types of slots, runs and tasks; a slot that is over or at work waits for
\* nothing (_terminal_update(), claim_slot()).
THEOREM EmotionTyped == SlotSpec => []EmotionTypeOK
<1>1. ASSUME EmotionInv PROVE EmotionTypeOK
  <2>1. \A k \in SlotIds : \A i \in 1..Len(runs[k]) : runs[k][i] \in RunStates
    BY <1>1 DEF EmotionInv, RowsInv, RunsInv
  <2>2. \A w \in Agents :
          /\ agent[w].pc \in {"idle", "check", "generate", "publish", "mark", "fail"}
          /\ agent[w].pc # "idle" => agent[w].slot \in SlotIds /\ agent[w].at <= now
    BY <1>1 DEF EmotionInv, RowsInv, AgentsInv, AgentFits, AgentRecs
  <2> QED BY <1>1, <2>1, <2>2
          DEF EmotionInv, RowsInv, SlotsInv, SlotFits, TasksInv, AgentsInv, SlotRecs, Statuses,
              RunStates, EmotionTypeOK
<1> QED BY <1>1, EmotionAlways, PTL

\* A discussion never has two slots that are pending, running or deferred, so
\* that no scan runs into the unique index idx_emotion_slots_one_active
\* (ensure_latest_due_slot()).
THEOREM OneSlotActive == SlotSpec => []OneActive
<1>1. ASSUME EmotionInv PROVE OneActive
  <2> DEFINE active == {k \in SlotIds : slot[k].status \in Active}
  <2>1. CASE active = {} BY <2>1, FS_EmptySet DEF OneActive
  <2>2. CASE active # {}
    <3>1. PICK k \in active : TRUE BY <2>2
    <3>2. active = {k} BY <1>1, <3>1 DEF EmotionInv, RowsInv, SlotsInv
    <3>3. Cardinality({k}) = 1 BY FS_Singleton
    <3> HIDE DEF active
    <3>4. Cardinality(active) <= 1 BY <3>2, <3>3
    <3> QED BY <3>4 DEF OneActive, active
  <2> QED BY <2>1, <2>2
<1> QED BY <1>1, EmotionAlways, PTL

\* A slot speaks at most once, by retries, repeated tasks and two workers at a
\* time, and one that counts as sent has spoken (_publish_emotion_message(),
\* mark_sent()).
THEOREM SlotSpeaksOnce == SlotSpec => []SpeaksOnce
<1>1. EmotionInv => SpeaksOnce BY DEF EmotionInv, RowsInv, SaidInv, SpeaksOnce
<1> QED BY <1>1, EmotionAlways, PTL

\* Messages of two slots are an interval apart, in the order of the slots
\* (_publish_emotion_message()).
THEOREM MessagesApart == SlotSpec => []Cadence
<1>1. EmotionInv => Cadence BY DEF EmotionInv, RowsInv, SaidInv
<1> QED BY <1>1, EmotionAlways, PTL
=============================================================================
