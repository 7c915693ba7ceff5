----------------------------- MODULE Discussion -----------------------------
(* One class session: the groups that enter the discussion stage, the timer  *)
(* of each group, the documents they hand in, the scan that submits for      *)
(* them at the deadline, the teacher who returns documents and ends the      *)
(* session, and the state finalization requested on every way out.           *)
(* How a document is handed in is CollabSubmission's subject: here it is one *)
(* transaction, which may fail.                                              *)
EXTENDS Integers, FiniteSets

CONSTANTS
  Students,
  Groups,
  MaxTime,        \* bound on the clock, of every scenario
  Finalizers,     \* workers that run state finalization
  StaleAfter,     \* STALE_RUNNING_SECONDS, in ticks
  MaxQueued,      \* bound on the queued finalizations of a group; more are redundant
  MaxReturns,     \* bound on the returns by the teacher
  Scenarios       \* who is there and what may happen, one per behaviour

\* limit: minutes of discussion; span: how long the behaviour is followed;
\* begins: the session and its groups at first;
\* mode: agent_mode, where EmotionSlots adds the emotion agent.
ASSUME DiscussionAssumption ==
  /\ MaxTime \in Nat /\ MaxQueued \in Nat \ {0} /\ MaxReturns \in Nat
  /\ StaleAfter \in Nat \ {0}
  /\ \A s \in Scenarios :
       /\ s.members \in [Groups -> SUBSET Students]
       /\ s.begins \in {"draft", "running", "discussing"}
       /\ s.limit \in Nat \ {0} /\ s.span \in 0..MaxTime
       /\ s.asks \subseteq {"enter", "submit", "return", "end", "page", "crash"}
       /\ s.workers \subseteq Finalizers
       /\ s.mode \in {"none", "emotion"} /\ s.faults \in Nat

VARIABLES
  scenario,   \* the scenario of this behaviour: chosen once
  now,        \* the clock
  session,    \* experiment_sessions.status
  runtime,    \* group_session_discussions, and their entries
  document,   \* collaborative_documents of the session
  visit,      \* what the request of each student is at
  scan,       \* scan_and_auto_submit(), or a page that asks for the same
  ending,     \* end_session()
  late,       \* groups whose document came to be editable since the end began
  returns,    \* returns so far
  queue,      \* queued finalizations of each group
  final,      \* collaboration_state_finalizations, and when each was started
  finalizer,  \* what each finalization worker is at
  faults      \* failures still to come

discVars == <<scenario, now, session, runtime, document, visit, scan, ending, late,
              returns, queue, final, finalizer, faults>>

Present == {g \in Groups : scenario.members[g] # {}}
GroupOf(s) == CHOOSE g \in Present : s \in scenario.members[g]
Attending == UNION {scenario.members[g] : g \in Present}

NoRuntime == [status |-> "none", ready |-> {}, deadline |-> 0, sent |-> FALSE]
NoDocument == [status |-> "none", filed |-> FALSE]
NoScan == [pc |-> "idle", left |-> {}, group |-> "none", result |-> "none", page |-> FALSE]
NoEnd == [pc |-> "idle", left |-> {}, done |-> {}, errors |-> FALSE]
NoWork == [pc |-> "idle", group |-> "none"]
NoFinal == [status |-> "none", since |-> 0]

\* A discussion under way: all have entered, and opened the document.
Discussing(s, g) ==
  [status |-> "running", ready |-> s.members[g], deadline |-> s.limit, sent |-> FALSE]

DiscInit ==
  \E s \in Scenarios :
    LET opened(g) == s.begins = "discussing" /\ s.members[g] # {} IN
    /\ scenario = s
    /\ now = 0
    /\ session = IF s.begins = "draft" THEN "draft" ELSE "running"
    /\ runtime = [g \in Groups |-> IF opened(g) THEN Discussing(s, g) ELSE NoRuntime]
    /\ document = [g \in Groups |->
         IF opened(g) THEN [status |-> "editing", filed |-> FALSE] ELSE NoDocument]
    /\ visit = [t \in Students |-> "away"]
    /\ scan = NoScan /\ ending = NoEnd
    /\ late = {} /\ returns = 0
    /\ queue = [g \in Groups |-> 0]
    /\ final = [g \in Groups |-> NoFinal]
    /\ finalizer = [w \in Finalizers |-> NoWork]
    /\ faults = s.faults

-----------------------------------------------------------------------------
Closed(r) == r.status \in {"timed_out", "submitted", "closed"}
Overdue(r) == r.deadline # 0 /\ r.deadline <= now
\* is_group_discussion_write_closed()
WriteClosed(g) == Closed(runtime[g]) \/ (runtime[g].status = "running" /\ Overdue(runtime[g]))

Open(g) == document[g].status \in {"editing", "returned"}

\* request_collaboration_state_finalization()
Request(gs) == queue' = [g \in Groups |->
  IF g \in gs /\ queue[g] < MaxQueued THEN queue[g] + 1 ELSE queue[g]]

\* A document that is submitted keeps the time of its first submission.
Submitted(g) == document' = [document EXCEPT ![g] = [status |-> "submitted", filed |-> TRUE]]

\* A document that can be edited although the end has listed the documents.
Slipped(g) == late' = IF ending.pc # "idle" \/ session # "running" THEN late \cup {g} ELSE late

\* _mark_group_discussion()
Mark(g, status) == runtime' = [runtime EXCEPT ![g] =
  IF status = "submitted" /\ @.status \in {"running", "timed_out"}
    THEN [@ EXCEPT !.status = "submitted", !.sent = TRUE]
  ELSE IF status = "timed_out" /\ @.status = "running"
    THEN [@ EXCEPT !.status = "timed_out"]
  ELSE @]

Fault == faults > 0 /\ faults' = faults - 1

-----------------------------------------------------------------------------
(* The students.                                                             *)

Tick ==
  /\ now < scenario.span
  \* Whoever starts the timer opens the document within the same minute.
  /\ \A t \in Attending : visit[t] = "create" => document[GroupOf(t)].status # "none"
  /\ now' = now + 1
  /\ UNCHANGED <<scenario, session, runtime, document, visit, scan, ending, late,
                 returns, queue, final, finalizer, faults>>

\* api_discussion_enter(): the running session is looked up first.
Arrive(t) ==
  /\ "enter" \in scenario.asks /\ t \in Attending /\ visit[t] = "away" /\ session = "running"
  /\ visit' = [visit EXCEPT ![t] = "enter"]
  /\ UNCHANGED <<scenario, now, session, runtime, document, scan, ending, late,
                 returns, queue, final, finalizer, faults>>

\* An entry that decides on a row read before its transaction, when the group
\* was still waiting.
EnteredStale(r, t, members) ==
  [r EXCEPT !.ready = members, !.status = "running", !.deadline = now + scenario.limit]

\* An entry that starts the timer for whoever is first.
EnteredFirst(r, t, members) ==
  [r EXCEPT !.ready = @ \cup {t}, !.status = IF Closed(r) THEN @ ELSE "running",
            !.deadline = IF @ = 0 THEN now + scenario.limit ELSE @]

\* enter_group_discussion_stage(), one transaction: the last of the roster
\* starts the timer.
Entered(r, t, members) ==
  LET ready == (r.ready \cup {t}) \cap members
      starts == r.status \in {"none", "waiting"} /\ members \subseteq ready
  IN  [r EXCEPT !.ready = ready,
                !.status = IF starts THEN "running" ELSE IF @ = "none" THEN "waiting" ELSE @,
                !.deadline = IF @ = 0 /\ starts THEN now + scenario.limit ELSE @]

EnterStage(t) ==
  LET g == GroupOf(t)
      r == Entered(runtime[g], t, scenario.members[g])
  IN  /\ visit[t] = "enter"
      /\ runtime' = [runtime EXCEPT ![g] = r]
      /\ visit' = [visit EXCEPT ![t] = IF r.status = "waiting" THEN "away" ELSE "create"]
      /\ UNCHANGED <<scenario, now, session, document, scan, ending, late,
                     returns, queue, final, finalizer, faults>>

\* get_or_create_document()
Create(t) ==
  LET g == GroupOf(t) IN
  /\ visit[t] = "create"
  /\ visit' = [visit EXCEPT ![t] = "away"]
  /\ IF document[g].status = "none"
     THEN /\ document' = [document EXCEPT ![g].status = "editing"]
          /\ Slipped(g)
     ELSE UNCHANGED <<document, late>>
  /\ UNCHANGED <<scenario, now, session, runtime, scan, ending, returns,
                 queue, final, finalizer, faults>>

\* The commit has found the document writable.
StartCommit(t) ==
  /\ "submit" \in scenario.asks /\ t \in Attending /\ visit[t] = "away"
  /\ session = "running" /\ Open(GroupOf(t)) /\ ~WriteClosed(GroupOf(t))
  /\ visit' = [visit EXCEPT ![t] = "commit"]
  /\ UNCHANGED <<scenario, now, session, runtime, document, scan, ending, late,
                 returns, queue, final, finalizer, faults>>

\* It submits the document, and leaves the discussion as it is.
Commit(t) ==
  LET g == GroupOf(t) IN
  /\ visit[t] = "commit"
  /\ visit' = [visit EXCEPT ![t] = "away"]
  /\ Submitted(g)
  /\ Request({g})
  /\ UNCHANGED <<scenario, now, session, runtime, scan, ending, late,
                 returns, final, finalizer, faults>>

-----------------------------------------------------------------------------
(* The scan for overdue groups, every minute, and a page whose timer has run *)
(* out and that asks for the same of its own group.                          *)

Due(g) == session = "running" /\ runtime[g].status = "running" /\ Overdue(runtime[g])

StartScan ==
  /\ scan.pc = "idle"
  /\ \E g \in Present : Due(g)
  /\ scan' = [NoScan EXCEPT !.pc = "list", !.left = {g \in Present : Due(g)}]
  /\ UNCHANGED <<scenario, now, session, runtime, document, visit, ending, late,
                 returns, queue, final, finalizer, faults>>

StartPage(g) ==
  /\ "page" \in scenario.asks
  /\ scan.pc = "idle" /\ document[g].status = "editing"
  /\ WriteClosed(g) /\ Overdue(runtime[g])
  /\ scan' = [pc |-> "submit", left |-> {}, group |-> g, result |-> "none", page |-> TRUE]
  /\ UNCHANGED <<scenario, now, session, runtime, document, visit, ending, late,
                 returns, queue, final, finalizer, faults>>

\* The next group, and its document if it is being edited.
ScanList ==
  /\ scan.pc = "list"
  /\ IF scan.left = {} THEN scan' = NoScan
     ELSE \E g \in scan.left :
            scan' = [scan EXCEPT !.left = @ \ {g}, !.group = g, !.result = "none",
                       !.pc = IF document[g].status = "editing" THEN "submit" ELSE "mark"]
  /\ UNCHANGED <<scenario, now, session, runtime, document, visit, ending, late,
                 returns, queue, final, finalizer, faults>>

\* _perform_forced_submission(): what is submitted already is no error, what has
\* been returned meanwhile is.
ScanSubmit ==
  LET g == scan.group IN
  /\ scan.pc = "submit"
  /\ \/ /\ document[g].status = "editing"
        /\ Submitted(g) /\ Request({g})
        /\ scan' = [scan EXCEPT !.pc = "mark", !.result = "ok"]
        /\ UNCHANGED faults
     \/ /\ document[g].status # "editing"
        /\ scan' = [scan EXCEPT !.pc = "mark",
             !.result = IF document[g].status = "submitted" THEN "none" ELSE "error"]
        /\ UNCHANGED <<document, queue, faults>>
     \/ /\ Fault
        /\ scan' = [scan EXCEPT !.pc = "mark", !.result = "error"]
        /\ UNCHANGED <<document, queue>>
  /\ UNCHANGED <<scenario, now, session, runtime, visit, ending, late, returns, final, finalizer>>

VerdictAlways(g, result) == IF result = "error" THEN "running" ELSE "submitted"
VerdictDespiteErrors(g, result) == IF result = "ok" THEN "submitted" ELSE "timed_out"

\* What becomes of the group: an error leaves it for the next scan.
Verdict(g, result) ==
  CASE result = "ok" -> "submitted"
    [] result = "error" -> "running"
    [] OTHER -> IF document[g].status = "submitted" THEN "submitted" ELSE "timed_out"

ScanMark ==
  LET g == scan.group
      verdict == IF scan.page /\ scan.result # "ok" THEN "running" ELSE Verdict(g, scan.result)
  IN  /\ scan.pc = "mark"
      /\ Mark(g, verdict)
      /\ IF verdict = "running" \/ scan.page THEN UNCHANGED queue ELSE Request({g})
      /\ scan' = IF scan.page THEN NoScan ELSE [scan EXCEPT !.pc = "list", !.result = "none"]
      /\ UNCHANGED <<scenario, now, session, document, visit, ending, late,
                     returns, final, finalizer, faults>>

-----------------------------------------------------------------------------
(* The teacher.                                                              *)

StartSession ==
  /\ session = "draft"
  /\ session' = "running"
  /\ UNCHANGED <<scenario, now, runtime, document, visit, scan, ending, late,
                 returns, queue, final, finalizer, faults>>

\* A document handed in, or one still being written, goes back to the group; the
\* runtime stays as it is.
Return(g) ==
  /\ "return" \in scenario.asks /\ returns < MaxReturns
  /\ document[g].status \in {"submitted", "editing"}
  /\ document' = [document EXCEPT ![g].status = "returned"]
  /\ returns' = returns + 1
  /\ Slipped(g)
  /\ UNCHANGED <<scenario, now, session, runtime, visit, scan, ending,
                 queue, final, finalizer, faults>>

\* end_session(): submit_session_documents() lists what is still open ...
StartEnd ==
  /\ "end" \in scenario.asks /\ ending.pc = "idle" /\ session = "running"
  /\ ending' = [NoEnd EXCEPT !.pc = "documents", !.left = {g \in Present : Open(g)}]
  /\ late' = {}
  /\ UNCHANGED <<scenario, now, session, runtime, document, visit, scan,
                 returns, queue, final, finalizer, faults>>

\* ... submits each ...
EndSubmit ==
  /\ ending.pc = "documents"
  /\ \E g \in ending.left :
       \/ /\ Open(g)
          /\ Submitted(g) /\ Request({g})
          /\ ending' = [ending EXCEPT !.left = @ \ {g}, !.done = @ \cup {g}]
          /\ UNCHANGED faults
       \/ /\ ~Open(g)
          /\ ending' = [ending EXCEPT !.left = @ \ {g}, !.done = @ \cup {g}]
          /\ UNCHANGED <<document, queue, faults>>
       \/ /\ Fault
          /\ ending' = [ending EXCEPT !.left = @ \ {g}, !.errors = TRUE]
          /\ UNCHANGED <<document, queue>>
  /\ UNCHANGED <<scenario, now, session, runtime, visit, scan, late, returns, final, finalizer>>

EndListRuntimes ==
  /\ ending.pc = "documents" /\ ending.left = {}
  /\ ending' = [ending EXCEPT !.pc = "runtimes",
                  !.left = {g \in Present : runtime[g].status # "none"}]
  /\ UNCHANGED <<scenario, now, session, runtime, document, visit, scan, late,
                 returns, queue, final, finalizer, faults>>

\* ... and closes every discussion, the ones whose document failed included.
Ended(r, handed) ==
  IF handed THEN [r EXCEPT !.status = "submitted", !.sent = TRUE]
  ELSE IF r.status \in {"waiting", "running", "timed_out"} THEN [r EXCEPT !.status = "closed"]
  ELSE r

EndMark ==
  /\ ending.pc = "runtimes"
  /\ \E g \in ending.left :
       /\ runtime' = [runtime EXCEPT ![g] =
            Ended(@, g \in ending.done \/ document[g].status = "submitted")]
       /\ ending' = [ending EXCEPT !.left = @ \ {g}]
  /\ UNCHANGED <<scenario, now, session, document, visit, scan, late,
                 returns, queue, final, finalizer, faults>>

\* An error refuses the end, and the teacher may try again.
NeverRefused == FALSE
Refused == ending.errors

EndSession ==
  /\ ending.pc = "runtimes" /\ ending.left = {}
  /\ IF Refused
     THEN ending' = NoEnd /\ UNCHANGED session
     ELSE session' = "ended" /\ ending' = [ending EXCEPT !.pc = "request"]
  /\ UNCHANGED <<scenario, now, runtime, document, visit, scan, late,
                 returns, queue, final, finalizer, faults>>

\* groups_for_session()
InvolvedByDocument(g) == document[g].status # "none"
Involved(g) == runtime[g].status # "none" \/ document[g].status # "none"

EndRequest ==
  /\ ending.pc = "request"
  /\ Request({g \in Present : Involved(g)})
  /\ ending' = NoEnd
  /\ UNCHANGED <<scenario, now, session, runtime, document, visit, scan, late,
                 returns, final, finalizer, faults>>

Archive ==
  /\ session = "ended"
  /\ session' = "archived"
  /\ UNCHANGED <<scenario, now, runtime, document, visit, scan, ending, late,
                 returns, queue, final, finalizer, faults>>

-----------------------------------------------------------------------------
(* State finalization.                                                       *)

\* _discussion_has_ended()
HasEnded(g) ==
  \/ session \in {"ended", "archived"}
  \/ Closed(runtime[g])
  \/ runtime[g].status = "running" /\ Overdue(runtime[g])
  \/ document[g].filed \/ document[g].status = "submitted"

Work(w, pc) == finalizer' = [finalizer EXCEPT ![w].pc = pc]
Rest(w) == finalizer' = [finalizer EXCEPT ![w] = NoWork]

Take(w) ==
  /\ w \in scenario.workers /\ finalizer[w].pc = "idle"
  /\ \E g \in Present :
       /\ queue[g] > 0
       /\ queue' = [queue EXCEPT ![g] = @ - 1]
       /\ finalizer' = [finalizer EXCEPT ![w] = [pc |-> "claim", group |-> g]]
  /\ UNCHANGED <<scenario, now, session, runtime, document, visit, scan, ending, late,
                 returns, final, faults>>

\* _is_stale_running(): a row that has been running for ten minutes is taken
\* again, its worker being dead or only slow.
Stale(g) == final[g].since + StaleAfter <= now

ClaimFinal(w) ==
  LET g == finalizer[w].group IN
  /\ finalizer[w].pc = "claim"
  /\ IF final[g].status = "succeeded" \/ (final[g].status = "running" /\ ~Stale(g))
     THEN Rest(w) /\ UNCHANGED final
     ELSE /\ final' = [final EXCEPT ![g] = [status |-> "running", since |-> now]]
          /\ Work(w, "gate")
  /\ UNCHANGED <<scenario, now, session, runtime, document, visit, scan, ending, late,
                 returns, queue, faults>>

\* What has not ended is not analysed.
Gate(w) ==
  LET g == finalizer[w].group IN
  /\ finalizer[w].pc = "gate"
  /\ IF HasEnded(g)
     THEN Work(w, "analyse") /\ UNCHANGED final
     ELSE final' = [final EXCEPT ![g].status = "failed"] /\ Rest(w)
  /\ UNCHANGED <<scenario, now, session, runtime, document, visit, scan, ending, late,
                 returns, queue, faults>>

\* The model answers, and the segments are saved; or not. The row is marked
\* whoever has taken it meanwhile.
Analyse(w) ==
  LET g == finalizer[w].group IN
  /\ finalizer[w].pc = "analyse"
  /\ \/ final' = [final EXCEPT ![g].status = "succeeded"] /\ UNCHANGED faults
     \/ Fault /\ final' = [final EXCEPT ![g].status = "failed"]
  /\ Rest(w)
  /\ UNCHANGED <<scenario, now, session, runtime, document, visit, scan, ending, late,
                 returns, queue>>

\* The process of the scan, of the teacher's request or of a worker dies.
Dies == "crash" \in scenario.asks /\ Fault

ScanDies ==
  /\ Dies /\ scan.pc # "idle" /\ scan' = NoScan
  /\ UNCHANGED <<scenario, now, session, runtime, document, visit, ending, late,
                 returns, queue, final, finalizer>>

EndDies ==
  /\ Dies /\ ending.pc # "idle" /\ ending' = NoEnd
  /\ UNCHANGED <<scenario, now, session, runtime, document, visit, scan, late,
                 returns, queue, final, finalizer>>

FinalizerDies(w) ==
  /\ Dies /\ finalizer[w].pc # "idle" /\ Rest(w)
  /\ UNCHANGED <<scenario, now, session, runtime, document, visit, scan, ending, late,
                 returns, queue, final>>

-----------------------------------------------------------------------------
StudentStep(t) == EnterStage(t) \/ Create(t) \/ Commit(t)
ScanStep == StartScan \/ ScanList \/ ScanSubmit \/ ScanMark
EndStep == EndSubmit \/ EndListRuntimes \/ EndMark \/ EndSession \/ EndRequest
FinalStep(w) == Take(w) \/ ClaimFinal(w) \/ Gate(w) \/ Analyse(w)

DiscNext ==
  \/ Tick
  \/ \E t \in Students : Arrive(t) \/ StartCommit(t) \/ StudentStep(t)
  \/ \E g \in Present : StartPage(g) \/ Return(g)
  \/ ScanStep \/ StartSession \/ StartEnd \/ EndStep \/ Archive
  \/ \E w \in Finalizers : FinalStep(w) \/ FinalizerDies(w)
  \/ ScanDies \/ EndDies

\* Time passes, the periodic scan runs every minute, and a process that does not
\* die goes on; nobody has to come, to submit or to end the session.
DiscFairness ==
  /\ WF_discVars(Tick)
  /\ \A t \in Students : WF_discVars(StudentStep(t))
  /\ WF_discVars(ScanStep) /\ WF_discVars(EndStep)
  /\ \A w \in Finalizers : WF_discVars(FinalStep(w))

-----------------------------------------------------------------------------
(* Properties.                                                               *)

\* Types, and what a status of the runtime implies.
DiscussionTypeOK ==
  /\ now \in 0..scenario.span
  /\ session \in {"draft", "running", "ended", "archived"}
  /\ runtime \in [Groups -> [status : {"none", "waiting", "running", "timed_out",
                                       "submitted", "closed"},
                            ready : SUBSET Students, deadline : Nat, sent : BOOLEAN]]
  /\ \A g \in Groups : runtime[g].status = "running" =>
       runtime[g].deadline # 0 /\ runtime[g].ready = scenario.members[g]
  /\ document \in [Groups -> [status : {"none", "editing", "submitted", "returned"},
                             filed : BOOLEAN]]
  /\ visit \in [Students -> {"away", "enter", "create", "commit"}]
  /\ scan.pc \in {"idle", "list", "submit", "mark"} /\ scan.left \subseteq Groups
  /\ ending.pc \in {"idle", "documents", "runtimes", "request"}
  /\ late \subseteq Groups /\ returns \in 0..MaxReturns
  /\ queue \in [Groups -> 0..MaxQueued]
  /\ final \in [Groups -> [status : {"none", "running", "failed", "succeeded"}, since : Nat]]
  /\ faults \in 0..scenario.faults

\* A discussion closed by its deadline, its submission or the teacher is never
\* opened again, and its timer is set once: whoever enters late, or again, finds
\* the timer of the others (enter_group_discussion_stage()).
ClosedStaysClosed ==
  [][\A g \in Groups :
       /\ Closed(runtime[g]) => Closed(runtime[g]')
       /\ runtime[g].deadline # 0 => runtime[g].deadline' = runtime[g].deadline]_discVars

\* A discussion counts as submitted only when its document has been: scans,
\* pages and the end of the session decide it from what they read earlier.
SubmittedIsReal == \A g \in Groups : runtime[g].status = "submitted" => document[g].filed

\* "Refuse the state transition on a persistence error so the documents remain
\* eligible for a safe retry" (end_session()): when the session has ended, what
\* can still be edited was opened or returned after the end began.
EndLeavesNothing ==
  session \in {"ended", "archived"} => \A g \in Present : Open(g) => g \in late

\* An overdue document that is being edited is submitted, after failures and
\* deaths of the scan too, unless the teacher takes over.
DueIsSettled ==
  \A g \in Groups : (g \in Present /\ Due(g) /\ document[g].status = "editing")
    ~> (document[g].status # "editing" \/ runtime[g].status = "closed" \/ session # "running")

\* Every group of an ended session, one that never got to write included, is
\* finalized, unless a failure comes in between.
EndIsFinalized ==
  \A g \in Groups :
    (g \in Present /\ ending.pc = "request" /\ runtime[g].status # "none" /\ scenario.workers # {})
    ~> (final[g].status = "succeeded" \/ faults < scenario.faults)
=============================================================================
