-------------------------- MODULE DiscussionProofs --------------------------
(* What Discussion promises, for any number of students, groups and minutes, *)
(* with or without the emotion agent beside it: only the faults that agent   *)
(* uses up are its own.                                                      *)
(*                                                                           *)
(* SessionInv says what the scan, a page and the end of the session may rely *)
(* on of what they have read in an earlier transaction: a document reported  *)
(* as handed in has been, and what the end has yet to submit is on its list. *)
EXTENDS Discussion, TLAPS

Runtimes == [status : {"none", "waiting", "running", "timed_out", "submitted", "closed"},
             ready : SUBSET Students, deadline : Nat, sent : BOOLEAN]
Documents == [status : {"none", "editing", "submitted", "returned"}, filed : BOOLEAN]

\* The timer of a running discussion is set and its roster has entered; one that
\* counts as submitted has handed in its document.
RuntimeFits(r, members, d) ==
  /\ r \in Runtimes
  /\ r.status = "running" => r.deadline # 0 /\ r.ready = members
  /\ r.status = "submitted" => d.filed

DocumentFits(d) == d \in Documents /\ (d.status = "submitted" => d.filed)

Endings == [pc : {"idle", "documents", "runtimes", "request"}, left : SUBSET Groups,
            done : SUBSET Groups, errors : BOOLEAN]

RuntimesInv ==
  /\ runtime \in [Groups -> Runtimes]
  /\ \A g \in Groups : RuntimeFits(runtime[g], scenario.members[g], document[g])

DocumentsInv ==
  /\ document \in [Groups -> Documents]
  /\ \A g \in Groups : DocumentFits(document[g])

VisitInv ==
  /\ visit \in [Students -> {"away", "enter", "create", "commit"}]
  /\ \A t \in Students : visit[t] # "away" => t \in Attending

ScanInv ==
  /\ scan.pc \in {"idle", "list", "submit", "mark"}
  /\ scan.left \subseteq Groups
  /\ scan.pc \in {"submit", "mark"} => scan.group \in Groups
  /\ scan.pc = "mark" /\ scan.result = "ok" => document[scan.group].filed

\* Unless it has failed, the end of the session still has on its list whatever
\* could be edited when it began.
EndInv ==
  /\ ending \in Endings
  /\ \A g \in ending.done : document[g].filed
  /\ ending.pc = "documents" => \A g \in ending.left : document[g].status # "none"
  /\ ending.pc = "documents" /\ ~ending.errors =>
       \A g \in Present : Open(g) => g \in late \/ g \in ending.left
  /\ ending.pc = "runtimes" /\ ~ending.errors => \A g \in Present : Open(g) => g \in late
  /\ late \subseteq Groups
  /\ EndLeavesNothing

FinalRecs == [status : {"none", "running", "failed", "succeeded"}, since : Nat]

CountsInv ==
  /\ scenario \in Scenarios
  /\ now \in 0..scenario.span
  /\ session \in {"draft", "running", "ended", "archived"}
  /\ returns \in 0..MaxReturns
  /\ queue \in [Groups -> 0..MaxQueued]
  /\ final \in [Groups -> FinalRecs]
  /\ \A w \in Finalizers : finalizer[w].pc # "idle" => finalizer[w].group \in Groups
  /\ finalizer \in [Finalizers -> [pc : {"idle", "claim", "gate", "analyse"}, group : Groups \cup {"none"}]]
  /\ faults \in 0..scenario.faults

SessionInv ==
  CountsInv /\ RuntimesInv /\ DocumentsInv /\ VisitInv /\ ScanInv /\ EndInv

\* A step of the emotion agent, as the discussion sees it: it may use up a fault.
OnlyFaults ==
  /\ faults > 0 /\ faults' = faults - 1
  /\ UNCHANGED <<scenario, now, session, runtime, document, visit, scan, ending, late,
                 returns, queue, final, finalizer>>

-----------------------------------------------------------------------------
(* What is kept by the steps that leave it alone.                            *)

\* No document is taken away, and one that has been handed in stays so.
DocumentsGrow ==
  \A g \in Groups : /\ document[g].filed => document'[g].filed
                    /\ document[g].status # "none" => document'[g].status # "none"

LEMMA PresentGroups == Present \subseteq Groups
BY DEF Present

LEMMA GroupFacts == ASSUME NEW t \in Attending PROVE GroupOf(t) \in Present /\ GroupOf(t) \in Groups
<1>1. \E g \in Present : t \in scenario.members[g] BY DEF Attending
<1>2. GroupOf(t) \in Present BY <1>1 DEF GroupOf
<1> QED BY <1>2, PresentGroups

LEMMA RuntimesStay ==
  ASSUME RuntimesInv, DocumentsGrow, UNCHANGED <<scenario, runtime>> PROVE RuntimesInv'
BY DEF RuntimesInv, DocumentsGrow, RuntimeFits

LEMMA ScanStays == ASSUME ScanInv, DocumentsGrow, UNCHANGED scan PROVE ScanInv'
BY DEF ScanInv, DocumentsGrow

\* A document that comes to be editable while the session ends, or after it, is
\* noted as late.
LEMMA EndStays ==
  ASSUME EndInv, DocumentsGrow, UNCHANGED <<scenario, ending>>,
         late \subseteq late', late' \subseteq Groups,
         session' \in {"ended", "archived"} => session \in {"ended", "archived"},
         \A g \in Present : Open(g)' => \/ Open(g) \/ g \in late'
                                        \/ ending.pc = "idle" /\ session = "running"
  PROVE  EndInv'
<1>1. Present' = Present BY DEF Present
<1>2. \A g \in ending.done : document'[g].filed BY DEF EndInv, DocumentsGrow, Endings
<1>3. ending.pc = "documents" => \A g \in ending.left : document'[g].status # "none"
  BY DEF EndInv, DocumentsGrow, Endings
<1>4. ending.pc = "documents" /\ ~ending.errors =>
        \A g \in Present : Open(g)' => g \in late' \/ g \in ending.left
  BY DEF EndInv
<1>5. ending.pc = "runtimes" /\ ~ending.errors => \A g \in Present : Open(g)' => g \in late'
  BY DEF EndInv
<1>6. session' \in {"ended", "archived"} => \A g \in Present : Open(g)' => g \in late'
  BY DEF EndInv, EndLeavesNothing
<1>7. EndLeavesNothing' BY <1>1, <1>6 DEF EndLeavesNothing
<1> QED BY <1>1, <1>2, <1>3, <1>4, <1>5, <1>7 DEF EndInv

LEMMA SameDocuments == ASSUME UNCHANGED document PROVE DocumentsGrow /\ \A g : Open(g)' = Open(g)
BY DEF DocumentsGrow, Open

\* A step that leaves runtimes, documents, scan and end alone.
LEMMA OthersStay ==
  ASSUME SessionInv, CountsInv', VisitInv', UNCHANGED <<scenario, runtime, document, scan, ending, late>>,
         session' \in {"ended", "archived"} => session \in {"ended", "archived"}
  PROVE  SessionInv'
<1>1. DocumentsGrow /\ \A g : Open(g)' = Open(g) BY SameDocuments
<1>2. DocumentsInv' BY DEF SessionInv, DocumentsInv
<1>3. RuntimesInv' BY <1>1, RuntimesStay DEF SessionInv
<1>4. ScanInv' BY <1>1, ScanStays DEF SessionInv
<1>5. late \subseteq late' /\ late' \subseteq Groups BY DEF SessionInv, EndInv
<1>6. EndInv' BY <1>1, <1>5, EndStays DEF SessionInv
<1> QED BY <1>2, <1>3, <1>4, <1>6 DEF SessionInv

\* A submission of the document of g.
LEMMA SubmittedFacts ==
  ASSUME DocumentsInv, NEW g \in Groups, Submitted(g)
  PROVE  /\ DocumentsInv' /\ DocumentsGrow
         /\ document'[g].filed /\ document'[g].status = "submitted"
         /\ \A h : Open(h)' => Open(h) \/ h \notin Groups
         /\ ~Open(g)'
         /\ \A h \in Groups \ {g} : document'[h] = document[h]
<1> DEFINE d == [status |-> "submitted", filed |-> TRUE]
<1>1. DocumentFits(d) /\ d.filed /\ d.status = "submitted" BY DEF DocumentFits, Documents
<1>2. document' = [document EXCEPT ![g] = d] BY DEF Submitted
<1> HIDE DEF d
<1>3. document'[g] = d /\ \A h \in Groups \ {g} : document'[h] = document[h]
  BY <1>2 DEF DocumentsInv
<1>4. DocumentsInv' BY <1>1, <1>2, <1>3 DEF DocumentsInv, DocumentFits
<1> QED BY <1>1, <1>3, <1>4 DEF DocumentsGrow, Open

LEMMA RequestFacts ==
  ASSUME CountsInv, NEW gs, Request(gs) PROVE queue' \in [Groups -> 0..MaxQueued]
BY DiscussionAssumption DEF CountsInv, Request

LEMMA ScenarioFacts ==
  ASSUME CountsInv
  PROVE  /\ scenario.members \in [Groups -> SUBSET Students]
         /\ scenario.limit \in Nat \ {0} /\ scenario.span \in 0..MaxTime /\ scenario.faults \in Nat
         /\ now \in Nat
BY DiscussionAssumption DEF CountsInv

-----------------------------------------------------------------------------
(* Steps that only count.                                                    *)

LEMMA CountingSteps ==
  ASSUME SessionInv,
         \/ Tick \/ OnlyFaults \/ UNCHANGED discVars
         \/ \E t \in Students : Arrive(t) \/ StartCommit(t)
         \/ StartSession \/ Archive
         \/ \E w \in Finalizers : FinalStep(w) \/ FinalizerDies(w)
  PROVE  SessionInv'
<1>0. CountsInv /\ VisitInv BY DEF SessionInv
<1>1. CASE Tick
  <2>1. CountsInv' BY <1>0, <1>1, ScenarioFacts DEF CountsInv, Tick
  <2>2. VisitInv' BY <1>0, <1>1 DEF VisitInv, Tick, Attending, Present
  <2> QED BY <1>1, <2>1, <2>2, OthersStay DEF Tick
<1>2. CASE OnlyFaults \/ UNCHANGED discVars
  <2>1. CountsInv' BY <1>0, <1>2, ScenarioFacts DEF CountsInv, OnlyFaults, discVars
  <2>2. VisitInv' BY <1>0, <1>2 DEF VisitInv, OnlyFaults, discVars, Attending, Present
  <2> QED BY <1>2, <2>1, <2>2, OthersStay DEF OnlyFaults, discVars
<1>3. ASSUME NEW t \in Students, Arrive(t) \/ StartCommit(t) PROVE SessionInv'
  <2>1. CountsInv' BY <1>0, <1>3 DEF CountsInv, Arrive, StartCommit
  <2>2. VisitInv' BY <1>0, <1>3 DEF VisitInv, Arrive, StartCommit, Attending, Present
  <2> QED BY <1>3, <2>1, <2>2, OthersStay DEF Arrive, StartCommit
<1>4. CASE StartSession \/ Archive
  <2>1. CountsInv' BY <1>0, <1>4 DEF CountsInv, StartSession, Archive
  <2>2. VisitInv' BY <1>0, <1>4 DEF VisitInv, StartSession, Archive, Attending, Present
  <2> QED BY <1>4, <2>1, <2>2, OthersStay DEF StartSession, Archive
<1>5. ASSUME NEW w \in Finalizers, FinalStep(w) \/ FinalizerDies(w) PROVE SessionInv'
  <2>1. UNCHANGED <<scenario, now, session, runtime, document, visit, scan, ending, late, returns>>
    BY <1>5 DEF FinalStep, Take, ClaimFinal, Gate, Analyse, FinalizerDies
  <2> DEFINE Jobs == [pc : {"idle", "claim", "gate", "analyse"}, group : Groups \cup {"none"}]
  <2>2. /\ finalizer \in [Finalizers -> Jobs]
        /\ \A v \in Finalizers : finalizer[v].pc # "idle" => finalizer[v].group \in Groups
    BY <1>0 DEF CountsInv
  <2>3. \E j \in Jobs : /\ finalizer' = [finalizer EXCEPT ![w] = j]
                        /\ j.pc # "idle" => j.group \in Groups
    <3>1. CASE Take(w)
      <4>1. PICK g \in Present : finalizer' = [finalizer EXCEPT ![w] = [pc |-> "claim", group |-> g]]
        BY <3>1 DEF Take
      <4> DEFINE j == [pc |-> "claim", group |-> g]
      <4>2. j \in Jobs /\ j.group \in Groups BY PresentGroups
      <4> HIDE DEF j, Jobs
      <4> QED BY <4>1, <4>2 DEF j
    <3>2. ASSUME NEW pc \in {"gate", "analyse"}, Work(w, pc), finalizer[w].pc # "idle"
          PROVE  \E j \in Jobs : /\ finalizer' = [finalizer EXCEPT ![w] = j]
                                 /\ j.pc # "idle" => j.group \in Groups
      <4> DEFINE j == [finalizer[w] EXCEPT !.pc = pc]
      <4>1. j \in Jobs /\ j.group \in Groups BY <2>2, <3>2
      <4>2. finalizer' = [finalizer EXCEPT ![w] = j] BY <3>2 DEF Work
      <4> HIDE DEF j, Jobs
      <4> QED BY <4>1, <4>2
    <3>3. CASE Rest(w)
      <4>1. NoWork \in Jobs /\ NoWork.pc = "idle" BY DEF NoWork
      <4> HIDE DEF Jobs
      <4> QED BY <3>3, <4>1 DEF Rest
    <3> HIDE DEF Jobs
    <3> QED BY <1>5, <3>1, <3>2, <3>3
            DEF FinalStep, ClaimFinal, Gate, Analyse, FinalizerDies
  <2>4. /\ finalizer' \in [Finalizers -> Jobs]
        /\ \A v \in Finalizers : finalizer'[v].pc # "idle" => finalizer'[v].group \in Groups
    <3> HIDE DEF Jobs
    <3> QED BY <2>2, <2>3
  <2>5. queue' \in [Groups -> 0..MaxQueued]
    <3>1. queue \in [Groups -> 0..MaxQueued] BY <1>0 DEF CountsInv
    <3>2. CASE UNCHANGED queue BY <3>1, <3>2
    <3>3. CASE Take(w)
      <4>1. PICK g \in Groups : queue[g] > 0 /\ queue' = [queue EXCEPT ![g] = queue[g] - 1]
        BY <3>3, PresentGroups DEF Take
      <4>2. MaxQueued \in Nat BY DiscussionAssumption
      <4>3. queue[g] - 1 \in 0..MaxQueued BY <3>1, <4>1, <4>2
      <4> QED BY <3>1, <4>1, <4>3
    <3>4. Take(w) \/ UNCHANGED queue
      BY <1>5 DEF FinalStep, ClaimFinal, Gate, Analyse, FinalizerDies
    <3> QED BY <3>2, <3>3, <3>4
  <2>6. final' \in [Groups -> FinalRecs]
    <3>1. final \in [Groups -> FinalRecs] BY <1>0 DEF CountsInv
    <3>2. CASE UNCHANGED final BY <3>1, <3>2
    <3>3. ASSUME NEW g \in Groups, NEW status \in {"failed", "succeeded"},
                 final' = [final EXCEPT ![g].status = status]
          PROVE  final' \in [Groups -> FinalRecs]
      <4> DEFINE f == [final[g] EXCEPT !.status = status]
      <4>1. f \in FinalRecs BY <3>1 DEF FinalRecs
      <4>2. final' = [final EXCEPT ![g] = f] BY <3>1, <3>3
      <4> HIDE DEF f
      <4> QED BY <3>1, <4>1, <4>2
    <3>4. ASSUME NEW g \in Groups,
                 final' = [final EXCEPT ![g] = [status |-> "running", since |-> now]]
          PROVE  final' \in [Groups -> FinalRecs]
      <4> DEFINE f == [status |-> "running", since |-> now]
      <4>1. now \in Nat BY <1>0, ScenarioFacts DEF CountsInv
      <4>2. f \in FinalRecs BY <4>1 DEF FinalRecs
      <4>3. final' = [final EXCEPT ![g] = f] BY <3>4
      <4> HIDE DEF f
      <4> QED BY <3>1, <4>2, <4>3
    <3> DEFINE g == finalizer[w].group
    <3>5. finalizer[w].pc # "idle" => g \in Groups BY <2>2
    <3> HIDE DEF g, Jobs
    <3>6. CASE ClaimFinal(w) BY <3>2, <3>4, <3>5, <3>6 DEF ClaimFinal, g
    <3>7. CASE Gate(w) BY <3>2, <3>3, <3>5, <3>7 DEF Gate, g
    <3>8. CASE Analyse(w) BY <3>3, <3>5, <3>8 DEF Analyse, g
    <3>9. CASE Take(w) \/ FinalizerDies(w) BY <3>2, <3>9 DEF Take, FinalizerDies
    <3> QED BY <1>5, <3>6, <3>7, <3>8, <3>9 DEF FinalStep
  <2>7. faults' \in 0..scenario.faults
    <3>1. faults \in 0..scenario.faults /\ scenario.faults \in Nat /\ scenario' = scenario
      BY <1>0, <2>1, ScenarioFacts DEF CountsInv
    <3>2. faults' = faults \/ Fault
      BY <1>5 DEF FinalStep, Take, ClaimFinal, Gate, Analyse, FinalizerDies, Dies
    <3> QED BY <3>1, <3>2 DEF Fault
  <2>8. CountsInv' BY <1>0, <2>1, <2>4, <2>5, <2>6, <2>7 DEF CountsInv
  <2>9. VisitInv' BY <1>0, <2>1 DEF VisitInv, Attending, Present
  <2> QED BY <2>1, <2>8, <2>9, OthersStay
<1> QED BY <1>1, <1>2, <1>3, <1>4, <1>5

-----------------------------------------------------------------------------
(* The students and the teacher.                                             *)

\* An entry starts the timer at most, and only of a discussion nobody has begun.
LEMMA EnteredFacts ==
  ASSUME CountsInv, NEW g \in Groups, NEW t \in Students, NEW d,
         RuntimeFits(runtime[g], scenario.members[g], d)
  PROVE  /\ RuntimeFits(Entered(runtime[g], t, scenario.members[g]), scenario.members[g], d)
         /\ Closed(runtime[g]) => Closed(Entered(runtime[g], t, scenario.members[g]))
         /\ LET deadline == Entered(runtime[g], t, scenario.members[g]).deadline
            IN  /\ runtime[g].deadline # 0 => deadline = runtime[g].deadline
                /\ deadline \in {runtime[g].deadline, now + scenario.limit}
<1> DEFINE r == runtime[g]
           m == scenario.members[g]
           ready == (r.ready \cup {t}) \cap m
           starts == r.status \in {"none", "waiting"} /\ m \subseteq ready
           status == IF starts THEN "running" ELSE IF r.status = "none" THEN "waiting" ELSE r.status
           deadline == IF r.deadline = 0 /\ starts THEN now + scenario.limit ELSE r.deadline
           e == Entered(r, t, m)
<1>1. r \in Runtimes /\ m \in SUBSET Students BY ScenarioFacts DEF RuntimeFits
<1>2. deadline \in Nat /\ (starts => deadline # 0)
  BY <1>1, ScenarioFacts DEF Runtimes
<1>3. ready \in SUBSET Students /\ (starts => ready = m) BY <1>1 DEF Runtimes
<1>4. e = [r EXCEPT !.ready = ready, !.status = status, !.deadline = deadline]
  BY <1>1 DEF Entered, Runtimes
<1>5. r.status = "running" => r.deadline # 0 /\ r.ready = m BY DEF RuntimeFits
<1>6. r.status = "running" => ready = m /\ status = "running" /\ deadline # 0
  BY <1>1, <1>5 DEF Runtimes
<1>7. /\ status \in {"none", "waiting", "running", "timed_out", "submitted", "closed"}
      /\ status = "running" => starts \/ r.status = "running"
      /\ status = "submitted" => r.status = "submitted"
      /\ Closed(r) => status = r.status
      /\ r.deadline # 0 => deadline = r.deadline
      /\ deadline \in {r.deadline, now + scenario.limit}
  BY <1>1 DEF Runtimes, Closed
<1> HIDE DEF ready, starts, status, deadline, e
<1>8. e \in Runtimes /\ e.status = status /\ e.ready = ready /\ e.deadline = deadline
  BY <1>1, <1>2, <1>3, <1>4, <1>7 DEF Runtimes
<1>9. RuntimeFits(e, m, d) BY <1>2, <1>3, <1>6, <1>7, <1>8 DEF RuntimeFits
<1>10. Closed(r) => Closed(e) BY <1>7, <1>8 DEF Closed
<1> QED BY <1>7, <1>8, <1>9, <1>10 DEF e

\* Another row for one group.
LEMMA OneRuntime ==
  ASSUME RuntimesInv, NEW g \in Groups, NEW r, RuntimeFits(r, scenario.members[g], document[g]),
         runtime' = [runtime EXCEPT ![g] = r], UNCHANGED <<scenario, document>>
  PROVE  RuntimesInv'
BY DEF RuntimesInv, RuntimeFits

LEMMA EnterStageInv ==
  ASSUME SessionInv, NEW t \in Students, EnterStage(t) PROVE SessionInv'
<1> DEFINE g == GroupOf(t)
           r == Entered(runtime[g], t, scenario.members[g])
<1>1. g \in Groups BY GroupFacts DEF EnterStage, SessionInv, VisitInv
<1>2. RuntimeFits(r, scenario.members[g], document[g])
  BY <1>1, EnteredFacts DEF SessionInv, RuntimesInv
<1>3. runtime' = [runtime EXCEPT ![g] = r] BY DEF EnterStage
<1>4. UNCHANGED <<scenario, now, session, document, scan, ending, late, returns, queue, final,
                  finalizer, faults>>
  BY DEF EnterStage
<1> HIDE DEF r
<1>5. RuntimesInv' BY <1>1, <1>2, <1>3, <1>4, OneRuntime DEF SessionInv
<1>6. CountsInv' BY <1>4 DEF SessionInv, CountsInv
<1>7. VisitInv' BY DEF SessionInv, VisitInv, EnterStage, Attending, Present
<1>8. DocumentsGrow /\ (\A h : Open(h)' = Open(h)) /\ DocumentsInv'
  BY <1>4, SameDocuments DEF SessionInv, DocumentsInv
<1>9. ScanInv' BY <1>4, <1>8, ScanStays DEF SessionInv
<1>10. EndInv' BY <1>4, <1>8, EndStays DEF SessionInv, EndInv
<1> QED BY <1>5, <1>6, <1>7, <1>8, <1>9, <1>10 DEF SessionInv

\* A document opened late is noted.
LEMMA SlippedFacts ==
  ASSUME EndInv, NEW g \in Groups, Slipped(g)
  PROVE  /\ late \subseteq late' /\ late' \subseteq Groups
         /\ g \in late' \/ (ending.pc = "idle" /\ session = "running")
BY DEF EndInv, Slipped

\* What a step that changes the documents has to show.
LEMMA DocumentStep ==
  ASSUME SessionInv, DocumentsInv', DocumentsGrow, CountsInv', VisitInv',
         UNCHANGED <<scenario, runtime, scan, ending, session>>,
         late \subseteq late', late' \subseteq Groups,
         \A g \in Present : Open(g)' => \/ Open(g) \/ g \in late'
                                        \/ ending.pc = "idle" /\ session = "running"
  PROVE  SessionInv'
<1>1. RuntimesInv' BY RuntimesStay DEF SessionInv
<1>2. ScanInv' BY ScanStays DEF SessionInv
<1>3. EndInv' BY EndStays DEF SessionInv
<1> QED BY <1>1, <1>2, <1>3 DEF SessionInv

LEMMA CreateInv ==
  ASSUME SessionInv, NEW t \in Students, Create(t) PROVE SessionInv'
<1> DEFINE g == GroupOf(t)
           d == [document[g] EXCEPT !.status = "editing"]
<1>1. g \in Groups BY GroupFacts DEF Create, SessionInv, VisitInv
<1>2. UNCHANGED <<scenario, now, session, runtime, scan, ending, returns, queue, final,
                  finalizer, faults>>
  BY DEF Create
<1>3. CountsInv' BY <1>2 DEF SessionInv, CountsInv
<1>4. VisitInv' BY <1>2 DEF SessionInv, VisitInv, Create, Attending, Present
<1>5. CASE document[g].status = "none"
  <2>1. document[g] \in Documents BY <1>1 DEF SessionInv, DocumentsInv
  <2>2. d \in Documents /\ d.status = "editing" /\ d.filed = document[g].filed
    BY <2>1 DEF Documents
  <2>3. document' = [document EXCEPT ![g] = d] /\ Slipped(g) BY <1>5 DEF Create
  <2> HIDE DEF d
  <2>4. document'[g] = d /\ \A h \in Groups \ {g} : document'[h] = document[h]
    BY <1>1, <2>3 DEF SessionInv, DocumentsInv
  <2>5. DocumentsInv' BY <1>1, <2>2, <2>3, <2>4 DEF SessionInv, DocumentsInv, DocumentFits
  <2>6. DocumentsGrow BY <1>5, <2>2, <2>4 DEF DocumentsGrow
  <2>7. \A h \in Present : Open(h)' => Open(h) \/ h = g BY <2>4, PresentGroups DEF Open
  <2> QED BY <1>1, <1>2, <1>3, <1>4, <2>3, <2>5, <2>6, <2>7, SlippedFacts, DocumentStep DEF SessionInv
<1>6. CASE document[g].status # "none"
  <2>1. UNCHANGED <<document, late>> BY <1>6 DEF Create
  <2> QED BY <1>2, <1>3, <1>4, <2>1, OthersStay
<1> QED BY <1>5, <1>6

LEMMA ReturnInv ==
  ASSUME SessionInv, NEW g \in Present, Return(g) PROVE SessionInv'
<1> DEFINE d == [document[g] EXCEPT !.status = "returned"]
<1>1. g \in Groups BY PresentGroups
<1>2. UNCHANGED <<scenario, now, session, runtime, visit, scan, ending, queue, final,
                  finalizer, faults>>
  BY DEF Return
<1>3. CountsInv' BY <1>2, DiscussionAssumption DEF SessionInv, CountsInv, Return
<1>4. VisitInv' BY <1>2 DEF SessionInv, VisitInv, Attending, Present
<1>5. document[g] \in Documents BY <1>1 DEF SessionInv, DocumentsInv
<1>6. d \in Documents /\ d.status = "returned" /\ d.filed = document[g].filed
  BY <1>5 DEF Documents
<1>7. document' = [document EXCEPT ![g] = d] /\ Slipped(g) BY DEF Return
<1> HIDE DEF d
<1>8. document'[g] = d /\ \A h \in Groups \ {g} : document'[h] = document[h]
  BY <1>1, <1>7 DEF SessionInv, DocumentsInv
<1>9. DocumentsInv' BY <1>1, <1>6, <1>7, <1>8 DEF SessionInv, DocumentsInv, DocumentFits
<1>10. DocumentsGrow BY <1>6, <1>8 DEF DocumentsGrow
<1>11. \A h \in Present : Open(h)' => Open(h) \/ h = g BY <1>8, PresentGroups DEF Open
<1> QED BY <1>1, <1>2, <1>3, <1>4, <1>7, <1>9, <1>10, <1>11, SlippedFacts, DocumentStep DEF SessionInv

LEMMA CommitInv ==
  ASSUME SessionInv, NEW t \in Students, Commit(t) PROVE SessionInv'
<1> DEFINE g == GroupOf(t)
<1>1. g \in Groups BY GroupFacts DEF Commit, SessionInv, VisitInv
<1>2. UNCHANGED <<scenario, now, session, runtime, scan, ending, late, returns, final,
                  finalizer, faults>>
  BY DEF Commit
<1>3. CountsInv' BY <1>2, RequestFacts DEF SessionInv, CountsInv, Commit
<1>4. VisitInv' BY <1>2 DEF SessionInv, VisitInv, Commit, Attending, Present
<1>5. Submitted(g) BY DEF Commit
<1>6. /\ DocumentsInv' /\ DocumentsGrow /\ \A h \in Present : Open(h)' => Open(h)
  BY <1>1, <1>5, SubmittedFacts, PresentGroups DEF SessionInv
<1>7. late \subseteq late' /\ late' \subseteq Groups BY <1>2 DEF SessionInv, EndInv
<1> QED BY <1>2, <1>3, <1>4, <1>6, <1>7, DocumentStep

-----------------------------------------------------------------------------
(* The scan.                                                                 *)

\* What has to be shown of a step of the scan.
LEMMA ScanFrame ==
  ASSUME SessionInv, ScanInv', CountsInv', RuntimesInv', DocumentsInv', DocumentsGrow,
         \A g \in Present : Open(g)' => Open(g),
         UNCHANGED <<scenario, session, visit, ending, late>>
  PROVE  SessionInv'
<1>1. VisitInv' BY DEF SessionInv, VisitInv, Attending, Present
<1>2. late \subseteq late' /\ late' \subseteq Groups BY DEF SessionInv, EndInv
<1>3. EndInv' BY <1>2, EndStays DEF SessionInv
<1> QED BY <1>1, <1>3 DEF SessionInv

LEMMA ScanReads ==
  ASSUME SessionInv, StartScan \/ ScanList \/ ScanDies \/ \E g \in Present : StartPage(g)
  PROVE  SessionInv'
<1>1. UNCHANGED <<scenario, now, session, runtime, document, visit, ending, late, returns, queue,
                  final, finalizer>>
  BY DEF StartScan, ScanList, ScanDies, StartPage
<1>2. CountsInv'
  <2>1. faults' \in 0..scenario.faults
    <3>1. faults' = faults \/ (faults > 0 /\ faults' = faults - 1)
      BY DEF StartScan, ScanList, ScanDies, StartPage, Dies, Fault
    <3> QED BY <3>1, ScenarioFacts DEF SessionInv, CountsInv
  <2> QED BY <1>1, <2>1 DEF SessionInv, CountsInv
<1>3. ScanInv'
  <2>1. CASE StartScan BY <2>1, PresentGroups DEF StartScan, ScanInv, NoScan
  <2>2. CASE ScanDies BY <2>2 DEF ScanDies, ScanInv, NoScan
  <2>3. CASE ScanList
    <3>1. scan.pc = "list" /\ scan.left \subseteq Groups
      BY <2>3 DEF ScanList, SessionInv, ScanInv
    <3>2. CASE scan.left = {} BY <2>3, <3>2 DEF ScanList, ScanInv, NoScan
    <3>3. ASSUME NEW g \in scan.left, NEW pc \in {"submit", "mark"},
                 scan' = [scan EXCEPT !.left = @ \ {g}, !.group = g, !.result = "none", !.pc = pc]
          PROVE  ScanInv'
      BY <3>1, <3>3 DEF ScanInv
    <3> QED BY <2>3, <3>2, <3>3 DEF ScanList
  <2>4. ASSUME NEW g \in Present, StartPage(g) PROVE ScanInv'
    BY <2>4, PresentGroups DEF StartPage, ScanInv
  <2> QED BY <2>1, <2>2, <2>3, <2>4
<1>4. DocumentsGrow /\ (\A g : Open(g)' = Open(g)) BY <1>1, SameDocuments
<1>5. DocumentsInv' /\ RuntimesInv'
  BY <1>1, <1>4, RuntimesStay DEF SessionInv, DocumentsInv
<1> QED BY <1>1, <1>2, <1>3, <1>4, <1>5, ScanFrame

\* The scan reports "ok" only of a document it has handed in.
LEMMA ScanSubmitInv == ASSUME SessionInv, ScanSubmit PROVE SessionInv'
<1> DEFINE g == scan.group
<1>1. scan.pc = "submit" /\ g \in Groups /\ scan.left \subseteq Groups
  BY DEF ScanSubmit, SessionInv, ScanInv
<1>2. UNCHANGED <<scenario, now, session, runtime, visit, ending, late, returns, final, finalizer>>
  BY DEF ScanSubmit
<1>3. CountsInv'
  <2>1. faults' \in 0..scenario.faults
    BY ScenarioFacts DEF SessionInv, CountsInv, ScanSubmit, Fault
  <2>2. queue' \in [Groups -> 0..MaxQueued]
    BY RequestFacts DEF SessionInv, CountsInv, ScanSubmit
  <2> QED BY <1>2, <2>1, <2>2 DEF SessionInv, CountsInv
<1>4. CASE Submitted(g) /\ scan' = [scan EXCEPT !.pc = "mark", !.result = "ok"]
  <2>1. /\ DocumentsInv' /\ DocumentsGrow /\ document'[g].filed
        /\ \A h \in Present : Open(h)' => Open(h)
    BY <1>1, <1>4, SubmittedFacts, PresentGroups DEF SessionInv
  <2>2. ScanInv' BY <1>1, <1>4, <2>1 DEF SessionInv, ScanInv
  <2>3. RuntimesInv' BY <1>2, <2>1, RuntimesStay DEF SessionInv
  <2> QED BY <1>2, <1>3, <2>1, <2>2, <2>3, ScanFrame
<1>5. ASSUME NEW result \in {"none", "error"}, UNCHANGED document,
             scan' = [scan EXCEPT !.pc = "mark", !.result = result]
      PROVE  SessionInv'
  <2>1. DocumentsGrow /\ (\A h : Open(h)' = Open(h)) BY <1>5, SameDocuments
  <2>2. ScanInv' BY <1>1, <1>5 DEF SessionInv, ScanInv
  <2>3. DocumentsInv' /\ RuntimesInv'
    BY <1>2, <1>5, <2>1, RuntimesStay DEF SessionInv, DocumentsInv
  <2> QED BY <1>2, <1>3, <2>1, <2>2, <2>3, ScanFrame
<1> QED BY <1>4, <1>5 DEF ScanSubmit

\* _mark_group_discussion() neither opens a discussion again nor sets its timer.
LEMMA MarkFacts ==
  ASSUME RuntimesInv, NEW g \in Groups, NEW status \in {"running", "timed_out", "submitted"},
         Mark(g, status), UNCHANGED <<scenario, document>>,
         status = "submitted" => document[g].filed
  PROVE  /\ RuntimesInv'
         /\ \A h \in Groups : /\ Closed(runtime[h]) => Closed(runtime'[h])
                              /\ runtime'[h].deadline = runtime[h].deadline
<1>1. runtime[g] \in Runtimes /\ RuntimeFits(runtime[g], scenario.members[g], document[g])
  BY DEF RuntimesInv
<1>2. CASE status = "submitted" /\ runtime[g].status \in {"running", "timed_out"}
  <2> DEFINE r == [runtime[g] EXCEPT !.status = "submitted", !.sent = TRUE]
  <2>1. r \in Runtimes /\ r.status = "submitted" /\ r.deadline = runtime[g].deadline
    BY <1>1 DEF Runtimes
  <2>2. runtime' = [runtime EXCEPT ![g] = r] BY <1>2 DEF Mark
  <2> HIDE DEF r
  <2>3. RuntimesInv' BY <1>2, <2>1, <2>2, OneRuntime DEF RuntimeFits
  <2> QED BY <2>1, <2>2, <2>3 DEF RuntimesInv, Closed
<1>3. CASE status = "timed_out" /\ runtime[g].status = "running"
  <2> DEFINE r == [runtime[g] EXCEPT !.status = "timed_out"]
  <2>1. r \in Runtimes /\ r.status = "timed_out" /\ r.deadline = runtime[g].deadline
    BY <1>1 DEF Runtimes
  <2>2. runtime' = [runtime EXCEPT ![g] = r] BY <1>3 DEF Mark
  <2> HIDE DEF r
  <2>3. RuntimesInv' BY <2>1, <2>2, OneRuntime DEF RuntimeFits
  <2> QED BY <2>1, <2>2, <2>3 DEF RuntimesInv, Closed
<1>4. CASE /\ ~(status = "submitted" /\ runtime[g].status \in {"running", "timed_out"})
           /\ ~(status = "timed_out" /\ runtime[g].status = "running")
  <2>1. runtime' = runtime BY <1>4 DEF Mark, RuntimesInv
  <2> QED BY <2>1 DEF RuntimesInv
<1> QED BY <1>2, <1>3, <1>4

\* A group is marked as submitted only if its document has been handed in.
LEMMA ScanMarkFacts ==
  ASSUME SessionInv, ScanMark
  PROVE  /\ RuntimesInv'
         /\ \A h \in Groups : /\ Closed(runtime[h]) => Closed(runtime'[h])
                              /\ runtime'[h].deadline = runtime[h].deadline
<1> DEFINE g == scan.group
           verdict == IF scan.page /\ scan.result # "ok" THEN "running" ELSE Verdict(g, scan.result)
<1>1. g \in Groups /\ Mark(g, verdict) /\ UNCHANGED <<scenario, document>>
  BY DEF ScanMark, SessionInv, ScanInv
<1>2. document[g].status = "submitted" => document[g].filed
  BY <1>1 DEF SessionInv, DocumentsInv, DocumentFits
<1>3. scan.result = "ok" => document[g].filed BY DEF ScanMark, SessionInv, ScanInv
<1>4. /\ verdict \in {"running", "timed_out", "submitted"}
      /\ verdict = "submitted" => document[g].filed
  BY <1>2, <1>3 DEF Verdict
<1> HIDE DEF verdict
<1> QED BY <1>1, <1>4, MarkFacts DEF SessionInv

LEMMA ScanMarkInv == ASSUME SessionInv, ScanMark PROVE SessionInv'
<1>1. UNCHANGED <<scenario, now, session, document, visit, ending, late, returns, final,
                  finalizer, faults>>
  BY DEF ScanMark
<1>2. CountsInv'
  <2>1. queue' \in [Groups -> 0..MaxQueued]
    BY RequestFacts DEF SessionInv, CountsInv, ScanMark
  <2> QED BY <1>1, <2>1 DEF SessionInv, CountsInv
<1>3. ScanInv' BY <1>1 DEF SessionInv, ScanInv, ScanMark, NoScan
<1>4. DocumentsGrow /\ (\A g : Open(g)' = Open(g)) BY <1>1, SameDocuments
<1>5. DocumentsInv' BY <1>1 DEF SessionInv, DocumentsInv
<1> QED BY <1>1, <1>2, <1>3, <1>4, <1>5, ScanMarkFacts, ScanFrame

-----------------------------------------------------------------------------
(* The end of the session.                                                   *)

\* What has to be shown of a step of the end.
LEMMA EndFrame ==
  ASSUME SessionInv, EndInv', CountsInv', RuntimesInv', DocumentsInv', DocumentsGrow,
         UNCHANGED <<scenario, visit, scan>>
  PROVE  SessionInv'
<1>1. VisitInv' BY DEF SessionInv, VisitInv, Attending, Present
<1>2. ScanInv' BY ScanStays DEF SessionInv
<1> QED BY <1>1, <1>2 DEF SessionInv

\* The steps that change neither runtimes nor documents.
LEMMA EndReads ==
  ASSUME SessionInv, StartEnd \/ EndListRuntimes \/ EndSession \/ EndRequest \/ EndDies
  PROVE  SessionInv'
<1>1. UNCHANGED <<scenario, now, runtime, document, visit, scan, returns, final, finalizer>>
  BY DEF StartEnd, EndListRuntimes, EndSession, EndRequest, EndDies
<1>2. CountsInv'
  <2>1. faults' \in 0..scenario.faults
    BY ScenarioFacts
       DEF SessionInv, CountsInv, StartEnd, EndListRuntimes, EndSession, EndRequest, EndDies, Dies, Fault
  <2>2. queue' \in [Groups -> 0..MaxQueued]
    BY RequestFacts
       DEF SessionInv, CountsInv, StartEnd, EndListRuntimes, EndSession, EndRequest, EndDies
  <2>3. session' \in {"draft", "running", "ended", "archived"}
    BY DEF SessionInv, CountsInv, StartEnd, EndListRuntimes, EndSession, EndRequest, EndDies
  <2> QED BY <1>1, <2>1, <2>2, <2>3 DEF SessionInv, CountsInv
<1>3. DocumentsGrow /\ (\A g : Open(g)' = Open(g)) BY <1>1, SameDocuments
<1>4. DocumentsInv' /\ RuntimesInv'
  BY <1>1, <1>3, RuntimesStay DEF SessionInv, DocumentsInv
<1>5. Present' = Present /\ Present \subseteq Groups BY <1>1, PresentGroups DEF Present
<1>6. EndInv BY DEF SessionInv
<1>7. EndInv'
  <2>1. CASE StartEnd
    <3>1. session' = "running" /\ late' = {} /\ ending'.pc = "documents"
          /\ ending'.left = {g \in Present : Open(g)} /\ ending'.done = {}
      BY <2>1 DEF StartEnd, NoEnd
    <3>2. \A g \in Present : Open(g) => document[g].status # "none" BY DEF Open
    <3>3. ending' \in Endings BY <1>5, <2>1 DEF StartEnd, NoEnd, Endings
    <3> QED BY <1>1, <1>3, <1>5, <3>1, <3>2, <3>3 DEF EndInv, EndLeavesNothing
  <2>2. CASE EndListRuntimes
    <3> DEFINE left == {g \in Present : runtime[g].status # "none"}
    <3>1. /\ ending' = [ending EXCEPT !.pc = "runtimes", !.left = left]
          /\ ending.pc = "documents" /\ ending.left = {} /\ UNCHANGED <<session, late>>
      BY <2>2 DEF EndListRuntimes
    <3>2. left \subseteq Groups BY <1>5
    <3>3. ending' \in Endings /\ ending'.pc = "runtimes" /\ ending'.left = left
          /\ ending'.done = ending.done /\ ending'.errors = ending.errors
      BY <1>6, <3>1, <3>2 DEF EndInv, Endings
    <3> HIDE DEF left
    <3> QED BY <1>1, <1>3, <1>5, <1>6, <3>1, <3>2, <3>3 DEF EndInv, EndLeavesNothing
  <2>3. CASE EndSession
    <3>1. CASE ending' = NoEnd /\ UNCHANGED <<session, late>>
      BY <1>1, <1>3, <1>5, <1>6, <3>1 DEF EndInv, EndLeavesNothing, NoEnd, Endings
    <3>2. CASE ~ending.errors /\ session' = "ended" /\ ending' = [ending EXCEPT !.pc = "request"]
      <4>1. ending.pc = "runtimes" /\ ending.left = {} /\ late' = late
        BY <2>3 DEF EndSession
      <4>2. /\ ending' \in Endings /\ ending'.pc = "request" /\ ending'.done = ending.done
            /\ ending'.left = ending.left
        BY <1>6, <3>2 DEF EndInv, Endings
      <4> QED BY <1>1, <1>3, <1>5, <1>6, <3>2, <4>1, <4>2 DEF EndInv, EndLeavesNothing
    <3> QED BY <2>3, <3>1, <3>2 DEF EndSession, Refused
  <2>4. CASE EndRequest \/ EndDies
    <3>1. ending' = NoEnd /\ UNCHANGED <<session, late>> BY <2>4 DEF EndRequest, EndDies
    <3> QED BY <1>1, <1>3, <1>5, <1>6, <3>1 DEF EndInv, EndLeavesNothing, NoEnd, Endings
  <2> QED BY <2>1, <2>2, <2>3, <2>4
<1> QED BY <1>1, <1>2, <1>3, <1>4, <1>7, EndFrame

\* A document is taken off the list when it is submitted, or failed: a failure
\* refuses the end.
LEMMA EndSubmitInv == ASSUME SessionInv, EndSubmit PROVE SessionInv'
<1>1. UNCHANGED <<scenario, now, session, runtime, visit, scan, late, returns, final, finalizer>>
  BY DEF EndSubmit
<1>2. CountsInv'
  <2>1. faults' = faults \/ (faults > 0 /\ faults' = faults - 1) BY DEF EndSubmit, Fault
  <2>2. queue' \in [Groups -> 0..MaxQueued]
    BY RequestFacts DEF SessionInv, CountsInv, EndSubmit
  <2> QED BY <1>1, <2>1, <2>2, ScenarioFacts DEF SessionInv, CountsInv
<1>3. EndInv /\ ending.pc = "documents" /\ DocumentsInv /\ Present \subseteq Groups /\ Present' = Present
  BY <1>1, PresentGroups DEF SessionInv, EndSubmit, Present
<1>4. PICK g \in ending.left :
        \/ Submitted(g) /\ ending' = [ending EXCEPT !.left = @ \ {g}, !.done = @ \cup {g}]
        \/ /\ ~Open(g) /\ UNCHANGED document
           /\ ending' = [ending EXCEPT !.left = @ \ {g}, !.done = @ \cup {g}]
        \/ UNCHANGED document /\ ending' = [ending EXCEPT !.left = @ \ {g}, !.errors = TRUE]
  BY DEF EndSubmit
<1>5. g \in Groups BY <1>3 DEF EndInv, Endings
<1>6. CASE Submitted(g) /\ ending' = [ending EXCEPT !.left = @ \ {g}, !.done = @ \cup {g}]
  <2>1. /\ DocumentsInv' /\ DocumentsGrow /\ document'[g].filed /\ ~Open(g)'
        /\ \A h \in Present : Open(h)' => Open(h)
    BY <1>3, <1>5, <1>6, SubmittedFacts
  <2>2. /\ ending' \in Endings /\ ending'.pc = "documents" /\ ending'.left = ending.left \ {g}
        /\ ending'.done = ending.done \cup {g} /\ ending'.errors = ending.errors
    BY <1>3, <1>5, <1>6 DEF EndInv, Endings
  <2>3. EndInv' BY <1>1, <1>3, <2>1, <2>2 DEF EndInv, EndLeavesNothing, DocumentsGrow, Endings
  <2>4. RuntimesInv' BY <1>1, <2>1, RuntimesStay DEF SessionInv
  <2> QED BY <1>1, <1>2, <2>1, <2>3, <2>4, EndFrame
<1>7. CASE UNCHANGED document
  <2>1. DocumentsGrow /\ (\A h : Open(h)' = Open(h)) BY <1>7, SameDocuments
  <2>2. DocumentsInv' /\ RuntimesInv'
    BY <1>1, <1>7, <2>1, RuntimesStay DEF SessionInv, DocumentsInv
  <2>3. CASE ~Open(g) /\ ending' = [ending EXCEPT !.left = @ \ {g}, !.done = @ \cup {g}]
    <3>1. document[g].filed
      <4>1. document[g] \in Documents /\ DocumentFits(document[g]) BY <1>3, <1>5 DEF DocumentsInv
      <4>2. document[g].status # "none" BY <1>3 DEF EndInv
      <4> QED BY <2>3, <4>1, <4>2 DEF Documents, DocumentFits, Open
    <3>2. /\ ending' \in Endings /\ ending'.pc = "documents" /\ ending'.left = ending.left \ {g}
          /\ ending'.done = ending.done \cup {g} /\ ending'.errors = ending.errors
      BY <1>3, <1>5, <2>3 DEF EndInv, Endings
    <3>3. EndInv' BY <1>1, <1>3, <1>7, <2>1, <2>3, <3>1, <3>2 DEF EndInv, EndLeavesNothing, Endings
    <3> QED BY <1>1, <1>2, <2>1, <2>2, <3>3, EndFrame
  <2>4. CASE ending' = [ending EXCEPT !.left = @ \ {g}, !.errors = TRUE]
    <3>1. /\ ending' \in Endings /\ ending'.pc = "documents" /\ ending'.left = ending.left \ {g}
          /\ ending'.done = ending.done /\ ending'.errors
      BY <1>3, <1>5, <2>4 DEF EndInv, Endings
    <3>2. EndInv' BY <1>1, <1>3, <1>7, <2>1, <3>1 DEF EndInv, EndLeavesNothing, Endings
    <3> QED BY <1>1, <1>2, <2>1, <2>2, <3>2, EndFrame
  <2>5. CASE Submitted(g) /\ ending' = [ending EXCEPT !.left = @ \ {g}, !.done = @ \cup {g}]
    BY <1>6, <2>5
  <2> QED BY <1>4, <2>3, <2>4, <2>5
<1> QED BY <1>4, <1>6, <1>7

\* What the end makes of a discussion.
LEMMA EndMarkFacts ==
  ASSUME SessionInv, EndMark
  PROVE  /\ RuntimesInv'
         /\ \A h \in Groups : /\ Closed(runtime[h]) => Closed(runtime'[h])
                              /\ runtime'[h].deadline = runtime[h].deadline
<1>1. PICK g \in ending.left :
        runtime' = [runtime EXCEPT ![g] =
                      Ended(@, g \in ending.done \/ document[g].status = "submitted")]
  BY DEF EndMark
<1> DEFINE handed == g \in ending.done \/ document[g].status = "submitted"
           r == Ended(runtime[g], handed)
<1>2. g \in Groups BY DEF SessionInv, EndInv, Endings
<1>3. handed => document[g].filed
  BY <1>2 DEF SessionInv, EndInv, DocumentsInv, DocumentFits
<1>4. runtime[g] \in Runtimes /\ RuntimeFits(runtime[g], scenario.members[g], document[g])
  BY <1>2 DEF SessionInv, RuntimesInv
<1>5. UNCHANGED <<scenario, document>> BY DEF EndMark
<1>6. runtime' = [runtime EXCEPT ![g] = r] BY <1>1
<1> HIDE DEF handed
<1>7. /\ r \in Runtimes /\ r.deadline = runtime[g].deadline /\ r.status # "running"
      /\ r.status = "submitted" => handed \/ runtime[g].status = "submitted"
      /\ Closed(runtime[g]) => Closed(r)
  BY <1>4 DEF Ended, Runtimes, Closed
<1> HIDE DEF r
<1>8. RuntimeFits(r, scenario.members[g], document[g]) BY <1>3, <1>4, <1>7 DEF RuntimeFits
<1>9. RuntimesInv' BY <1>2, <1>5, <1>6, <1>8, OneRuntime DEF SessionInv
<1> QED BY <1>6, <1>7, <1>9 DEF SessionInv, RuntimesInv

LEMMA EndMarkInv == ASSUME SessionInv, EndMark PROVE SessionInv'
<1>1. UNCHANGED <<scenario, now, session, document, visit, scan, late, returns, queue, final,
                  finalizer, faults>>
  BY DEF EndMark
<1>2. CountsInv' BY <1>1 DEF SessionInv, CountsInv
<1>3. DocumentsGrow /\ (\A g : Open(g)' = Open(g)) BY <1>1, SameDocuments
<1>4. DocumentsInv' BY <1>1 DEF SessionInv, DocumentsInv
<1>5. Present' = Present BY <1>1 DEF Present
<1>6. EndInv'
  <2>1. EndInv /\ ending.pc = "runtimes" BY DEF SessionInv, EndMark
  <2>2. PICK g : ending' = [ending EXCEPT !.left = @ \ {g}] BY DEF EndMark
  <2>3. /\ ending' \in Endings /\ ending'.pc = "runtimes" /\ ending'.done = ending.done
        /\ ending'.errors = ending.errors
    BY <2>1, <2>2 DEF EndInv, Endings
  <2> QED BY <1>1, <1>3, <1>5, <2>1, <2>3 DEF EndInv, EndLeavesNothing
<1> QED BY <1>1, <1>2, <1>3, <1>4, <1>6, EndMarkFacts, EndFrame

-----------------------------------------------------------------------------
(* Every step.                                                               *)

LEMMA SessionInvStep ==
  ASSUME SessionInv, [DiscNext]_discVars \/ OnlyFaults
  PROVE  SessionInv'
<1>1. CASE \/ Tick \/ OnlyFaults \/ UNCHANGED discVars
           \/ \E t \in Students : Arrive(t) \/ StartCommit(t)
           \/ StartSession \/ Archive
           \/ \E w \in Finalizers : FinalStep(w) \/ FinalizerDies(w)
  BY <1>1, CountingSteps
<1>2. ASSUME NEW t \in Students, StudentStep(t) PROVE SessionInv'
  BY <1>2, EnterStageInv, CreateInv, CommitInv DEF StudentStep
<1>3. ASSUME NEW g \in Present, Return(g) PROVE SessionInv' BY <1>3, ReturnInv
<1>4. CASE ScanStep \/ ScanDies \/ \E g \in Present : StartPage(g)
  BY <1>4, ScanReads, ScanSubmitInv, ScanMarkInv DEF ScanStep
<1>5. CASE StartEnd \/ EndStep \/ EndDies
  BY <1>5, EndReads, EndSubmitInv, EndMarkInv DEF EndStep
<1> QED BY <1>1, <1>2, <1>3, <1>4, <1>5 DEF DiscNext

LEMMA SessionInvStart == ASSUME DiscInit PROVE SessionInv
<1>1. PICK s \in Scenarios :
    LET opened(g) == s.begins = "discussing" /\ s.members[g] # {} IN
    /\ scenario = s
    /\ now = 0
    /\ session = IF s.begins = "draft" THEN "draft" ELSE "running"
    /\ runtime = [g \in Groups |-> IF opened(g) THEN Discussing(s, g) ELSE NoRuntime]
    /\ document = [g \in Groups |->
         IF opened(g) THEN [status |-> "editing", filed |-> FALSE] ELSE NoDocument]
    /\ visit = [t \in Students |-> "away"]
    /\ scan = NoScan /\ ending = NoEnd
    /\ late = {} /\ returns = 0
    /\ queue = [g \in Groups |-> 0]
    /\ final = [g \in Groups |-> NoFinal]
    /\ finalizer = [w \in Finalizers |-> NoWork]
    /\ faults = s.faults
  BY DEF DiscInit
<1>2. /\ s.members \in [Groups -> SUBSET Students] /\ s.limit \in Nat \ {0}
      /\ s.span \in 0..MaxTime /\ s.faults \in Nat
  BY DiscussionAssumption
<1>3. CountsInv BY <1>1, <1>2, DiscussionAssumption DEF CountsInv, NoWork, NoFinal, FinalRecs
<1>4. RuntimesInv
  <2>1. \A g \in Groups : Discussing(s, g) \in Runtimes /\ NoRuntime \in Runtimes
    BY <1>2 DEF Discussing, NoRuntime, Runtimes
  <2>2. \A g \in Groups : /\ RuntimeFits(Discussing(s, g), s.members[g], document[g])
                          /\ RuntimeFits(NoRuntime, s.members[g], document[g])
    BY <1>2, <2>1 DEF RuntimeFits, Discussing, NoRuntime
  <2> QED BY <1>1, <2>1, <2>2 DEF RuntimesInv
<1>5. DocumentsInv BY <1>1 DEF DocumentsInv, DocumentFits, Documents, NoDocument
<1>6. VisitInv BY <1>1 DEF VisitInv
<1>7. ScanInv BY <1>1 DEF ScanInv, NoScan
<1>8. EndInv BY <1>1 DEF EndInv, Endings, NoEnd, EndLeavesNothing
<1> QED BY <1>3, <1>4, <1>5, <1>6, <1>7, <1>8 DEF SessionInv

\* No step opens a discussion again, or sets a timer that is set; a timer starts
\* from the present.
LEMMA RuntimeStep ==
  ASSUME SessionInv, [DiscNext]_discVars \/ OnlyFaults, NEW g \in Groups
  PROVE  /\ Closed(runtime[g]) => Closed(runtime[g]')
         /\ runtime[g].deadline # 0 => runtime[g].deadline' = runtime[g].deadline
         /\ runtime[g].deadline' \in {runtime[g].deadline, now + scenario.limit}
<1>1. CASE UNCHANGED runtime BY <1>1 DEF Closed
<1>2. ASSUME NEW t \in Students, EnterStage(t)
      PROVE  /\ Closed(runtime[g]) => Closed(runtime[g]')
             /\ runtime[g].deadline # 0 => runtime[g].deadline' = runtime[g].deadline
             /\ runtime[g].deadline' \in {runtime[g].deadline, now + scenario.limit}
  <2> DEFINE h == GroupOf(t)
  <2>1. h \in Groups BY <1>2, GroupFacts DEF EnterStage, SessionInv, VisitInv
  <2>2. runtime' = [runtime EXCEPT ![h] = Entered(runtime[h], t, scenario.members[h])]
    BY <1>2 DEF EnterStage
  <2>3. CASE g = h
    <3>1. runtime'[g] = Entered(runtime[g], t, scenario.members[g])
      BY <2>2, <2>3 DEF SessionInv, RuntimesInv
    <3>2. RuntimeFits(runtime[g], scenario.members[g], document[g])
      BY DEF SessionInv, RuntimesInv
    <3> QED BY <3>1, <3>2, EnteredFacts DEF SessionInv
  <2>4. CASE g # h BY <2>2, <2>4 DEF SessionInv, RuntimesInv
  <2> QED BY <2>3, <2>4
<1>3. CASE ScanMark BY <1>3, ScanMarkFacts
<1>4. CASE EndMark BY <1>4, EndMarkFacts
<1>5. \/ UNCHANGED runtime \/ ScanMark \/ EndMark
      \/ \E t \in Students : EnterStage(t)
  BY DEF DiscNext, OnlyFaults, discVars, Tick, Arrive, StartCommit, StudentStep, Create, Commit,
         StartPage, Return, ScanStep, StartScan, ScanList, ScanSubmit, StartSession, StartEnd, EndStep,
         EndSubmit, EndListRuntimes, EndSession, EndRequest, Archive, FinalStep, Take, ClaimFinal,
         Gate, Analyse, FinalizerDies, ScanDies, EndDies
<1> QED BY <1>1, <1>2, <1>3, <1>4, <1>5

LEMMA SessionTypes == ASSUME SessionInv PROVE DiscussionTypeOK
BY DEF SessionInv, CountsInv, RuntimesInv, RuntimeFits, DocumentsInv, VisitInv, ScanInv, EndInv,
       Runtimes, Documents, Endings, FinalRecs, DiscussionTypeOK
=============================================================================
