------------------------- MODULE ObservationProofs -------------------------
(***************************************************************************)
(* For any runs, bounds and limits: the cursor of an observation starts at *)
(* the first answer to its intervention, it stands at the latest strategy  *)
(* message, answers to help requests included, and an outcome is read off  *)
(* what was written after the intervention it is about.                    *)
(*                                                                         *)
(* All of it rests on where the cursor stands: never behind an intervention*)
(* that was published, never beyond the last message.  Beginning again when*)
(* a publication is noted is then without effect.                          *)
(***************************************************************************)
EXTENDS Observation, FiniteSetTheorems, TLAPS

-----------------------------------------------------------------------------
(* The messages after a position. *)

Answers(c, i) == {k \in 1 .. Len(c) : c[k] = 0 /\ i < k}
Messages == {0, Answer} \cup Judged

\* 0 and the positions of the strategy messages.
Strategy(c) == {0} \cup {i \in 1 .. Len(c) : c[i] # 0}

LEMMA BetweenIsAnswers ==
  ASSUME chat \in Seq(Messages), NEW i PROVE Between(i, Len(chat)) = Answers(chat, i)
BY DEF Between, Students, Spots, Answers

LEMMA BetweenIsAnswersAfter ==
  ASSUME chat' \in Seq(Messages), NEW i PROVE (Between(i, Len(chat)))' = Answers(chat', i)
BY DEF Between, Students, Spots, Answers

\* One more message is one more answer, if a student wrote it, and the last one.
LEMMA AnswersAppend ==
  ASSUME NEW c \in Seq(Messages), NEW e \in Messages, NEW i \in Nat
  PROVE  Answers(Append(c, e), i) =
           Answers(c, i) \cup (IF e = 0 /\ i <= Len(c) THEN {Len(c) + 1} ELSE {})
<1>. DEFINE d == Append(c, e)
<1>1. /\ Len(d) = Len(c) + 1 /\ Len(c) \in Nat /\ d[Len(c) + 1] = e
      /\ \A k \in 1 .. Len(c) : d[k] = c[k]
  OBVIOUS
<1>2. 1 .. Len(d) = 1 .. Len(c) \cup {Len(c) + 1} BY <1>1
<1>. HIDE DEF d
<1>3. \A k \in 1 .. Len(d) : i < k /\ k = Len(c) + 1 <=> i <= Len(c) /\ k = Len(c) + 1 BY <1>1
<1> QED BY <1>1, <1>2, <1>3 DEF Answers, d

\* One more strategy message is the last one.
LEMMA StrategyAppend ==
  ASSUME NEW c \in Seq(Messages), NEW e \in Messages
  PROVE  Strategy(Append(c, e)) = Strategy(c) \cup (IF e = 0 THEN {} ELSE {Len(c) + 1})
<1>. DEFINE d == Append(c, e)
<1>1. /\ Len(d) = Len(c) + 1 /\ Len(c) \in Nat /\ d[Len(c) + 1] = e
      /\ \A k \in 1 .. Len(c) : d[k] = c[k]
  OBVIOUS
<1>2. 1 .. Len(d) = 1 .. Len(c) \cup {Len(c) + 1} BY <1>1
<1>. HIDE DEF d
<1>3. Strategy(d) = Strategy(c) \cup (IF e = 0 THEN {} ELSE {Len(c) + 1})
  BY <1>1, <1>2 DEF Strategy
<1> QED BY <1>3 DEF d

LEMMA LatestIsStrategy ==
  /\ chat \in Seq(Messages) => (WatchAtLatest <=> IsLatest(watch.last, Strategy(chat)))
  /\ chat' \in Seq(Messages) => (WatchAtLatest' <=> IsLatest(watch'.last, Strategy(chat')))
BY DEF WatchAtLatest, IsLatest, Spots, Strategy

LEMMA FirstStays ==
  ASSUME NEW c \in Seq(Messages), NEW e \in Messages, NEW i \in Nat, NEW k \in Nat,
         IsEarliest(k, Answers(c, i))
  PROVE  IsEarliest(k, Answers(Append(c, e), i))
<1>1. k <= Len(c) /\ Len(c) \in Nat BY DEF IsEarliest, Answers
<1> QED BY <1>1, AnswersAppend DEF IsEarliest

LEMMA FirstInStays ==
  ASSUME NEW c \in Seq(Messages), NEW r \in Messages \ {0}, NEW i \in Nat, NEW k \in Nat,
         IsFirstIn(k, Answers(c, i))
  PROVE  IsFirstIn(k, Answers(Append(c, r), i))
<1>1. r \in Messages /\ r # 0 OBVIOUS
<1>2. Answers(Append(c, r), i) =
        Answers(c, i) \cup (IF r = 0 /\ i <= Len(c) THEN {Len(c) + 1} ELSE {})
  BY <1>1, AnswersAppend
<1>3. Answers(Append(c, r), i) = Answers(c, i) BY <1>1, <1>2
<1> QED BY <1>3

-----------------------------------------------------------------------------
(* Types. *)

Statuses == {"none", "observing", "completed", "finalization_only"}
Queues == [first : 0 .. MaxTalk, bound : 0 .. MaxTalk, trigger : Triggers]
RunRows == [stage : Stages, trigger : Triggers, rank : 0 .. 2, first : 0 .. MaxTalk,
            last : 0 .. MaxTalk, said : 0 .. MaxTalk, queued : Queues, status : Statuses,
            outcome : Outcomes, response : 0 .. MaxTalk, credit : 0 .. MaxTalk]
Cursors == [on : BOOLEAN, started : 0 .. MaxTalk, last : 0 .. MaxTalk, scheduled : 0 .. MaxTalk]

\* The cursor stands at or after every intervention that was published, and a
\* window begins with a message.
Placed ==
  /\ watch.last <= Len(chat)
  /\ \A r \in Judged : judge[r].said <= watch.last /\ judge[r].first <= Len(chat)
  /\ \A r \in Judged : judge[r].first # 0 => chat[judge[r].first] = 0
  /\ \A r \in Judged : judge[r].response # 0 =>
       IsEarliest(judge[r].response, Answers(chat, judge[r].said))
  /\ \A r \in Judged : judge[r].credit # 0 =>
       judge[r].response # 0 /\ judge[r].said < judge[r].credit

\* Only a worker that is done has noted a publication, and only then an outcome is
\* read off it.
NotedLast ==
  \A r \in Judged : /\ judge[r].status # "none" => judge[r].stage = "over"
                    /\ judge[r].response # 0 => judge[r].status # "none"

ObservationIInv ==
  ObservationTypes /\ Placed /\ NotedLast /\ StartIsFirstResponse /\ WatchAtLatest

LEMMA TypesUnfolded ==
  ObservationTypes <=> /\ chat \in Seq(Messages) /\ Len(chat) <= MaxTalk /\ live \in BOOLEAN
                       /\ watch \in Cursors /\ noticed \subseteq 1 .. MaxTalk
                       /\ judge \in [Judged -> RunRows]
BY DEF ObservationTypes, Messages, Cursors, RunRows, Statuses, Queues

LEMMA TypesAfter ==
  ASSUME chat' \in Seq(Messages), Len(chat') <= MaxTalk, live' \in BOOLEAN,
         watch' \in Cursors, noticed' \subseteq 1 .. MaxTalk, judge' \in [Judged -> RunRows]
  PROVE  ObservationTypes'
BY DEF ObservationTypes, Messages, Cursors, RunRows, Statuses, Queues

LEMMA ObservationInitial == ObservationInit => ObservationIInv
<1>. SUFFICES ASSUME ObservationInit PROVE ObservationIInv OBVIOUS
<1>1. MaxTalk \in Nat BY ObservationAssumption
<1>2. NoRun \in RunRows
  BY <1>1 DEF NoRun, RunRows, NoQueue, Queues, Stages, Triggers, Statuses, Outcomes
<1>3. chat \in Seq(Messages) /\ Len(chat) = 0 BY DEF ObservationInit
<1>4. watch \in Cursors BY <1>1 DEF ObservationInit, Cursors
<1>5. ObservationTypes BY <1>1, <1>2, <1>3, <1>4, TypesUnfolded DEF ObservationInit
<1>6. Placed BY <1>1, <1>3 DEF ObservationInit, Placed, NoRun
<1>7. NotedLast /\ StartIsFirstResponse
  BY DEF ObservationInit, NoRun, NotedLast, StartIsFirstResponse
<1>8. WatchAtLatest BY <1>3 DEF ObservationInit, WatchAtLatest, IsLatest, Spots
<1> QED BY <1>5, <1>6, <1>7, <1>8 DEF ObservationIInv

-----------------------------------------------------------------------------
(* Steps that add no message. *)

\* What such a step may do: stop observing, note a publication, open a window on
\* messages of students, and note the first response to an intervention with the
\* outcome of a batch after it.
Quiet ==
  /\ chat' = chat /\ watch'.last = watch.last /\ watch'.started = watch.started
  /\ watch'.on => watch.on
  /\ \A r \in Judged : judge'[r].said = judge[r].said
  /\ \A r \in Judged : judge'[r].first = judge[r].first \/ judge'[r].first \in Students
  /\ \A r \in Judged :
       \/ judge'[r].response = judge[r].response /\ judge'[r].credit = judge[r].credit
       \/ /\ judge'[r].response # 0 /\ judge[r].said < judge'[r].credit
          /\ IsEarliest(judge'[r].response, Answers(chat, judge[r].said))

LEMMA QuietKeeps ==
  ASSUME ObservationIInv, Quiet, ObservationTypes'
  PROVE  Placed' /\ StartIsFirstResponse' /\ WatchAtLatest'
<1>. USE DEF ObservationIInv
<1>1. chat \in Seq(Messages) /\ chat' \in Seq(Messages) BY TypesUnfolded DEF Quiet
<1>2. Placed'
  <2>1. (watch.last <= Len(chat))' BY DEF Quiet, Placed
  <2>2. (\A r \in Judged : judge[r].said <= watch.last)' BY DEF Quiet, Placed
  <2>3. (\A r \in Judged : judge[r].first <= Len(chat))'
    BY <1>1 DEF Quiet, Placed, Students, Spots
  <2>4. (\A r \in Judged : judge[r].first # 0 => chat[judge[r].first] = 0)'
    BY DEF Quiet, Placed, Students
  <2>5. (\A r \in Judged : judge[r].response # 0 =>
           IsEarliest(judge[r].response, Answers(chat, judge[r].said)))'
    BY DEF Quiet, Placed
  <2>6. (\A r \in Judged : judge[r].credit # 0 =>
           judge[r].response # 0 /\ judge[r].said < judge[r].credit)'
    BY DEF Quiet, Placed
  <2> QED BY <2>1, <2>2, <2>3, <2>4, <2>5, <2>6 DEF Placed
<1>3. StartIsFirstResponse'
  BY DEF Quiet, StartIsFirstResponse, IsFirstIn, IsEarliest, Between, Students, Spots
<1>4. WatchAtLatest' BY DEF Quiet, WatchAtLatest, IsLatest, Spots
<1> QED BY <1>2, <1>3, <1>4

-----------------------------------------------------------------------------
(* How the rows change. *)

LEMMA Bounded == MaxTalk \in Nat /\ Judged \subseteq Nat \ {0}
BY ObservationAssumption

LEMMA OpenedIsRow ==
  ASSUME NEW b \in RunRows, NEW t \in Triggers, NEW i \in 0 .. MaxTalk, NEW j \in 0 .. MaxTalk
  PROVE  /\ Opened(b, t, i, j) \in RunRows
         /\ LET o == Opened(b, t, i, j) IN
              /\ o.first = i /\ o.said = b.said /\ o.status = b.status
              /\ o.response = b.response /\ o.credit = b.credit
<1>1. Rank(t) \in 0 .. 2 BY DEF Rank
<1>2. \A m \in 0 .. 2 : Later(m, Rank(t)) \in 0 .. 2 BY <1>1 DEF Later
<1>3. b.rank \in 0 .. 2 BY DEF RunRows
<1>4. Later(b.rank, Rank(t)) \in 0 .. 2 BY <1>2, <1>3
<1>. HIDE DEF Later, Rank
<1> QED BY <1>4 DEF Opened, RunRows, Stages

LEMMA QueuedIsRow ==
  ASSUME NEW b \in RunRows, NEW q \in Queues
  PROVE  /\ [b EXCEPT !.queued = q] \in RunRows
         /\ LET o == [b EXCEPT !.queued = q] IN
              /\ o.first = b.first /\ o.said = b.said /\ o.status = b.status
              /\ o.response = b.response /\ o.credit = b.credit
BY DEF RunRows

LEMMA NoQueueIsQueue == NoQueue \in Queues
BY Bounded DEF NoQueue, Queues, Triggers

LEMMA StagedIsRow ==
  ASSUME NEW b \in RunRows, NEW g \in Stages
  PROVE  /\ [b EXCEPT !.stage = g] \in RunRows
         /\ LET o == [b EXCEPT !.stage = g] IN
              /\ o.first = b.first /\ o.said = b.said /\ o.status = b.status
              /\ o.response = b.response /\ o.credit = b.credit
BY DEF RunRows

\* Windows are made of messages of students.
LEMMA WindowsOfStudents ==
  ASSUME ObservationTypes, NEW i, NEW j, NEW k \in Between(i, j)
  PROVE  k \in Students /\ k \in 0 .. MaxTalk
BY TypesUnfolded, Bounded DEF Between, Students, Spots

\* A step that changes one row, and of it nothing Quiet speaks of but the window.
LEMMA OneRow ==
  ASSUME ObservationTypes, NEW r \in Judged, NEW b \in RunRows,
         judge' = [judge EXCEPT ![r] = b],
         b.said = judge[r].said, b.status = judge[r].status,
         b.response = judge[r].response, b.credit = judge[r].credit,
         b.first = judge[r].first \/ b.first \in Students,
         chat' = chat, live' \in BOOLEAN, watch' \in Cursors, watch'.last = watch.last,
         watch'.started = watch.started, watch'.on => watch.on, noticed' \subseteq 1 .. MaxTalk
  PROVE  Quiet /\ ObservationTypes'
<1>1. judge \in [Judged -> RunRows] /\ chat \in Seq(Messages) /\ Len(chat) <= MaxTalk
  BY TypesUnfolded
<1>2. judge' \in [Judged -> RunRows] BY <1>1
<1>3. ObservationTypes' BY <1>1, <1>2, TypesUnfolded, TypesAfter
<1>4. \A s \in Judged : judge'[s] = IF s = r THEN b ELSE judge[s] BY <1>1
<1>5. Quiet BY <1>4 DEF Quiet
<1> QED BY <1>3, <1>5

LEMMA PassKeeps ==
  ASSUME ObservationTypes, NEW r \in Judged, Pass(r)
  PROVE  /\ watch' \in Cursors /\ watch'.last = watch.last /\ watch'.on = watch.on
         /\ watch'.started = watch.started /\ noticed' \subseteq 1 .. MaxTalk
<1>1. watch \in Cursors /\ judge[r] \in RunRows /\ noticed \subseteq 1 .. MaxTalk
  BY TypesUnfolded
<1>2. watch.scheduled \in 0 .. MaxTalk /\ judge[r].last \in 0 .. MaxTalk
  BY <1>1 DEF Cursors, RunRows
<1>3. Later(watch.scheduled, judge[r].last) \in 0 .. MaxTalk BY <1>2 DEF Later
<1>. HIDE DEF Later
<1> QED BY <1>1, <1>3 DEF Pass, Cursors

-----------------------------------------------------------------------------
(* The operations. *)

LEMMA RowOf ==
  ASSUME ObservationTypes, NEW r \in Judged PROVE judge[r] \in RunRows
BY TypesUnfolded

\* Nothing of the cursor or the notices changes.
LEMMA RowOnly ==
  ASSUME ObservationTypes, NEW r \in Judged, NEW b \in RunRows,
         judge' = [judge EXCEPT ![r] = b],
         b.said = judge[r].said, b.status = judge[r].status,
         b.response = judge[r].response, b.credit = judge[r].credit,
         b.first = judge[r].first \/ b.first \in Students,
         UNCHANGED <<chat, live, watch, noticed>>
  PROVE  Quiet /\ ObservationTypes'
BY OneRow, TypesUnfolded DEF Cursors

LEMMA WindowInside ==
  ASSUME ObservationTypes, NEW i, NEW j, NEW window,
         window \subseteq Students, i \in window, j \in window
  PROVE  i \in 0 .. MaxTalk /\ j \in 0 .. MaxTalk /\ i \in Students
BY TypesUnfolded, Bounded DEF Students, Spots

LEMMA RequestQuiet ==
  ASSUME ObservationTypes, NEW r \in Judged, RequestJudgement(r)
  PROVE  Quiet /\ ObservationTypes'
<1>a. PICK t \in Triggers \ {"none"} : \E bound \in Bounds(t) :
        Assess(r, t, bound) \/ Raise(r, t, bound) \/ QueueRequest(r, t, bound)
  BY DEF RequestJudgement
<1>b. PICK bound \in Bounds(t) :
        Assess(r, t, bound) \/ Raise(r, t, bound) \/ QueueRequest(r, t, bound)
  BY <1>a
<1>1. UNCHANGED <<chat, live, watch, noticed>> BY DEF RequestJudgement
<1>2. judge[r] \in RunRows /\ judge \in [Judged -> RunRows] BY TypesUnfolded
<1>3. CASE Assess(r, t, bound)
  <2>. DEFINE window == FirstOnes(Waiting(bound))
  <2>1. PICK i \in window, j \in window : judge' = [judge EXCEPT ![r] = Opened(@, t, i, j)]
    BY <1>3 DEF Assess
  <2>2. window \subseteq Students BY DEF FirstOnes, Waiting, Between
  <2>3. i \in 0 .. MaxTalk /\ j \in 0 .. MaxTalk /\ i \in Students BY <2>1, <2>2, WindowInside
  <2>. HIDE DEF window
  <2>4. judge' = [judge EXCEPT ![r] = Opened(judge[r], t, i, j)] BY <2>1, <1>2
  <2>. DEFINE b == Opened(judge[r], t, i, j)
  <2>5. /\ b \in RunRows /\ b.said = judge[r].said /\ b.status = judge[r].status
        /\ b.response = judge[r].response /\ b.credit = judge[r].credit /\ b.first = i
    BY <1>2, <2>3, OpenedIsRow
  <2>. HIDE DEF b
  <2> QED BY <1>1, <2>3, <2>4, <2>5, RowOnly DEF b
<1>4. CASE Raise(r, t, bound)
  <2>. DEFINE b == [[judge[r] EXCEPT !.trigger = t] EXCEPT !.rank = Rank(t)]
  <2>1. judge' = [judge EXCEPT ![r] = b] BY <1>2, <1>4 DEF Raise, RunRows
  <2>2. Rank(t) \in 0 .. 2 BY DEF Rank
  <2>3. /\ b \in RunRows /\ b.said = judge[r].said /\ b.status = judge[r].status
        /\ b.response = judge[r].response /\ b.credit = judge[r].credit
        /\ b.first = judge[r].first
    BY <1>2, <2>2 DEF RunRows
  <2>. HIDE DEF b
  <2> QED BY <1>1, <2>1, <2>3, RowOnly
<1>5. CASE QueueRequest(r, t, bound)
  <2>1. PICK k \in SavedEnds :
          LET i == Later(k + 1, judge[r].first) IN
            /\ i <= bound
            /\ judge' = [judge EXCEPT ![r].queued = [first |-> i, bound |-> bound, trigger |-> t]]
    BY <1>5 DEF QueueRequest
  <2>. DEFINE i == Later(k + 1, judge[r].first)
              q == [first |-> i, bound |-> bound, trigger |-> t]
              b == [judge[r] EXCEPT !.queued = q]
  <2>2. k \in Nat BY <2>1, TypesUnfolded, Bounded DEF SavedEnds, RunRows
  <2>3. bound \in 0 .. MaxTalk
    BY TypesUnfolded, Bounded DEF Bounds, Students, Spots
  <2>4. i \in 0 .. MaxTalk BY <1>2, <2>1, <2>2, <2>3, Bounded DEF Later, RunRows
  <2>5. q \in Queues BY <2>3, <2>4 DEF Queues
  <2>6. judge' = [judge EXCEPT ![r] = b] BY <1>2, <2>1
  <2>. HIDE DEF q
  <2> QED BY <1>1, <1>2, <2>5, <2>6, QueuedIsRow, RowOnly
<1> QED BY <1>b, <1>3, <1>4, <1>5

LEMMA ContinueQuiet ==
  ASSUME ObservationTypes, NEW s \in Judged, ContinueQueued(s)
  PROVE  Quiet /\ ObservationTypes'
<1>. DEFINE q == judge[s].queued
            window == Between(q.first - 1, q.bound)
<1>1. PICK r \in Judged, i \in window, j \in window :
        judge' = [judge EXCEPT ![s].queued = NoQueue, ![r] = Opened(judge[r], q.trigger, i, j)]
  BY DEF ContinueQueued
<1>2. UNCHANGED <<chat, live, watch, noticed>> BY DEF ContinueQueued
<1>3. judge \in [Judged -> RunRows] /\ chat \in Seq(Messages) /\ Len(chat) <= MaxTalk
  BY TypesUnfolded
<1>4. window \subseteq Students BY DEF Between
<1>5. i \in 0 .. MaxTalk /\ j \in 0 .. MaxTalk /\ i \in Students BY <1>4, WindowInside
<1>6. q.trigger \in Triggers BY <1>3 DEF RunRows, Queues
<1>. DEFINE b == [judge[s] EXCEPT !.queued = NoQueue]
            o == Opened(judge[r], q.trigger, i, j)
<1>. HIDE DEF window
<1>7. b \in RunRows /\ b.first = judge[s].first /\ b.said = judge[s].said
      /\ b.status = judge[s].status /\ b.response = judge[s].response /\ b.credit = judge[s].credit
  BY <1>3, NoQueueIsQueue, QueuedIsRow
<1>8. o \in RunRows /\ o.first = i /\ o.said = judge[r].said /\ o.status = judge[r].status
      /\ o.response = judge[r].response /\ o.credit = judge[r].credit
  BY <1>3, <1>5, <1>6, OpenedIsRow
<1>9. judge' = [judge EXCEPT ![s].queued = NoQueue, ![r] = o] BY <1>1
<1>. HIDE DEF o, q
<1>10. \A x \in Judged : judge'[x] = IF x = r THEN o ELSE IF x = s THEN b ELSE judge[x]
  BY <1>3, <1>9
<1>11. judge' \in [Judged -> RunRows]
  <2>1. \A x \in Judged : judge'[x] \in RunRows BY <1>3, <1>7, <1>8, <1>10
  <2>2. judge' = [x \in Judged |-> judge'[x]] BY <1>3, <1>9
  <2> QED BY <2>1, <2>2
<1>. HIDE DEF b
<1>12. ObservationTypes' BY <1>2, <1>3, <1>11, TypesUnfolded, TypesAfter
<1>13. Quiet BY <1>2, <1>5, <1>7, <1>8, <1>10 DEF Quiet
<1> QED BY <1>12, <1>13

\* The worker goes from one transaction to the next.
LEMMA StageQuiet ==
  ASSUME ObservationTypes, NEW r \in Judged, NEW g \in Stages,
         judge' = [judge EXCEPT ![r].stage = g], chat' = chat, live' = live,
         \/ UNCHANGED <<watch, noticed>>
         \/ Pass(r)
  PROVE  Quiet /\ ObservationTypes'
<1>. DEFINE b == [judge[r] EXCEPT !.stage = g]
<1>1. judge[r] \in RunRows BY RowOf
<1>2. b \in RunRows /\ b.first = judge[r].first /\ b.said = judge[r].said
      /\ b.status = judge[r].status /\ b.response = judge[r].response /\ b.credit = judge[r].credit
  BY <1>1, StagedIsRow
<1>3. judge' = [judge EXCEPT ![r] = b] BY TypesUnfolded
<1>4. /\ watch' \in Cursors /\ watch'.last = watch.last /\ watch'.on = watch.on
      /\ watch'.started = watch.started /\ noticed' \subseteq 1 .. MaxTalk
  <2>1. CASE UNCHANGED <<watch, noticed>> BY <2>1, TypesUnfolded
  <2>2. CASE Pass(r) BY <2>2, PassKeeps
  <2> QED BY <2>1, <2>2
<1>5. live' \in BOOLEAN BY TypesUnfolded
<1>. HIDE DEF b
<1> QED BY <1>2, <1>3, <1>4, <1>5, OneRow

\* The worker has not recorded anything yet, or ends without.
LEMMA WorkerQuiet ==
  ASSUME ObservationTypes, NEW r \in Judged,
         \/ FailJudgement(r) \/ RetryJudgement(r) \/ GiveUpWindow(r) \/ SaveJudgement(r)
         \/ GiveUpRun(r)
  PROVE  Quiet /\ ObservationTypes'
<1>. {"failed", "active", "lost", "saved", "over"} \subseteq Stages BY DEF Stages
<1>1. CASE FailJudgement(r) BY <1>1, StageQuiet DEF FailJudgement
<1>2. CASE RetryJudgement(r) BY <1>2, StageQuiet DEF RetryJudgement
<1>3. CASE GiveUpWindow(r) BY <1>3, StageQuiet DEF GiveUpWindow
<1>4. CASE SaveJudgement(r) BY <1>4, StageQuiet DEF SaveJudgement
<1>5. CASE GiveUpRun(r) BY <1>5, StageQuiet DEF GiveUpRun
<1> QED BY <1>1, <1>2, <1>3, <1>4, <1>5

LEMMA NoticeQuiet ==
  ASSUME ObservationTypes, NEW i \in Spots, Notice(i)
  PROVE  Quiet /\ ObservationTypes'
<1>1. UNCHANGED <<chat, live, watch, judge>> /\ noticed' = noticed \cup {i} BY DEF Notice
<1>2. noticed' \subseteq 1 .. MaxTalk BY <1>1, TypesUnfolded, Bounded DEF Spots
<1> QED BY <1>1, <1>2, TypesUnfolded, TypesAfter DEF Quiet

LEMMA EndQuiet ==
  ASSUME ObservationTypes, EndSession
  PROVE  Quiet /\ ObservationTypes'
<1>1. UNCHANGED <<chat, watch, noticed, judge>> /\ live' = FALSE BY DEF EndSession
<1> QED BY <1>1, TypesUnfolded, TypesAfter DEF Quiet

LEMMA FinalizeQuiet ==
  ASSUME ObservationTypes, FinalizeObservations
  PROVE  Quiet /\ ObservationTypes'
<1>. DEFINE b(r) == IF judge[r].status = "observing"
                    THEN [judge[r] EXCEPT !.status = "finalization_only",
                                          !.outcome = "finalization_only"]
                    ELSE judge[r]
<1>1. /\ UNCHANGED <<chat, live, noticed>> /\ watch' = [watch EXCEPT !.on = FALSE]
      /\ judge' = [r \in Judged |-> b(r)]
  BY DEF FinalizeObservations
<1>2. \A r \in Judged : /\ b(r) \in RunRows /\ b(r).first = judge[r].first
                         /\ b(r).said = judge[r].said
                         /\ b(r).response = judge[r].response /\ b(r).credit = judge[r].credit
  <2>. SUFFICES ASSUME NEW r \in Judged
                PROVE  /\ b(r) \in RunRows /\ b(r).first = judge[r].first
                       /\ b(r).said = judge[r].said
                       /\ b(r).response = judge[r].response /\ b(r).credit = judge[r].credit
    OBVIOUS
  <2>1. judge[r] \in RunRows BY RowOf
  <2>2. CASE judge[r].status = "observing"
    <3>1. "finalization_only" \in Statuses /\ "finalization_only" \in Outcomes
      BY DEF Statuses, Outcomes
    <3>2. b(r) = [judge[r] EXCEPT !.status = "finalization_only",
                                  !.outcome = "finalization_only"]
      BY <2>2
    <3>. HIDE DEF b
    <3> QED BY <2>1, <3>1, <3>2 DEF RunRows
  <2>3. CASE judge[r].status # "observing" BY <2>1, <2>3
  <2> QED BY <2>2, <2>3
<1>. HIDE DEF b
<1>3. judge' \in [Judged -> RunRows] BY <1>1, <1>2
<1>4. watch \in Cursors BY TypesUnfolded
<1>5. watch' \in Cursors /\ ~watch'.on /\ watch'.last = watch.last
      /\ watch'.started = watch.started
  BY <1>1, <1>4 DEF Cursors
<1>6. ObservationTypes' BY <1>1, <1>3, <1>5, TypesUnfolded, TypesAfter
<1>7. Quiet BY <1>1, <1>2, <1>5 DEF Quiet
<1> QED BY <1>6, <1>7

\* When a publication is noted its intervention, or a later one, has begun.
LEMMA MarkQuiet ==
  ASSUME ObservationIInv, NEW r \in Judged, MarkObserving(r)
  PROVE  Quiet /\ ObservationTypes'
<1>. DEFINE b == [[judge[r] EXCEPT !.stage = "over"] EXCEPT !.status = "observing"]
<1>0. ObservationTypes /\ Placed BY DEF ObservationIInv
<1>1. judge[r] \in RunRows /\ watch \in Cursors /\ judge \in [Judged -> RunRows]
  BY <1>0, TypesUnfolded
<1>2. /\ b \in RunRows /\ b.first = judge[r].first /\ b.said = judge[r].said
      /\ b.status = "observing"
      /\ b.response = judge[r].response /\ b.credit = judge[r].credit
  BY <1>1 DEF RunRows, Stages, Statuses
<1>3. judge' = [judge EXCEPT ![r] = b] BY <1>1 DEF MarkObserving
<1>4. watch' = watch
  <2>1. judge[r].said <= watch.last BY <1>0 DEF Placed
  <2>2. judge[r].said \in Nat /\ watch.last \in Nat BY <1>1, Bounded DEF RunRows, Cursors
  <2> QED BY <2>1, <2>2 DEF MarkObserving, Begun
<1>5. UNCHANGED <<chat, live, noticed>> BY DEF MarkObserving
<1>. HIDE DEF b
<1>6. judge' \in [Judged -> RunRows] BY <1>1, <1>2, <1>3
<1>7. ObservationTypes' BY <1>0, <1>4, <1>5, <1>6, TypesUnfolded, TypesAfter
<1>8. \A x \in Judged : judge'[x] = IF x = r THEN b ELSE judge[x] BY <1>1, <1>3
<1>9. Quiet BY <1>2, <1>4, <1>5, <1>8 DEF Quiet
<1> QED BY <1>7, <1>9

\* The messages an outcome is read off have an answer among them.
LEMMA ConcludeQuiet ==
  ASSUME ObservationIInv, NEW r \in Judged, NEW o \in Judged, NEW v \in Verdicts,
         NEW next \in {"over", "recorded"}, Conclude(o, r, v, next),
         UNCHANGED <<chat, live, noticed>>
  PROVE  Quiet /\ ObservationTypes'
<1>. DEFINE later == Between(judge[o].said, Len(chat))
            out == Outcome(o, r, v)
<1>0. ObservationTypes /\ Placed BY DEF ObservationIInv
<1>1. /\ judge[r] \in RunRows /\ judge[o] \in RunRows /\ judge \in [Judged -> RunRows]
      /\ watch \in Cursors /\ chat \in Seq(Messages) /\ Len(chat) <= MaxTalk
  BY <1>0, TypesUnfolded
<1>2. out \in Outcomes BY DEF Outcome, Classified, Outcomes, Verdicts
<1>3. judge[o].status = "observing" /\ judge[o].said < judge[r].first
  BY DEF Conclude, IsLatestOf, Observed
<1>4. later = Answers(chat, judge[o].said) BY <1>1, BetweenIsAnswers
<1>5. judge[r].first \in later
  <2>1. judge[r].first # 0 BY <1>1, <1>3, Bounded DEF RunRows
  <2>2. chat[judge[r].first] = 0 /\ judge[r].first <= Len(chat) BY <1>0, <2>1 DEF Placed
  <2>3. judge[r].first \in Spots BY <1>1, <2>1, <2>2, Bounded DEF RunRows, Spots
  <2> QED BY <1>1, <1>3, <2>2, <2>3 DEF Between, Students
<1>6. PICK i \in later \cup {0} :
        /\ IsFirstIn(i, later)
        /\ judge' = [judge EXCEPT ![o] = Concluded(o, r, out, i), ![r].stage = next]
  BY DEF Conclude
<1>7. IsEarliest(i, later) /\ i # 0 /\ i \in 0 .. MaxTalk
  <2>1. IsEarliest(i, later) BY <1>5, <1>6 DEF IsFirstIn
  <2>2. i \in 1 .. Len(chat) BY <1>4, <2>1 DEF IsEarliest, Answers
  <2> QED BY <1>1, <2>1, <2>2, Bounded
<1>8. watch' = IF out \in Terminating THEN Unwatched(watch) ELSE watch BY DEF Conclude
<1>. DEFINE b == Concluded(o, r, out, i)
<1>. HIDE DEF later, out
<1>9. /\ b \in RunRows /\ b.first = judge[o].first /\ b.said = judge[o].said
      /\ b.status = (IF out \in Terminating THEN "completed" ELSE "observing")
      /\ b.response = (IF judge[o].response = 0 THEN i ELSE judge[o].response)
      /\ b.credit = judge[r].first
  BY <1>1, <1>2, <1>7 DEF Concluded, RunRows, Statuses
<1>. HIDE DEF b
<1>10. \A x \in Judged :
         /\ judge'[x].first = judge[x].first /\ judge'[x].said = judge[x].said
         /\ IF x = o
            THEN judge'[x].status = b.status /\ judge'[x].response = b.response
                 /\ judge'[x].credit = b.credit
            ELSE judge'[x].status = judge[x].status /\ judge'[x].response = judge[x].response
                 /\ judge'[x].credit = judge[x].credit
  <2>1. judge' = [[judge EXCEPT ![o] = b] EXCEPT ![r].stage = next] BY <1>6 DEF b
  <2> QED BY <1>1, <1>9, <2>1 DEF RunRows
<1>11. judge' \in [Judged -> RunRows]
  <2>. DEFINE mid == [judge EXCEPT ![o] = b]
              c == [mid[r] EXCEPT !.stage = next]
  <2>1. mid \in [Judged -> RunRows] BY <1>1, <1>9
  <2>2. mid[r] \in RunRows BY <2>1
  <2>3. c \in RunRows BY <2>2, StagedIsRow DEF Stages
  <2>4. judge' = [mid EXCEPT ![r] = c] BY <1>6 DEF b
  <2>. HIDE DEF mid, c
  <2> QED BY <2>1, <2>3, <2>4
<1>12. watch' \in Cursors /\ watch'.last = watch.last /\ watch'.started = watch.started
       /\ (watch'.on => watch.on /\ out \notin Terminating)
  BY <1>1, <1>8 DEF Unwatched, Cursors
<1>13. ObservationTypes' BY <1>0, <1>11, <1>12, TypesUnfolded, TypesAfter
<1>14. Quiet
  <2>1. \A x \in Judged :
          \/ judge'[x].response = judge[x].response /\ judge'[x].credit = judge[x].credit
          \/ /\ judge'[x].response # 0 /\ judge[x].said < judge'[x].credit
             /\ IsEarliest(judge'[x].response, Answers(chat, judge[x].said))
    BY <1>0, <1>3, <1>4, <1>7, <1>9, <1>10 DEF Placed
  <2> QED BY <1>10, <1>12, <2>1 DEF Quiet
<1> QED BY <1>13, <1>14

LEMMA RecordQuiet ==
  ASSUME ObservationIInv, NEW r \in Judged, RecordOutcome(r)
  PROVE  Quiet /\ ObservationTypes'
<1>1. PICK v \in Verdicts :
        \E next \in {"over"} \cup (IF v.should THEN {"recorded"} ELSE {}) :
          IF judge[r].trigger = "observation" /\ Observed(judge[r].first) # {}
          THEN \E o \in Judged : Conclude(o, r, v, next)
          ELSE judge' = [judge EXCEPT ![r].stage = next] /\ UNCHANGED watch
  BY DEF RecordOutcome
<1>2. PICK next \in {"over", "recorded"} :
        \/ \E o \in Judged : Conclude(o, r, v, next)
        \/ judge' = [judge EXCEPT ![r].stage = next] /\ UNCHANGED watch
  BY <1>1
<1>3. UNCHANGED <<chat, live, noticed>> BY DEF RecordOutcome
<1>4. CASE \E o \in Judged : Conclude(o, r, v, next) BY <1>3, <1>4, ConcludeQuiet
<1>5. CASE judge' = [judge EXCEPT ![r].stage = next] /\ UNCHANGED watch
  <2>1. ObservationTypes /\ next \in Stages BY DEF ObservationIInv, Stages
  <2> QED BY <1>3, <1>5, <2>1, StageQuiet
<1> QED BY <1>2, <1>4, <1>5

-----------------------------------------------------------------------------
(* Steps that add a message. *)

LEMMA SpeakKeeps ==
  ASSUME ObservationIInv, StudentSpeaks
  PROVE  ObservationTypes' /\ Placed' /\ StartIsFirstResponse' /\ WatchAtLatest'
<1>. DEFINE n == Len(chat) + 1
<1>0. ObservationTypes /\ Placed /\ StartIsFirstResponse /\ WatchAtLatest
  BY DEF ObservationIInv
<1>1. /\ chat \in Seq(Messages) /\ Len(chat) \in Nat /\ watch \in Cursors
      /\ judge \in [Judged -> RunRows] /\ MaxTalk \in Nat /\ 0 \in Messages
  BY <1>0, TypesUnfolded, Bounded DEF Messages
<1>2. /\ chat' = Append(chat, 0) /\ UNCHANGED <<live, noticed, judge>>
      /\ watch' = Answered(watch, n) /\ Len(chat) < MaxTalk
  BY DEF StudentSpeaks
<1>3. /\ chat' \in Seq(Messages) /\ Len(chat') = n
      /\ \A k \in 1 .. Len(chat) : chat'[k] = chat[k]
  BY <1>1, <1>2
<1>4. /\ watch' \in Cursors /\ watch'.last = watch.last /\ watch'.on = watch.on
      /\ watch'.started = IF watch.on /\ watch.last < n /\ (watch.started = 0 \/ n < watch.started)
                          THEN n ELSE watch.started
  BY <1>1, <1>2 DEF Answered, Cursors
<1>5. ObservationTypes' BY <1>0, <1>1, <1>2, <1>3, <1>4, TypesUnfolded, TypesAfter
<1>6. \A i \in Nat : Answers(chat', i) = Answers(chat, i) \cup (IF i <= Len(chat) THEN {n} ELSE {})
  BY <1>1, <1>2, AnswersAppend
<1>7. Placed'
  <2>1. (watch.last <= Len(chat))' BY <1>0, <1>1, <1>3, <1>4 DEF Placed, Cursors
  <2>2. (\A r \in Judged : judge[r].said <= watch.last /\ judge[r].first <= Len(chat))'
    BY <1>0, <1>1, <1>2, <1>3, <1>4 DEF Placed, RunRows
  <2>3. (\A r \in Judged : judge[r].first # 0 => chat[judge[r].first] = 0)'
    BY <1>0, <1>1, <1>2, <1>3 DEF Placed, RunRows
  <2>4. (\A r \in Judged : judge[r].response # 0 =>
           IsEarliest(judge[r].response, Answers(chat, judge[r].said)))'
    <3>. SUFFICES ASSUME NEW r \in Judged, judge[r].response # 0
                  PROVE  IsEarliest(judge[r].response, Answers(chat', judge[r].said))
      BY <1>2
    <3>1. judge[r].response \in Nat /\ judge[r].said \in Nat BY <1>1 DEF RunRows
    <3> QED BY <1>0, <1>1, <1>2, <3>1, FirstStays DEF Placed
  <2>5. (\A r \in Judged : judge[r].credit # 0 =>
           judge[r].response # 0 /\ judge[r].said < judge[r].credit)'
    BY <1>0, <1>2 DEF Placed
  <2> QED BY <2>1, <2>2, <2>3, <2>4, <2>5 DEF Placed
<1>8. StartIsFirstResponse'
  <2>. SUFFICES ASSUME watch.on PROVE IsFirstIn(watch'.started, Answers(chat', watch.last))
    BY <1>3, <1>4, BetweenIsAnswersAfter DEF StartIsFirstResponse
  <2>1. watch.last \in Nat /\ watch.last <= Len(chat) /\ watch.started \in Nat
    BY <1>0, <1>1 DEF Placed, Cursors
  <2>2. IsFirstIn(watch.started, Answers(chat, watch.last))
    BY <1>0, <1>1, BetweenIsAnswers DEF StartIsFirstResponse
  <2>3. Answers(chat', watch.last) = Answers(chat, watch.last) \cup {n} BY <1>6, <2>1
  <2>4. \A k \in Answers(chat, watch.last) : k \in 1 .. Len(chat) BY DEF Answers
  <2> QED BY <1>1, <1>4, <2>1, <2>2, <2>3, <2>4 DEF IsFirstIn, IsEarliest
<1>9. WatchAtLatest'
  <2>1. Strategy(chat') = Strategy(chat) BY <1>1, <1>2, StrategyAppend
  <2> QED BY <1>0, <1>1, <1>3, <1>4, <2>1, LatestIsStrategy
<1> QED BY <1>5, <1>7, <1>8, <1>9

\* A strategy message begins an observation: the cursor moves to it, and nobody
\* has answered it yet.
LEMMA BeginsHere ==
  ASSUME ObservationIInv, NEW e \in Messages, e # 0, Len(chat) < MaxTalk,
         chat' = Append(chat, e), watch' = Begun(watch, Len(chat) + 1)
  PROVE  /\ chat' \in Seq(Messages) /\ Len(chat') = Len(chat) + 1
         /\ \A k \in 1 .. Len(chat) : chat'[k] = chat[k]
         /\ watch' \in Cursors /\ watch'.last = Len(chat) + 1
         /\ StartIsFirstResponse' /\ WatchAtLatest'
<1>. DEFINE n == Len(chat) + 1
<1>0. ObservationTypes /\ Placed /\ WatchAtLatest BY DEF ObservationIInv
<1>1. chat \in Seq(Messages) /\ Len(chat) \in Nat /\ watch \in Cursors /\ MaxTalk \in Nat
  BY <1>0, TypesUnfolded, Bounded
<1>2. /\ chat' \in Seq(Messages) /\ Len(chat') = n /\ chat'[n] = e
      /\ \A k \in 1 .. Len(chat) : chat'[k] = chat[k]
  BY <1>1
<1>3. /\ watch' \in Cursors /\ watch'.last = n /\ watch'.on /\ watch'.started = 0
  <2>1. watch.last \in 0 .. MaxTalk /\ watch.last <= Len(chat) /\ n \in 0 .. MaxTalk
    BY <1>0, <1>1 DEF Cursors, Placed
  <2>2. watch' = [watch EXCEPT !.on = TRUE, !.started = 0, !.last = n]
    BY <1>1, <2>1 DEF Begun
  <2>. HIDE DEF n
  <2>3. 0 \in 0 .. MaxTalk /\ watch \in Cursors BY <1>1
  <2>4. watch' \in Cursors BY <2>1, <2>2, <2>3 DEF Cursors
  <2>5. watch'.last = n /\ watch'.started = 0 BY <2>2, <2>3 DEF Cursors
  <2>6. watch'.on = TRUE BY <2>2, <2>3 DEF Cursors
  <2> QED BY <2>4, <2>5, <2>6
<1>4. StartIsFirstResponse'
  <2>1. Answers(chat', n) = {} BY <1>1, <1>2 DEF Answers
  <2> QED BY <1>2, <1>3, <2>1, BetweenIsAnswersAfter DEF StartIsFirstResponse, IsFirstIn
<1>5. WatchAtLatest'
  <2>1. Strategy(chat') = Strategy(chat) \cup {n} BY <1>1, StrategyAppend
  <2>2. \A k \in Strategy(chat) : k \in Nat /\ k <= Len(chat) BY <1>1 DEF Strategy
  <2>3. IsLatest(n, Strategy(chat')) BY <1>1, <2>1, <2>2 DEF IsLatest
  <2> QED BY <1>2, <1>3, <2>3, LatestIsStrategy
<1> QED BY <1>2, <1>3, <1>4, <1>5

\* The answer to a help request: the runs stay as they are.
LEMMA AnswerKeeps ==
  ASSUME ObservationIInv, AnswerHelp
  PROVE  ObservationTypes' /\ Placed' /\ StartIsFirstResponse' /\ WatchAtLatest'
<1>0. ObservationTypes /\ Placed BY DEF ObservationIInv
<1>1. /\ chat \in Seq(Messages) /\ Len(chat) \in Nat /\ watch \in Cursors
      /\ judge \in [Judged -> RunRows] /\ MaxTalk \in Nat /\ Answer \in Messages \ {0}
  BY <1>0, TypesUnfolded, Bounded DEF Messages, Answer
<1>2. /\ chat' = Append(chat, Answer) /\ UNCHANGED <<live, noticed, judge>>
      /\ watch' = Begun(watch, Len(chat) + 1) /\ Len(chat) < MaxTalk
  BY DEF AnswerHelp
<1>3. /\ chat' \in Seq(Messages) /\ Len(chat') = Len(chat) + 1
      /\ \A k \in 1 .. Len(chat) : chat'[k] = chat[k]
      /\ watch' \in Cursors /\ watch'.last = Len(chat) + 1
      /\ StartIsFirstResponse' /\ WatchAtLatest'
  <2>1. Answer \in Messages /\ Answer # 0 BY <1>1
  <2> QED BY <1>2, <2>1, BeginsHere
<1>4. ObservationTypes' BY <1>0, <1>1, <1>2, <1>3, TypesUnfolded, TypesAfter
<1>5. Placed'
  <2>1. (watch.last <= Len(chat))' BY <1>1, <1>3
  <2>2. (\A r \in Judged : judge[r].said <= watch.last /\ judge[r].first <= Len(chat))'
    <3>1. \A r \in Judged : /\ judge[r].said <= watch.last /\ judge[r].first <= Len(chat)
                            /\ watch.last <= Len(chat)
                            /\ judge[r].said \in Nat /\ judge[r].first \in Nat
      BY <1>0, <1>1 DEF Placed, RunRows
    <3>2. watch.last \in Nat BY <1>1 DEF Cursors
    <3> QED BY <1>1, <1>2, <1>3, <3>1, <3>2
  <2>3. (\A r \in Judged : judge[r].first # 0 => chat[judge[r].first] = 0)'
    BY <1>0, <1>1, <1>2, <1>3 DEF Placed, RunRows
  <2>4. (\A r \in Judged : judge[r].response # 0 =>
           IsEarliest(judge[r].response, Answers(chat, judge[r].said)))'
    <3>. SUFFICES ASSUME NEW r \in Judged, judge[r].response # 0
                  PROVE  IsEarliest(judge[r].response, Answers(chat', judge[r].said))
      BY <1>2
    <3>1. judge[r].response \in Nat /\ judge[r].said \in Nat BY <1>1 DEF RunRows
    <3> QED BY <1>0, <1>1, <1>2, <3>1, FirstStays DEF Placed
  <2>5. (\A r \in Judged : judge[r].credit # 0 =>
           judge[r].response # 0 /\ judge[r].said < judge[r].credit)'
    BY <1>0, <1>2 DEF Placed
  <2> QED BY <2>1, <2>2, <2>3, <2>4, <2>5 DEF Placed
<1> QED BY <1>3, <1>4, <1>5

LEMMA PublishKeeps ==
  ASSUME ObservationIInv, NEW r \in Judged, PublishIntervention(r)
  PROVE  ObservationTypes' /\ Placed' /\ StartIsFirstResponse' /\ WatchAtLatest'
<1>. DEFINE n == Len(chat) + 1
            b == [[judge[r] EXCEPT !.stage = "published"] EXCEPT !.said = n]
<1>0. ObservationTypes /\ Placed /\ NotedLast BY DEF ObservationIInv
<1>1. /\ chat \in Seq(Messages) /\ Len(chat) \in Nat /\ watch \in Cursors
      /\ judge \in [Judged -> RunRows] /\ MaxTalk \in Nat /\ r \in Messages /\ r # 0
  BY <1>0, TypesUnfolded, Bounded DEF Messages
<1>2. /\ chat' = Append(chat, r) /\ UNCHANGED <<live, noticed>> /\ watch' = Begun(watch, n)
      /\ Len(chat) < MaxTalk /\ judge[r].stage = "recorded"
  BY DEF PublishIntervention
<1>3. /\ chat' \in Seq(Messages) /\ Len(chat') = n
      /\ \A k \in 1 .. Len(chat) : chat'[k] = chat[k]
      /\ watch' \in Cursors /\ watch'.last = n
      /\ StartIsFirstResponse' /\ WatchAtLatest'
  BY <1>1, <1>2, BeginsHere
<1>4. judge[r].status = "none" /\ judge[r].response = 0 /\ judge[r].credit = 0
  BY <1>0, <1>2 DEF NotedLast, Placed
<1>5. /\ b \in RunRows /\ b.first = judge[r].first /\ b.said = n /\ b.status = "none"
      /\ b.response = 0 /\ b.credit = 0
  <2>1. judge[r] \in RunRows /\ n \in 0 .. MaxTalk BY <1>1, <1>2
  <2>. HIDE DEF n
  <2> QED BY <1>4, <2>1 DEF RunRows, Stages
<1>6. judge' = [judge EXCEPT ![r] = b] BY <1>1 DEF PublishIntervention
<1>. HIDE DEF b
<1>7. judge' \in [Judged -> RunRows] BY <1>1, <1>5, <1>6
<1>8. \A x \in Judged : judge'[x] = IF x = r THEN b ELSE judge[x] BY <1>1, <1>6
<1>9. ObservationTypes' BY <1>0, <1>1, <1>2, <1>3, <1>7, TypesUnfolded, TypesAfter
<1>10. Placed'
  <2>1. (watch.last <= Len(chat))' BY <1>1, <1>3
  <2>2. (\A x \in Judged : judge[x].said <= watch.last /\ judge[x].first <= Len(chat))'
    <3>1. \A x \in Judged : /\ judge[x].said <= watch.last /\ judge[x].first <= Len(chat)
                            /\ watch.last <= Len(chat)
                            /\ judge[x].said \in Nat /\ judge[x].first \in Nat
      BY <1>0, <1>1 DEF Placed, RunRows
    <3>2. watch.last \in Nat BY <1>1 DEF Cursors
    <3> QED BY <1>1, <1>3, <1>5, <1>8, <3>1, <3>2
  <2>3. (\A x \in Judged : judge[x].first # 0 => chat[judge[x].first] = 0)'
    <3>1. \A x \in Judged : judge'[x].first = judge[x].first BY <1>5, <1>8
    <3>2. \A x \in Judged : /\ judge[x].first \in Nat /\ judge[x].first <= Len(chat)
                            /\ judge[x].first # 0 => chat[judge[x].first] = 0
      BY <1>0, <1>1 DEF Placed, RunRows
    <3> QED BY <1>1, <1>3, <3>1, <3>2
  <2>4. (\A x \in Judged : judge[x].response # 0 =>
           IsEarliest(judge[x].response, Answers(chat, judge[x].said)))'
    <3>. SUFFICES ASSUME NEW x \in Judged, judge'[x].response # 0
                  PROVE  IsEarliest(judge'[x].response, Answers(chat', judge'[x].said))
      OBVIOUS
    <3>1. judge'[x] = judge[x] BY <1>5, <1>8
    <3>2. judge[x].response \in Nat /\ judge[x].said \in Nat BY <1>1 DEF RunRows
    <3> QED BY <1>0, <1>1, <1>2, <3>1, <3>2, FirstStays DEF Placed
  <2>5. (\A x \in Judged : judge[x].credit # 0 =>
           judge[x].response # 0 /\ judge[x].said < judge[x].credit)'
    BY <1>0, <1>5, <1>8 DEF Placed
  <2> QED BY <2>1, <2>2, <2>3, <2>4, <2>5 DEF Placed
<1> QED BY <1>3, <1>9, <1>10

-----------------------------------------------------------------------------
(* Who has noted a publication is done. *)

LEMMA NotedKeeps ==
  ASSUME ObservationTypes, NotedLast, ObservationNext
  PROVE  NotedLast'
<1>. USE DEF NotedLast
<1>1. judge \in [Judged -> RunRows] BY TypesUnfolded
<1>. DEFINE Done(b) == /\ b.status # "none" => b.stage = "over"
                       /\ b.response # 0 => b.status # "none"
<1>2. CASE judge' = judge BY <1>2
<1>3. CASE FinalizeObservations
  <2>1. \A r \in Judged :
          judge'[r] = IF judge[r].status = "observing"
                      THEN [judge[r] EXCEPT !.status = "finalization_only",
                                            !.outcome = "finalization_only"]
                      ELSE judge[r]
    BY <1>3 DEF FinalizeObservations
  <2> QED BY <1>1, <2>1 DEF RunRows
<1>4. ASSUME NEW r \in Judged, NEW b, judge' = [judge EXCEPT ![r] = b], Done(b)
      PROVE  NotedLast'
  BY <1>1, <1>4
<1>5. ASSUME NEW r \in Judged, RequestJudgement(r) PROVE NotedLast'
  <2>a. PICK t \in Triggers : \E bound \in Bounds(t) :
          Assess(r, t, bound) \/ Raise(r, t, bound) \/ QueueRequest(r, t, bound)
    BY <1>5 DEF RequestJudgement
  <2>1. PICK bound \in Bounds(t) :
          Assess(r, t, bound) \/ Raise(r, t, bound) \/ QueueRequest(r, t, bound)
    BY <2>a
  <2>2. CASE Assess(r, t, bound)
    <3>1. PICK i, j : judge' = [judge EXCEPT ![r] = Opened(@, t, i, j)]
      BY <2>2 DEF Assess
    <3>2. judge[r].stage # "over" BY <2>2 DEF Assess, Serves, Free
    <3>3. Done(Opened(judge[r], t, i, j)) BY <1>1, <3>2 DEF Opened, RunRows
    <3>4. judge' = [judge EXCEPT ![r] = Opened(judge[r], t, i, j)] BY <1>1, <3>1
    <3>. HIDE DEF Done
    <3> QED BY <1>4, <3>3, <3>4
  <2>3. CASE Raise(r, t, bound) BY <1>1, <2>3 DEF Raise, RunRows
  <2>4. CASE QueueRequest(r, t, bound)
    <3>1. PICK q : judge' = [judge EXCEPT ![r].queued = q] BY <2>4 DEF QueueRequest
    <3> QED BY <1>1, <3>1 DEF RunRows
  <2> QED BY <2>1, <2>2, <2>3, <2>4
<1>6. ASSUME NEW s \in Judged, ContinueQueued(s) PROVE NotedLast'
  <2>. DEFINE window == Between(judge[s].queued.first - 1, judge[s].queued.bound)
  <2>1. PICK r \in Judged, i \in window, j \in window :
          /\ Serves(r, window)
          /\ judge' = [judge EXCEPT ![s].queued = NoQueue,
                                    ![r] = Opened(judge[r], judge[s].queued.trigger, i, j)]
    <3>1. \E r \in Judged : \E i, j \in window :
            /\ Serves(r, window) /\ IsEarliest(i, window) /\ IsLatest(j, window)
            /\ judge' = [judge EXCEPT ![s].queued = NoQueue,
                                      ![r] = Opened(judge[r], judge[s].queued.trigger, i, j)]
      BY <1>6, Zenon DEF ContinueQueued
    <3> QED BY <3>1, Zenon
  <2>2. judge[r].stage # "over" BY <2>1 DEF Serves, Free
  <2>. DEFINE o == Opened(judge[r], judge[s].queued.trigger, i, j)
  <2>3. Done(o) BY <1>1, <2>2 DEF Opened, RunRows
  <2>4. judge' = [judge EXCEPT ![s].queued = NoQueue, ![r] = o] BY <2>1
  <2>. HIDE DEF o
  <2> QED BY <1>1, <2>3, <2>4 DEF RunRows
<1>7. ASSUME NEW r \in Judged,
             \/ FailJudgement(r) \/ RetryJudgement(r) \/ GiveUpWindow(r) \/ SaveJudgement(r)
             \/ PublishIntervention(r) \/ MarkObserving(r) \/ GiveUpRun(r)
      PROVE  NotedLast'
  <2>0. judge[r] \in RunRows BY <1>1
  <2>1. ASSUME NEW next, judge' = [judge EXCEPT ![r].stage = next], judge[r].stage # "over"
        PROVE  NotedLast'
    <3>1. judge' = [judge EXCEPT ![r] = [judge[r] EXCEPT !.stage = next]] BY <2>1
    <3>2. Done([judge[r] EXCEPT !.stage = next]) BY <2>0, <2>1 DEF RunRows
    <3>. HIDE DEF Done
    <3> QED BY <1>4, <3>1, <3>2
  <2>2. CASE FailJudgement(r) BY <2>1, <2>2 DEF FailJudgement
  <2>3. CASE RetryJudgement(r) BY <2>1, <2>3 DEF RetryJudgement
  <2>4. CASE GiveUpWindow(r) BY <2>1, <2>4 DEF GiveUpWindow
  <2>5. CASE SaveJudgement(r) BY <2>1, <2>5 DEF SaveJudgement
  <2>6. CASE GiveUpRun(r) BY <2>1, <2>6 DEF GiveUpRun
  <2>7. CASE PublishIntervention(r)
    <3>. DEFINE b == [judge[r] EXCEPT !.stage = "published", !.said = Len(chat) + 1]
    <3>1. judge' = [judge EXCEPT ![r] = b] /\ judge[r].stage = "recorded"
      BY <2>7 DEF PublishIntervention
    <3>2. Done(b) BY <2>0, <3>1 DEF RunRows
    <3>. HIDE DEF Done, b
    <3> QED BY <1>4, <3>1, <3>2
  <2>8. CASE MarkObserving(r)
    <3>. DEFINE b == [judge[r] EXCEPT !.stage = "over", !.status = "observing"]
    <3>1. judge' = [judge EXCEPT ![r] = b] BY <2>8 DEF MarkObserving
    <3>2. Done(b) BY <2>0 DEF RunRows
    <3>. HIDE DEF Done, b
    <3> QED BY <1>4, <3>1, <3>2
  <2> QED BY <1>7, <2>2, <2>3, <2>4, <2>5, <2>6, <2>7, <2>8
<1>8. ASSUME NEW r \in Judged, RecordOutcome(r) PROVE NotedLast'
  <2>1. PICK v, next :
          \/ \E o \in Judged : Conclude(o, r, v, next)
          \/ judge' = [judge EXCEPT ![r].stage = next]
    BY <1>8 DEF RecordOutcome
  <2>2. judge[r].stage = "saved" BY <1>8 DEF RecordOutcome
  <2>3. CASE judge' = [judge EXCEPT ![r].stage = next] BY <1>1, <2>2, <2>3 DEF RunRows
  <2>4. ASSUME NEW o \in Judged, Conclude(o, r, v, next) PROVE NotedLast'
    <3>1. judge[o].status = "observing" /\ judge[o].stage = "over"
      BY <2>4 DEF Conclude, IsLatestOf, Observed
    <3>2. PICK i : judge' = [judge EXCEPT ![o] = Concluded(o, r, Outcome(o, r, v), i),
                                          ![r].stage = next]
      BY <2>4 DEF Conclude
    <3>. DEFINE b == Concluded(o, r, Outcome(o, r, v), i)
    <3>3. Done(b) /\ b.stage = "over" BY <1>1, <3>1 DEF Concluded, RunRows
    <3>4. judge' = [judge EXCEPT ![o] = b, ![r].stage = next] BY <3>2
    <3>. HIDE DEF b
    <3> QED BY <1>1, <2>2, <3>1, <3>3, <3>4 DEF RunRows
  <2> QED BY <2>1, <2>3, <2>4
<1>9. CASE StudentSpeaks \/ AnswerHelp \/ EndSession \/ \E i \in Spots : Notice(i)
  BY <1>2, <1>9 DEF StudentSpeaks, AnswerHelp, EndSession, Notice
<1> QED BY <1>3, <1>5, <1>6, <1>7, <1>8, <1>9 DEF ObservationNext

-----------------------------------------------------------------------------
(* The sizes of windows.  A new window has at most MaxWindow messages because *)
(* its last one has fewer than MaxWindow before it; a window that continues a *)
(* queued request has no more than the one the request waited for.            *)

Covers(c, i, j) == {k \in 1 .. Len(c) : c[k] = 0 /\ i < k /\ k <= j}

Sized(c, b) ==
  /\ b.stage # "none" => b.first # 0
  /\ b.first # 0 => /\ b.last <= Len(c)
                    /\ Cardinality(Covers(c, b.first - 1, b.last)) \in 1 .. MaxWindow
  /\ b.queued # NoQueue =>
       b.stage # "none" /\ b.first <= b.queued.first /\ b.queued.bound <= b.last

WindowsSized == \A r \in Judged : Sized(chat, judge[r])

LEMMA BetweenIsCovers ==
  ASSUME chat \in Seq(Messages), NEW i, NEW j PROVE Between(i, j) = Covers(chat, i, j)
BY DEF Between, Students, Spots, Covers

\* A message that is added lies behind every window there is.
LEMMA CoversStays ==
  ASSUME NEW c \in Seq(Messages), NEW e \in Messages, NEW i \in Int, NEW j \in Nat, j <= Len(c)
  PROVE  Covers(Append(c, e), i, j) = Covers(c, i, j)
<1>. DEFINE d == Append(c, e)
<1>1. Len(d) = Len(c) + 1 /\ Len(c) \in Nat /\ \A k \in 1 .. Len(c) : d[k] = c[k] OBVIOUS
<1>. HIDE DEF d
<1>2. \A k \in Int : k \in 1 .. Len(d) /\ k <= j <=> k \in 1 .. Len(c) /\ k <= j BY <1>1
<1>3. Covers(d, i, j) = Covers(c, i, j) BY <1>1, <1>2 DEF Covers
<1> QED BY <1>3 DEF d

LEMMA WindowsFinite ==
  ASSUME ObservationTypes, NEW S \in SUBSET Students
  PROVE  IsFiniteSet(S) /\ Cardinality(S) \in Nat /\ (S # {} => Cardinality(S) # 0)
<1>1. Len(chat) \in Nat BY TypesUnfolded
<1>2. IsFiniteSet(1 .. Len(chat)) BY <1>1, FS_Interval
<1>3. S \subseteq 1 .. Len(chat) BY DEF Students, Spots
<1> QED BY <1>2, <1>3, FS_Subset, FS_CardinalityType, FS_EmptySet

LEMMA PartsFit ==
  ASSUME ObservationTypes, NEW S \in SUBSET Students, NEW T \in SUBSET S, T # {},
         Cardinality(S) <= MaxWindow
  PROVE  Cardinality(T) \in 1 .. MaxWindow
<1>1. IsFiniteSet(S) /\ Cardinality(S) \in Nat BY WindowsFinite
<1>2. T \in SUBSET Students /\ Cardinality(T) \in Nat /\ Cardinality(T) # 0
  BY WindowsFinite
<1>3. Cardinality(T) <= Cardinality(S) BY <1>1, FS_Subset
<1> QED BY <1>1, <1>2, <1>3, ObservationAssumption

\* From its first to its last message a window leaves no message out.
LEMMA FirstOnesFit ==
  ASSUME ObservationTypes, NEW bound \in Nat,
         NEW i, IsEarliest(i, FirstOnes(Waiting(bound))),
         NEW j, IsLatest(j, FirstOnes(Waiting(bound)))
  PROVE  j <= Len(chat) /\ i # 0 /\ Cardinality(Covers(chat, i - 1, j)) \in 1 .. MaxWindow
<1>. DEFINE S == Waiting(bound)
            W == FirstOnes(S)
            Before(k) == {x \in S : x < k}
<1>1. /\ chat \in Seq(Messages) /\ Len(chat) \in Nat /\ watch.scheduled \in Nat
      /\ MaxWindow \in Nat \ {0}
  BY TypesUnfolded, ObservationAssumption DEF Cursors
<1>2. S \subseteq Students /\ S \subseteq 1 .. Len(chat) BY DEF Waiting, Between, Students, Spots
<1>3. W = {k \in S : Cardinality(Before(k)) < MaxWindow} BY DEF FirstOnes
<1>4. /\ i \in W /\ j \in W /\ i \in S /\ j \in S /\ i \in 1 .. Len(chat) /\ j \in 1 .. Len(chat)
      /\ \A k \in W : i <= k /\ k <= j
  BY <1>2, <1>3 DEF IsEarliest, IsLatest
<1>5. \A k \in S : Before(k) \in SUBSET Students BY <1>2
<1>6. \A k \in S : IsFiniteSet(Before(k)) /\ Cardinality(Before(k)) \in Nat
  <2>. SUFFICES ASSUME NEW k \in S PROVE IsFiniteSet(Before(k)) /\ Cardinality(Before(k)) \in Nat
    OBVIOUS
  <2>. HIDE DEF S
  <2> QED BY <1>5, WindowsFinite
<1>7. Covers(chat, i - 1, j) = W
  <2>1. ASSUME NEW k \in Covers(chat, i - 1, j) PROVE k \in W
    <3>1. k \in 1 .. Len(chat) /\ chat[k] = 0 /\ i <= k /\ k <= j
      BY <1>4 DEF Covers
    <3>2. k \in S BY <1>1, <1>4, <3>1 DEF Waiting, Between, Students, Spots
    <3>3. Before(k) \subseteq Before(j) BY <1>2, <1>4, <3>1
    <3>4. Cardinality(Before(k)) <= Cardinality(Before(j)) BY <1>4, <1>6, <3>3, FS_Subset
    <3>5. Cardinality(Before(j)) < MaxWindow BY <1>3, <1>4
    <3>6. Cardinality(Before(k)) \in Nat /\ Cardinality(Before(j)) \in Nat
      BY <1>4, <1>6, <3>2
    <3>7. Cardinality(Before(k)) < MaxWindow
      <4>. HIDE DEF Before
      <4> QED BY <1>1, <3>4, <3>5, <3>6
    <3> QED BY <1>3, <3>2, <3>7
  <2>2. ASSUME NEW k \in W PROVE k \in Covers(chat, i - 1, j)
    BY <1>2, <1>3, <1>4, <2>2 DEF Covers, Students
  <2> QED BY <2>1, <2>2
<1>8. Cardinality(W) \in 1 .. MaxWindow
  <2>1. W \in SUBSET Students /\ W # {} BY <1>2, <1>3, <1>4
  <2>2. W \subseteq Before(j) \cup {j} BY <1>2, <1>3, <1>4
  <2>3. /\ IsFiniteSet(Before(j)) /\ Cardinality(Before(j)) \in Nat
        /\ Cardinality(Before(j)) < MaxWindow
    BY <1>3, <1>4, <1>6
  <2>4. j \notin Before(j) BY <1>4
  <2>5. IsFiniteSet(Before(j) \cup {j})
        /\ Cardinality(Before(j) \cup {j}) = Cardinality(Before(j)) + 1
    BY <2>3, <2>4, FS_AddElement
  <2>6. Before(j) \cup {j} \in SUBSET Students BY <1>2, <1>4
  <2>7. Cardinality(Before(j) \cup {j}) <= MaxWindow BY <1>1, <2>3, <2>5
  <2>. HIDE DEF W, Before
  <2> QED BY <2>1, <2>2, <2>6, <2>7, PartsFit
<1> QED BY <1>4, <1>7, <1>8

\* The window of a queued request lies inside the one it waited for.
LEMMA QueuedFits ==
  ASSUME ObservationTypes, NEW b \in RunRows, Sized(chat, b), b.queued # NoQueue,
         NEW i, IsEarliest(i, Between(b.queued.first - 1, b.queued.bound)),
         NEW j, IsLatest(j, Between(b.queued.first - 1, b.queued.bound))
  PROVE  j <= Len(chat) /\ i # 0 /\ Cardinality(Covers(chat, i - 1, j)) \in 1 .. MaxWindow
<1>. DEFINE q == b.queued
            W == Between(q.first - 1, q.bound)
            S == Covers(chat, b.first - 1, b.last)
<1>1. chat \in Seq(Messages) /\ Len(chat) \in Nat BY TypesUnfolded
<1>2. /\ b.first \in Nat /\ b.last \in Nat /\ q.first \in Nat /\ q.bound \in Nat
      /\ b.first # 0 /\ b.first <= q.first /\ q.bound <= b.last
  BY Bounded DEF RunRows, Queues, Sized
<1>3. Cardinality(S) \in 1 .. MaxWindow BY <1>2 DEF Sized
<1>4. W = Covers(chat, q.first - 1, q.bound) BY <1>1, BetweenIsCovers
<1>5. /\ i \in W /\ j \in W /\ i \in 1 .. Len(chat) /\ j \in 1 .. Len(chat)
      /\ q.first <= i /\ j <= q.bound /\ \A k \in W : i <= k /\ k <= j
  BY <1>2, <1>4 DEF IsEarliest, IsLatest, Covers
<1>. HIDE DEF q, W
<1>6. Covers(chat, i - 1, j) \subseteq S /\ i \in Covers(chat, i - 1, j)
  BY <1>1, <1>2, <1>4, <1>5 DEF Covers
<1>7. S \in SUBSET Students BY DEF Covers, Students, Spots
<1>8. Cardinality(S) <= MaxWindow BY <1>3, ObservationAssumption
<1>9. Cardinality(Covers(chat, i - 1, j)) \in 1 .. MaxWindow
  <2>. HIDE DEF S
  <2> QED BY <1>6, <1>7, <1>8, PartsFit
<1> QED BY <1>5, <1>9

\* A row that keeps its window keeps its size; its request may be withdrawn.
Windowed(b, d) ==
  /\ d.first = b.first /\ d.last = b.last /\ (d.queued = b.queued \/ d.queued = NoQueue)
  /\ d.stage = "none" <=> b.stage = "none"

LEMMA SizedStays ==
  ASSUME NEW c, NEW b, NEW d, Sized(c, b), Windowed(b, d) PROVE Sized(c, d)
BY DEF Sized, Windowed

LEMMA SizedGrows ==
  ASSUME NEW c \in Seq(Messages), NEW e \in Messages, NEW b \in RunRows, Sized(c, b)
  PROVE  Sized(Append(c, e), b)
<1>1. b.first \in Nat /\ b.last \in Nat /\ Len(c) \in Nat BY Bounded DEF RunRows
<1>2. Len(Append(c, e)) = Len(c) + 1 OBVIOUS
<1>3. b.first # 0 => Covers(Append(c, e), b.first - 1, b.last) = Covers(c, b.first - 1, b.last)
  <2>. SUFFICES ASSUME b.first # 0
                PROVE Covers(Append(c, e), b.first - 1, b.last) = Covers(c, b.first - 1, b.last)
    OBVIOUS
  <2>1. b.last <= Len(c) /\ b.first - 1 \in Int BY <1>1 DEF Sized
  <2> QED BY <1>1, <2>1, CoversStays
<1> QED BY <1>1, <1>2, <1>3 DEF Sized

LEMMA OpenedSized ==
  ASSUME NEW c, NEW b \in RunRows, Sized(c, b), NEW t \in Triggers,
         NEW i \in 0 .. MaxTalk, NEW j \in 0 .. MaxTalk, j <= Len(c), i # 0,
         Cardinality(Covers(c, i - 1, j)) \in 1 .. MaxWindow,
         \/ b.stage = "none"
         \/ b.first = i /\ b.last = j /\ b.stage = "failed"
  PROVE  Sized(c, Opened(b, t, i, j))
<1>. DEFINE o == Opened(b, t, i, j)
<1>1. o.first = i /\ o.last = j /\ o.stage = "active" /\ o.queued = b.queued
  BY DEF Opened, RunRows
<1>. HIDE DEF o
<1>2. b.stage = "none" => b.queued = NoQueue BY DEF Sized
<1>3. Sized(c, o) BY <1>1, <1>2 DEF Sized
<1> QED BY <1>3 DEF o

\* The failed row of a window is that of its first and last message.
LEMMA ServesWhat ==
  ASSUME ObservationTypes, NEW r \in Judged, NEW window, window \subseteq Nat,
         Serves(r, window), NEW i, IsEarliest(i, window), NEW j, IsLatest(j, window)
  PROVE  \/ judge[r].stage = "none"
         \/ judge[r].first = i /\ judge[r].last = j /\ judge[r].stage = "failed"
<1>1. CASE Free(r) BY <1>1 DEF Free
<1>2. CASE judge[r].stage = "failed" /\ IsWindow(r, window)
  <2>1. /\ judge[r].first \in Nat /\ i \in Nat
        /\ judge[r].first <= i /\ i <= judge[r].first
    BY <1>2 DEF IsWindow, IsEarliest
  <2>2. /\ judge[r].last \in Nat /\ j \in Nat
        /\ judge[r].last <= j /\ j <= judge[r].last
    BY <1>2 DEF IsWindow, IsLatest
  <2> QED BY <1>2, <2>1, <2>2
<1> QED BY <1>1, <1>2 DEF Serves

LEMMA WindowsKept ==
  ASSUME ObservationTypes, WindowsSized, ObservationNext
  PROVE  WindowsSized'
<1>1. /\ judge \in [Judged -> RunRows] /\ chat \in Seq(Messages) /\ Len(chat) <= MaxTalk
      /\ Len(chat) \in Nat /\ MaxTalk \in Nat /\ Students \subseteq Nat
  BY TypesUnfolded, Bounded DEF Students, Spots
<1>2. ASSUME NEW e \in Messages, chat' = chat \/ chat' = Append(chat, e),
             \A x \in Judged : Windowed(judge[x], judge'[x])
      PROVE  WindowsSized'
  BY <1>1, <1>2, SizedStays, SizedGrows DEF WindowsSized
<1>3. 0 \in Messages /\ Answer \in Messages BY DEF Messages
<1>4. \A b : Windowed(b, b) BY DEF Windowed
<1>5. ASSUME NEW r \in Judged, NEW b, judge' = [judge EXCEPT ![r] = b], chat' = chat,
             Sized(chat, b)
      PROVE  WindowsSized'
  BY <1>1, <1>5 DEF WindowsSized
<1>6. ASSUME NEW r \in Judged, NEW b, judge' = [judge EXCEPT ![r] = b], chat' = chat,
             Windowed(judge[r], b)
      PROVE  WindowsSized'
  BY <1>5, <1>6, SizedStays DEF WindowsSized
<1>7. CASE StudentSpeaks \/ AnswerHelp
  BY <1>2, <1>3, <1>4, <1>7 DEF StudentSpeaks, AnswerHelp
<1>8. CASE EndSession \/ \E i \in Spots : Notice(i)
  BY <1>2, <1>3, <1>4, <1>8 DEF EndSession, Notice
<1>9. CASE FinalizeObservations
  <2>1. chat' = chat /\ \A x \in Judged :
          judge'[x] = IF judge[x].status = "observing"
                      THEN [judge[x] EXCEPT !.status = "finalization_only",
                                            !.outcome = "finalization_only"]
                      ELSE judge[x]
    BY <1>9 DEF FinalizeObservations
  <2>2. \A x \in Judged : Windowed(judge[x], judge'[x]) BY <1>1, <2>1 DEF Windowed, RunRows
  <2> QED BY <1>2, <1>3, <2>1, <2>2
<1>10. ASSUME NEW r \in Judged, RequestJudgement(r) PROVE WindowsSized'
  <2>a. PICK t \in Triggers : \E bound \in Bounds(t) :
          Assess(r, t, bound) \/ Raise(r, t, bound) \/ QueueRequest(r, t, bound)
    BY <1>10 DEF RequestJudgement
  <2>b. PICK bound \in Bounds(t) :
          Assess(r, t, bound) \/ Raise(r, t, bound) \/ QueueRequest(r, t, bound)
    BY <2>a
  <2>1. chat' = chat BY <1>10 DEF RequestJudgement
  <2>2. bound \in Nat BY <1>1, TypesUnfolded DEF Bounds, Students, Spots
  <2>3. CASE Assess(r, t, bound)
    <3>. DEFINE window == FirstOnes(Waiting(bound))
    <3>1. PICK i \in window, j \in window :
            /\ IsEarliest(i, window) /\ IsLatest(j, window)
            /\ judge' = [judge EXCEPT ![r] = Opened(@, t, i, j)]
      BY <2>3 DEF Assess
    <3>2. Serves(r, window) BY <2>3 DEF Assess
    <3>3. window \subseteq Students BY DEF FirstOnes, Waiting, Between
    <3>4. j <= Len(chat) /\ i # 0 /\ Cardinality(Covers(chat, i - 1, j)) \in 1 .. MaxWindow
      BY <2>2, <3>1, FirstOnesFit
    <3>5. i \in 0 .. MaxTalk /\ j \in 0 .. MaxTalk BY <3>1, <3>3, WindowInside
    <3>. HIDE DEF window
    <3>6. \/ judge[r].stage = "none"
          \/ judge[r].first = i /\ judge[r].last = j /\ judge[r].stage = "failed"
      BY <1>1, <3>1, <3>2, <3>3, ServesWhat
    <3>7. Sized(chat, judge[r]) /\ judge[r] \in RunRows BY <1>1 DEF WindowsSized
    <3>8. Sized(chat, Opened(judge[r], t, i, j)) BY <3>4, <3>5, <3>6, <3>7, OpenedSized
    <3>9. judge' = [judge EXCEPT ![r] = Opened(judge[r], t, i, j)] BY <3>1
    <3> QED BY <1>5, <2>1, <3>8, <3>9
  <2>4. CASE Raise(r, t, bound)
    <3>. DEFINE b == [[judge[r] EXCEPT !.trigger = t] EXCEPT !.rank = Rank(t)]
    <3>1. judge' = [judge EXCEPT ![r] = b] BY <1>1, <2>4 DEF Raise, RunRows
    <3>2. Windowed(judge[r], b) BY <1>1 DEF Windowed, RunRows
    <3>. HIDE DEF b
    <3> QED BY <1>6, <2>1, <3>1, <3>2
  <2>5. CASE QueueRequest(r, t, bound)
    <3>1. PICK k \in SavedEnds :
            LET i == Later(k + 1, judge[r].first) IN
              /\ i <= bound
              /\ judge' = [judge EXCEPT
                   ![r].queued = [first |-> i, bound |-> bound, trigger |-> t]]
      BY <2>5 DEF QueueRequest
    <3>. DEFINE i == Later(k + 1, judge[r].first)
                q == [first |-> i, bound |-> bound, trigger |-> t]
                b == [judge[r] EXCEPT !.queued = q]
    <3>2. k \in Nat BY <1>1, <3>1 DEF SavedEnds, RunRows
    <3>3. judge[r].first \in Nat /\ judge[r].last \in Nat BY <1>1 DEF RunRows
    <3>4. judge[r].first <= i /\ bound <= judge[r].last /\ judge[r].stage = "active"
      BY <2>2, <2>5, <3>2, <3>3 DEF Later, QueueRequest
    <3>5. q.first = i /\ q.bound = bound OBVIOUS
    <3>6. judge' = [judge EXCEPT ![r] = b] BY <1>1, <3>1
    <3>. HIDE DEF i, q
    <3>7. b.queued = q /\ b.first = judge[r].first /\ b.last = judge[r].last
          /\ b.stage = judge[r].stage
      BY <1>1 DEF RunRows
    <3>. HIDE DEF b
    <3>8. Sized(chat, b) BY <3>4, <3>5, <3>7 DEF Sized, WindowsSized
    <3> QED BY <1>5, <2>1, <3>6, <3>8
  <2> QED BY <2>b, <2>3, <2>4, <2>5
<1>11. ASSUME NEW s \in Judged, ContinueQueued(s) PROVE WindowsSized'
  <2>. DEFINE q == judge[s].queued
              window == Between(q.first - 1, q.bound)
  <2>1. PICK r \in Judged : \E i, j \in window :
          /\ Serves(r, window) /\ IsEarliest(i, window) /\ IsLatest(j, window)
          /\ judge' = [judge EXCEPT ![s].queued = NoQueue,
                                    ![r] = Opened(judge[r], q.trigger, i, j)]
    BY <1>11, Zenon DEF ContinueQueued
  <2>2. PICK i \in window, j \in window :
          /\ Serves(r, window) /\ IsEarliest(i, window) /\ IsLatest(j, window)
          /\ judge' = [judge EXCEPT ![s].queued = NoQueue,
                                    ![r] = Opened(judge[r], q.trigger, i, j)]
    BY <2>1, Zenon
  <2>3. chat' = chat /\ q # NoQueue BY <1>11 DEF ContinueQueued
  <2>4. window \subseteq Students BY DEF Between
  <2>5. i \in 0 .. MaxTalk /\ j \in 0 .. MaxTalk BY <2>2, <2>4, WindowInside
  <2>6. \A x \in Judged : Sized(chat, judge[x]) /\ judge[x] \in RunRows BY <1>1 DEF WindowsSized
  <2>7. j <= Len(chat) /\ i # 0 /\ Cardinality(Covers(chat, i - 1, j)) \in 1 .. MaxWindow
    BY <2>2, <2>3, <2>6, QueuedFits
  <2>8. q.trigger \in Triggers BY <1>1 DEF RunRows, Queues
  <2>. DEFINE b == [judge[s] EXCEPT !.queued = NoQueue]
              o == Opened(judge[r], q.trigger, i, j)
  <2>9. judge' = [judge EXCEPT ![s] = b, ![r] = o] BY <1>1, <2>2
  <2>10. Windowed(judge[s], b) BY <1>1 DEF Windowed, RunRows
  <2>. HIDE DEF b, window, q
  <2>11. \/ judge[r].stage = "none"
         \/ judge[r].first = i /\ judge[r].last = j /\ judge[r].stage = "failed"
    BY <1>1, <2>2, <2>4, ServesWhat
  <2>12. Sized(chat, o) BY <2>5, <2>6, <2>7, <2>8, <2>11, OpenedSized
  <2>13. Sized(chat, b) BY <2>6, <2>10, SizedStays
  <2>. HIDE DEF o
  <2> QED BY <1>1, <2>3, <2>6, <2>9, <2>12, <2>13 DEF WindowsSized
<1>12. ASSUME NEW r \in Judged,
              \/ FailJudgement(r) \/ RetryJudgement(r) \/ GiveUpWindow(r) \/ SaveJudgement(r)
              \/ PublishIntervention(r) \/ MarkObserving(r) \/ GiveUpRun(r)
       PROVE  WindowsSized'
  <2>1. ASSUME NEW g, judge' = [judge EXCEPT ![r].stage = g], chat' = chat, g # "none",
               judge[r].stage # "none"
        PROVE  WindowsSized'
    <3>1. judge' = [judge EXCEPT ![r] = [judge[r] EXCEPT !.stage = g]] BY <2>1
    <3>2. Windowed(judge[r], [judge[r] EXCEPT !.stage = g]) BY <1>1, <2>1 DEF Windowed, RunRows
    <3> QED BY <1>6, <2>1, <3>1, <3>2
  <2>2. CASE FailJudgement(r) BY <2>1, <2>2 DEF FailJudgement
  <2>3. CASE RetryJudgement(r) BY <2>1, <2>3 DEF RetryJudgement
  <2>4. CASE GiveUpWindow(r) BY <2>1, <2>4 DEF GiveUpWindow
  <2>5. CASE SaveJudgement(r) BY <2>1, <2>5 DEF SaveJudgement
  <2>6. CASE GiveUpRun(r) BY <2>1, <2>6 DEF GiveUpRun
  <2>7. CASE PublishIntervention(r)
    <3>. DEFINE b == [[judge[r] EXCEPT !.stage = "published"] EXCEPT !.said = Len(chat) + 1]
    <3>1. judge' = [judge EXCEPT ![r] = b] /\ judge[r].stage = "recorded"
          /\ chat' = Append(chat, r) /\ r \in Messages
      BY <1>1, <2>7 DEF PublishIntervention, Messages
    <3>2. Windowed(judge[r], b) BY <1>1, <3>1 DEF Windowed, RunRows
    <3>. HIDE DEF b
    <3>3. \A x \in Judged : judge'[x] = IF x = r THEN b ELSE judge[x] BY <1>1, <3>1
    <3>4. \A x \in Judged : Windowed(judge[x], judge'[x]) BY <1>4, <3>2, <3>3
    <3> QED BY <1>2, <3>1, <3>4
  <2>8. CASE MarkObserving(r)
    <3>. DEFINE b == [[judge[r] EXCEPT !.stage = "over"] EXCEPT !.status = "observing"]
    <3>1. judge' = [judge EXCEPT ![r] = b] /\ judge[r].stage = "published" /\ chat' = chat
      BY <1>1, <2>8 DEF MarkObserving
    <3>2. Windowed(judge[r], b) BY <1>1, <3>1 DEF Windowed, RunRows
    <3>. HIDE DEF b
    <3> QED BY <1>6, <3>1, <3>2
  <2> QED BY <1>12, <2>2, <2>3, <2>4, <2>5, <2>6, <2>7, <2>8
<1>13. ASSUME NEW r \in Judged, RecordOutcome(r) PROVE WindowsSized'
  <2>0. judge[r].stage = "saved" /\ chat' = chat BY <1>13 DEF RecordOutcome
  <2>1. PICK v \in Verdicts : \E next \in {"over", "recorded"} :
          \/ \E o \in Judged : Conclude(o, r, v, next)
          \/ judge' = [judge EXCEPT ![r].stage = next]
    BY <1>13 DEF RecordOutcome
  <2>2. PICK next \in {"over", "recorded"} :
          \/ \E o \in Judged : Conclude(o, r, v, next)
          \/ judge' = [judge EXCEPT ![r].stage = next]
    BY <2>1
  <2>3. Windowed(judge[r], [judge[r] EXCEPT !.stage = next]) BY <1>1, <2>0 DEF Windowed, RunRows
  <2>4. CASE judge' = [judge EXCEPT ![r].stage = next]
    <3>1. judge' = [judge EXCEPT ![r] = [judge[r] EXCEPT !.stage = next]] BY <2>4
    <3> QED BY <1>6, <2>0, <2>3, <3>1
  <2>5. ASSUME NEW o \in Judged, Conclude(o, r, v, next) PROVE WindowsSized'
    <3>1. PICK i : judge' = [judge EXCEPT ![o] = Concluded(o, r, Outcome(o, r, v), i),
                                          ![r].stage = next]
      BY <2>5 DEF Conclude
    <3>. DEFINE b == Concluded(o, r, Outcome(o, r, v), i)
    <3>2. Windowed(judge[o], b) BY <1>1 DEF Windowed, Concluded, RunRows
    <3>3. b.stage = judge[o].stage BY <1>1 DEF Concluded, RunRows
    <3>4. Windowed(b, [b EXCEPT !.stage = next]) \/ b.stage = "none"
      BY <1>1 DEF Windowed, Concluded, RunRows
    <3>5. judge' = [judge EXCEPT ![o] = b, ![r].stage = next] BY <3>1
    <3>. DEFINE d == IF o = r THEN [b EXCEPT !.stage = next] ELSE [judge[r] EXCEPT !.stage = next]
    <3>. HIDE DEF b
    <3>6. \A x \in Judged :
            judge'[x] = IF x = r THEN d ELSE IF x = o THEN b ELSE judge[x]
      BY <1>1, <3>5
    <3>7. Windowed(judge[r], d) BY <2>0, <2>3, <3>2, <3>3, <3>4 DEF Windowed
    <3>. HIDE DEF d
    <3>8. \A x \in Judged : Windowed(judge[x], judge'[x]) BY <1>4, <3>2, <3>6, <3>7
    <3> QED BY <1>2, <1>3, <2>0, <3>8
  <2> QED BY <2>2, <2>4, <2>5
<1> QED BY <1>7, <1>8, <1>9, <1>10, <1>11, <1>12, <1>13 DEF ObservationNext

-----------------------------------------------------------------------------
(* The theorems. *)

LEMMA ObservationStep ==
  ObservationIInv /\ [ObservationNext]_obsVars => ObservationIInv'
<1>. SUFFICES ASSUME ObservationIInv, [ObservationNext]_obsVars PROVE ObservationIInv' OBVIOUS
<1>1. ObservationTypes /\ NotedLast BY DEF ObservationIInv
<1>2. ASSUME Quiet, ObservationTypes'
      PROVE  ObservationTypes' /\ Placed' /\ StartIsFirstResponse' /\ WatchAtLatest'
  BY <1>2, QuietKeeps
<1>3. CASE ObservationNext
  <2>1. NotedLast' BY <1>1, <1>3, NotedKeeps
  <2>2. ObservationTypes' /\ Placed' /\ StartIsFirstResponse' /\ WatchAtLatest'
    <3>1. CASE StudentSpeaks BY <3>1, SpeakKeeps
    <3>11. CASE AnswerHelp BY <3>11, AnswerKeeps
    <3>2. CASE EndSession BY <1>1, <1>2, <3>2, EndQuiet
    <3>3. CASE FinalizeObservations BY <1>1, <1>2, <3>3, FinalizeQuiet
    <3>4. ASSUME NEW i \in Spots, Notice(i) PROVE Quiet /\ ObservationTypes'
      BY <1>1, <3>4, NoticeQuiet
    <3>5. ASSUME NEW r \in Judged, RequestJudgement(r) PROVE Quiet /\ ObservationTypes'
      BY <1>1, <3>5, RequestQuiet
    <3>6. ASSUME NEW r \in Judged, ContinueQueued(r) PROVE Quiet /\ ObservationTypes'
      BY <1>1, <3>6, ContinueQuiet
    <3>7. ASSUME NEW r \in Judged,
                 \/ FailJudgement(r) \/ RetryJudgement(r) \/ GiveUpWindow(r)
                 \/ SaveJudgement(r) \/ GiveUpRun(r)
          PROVE  Quiet /\ ObservationTypes'
      BY <1>1, <3>7, WorkerQuiet
    <3>8. ASSUME NEW r \in Judged, RecordOutcome(r) PROVE Quiet /\ ObservationTypes'
      BY <3>8, RecordQuiet
    <3>9. ASSUME NEW r \in Judged, MarkObserving(r) PROVE Quiet /\ ObservationTypes'
      BY <3>9, MarkQuiet
    <3>10. CASE \E r \in Judged : PublishIntervention(r) BY <3>10, PublishKeeps
    <3> QED BY <1>2, <1>3, <3>1, <3>2, <3>3, <3>4, <3>5, <3>6, <3>7, <3>8, <3>9, <3>10,
               <3>11
            DEF ObservationNext
  <2> QED BY <2>1, <2>2 DEF ObservationIInv
<1>4. CASE UNCHANGED obsVars
  <2>1. UNCHANGED <<chat, live, watch, noticed, judge>> BY <1>4 DEF obsVars
  <2>2. ObservationTypes' BY <1>1, <2>1, TypesUnfolded, TypesAfter
  <2>3. Quiet BY <2>1 DEF Quiet
  <2>4. NotedLast' BY <1>1, <2>1 DEF NotedLast
  <2> QED BY <1>2, <2>2, <2>3, <2>4 DEF ObservationIInv
<1> QED BY <1>3, <1>4

LEMMA ObservationInvariant == ObservationSpec => []ObservationIInv
BY ObservationInitial, ObservationStep, PTL DEF ObservationSpec

\* Every variable keeps its type.
THEOREM ObservationTyped == ObservationSpec => []ObservationTypes
<1>1. ObservationIInv => ObservationTypes BY DEF ObservationIInv
<1> QED BY <1>1, ObservationInvariant, PTL

\* No assessment covers more than STATE_LLM_MAX_CANDIDATE_MESSAGES messages and none
\* is empty, a reopened window and one that continues a queued request included
\* (request_state_assessment(), _continue_after_terminal()); every variable has its type.
THEOREM WindowsLimited == ObservationSpec => []ObservationTypeOK
<1>1. ObservationInit => WindowsSized BY DEF ObservationInit, WindowsSized, Sized, NoRun
<1>2. ObservationTypes /\ WindowsSized /\ [ObservationNext]_obsVars => WindowsSized'
  <2>. SUFFICES ASSUME ObservationTypes, WindowsSized, UNCHANGED obsVars PROVE WindowsSized'
    BY WindowsKept
  <2> QED BY DEF obsVars, WindowsSized
<1>3. ObservationTypes /\ WindowsSized => ObservationTypeOK
  <2>. SUFFICES ASSUME ObservationTypes, WindowsSized, NEW r \in Judged, judge[r].first # 0
                PROVE Cardinality(Between(judge[r].first - 1, judge[r].last)) \in 1 .. MaxWindow
    BY DEF ObservationTypeOK
  <2>1. Between(judge[r].first - 1, judge[r].last) = Covers(chat, judge[r].first - 1, judge[r].last)
    BY TypesUnfolded, BetweenIsCovers
  <2> QED BY <2>1 DEF WindowsSized, Sized
<1> QED BY <1>1, <1>2, <1>3, ObservationTyped, PTL DEF ObservationSpec

\* The interval the cursor keeps begins with the first answer to the intervention
\* it is at, whatever is written and noted in between (begin_discussion_observation()
\* and record_observation_student_sequence()).
THEOREM ObservationStart == ObservationSpec => []StartIsFirstResponse
<1>1. ObservationIInv => StartIsFirstResponse BY DEF ObservationIInv
<1> QED BY <1>1, ObservationInvariant, PTL

\* The cursor stands at the latest strategy message, whoever published it and in
\* whatever order the pipelines note their publications: an older or repeated one
\* never takes it back (begin_discussion_observation()).
THEOREM ObservationLatest == ObservationSpec => []WatchAtLatest
<1>1. ObservationIInv => WatchAtLatest BY DEF ObservationIInv
<1> QED BY <1>1, ObservationInvariant, PTL

\* The messages an outcome is read off came after its intervention, and the
\* response it notes is the first (_find_observed_pipeline()).
THEOREM ObservationCredit == ObservationSpec => []CreditedAfter
<1>1. ObservationIInv => CreditedAfter
  <2>. SUFFICES ASSUME ObservationIInv, NEW r \in Judged, judge[r].credit # 0
                PROVE  /\ judge[r].said < judge[r].credit
                       /\ IsFirstIn(judge[r].response, Between(judge[r].said, Len(chat)))
    BY DEF CreditedAfter
  <2>1. Placed /\ chat \in Seq(Messages) BY TypesUnfolded DEF ObservationIInv
  <2>2. /\ judge[r].said < judge[r].credit
        /\ IsEarliest(judge[r].response, Answers(chat, judge[r].said))
    BY <2>1 DEF Placed
  <2> QED BY <2>1, <2>2, BetweenIsAnswers DEF IsFirstIn, IsEarliest
<1> QED BY <1>1, ObservationInvariant, PTL
=============================================================================
