--------------------------- MODULE MCObservation ---------------------------
(* Instances of RoomLease and of Observation for TLC in one run: a behaviour  *)
(* is of the one or of the other.  Every action has a name here, so that TLC  *)
(* counts how often each of them is taken.                                    *)
EXTENDS MCRoomLease, Observation

VARIABLE part

partVars == <<leaseVars, obsVars, part>>

Leasing(A) == part = "lease" /\ A /\ UNCHANGED <<obsVars, part>>
Observing(A) == part = "observation" /\ A /\ UNCHANGED <<leaseVars, part>>

Reads(o) == Leasing(ReadVersion(o))
Acquires(o) == Leasing(Acquire(o))
Leaves(o) == Leasing(GiveUp(o))
Releases(o) == Leasing(Release(o))
ClaimsOpen(p) == Leasing(ClaimOpen(p))
ClaimsOwned(p) == Leasing(ClaimOwned(p))
ClaimsTransfer(p) == Leasing(ClaimTransfer(p))
Renews(p) == Leasing(Renew(p))
Publishes(p) == Leasing(PublishPipe(p))
Writes(p, r) == Leasing(WriteRow(p, r))
Ends(p, r) == Leasing(EndRow(p, r))
Asks(h) == Leasing(HelpAsk(h))
Claims(h) == Leasing(HelpClaim(h))
Preempts(h) == Leasing(Preempt(h))
Helped(h) == Leasing(HelpPublish(h))
HelpFails(h) == Leasing(HelpFail(h))
HelpEscapes(h) == Leasing(HelpRaises(h))
HandlerReleases(h) == Leasing(HandlerFrees(h))
HandlerWrites(h) == Leasing(HandlerRecords(h))
RunIsOver(r) == Leasing(RunEnds(r))
Cancels == Leasing(CancelActive)
Expires == Leasing(Expire)
Ticks == Leasing(Tick)
Switches == Leasing(Switch)

Speaks == Observing(StudentSpeaks)
Answers == Observing(AnswerHelp)
Closes == Observing(EndSession)
Finalizes == Observing(FinalizeObservations)
Notices(i) == Observing(Notice(i))
RequestsJudgement(r) == Observing(RequestJudgement(r))
ContinuesQueued(r) == Observing(ContinueQueued(r))
JudgementFails(r) == Observing(FailJudgement(r))
RetriesJudgement(r) == Observing(RetryJudgement(r))
GivesUpWindow(r) == Observing(GiveUpWindow(r))
SavesJudgement(r) == Observing(SaveJudgement(r))
RecordsOutcome(r) == Observing(RecordOutcome(r))
PublishesRun(r) == Observing(PublishIntervention(r))
MarksObserving(r) == Observing(MarkObserving(r))
GivesUpRun(r) == Observing(GiveUpRun(r))

\* Beside the observations the room stays open and its rows are what they are.
Quiet == room.state = "OPEN" /\ row = [p \in Pipes |-> CHOOSE r \in WrittenRows : TRUE]

PartInit ==
  /\ LeaseInit /\ ObservationInit
  /\ part \in IF Quiet THEN {"lease", "observation"} ELSE {"lease"}

PartNext ==
  \/ \E o \in Askers : Reads(o) \/ Acquires(o) \/ Leaves(o) \/ Releases(o)
  \/ \E p \in Pipes : ClaimsOpen(p) \/ ClaimsOwned(p) \/ ClaimsTransfer(p) \/ Renews(p) \/ Publishes(p)
  \/ \E p \in Pipes, r \in WrittenRows : Writes(p, r) \/ Ends(p, r)
  \/ \E h \in Helps : Asks(h) \/ Claims(h) \/ Preempts(h) \/ Helped(h) \/ HelpFails(h)
  \/ \E h \in Helps : HelpEscapes(h) \/ HandlerReleases(h) \/ HandlerWrites(h)
  \/ \E r \in Runs : RunIsOver(r)
  \/ Cancels \/ Expires \/ Ticks \/ Switches
  \/ Speaks \/ Answers \/ Closes \/ Finalizes
  \/ \E i \in 1 .. MaxTalk : Notices(i)
  \/ \E r \in Judged :
       \/ RequestsJudgement(r) \/ ContinuesQueued(r) \/ JudgementFails(r)
       \/ RetriesJudgement(r) \/ GivesUpWindow(r) \/ SavesJudgement(r)
       \/ RecordsOutcome(r) \/ PublishesRun(r) \/ MarksObserving(r) \/ GivesUpRun(r)

\* At most one answer to a help request, among the first four messages, and then two
\* runs; from the fifth message on nothing fails, the session stays open and the third
\* run only judges.
Replies == {i \in 1 .. Len(chat') : chat'[i] = Answer}
Talks ==
  /\ Replies = {} \/ (Replies \subseteq 1 .. 4 /\ judge'[3] = NoRun)
  /\ Cardinality(Replies) <= 1
  /\ \/ Len(chat') <= 4
     \/ live' /\ judge'[3].stage # "published" /\ \A r \in Judged : judge'[r].stage \notin {"failed", "lost"}

\* The fairness of FairLeaseSpec.
PartSpec == PartInit /\ [][PartNext]_partVars /\ WF_partVars(Ticks) /\ WF_partVars(Expires)
=============================================================================
