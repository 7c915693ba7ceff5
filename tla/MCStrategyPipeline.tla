------------------------- MODULE MCStrategyPipeline -------------------------
EXTENDS StrategyPipeline

\* Every shape of a row: WrittenRows only has to contain what the services write.
AllRows == Rows

\* The shapes the row of one batch reaches (far fewer than Rows), for the run that
\* checks every step against LeaseNext.
BatchRow(batch, stage2, intervene, final) ==
  [batch |-> batch, coarse |-> TRUE, stage2 |-> stage2, intervene |-> intervene,
   final |-> final, published |-> final = "PUBLISHED"]
Unassessed == {BatchRow(b, "PENDING", FALSE, f) :
  b \in {"none", "pending", "running", "failed", "over"},
  f \in {"PENDING_STAGE2", "WAITING_FOR_LOCK", "LOCKED", "CANCELLED", "SUPERSEDED", "FAILED"}}
Assessing == {BatchRow(b, "RUNNING", FALSE, f) :
  b \in {"running", "succeeded"}, f \in {"ASSESSING", "CANCELLED", "SUPERSEDED", "FAILED"}}
NotAssessed == {BatchRow(b, "FAILED", FALSE, "FAILED") : b \in {"pending", "running", "failed", "over"}}
Evaluated == {BatchRow("succeeded", "SUCCEEDED", i, f) : i \in BOOLEAN,
  f \in {"PENDING_STAGE3", "GENERATING", "PENDING_DECISION_GATE", "PUBLISHED", "CANCELLED",
          "SUPERSEDED", "SUPPRESSED", "STALE", "FAILED"}}
BatchRows == Unassessed \cup Assessing \cup NotAssessed \cup Evaluated

\* The interesting casts: two batches tried once, without a help request and
\* without a crash; or one batch, and with a help request one message besides
\* its own.  Beside a help request one of these happens at most: the batch is tried
\* again, its worker dies, the session is closed, the help worker raises.
NoHelp == \A h \in Helps : stage'[h] = "idle"
Again == attempts'[1] > 1
Dead == pc'[1] = "dead"
Closed == closer' # "open"
Raises == \E h \in Helps : handler'[h] # "no"
Cast == IF pc'[2] # "idle" THEN NoHelp /\ ~Dead /\ attempts'[1] <= 1 /\ attempts'[2] <= 1
        ELSE \/ NoHelp
             \/ /\ Len(SelectSeq(talk', LAMBDA a : a = Student)) <= 2
                /\ Closed => ~Dead /\ ~Again
                /\ Raises => ~Dead /\ ~Again /\ ~Closed
                /\ Dead => ~Again

\* What is left out of the run with liveness, steps of the teacher and of the help
\* worker only: a session that is closed beside a help request, and an exception of
\* the help worker in the second attempt.
Calm == /\ closer' # closer => \A h \in Helps : stage[h] = "idle"
        /\ stage' # stage => closer = "open"
        /\ handler' # handler => attempts[1] <= 1
=============================================================================
