---------------------------- MODULE MCRoomLease ----------------------------
EXTENDS RoomLease

Row(batch, coarse, stage2, intervene, final, published) ==
  [batch |-> batch, coarse |-> coarse, stage2 |-> stage2, intervene |-> intervene,
   final |-> final, published |-> published]

MCWrittenRows == {
  Row("none", TRUE, "PENDING", FALSE, "PENDING_STAGE2", FALSE),
  Row("running", TRUE, "PENDING", FALSE, "WAITING_FOR_LOCK", FALSE),
  Row("succeeded", TRUE, "SUCCEEDED", TRUE, "PUBLISHED", TRUE)}

\* The interesting casts: beside the pipelines, a help request with a number of
\* its own, or one that shares its number with a pipeline, or the legacy run.
Untouched(o) == seen'[o] = NotRead /\ held'[o] = NoToken
Idle(h) == help'[h] = "NONE"
\* A worker only raises while everything is switched on.
Cast == \/ \A h \in Helps : Idle(h) /\ handler'[h] = "no"
        \/ /\ \A r \in Runs : run'[r] = "ACTIVE" /\ Untouched(r)
           /\ (\A h \in Helps \cap Pipes : Idle(h)) \/ (\A h \in Helps \ Pipes : Idle(h))
           /\ enabled' \/ \A h \in Helps : handler'[h] = "no"

MCCovers == {<<2, 1>>}
=============================================================================
