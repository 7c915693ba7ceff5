------------------------ MODULE PipelineAuditProofs ------------------------
(***************************************************************************)
(* What the audit row of a strategy pipeline, its lease and its worker have *)
(* to do with each other: a message students saw is recorded, no lease is   *)
(* forgotten, a preemption holds, and students speak between two strategy   *)
(* messages.                                                                *)
(***************************************************************************)
EXTENDS StrategyPipelineProofs

\* The room is leased to pipeline p and its row carries the token.
Holds(p) == Owns(p) /\ lease[p].token # NoToken

\* Where the worker is once save_successful_segments() has ended its batch.
AfterSave == {"saved", "judged", "preflight", "lease3", "generate", "generating", "drafted",
              "gate", "passed", "sending", "regate", "resending", "sent", "finish"}

\* Past the gate, with the message not sent yet.
Gated == {"passed", "sending", "resending"}

\* Where a worker that holds the room may be.
HoldPlaces == (Working \ {"claimed", "lease2", "failed", "missed", "requeue", "retrying",
                          "lost", "sent"}) \cup {"dead"}

\* The audit row of p fits what its worker has done and what students saw.
Fits(p) ==
  /\ row[p].published <=> row[p].final = "PUBLISHED"
  /\ row[p].published => pc[p] = "done" /\ Said(p)
  /\ Said(p) => pc[p] \in {"sent", "done", "dead"} /\ row[p].batch = "succeeded"
  /\ pc[p] = "done" /\ Said(p) => row[p].published
  /\ pc[p] = "sent" => Said(p)
  /\ verdict[p] # "PUBLISHED"
  /\ pc[p] \in AfterSave => row[p].batch = "succeeded"
  /\ Holds(p) => row[p].final \in Active /\ pc[p] # "sent"

\* The room is held for a worker that will end its lease, or that died.
Kept(p) == Holds(p) => pc[p] \in HoldPlaces /\ row[p].batch # "failed"

-----------------------------------------------------------------------------
(* What a step does to a pipeline that does not take it. *)

\* Somebody else may take the room and end an active row, never give it a lease.
Untouched(q) ==
  /\ Holds(q)' => Holds(q)
  /\ \/ row'[q] = row[q]
     \/ /\ row[q].final \in Active /\ ~Holds(q)'
        /\ \E f \in {"SUPERSEDED", "FAILED", "CANCELLED"} : row'[q] = [row[q] EXCEPT !.final = f]
Rests(q) == pc'[q] = pc[q] /\ verdict'[q] = verdict[q] /\ (Said(q)' <=> Said(q))
Still(q) == Rests(q) /\ Untouched(q)

LEMMA StillKeeps ==
  ASSUME LeaseTypeOK, NEW q \in Pipes, Fits(q), Still(q)
  PROVE  Fits(q)' /\ (Kept(q) => Kept(q)')
<1>1. row[q] \in Rows BY DEF LeaseTypeOK
<1>2. CASE row'[q] = row[q] BY <1>2 DEF Still, Rests, Untouched, Fits, Kept
<1>3. ASSUME row[q].final \in Active, ~Holds(q)', NEW f \in {"SUPERSEDED", "FAILED", "CANCELLED"},
             row'[q] = [row[q] EXCEPT !.final = f]
      PROVE  Fits(q)' /\ (Kept(q) => Kept(q)')
  <2>1. row[q].final # "PUBLISHED" /\ ~row[q].published BY <1>3 DEF Fits, Active
  <2>2. row'[q].final = f /\ row'[q].published = row[q].published /\ row'[q].batch = row[q].batch
    BY <1>1, <1>3 DEF Rows
  <2> QED BY <1>3, <2>1, <2>2 DEF Still, Rests, Fits, Kept
<1> QED BY <1>2, <1>3 DEF Still, Untouched

LEMMA OpenEnds == ASSUME NEW q \in Pipes, room' = Open(room) PROVE ~Holds(q)'
BY DEF Holds, Owns, Open

LEMMA SameRoom ==
  ASSUME NEW q \in Pipes, room' = room, lease' = lease PROVE Holds(q)' <=> Holds(q)
BY DEF Holds, Owns

LEMMA FreeKeeps ==
  ASSUME NEW P \in SUBSET Pipes, room' = FreeIfOwner(P), lease' = lease, NEW q \in Pipes
  PROVE  (Holds(q)' => Holds(q)) /\ (q \in P => ~Holds(q)')
<1>1. CASE \E p \in P : Owns(p) BY <1>1, OpenEnds DEF FreeIfOwner
<1>2. CASE ~\E p \in P : Owns(p)
  <2>1. room' = room BY <1>2 DEF FreeIfOwner
  <2> QED BY <1>2, <2>1, SameRoom DEF Holds
<1> QED BY <1>1, <1>2

\* One row is written, or written and the room freed.
LEMMA WriteEffect ==
  ASSUME LeaseTypeOK, NEW p \in Pipes, NEW r, WriteRow(p, r)
  PROVE  /\ row'[p] = r /\ (Holds(p)' <=> Holds(p)) /\ help' = help
         /\ \A q \in Pipes \ {p} : Untouched(q)
<1>1. /\ row' = [row EXCEPT ![p] = r] /\ row \in [Pipes -> Rows]
      /\ room' = room /\ lease' = lease /\ help' = help
  BY DEF WriteRow, LeaseTypeOK
<1>2. row'[p] = r /\ \A q \in Pipes \ {p} : row'[q] = row[q] BY <1>1
<1> QED BY <1>1, <1>2, SameRoom DEF Untouched

LEMMA EndEffect ==
  ASSUME LeaseTypeOK, NEW p \in Pipes, NEW r, EndRow(p, r)
  PROVE  /\ row'[p] = r /\ ~Holds(p)' /\ help' = help
         /\ \A q \in Pipes \ {p} : Untouched(q)
<1>1. /\ row' = [row EXCEPT ![p] = r] /\ row \in [Pipes -> Rows]
      /\ room' = FreeIfOwner({p}) /\ lease' = lease /\ help' = help
  BY DEF EndRow, LeaseTypeOK
<1>2. row'[p] = r /\ \A q \in Pipes \ {p} : row'[q] = row[q] BY <1>1
<1>3. ~Holds(p)' /\ \A q \in Pipes : Holds(q)' => Holds(q) BY <1>1, FreeKeeps
<1> QED BY <1>1, <1>2, <1>3 DEF Untouched

\* A renewal moves the deadline and the version, and no lease.
LEMMA PulseEffect ==
  ASSUME LeaseTypeOK, NEW p \in Pipes, Pulse(p) \/ Renew(p) \/ UNCHANGED leaseVars
  PROVE  /\ row' = row /\ help' = help /\ (\A q \in Pipes : Holds(q)' <=> Holds(q))
         /\ \A q \in Pipes : Untouched(q)
<1>1. CASE Renew(p)
  <2>1. /\ room'.state = room.state /\ room'.token = room.token /\ room'.owner = room.owner
        /\ row' = row /\ lease' = lease /\ help' = help
    BY <1>1 DEF Renew, LeaseTypeOK, Rooms
  <2> QED BY <2>1 DEF Holds, Owns, Untouched
<1>2. CASE UNCHANGED leaseVars BY <1>2, SameRoom DEF leaseVars, Untouched
<1> QED BY <1>1, <1>2 DEF Pulse

\* A claim gives the lease to p alone, and only to an active row.
LEMMA ClaimEffect ==
  ASSUME TokenInv, NEW p \in Pipes, ClaimLease(p)
  PROVE  /\ Claimable(row[p]) /\ row'[p] \in {row[p], Claimed(row[p])} /\ help' = help
         /\ \A q \in Pipes \ {p} : Untouched(q)
<1>0. LeaseTypeOK /\ row \in [Pipes -> Rows] /\ lease \in [Pipes -> Leases] BY DEF TokenInv, LeaseTypeOK
<1>1. CASE Claimable(row[p]) /\ Pulse(p) BY <1>0, <1>1, PulseEffect
<1>2. \A q \in Pipes \ {p} : -q # -p BY OwnerNumbers
<1>3. CASE ClaimOpen(p)
  <2>1. /\ room'.owner = -p /\ Claimable(row[p]) /\ help' = help
        /\ row' = [row EXCEPT ![p] = Claimed(@)]
    BY <1>3 DEF ClaimOpen, Locked
  <2>2. \A q \in Pipes \ {p} : ~Holds(q)' BY <1>2, <2>1 DEF Holds, Owns
  <2> QED BY <1>0, <2>1, <2>2 DEF Untouched
<1>4. CASE ClaimOwned(p)
  <2>1. /\ room'.owner = -p /\ Claimable(row[p]) /\ help' = help
        /\ row' = [row EXCEPT ![p] = Claimed(@)]
    BY <1>0, <1>4 DEF ClaimOwned, LeaseTypeOK, Rooms
  <2>2. \A q \in Pipes \ {p} : ~Holds(q)' BY <1>2, <2>1 DEF Holds, Owns
  <2> QED BY <1>0, <2>1, <2>2 DEF Untouched
<1>5. CASE ClaimTransfer(p)
  <2>1. room'.owner = -p /\ Claimable(row[p]) /\ help' = help /\ row'[p] = Claimed(row[p])
    BY <1>5 DEF ClaimTransfer, Locked
  <2>2. \A q \in Pipes \ {p} : ~Holds(q)' BY <1>2, <2>1 DEF Holds, Owns
  <2>3. \A q \in Pipes \ {p} :
          \/ row'[q] = row[q]
          \/ row[q].final \in Active /\ row'[q] = [row[q] EXCEPT !.final = "SUPERSEDED"]
    BY <1>5 DEF ClaimTransfer
  <2> QED BY <2>1, <2>2, <2>3 DEF Untouched
<1> QED BY <1>1, <1>3, <1>4, <1>5 DEF ClaimLease

\* Help requests, the teacher and time: no pipeline gets a lease from them.
LEMMA EndActiveEffect ==
  ASSUME LeaseTypeOK, NEW P \in SUBSET Pipes, NEW f \in {"SUPERSEDED", "CANCELLED"}, EndActive(P, f),
         NEW q \in Pipes
  PROVE  Untouched(q) /\ (q \in P /\ row[q].final \in Active /\ ~row[q].published => ~Holds(q)')
<1>. DEFINE loses == {p \in P : row[p].final \in Active /\ ~row[p].published}
<1>1. /\ room' = FreeIfOwner(loses) /\ lease' = lease
      /\ row'[q] = IF q \in loses THEN [row[q] EXCEPT !.final = f] ELSE row[q]
  BY DEF EndActive
<1>2. (Holds(q)' => Holds(q)) /\ (q \in loses => ~Holds(q)')
  <2>1. loses \in SUBSET Pipes OBVIOUS
  <2> HIDE DEF loses
  <2> QED BY <1>1, <2>1, FreeKeeps
<1> QED BY <1>1, <1>2 DEF Untouched

LEMMA OutsideEffect ==
  ASSUME TokenInv, NEW q \in Pipes,
         \/ \E h \in Helps : \/ ReadVersion(-h) \/ Acquire(-h) \/ GiveUp(-h) \/ Release(-h)
                             \/ HelpAsk(h) \/ HelpClaim(h) \/ Preempt(h) \/ HelpPublish(h) \/ HelpFail(h)
                             \/ HelpRaises(h) \/ HandlerFrees(h) \/ HandlerRecords(h)
         \/ CancelActive \/ Expire \/ Tick \/ Switch
  PROVE  Untouched(q)
<1>0. /\ LeaseTypeOK /\ row \in [Pipes -> Rows] /\ lease \in [Pipes -> Leases]
      /\ issued \in Int /\ lease[q].token \in Int /\ lease[q].token <= issued
  BY SecondsAssumption DEF TokenInv, LeaseTypeOK, TokensIssued, Leases, Tokens, NoToken
<1>1. ASSUME room' = room, row' = row, lease' = lease PROVE Untouched(q)
  BY <1>1, SameRoom DEF Untouched
<1>2. ASSUME room' = Open(room), row' = row PROVE Untouched(q) BY <1>2, OpenEnds DEF Untouched
<1>3. ASSUME NEW h \in Helps,
             \/ ReadVersion(-h) \/ GiveUp(-h) \/ HelpAsk(h) \/ HelpClaim(h) \/ HelpFail(h)
             \/ HelpRaises(h) \/ HandlerRecords(h)
      PROVE  Untouched(q)
  BY <1>1, <1>3 DEF ReadVersion, GiveUp, HelpAsk, HelpClaim, HelpFail, HelpRaises, HandlerRecords
<1>4. ASSUME NEW h \in Helps, Acquire(-h) PROVE Untouched(q)
  <2>1. room'.token = issued + 1 /\ row' = row /\ lease' = lease BY <1>4 DEF Acquire, Locked
  <2>2. ~Holds(q)' BY <1>0, <2>1 DEF Holds, Owns
  <2> QED BY <2>1, <2>2 DEF Untouched
<1>5. ASSUME NEW h \in Helps, Release(-h) \/ HelpPublish(h) \/ HandlerFrees(h) PROVE Untouched(q)
  BY <1>1, <1>2, <1>5 DEF Release, HelpPublish, HandlerFrees
<1>6. ASSUME NEW h \in Helps, Preempt(h) PROVE Untouched(q)
  BY <1>0, <1>6, EndActiveEffect DEF Preempt
<1>7. CASE CancelActive BY <1>0, <1>7, EndActiveEffect DEF CancelActive
<1>8. CASE Expire
  <2>1. /\ room' = Open(room)
        /\ \/ row'[q] = row[q]
           \/ row[q].final \notin Terminal /\ row'[q] = [row[q] EXCEPT !.final = "FAILED"]
    BY <1>8 DEF Expire
  <2>2. row[q].final \in Terminal \cup Active BY <1>0 DEF Rows
  <2> QED BY <2>1, <2>2, OpenEnds DEF Untouched
<1>9. CASE Tick
  <2>1. /\ room'.state = room.state /\ room'.token = room.token /\ room'.owner = room.owner
        /\ row' = row /\ lease'[q].token = lease[q].token
    BY <1>0, <1>9 DEF Tick, LeaseTypeOK, Rooms, Leases
  <2> QED BY <2>1 DEF Untouched, Holds, Owns
<1>10. CASE Switch BY <1>1, <1>10 DEF Switch
<1> QED BY <1>3, <1>4, <1>5, <1>6, <1>7, <1>8, <1>9, <1>10
-----------------------------------------------------------------------------
(* What a step of its worker does to a pipeline. *)

\* The step keeps what p's row says, leaves the others alone, and past the gate
\* takes no lease; only a worker with a lease and past the gate speaks.
OwnStep(p) ==
  /\ Fits(p)' /\ (Kept(p) => Kept(p)')
  /\ \A q \in Pipes \ {p} : Still(q)
  /\ pc'[p] \in Gated => (Holds(p)' => Holds(p)) /\ (pc[p] \in Gated \/ ~HelpActive(p))
  /\ Said(p)' /\ ~Said(p) => pc[p] \in Gated /\ Holds(p)
  /\ help' = help /\ stage' = stage

LEMMA GoEffect ==
  ASSUME WorkInv, NEW p \in Pipes, NEW from, NEW to, Go(p, from, to)
  PROVE  /\ pc[p] = from /\ pc'[p] = to /\ verdict'[p] = verdict[p] /\ (Said(p)' <=> Said(p))
         /\ stage' = stage /\ \A q \in Pipes \ {p} : Rests(q)
<1>1. /\ pc[p] = from /\ pc' = [pc EXCEPT ![p] = to] /\ verdict' = verdict /\ talk' = talk
      /\ stage' = stage
  BY DEF Go, roomVars, otherVars
<1>2. pc'[p] = to /\ \A q \in Pipes \ {p} : pc'[q] = pc[q] BY <1>1 DEF WorkInv, WorkTypes
<1> QED BY <1>1, <1>2 DEF Rests, Said

LEMMA DecideEffect ==
  ASSUME LeaseTypeOK, WorkInv, NEW p \in Pipes, NEW from, NEW to, NEW v, Decide(p, from, to, v)
  PROVE  /\ pc[p] = from /\ pc'[p] = to /\ verdict'[p] = v /\ (Said(p)' <=> Said(p))
         /\ row' = row /\ (Holds(p)' <=> Holds(p)) /\ help' = help
         /\ stage' = stage /\ \A q \in Pipes \ {p} : Still(q)
<1>1. /\ pc[p] = from /\ pc' = [pc EXCEPT ![p] = to] /\ verdict' = [verdict EXCEPT ![p] = v]
      /\ talk' = talk /\ stage' = stage /\ UNCHANGED leaseVars
  BY DEF Decide, roomVars, otherVars
<1>2. /\ pc'[p] = to /\ verdict'[p] = v
      /\ \A q \in Pipes \ {p} : pc'[q] = pc[q] /\ verdict'[q] = verdict[q]
  BY <1>1 DEF WorkInv, WorkTypes
<1>3. row' = row /\ help' = help /\ (Holds(p)' <=> Holds(p)) /\ \A q \in Pipes : Untouched(q)
  BY <1>1, PulseEffect
<1> QED BY <1>1, <1>2, <1>3 DEF Still, Rests, Said

\* The four shapes of a worker's step.
LEMMA Decides ==
  ASSUME LeaseTypeOK, WorkInv, NEW p \in Pipes, Fits(p),
         NEW from \in Working, NEW to \in Working, NEW v, Decide(p, from, to, v),
         v # "PUBLISHED", from # "sent", to # "sent", to \in AfterSave => from \in AfterSave,
         from \in HoldPlaces => to \in HoldPlaces,
         to \in Gated => from \in Gated \/ ~HelpActive(p)
  PROVE  OwnStep(p)
<1>1. /\ pc[p] = from /\ pc'[p] = to /\ verdict'[p] = v /\ (Said(p)' <=> Said(p))
      /\ row' = row /\ (Holds(p)' <=> Holds(p)) /\ help' = help
      /\ stage' = stage /\ \A q \in Pipes \ {p} : Still(q)
  BY DecideEffect
<1>2. ~Said(p) BY <1>1 DEF Fits, Working
<1>3. Fits(p)' BY <1>1, <1>2 DEF Fits, Working
<1>4. Kept(p) => Kept(p)' BY <1>1 DEF Kept
<1> QED BY <1>1, <1>3, <1>4 DEF OwnStep

LEMMA Moves ==
  ASSUME LeaseTypeOK, WorkInv, NEW p \in Pipes, Fits(p),
         NEW from, NEW to \in Places, Go(p, from, to),
         Pulse(p) \/ UNCHANGED leaseVars,
         from = "sent" => to = "dead", to # "sent",
         to = "done" => from \notin AfterSave \cup {"dead"},
         to \in AfterSave => from \in AfterSave,
         from \in Places \ {"dead", "done"},
         from \in HoldPlaces => to \in HoldPlaces,
         to \in Gated => from \in Gated
  PROVE  OwnStep(p)
<1>1. /\ pc[p] = from /\ pc'[p] = to /\ verdict'[p] = verdict[p] /\ (Said(p)' <=> Said(p))
      /\ stage' = stage /\ \A q \in Pipes \ {p} : Rests(q)
  BY GoEffect
<1>2. /\ row' = row /\ help' = help /\ (Holds(p)' <=> Holds(p))
      /\ \A q \in Pipes : Untouched(q)
  BY PulseEffect
<1>3. Fits(p)' BY <1>1, <1>2 DEF Fits, Places, Working, AfterSave
<1>4. Kept(p) => Kept(p)' BY <1>1, <1>2 DEF Kept
<1> QED BY <1>1, <1>2, <1>3, <1>4 DEF OwnStep, Still

\* A row is written (or ended) that is not the one of a message.
LEMMA Writes ==
  ASSUME LeaseTypeOK, WorkInv, NEW p \in Pipes, Fits(p),
         NEW from \in Places \ {"sent"}, NEW to \in Places \ {"sent"}, Go(p, from, to),
         NEW r \in Rows, WriteRow(p, r) \/ EndRow(p, r),
         ~Said(p), r.published = row[p].published,
         r.final # "PUBLISHED", to \in AfterSave => r.batch = "succeeded",
         \/ EndRow(p, r)
         \/ /\ r.final \in Active \/ r.final = row[p].final
            /\ Kept(p) /\ Holds(p) => to \in HoldPlaces /\ r.batch # "failed",
         to \notin Gated
  PROVE  OwnStep(p)
<1>1. /\ pc[p] = from /\ pc'[p] = to /\ verdict'[p] = verdict[p] /\ (Said(p)' <=> Said(p))
      /\ stage' = stage /\ \A q \in Pipes \ {p} : Rests(q)
  BY GoEffect
<1>2. /\ row'[p] = r /\ help' = help /\ (Holds(p)' => Holds(p) /\ ~EndRow(p, r))
      /\ \A q \in Pipes \ {p} : Untouched(q)
  BY WriteEffect, EndEffect
<1>3. ~row[p].published BY DEF Fits
<1>4. Fits(p)'
  <2>1. Holds(p)' => r.final \in Active BY <1>2 DEF Fits
  <2> QED BY <1>1, <1>2, <1>3, <2>1 DEF Fits
<1>5. Kept(p) => Kept(p)' BY <1>1, <1>2 DEF Kept
<1> QED BY <1>1, <1>2, <1>4, <1>5 DEF OwnStep, Still

\* A claim, before Stage 2 or before Stage 3.
LEMMA Claims ==
  ASSUME TokenInv, WorkInv, NEW p \in Pipes, Fits(p), ClaimLease(p),
         Go(p, "lease2", "start") \/ Go(p, "lease3", "generate")
  PROVE  OwnStep(p)
<1>0. LeaseTypeOK /\ row[p] \in Rows BY DEF TokenInv, LeaseTypeOK
<1>1. PICK from \in {"lease2", "lease3"}, to \in {"start", "generate"} :
        Go(p, from, to) /\ (to \in AfterSave => from \in AfterSave)
  BY DEF AfterSave
<1>2. /\ pc[p] = from /\ pc'[p] = to /\ verdict'[p] = verdict[p] /\ (Said(p)' <=> Said(p))
      /\ stage' = stage /\ \A q \in Pipes \ {p} : Rests(q)
  BY <1>1, GoEffect
<1>3. /\ Claimable(row[p]) /\ row'[p] \in {row[p], Claimed(row[p])} /\ help' = help
      /\ \A q \in Pipes \ {p} : Untouched(q)
  BY ClaimEffect
<1>4. /\ row[p].final \in Active /\ ~row[p].published
      /\ row[p].batch \in {"none", "running", "succeeded"}
  BY <1>0, <1>3 DEF Claimable, Rows
<1>5. /\ row'[p].final \in Active /\ row'[p].published = row[p].published
      /\ row'[p].batch = row[p].batch
  BY <1>0, <1>3, <1>4 DEF Claimed, Rows, Active
<1>6. ~Said(p) BY <1>2 DEF Fits
<1>7. Fits(p)' BY <1>1, <1>2, <1>4, <1>5, <1>6 DEF Fits, Active
<1>8. Kept(p)' BY <1>2, <1>4, <1>5 DEF Kept, HoldPlaces, Working
<1> QED BY <1>2, <1>3, <1>6, <1>7, <1>8 DEF OwnStep, Still, Gated
-----------------------------------------------------------------------------
(* Every step of a worker is of one of these shapes. *)

LEMMA Silent ==
  ASSUME NEW p \in Pipes, Fits(p), pc[p] \notin {"sent", "done", "dead"}
  PROVE  ~Said(p) /\ ~row[p].published /\ row[p].final # "PUBLISHED"
BY DEF Fits

\* What a service writes is a row that differs in the columns it names.
Batches == {"none", "pending", "running", "succeeded", "failed", "over"}
Finals == Terminal \cup Active
LEMMA ColumnValues ==
  /\ "pending" \in Batches /\ "running" \in Batches /\ "succeeded" \in Batches
  /\ "failed" \in Batches /\ "over" \in Batches
  /\ "WAITING_FOR_LOCK" \in Finals /\ "GENERATING" \in Finals /\ "PENDING_DECISION_GATE" \in Finals
BY DEF Batches, Finals, Terminal, Active

LEMMA NewBatch ==
  ASSUME NEW p \in Pipes, row[p] \in Rows,
         NEW b \in Batches
  PROVE  /\ WriteRow(p, [row[p] EXCEPT !.batch = b]) =>
              \E r \in Rows : WriteRow(p, r) /\ r.batch = b /\ r.final = row[p].final /\ r.published = row[p].published
         /\ EndRow(p, [row[p] EXCEPT !.batch = b]) =>
              \E r \in Rows : EndRow(p, r) /\ r.batch = b /\ r.final = row[p].final /\ r.published = row[p].published
<1>1. /\ [row[p] EXCEPT !.batch = b] \in Rows
      /\ [row[p] EXCEPT !.batch = b].batch = b
      /\ [row[p] EXCEPT !.batch = b].final = row[p].final
      /\ [row[p] EXCEPT !.batch = b].published = row[p].published
  BY DEF Rows, Batches, Finals
<1> QED BY <1>1, Zenon

LEMMA NewFinal ==
  ASSUME NEW p \in Pipes, row[p] \in Rows,
         NEW f \in Finals
  PROVE  /\ WriteRow(p, [row[p] EXCEPT !.final = f]) =>
              \E r \in Rows : WriteRow(p, r) /\ r.batch = row[p].batch /\ r.final = f /\ r.published = row[p].published
         /\ EndRow(p, [row[p] EXCEPT !.final = f]) =>
              \E r \in Rows : EndRow(p, r) /\ r.batch = row[p].batch /\ r.final = f /\ r.published = row[p].published
<1>1. /\ [row[p] EXCEPT !.final = f] \in Rows
      /\ [row[p] EXCEPT !.final = f].batch = row[p].batch
      /\ [row[p] EXCEPT !.final = f].final = f
      /\ [row[p] EXCEPT !.final = f].published = row[p].published
  BY DEF Rows, Batches, Finals
<1> QED BY <1>1, Zenon

\* Only the batch changes, and the room is not held.
LEMMA BatchWrites ==
  ASSUME LeaseTypeOK, WorkInv, NEW p \in Pipes, Fits(p), ~Said(p), Kept(p) => ~Holds(p),
         NEW from \in Places \ {"sent"}, NEW to \in Places \ AfterSave, Go(p, from, to),
         NEW b \in {"pending", "running", "failed", "over"},
         WriteRow(p, [row[p] EXCEPT !.batch = b])
  PROVE  OwnStep(p)
<1>1. /\ row[p] \in Rows /\ ~row[p].published /\ row[p].final # "PUBLISHED"
      /\ b \in Batches
  BY DEF LeaseTypeOK, Fits, Batches
<1>2. PICK r \in Rows : /\ WriteRow(p, r) /\ r.batch = b
                        /\ r.final = row[p].final /\ r.published = row[p].published
  BY <1>1, NewBatch, ColumnValues
<1>3. to # "sent" /\ to \notin Gated BY DEF AfterSave, Gated
<1> QED BY <1>1, <1>2, <1>3, Writes

LEMMA BatchOwn ==
  ASSUME TokenInv, PipelineInv, NEW p \in Pipes, Fits(p),
         Request(p) \/ Reopen(p) \/ ClaimBatch(p) \/ Prepare(p) \/ Retry(p) \/ PrepareRetry(p)
           \/ Exhaust(p) \/ LoseBatch(p)
  PROVE  OwnStep(p)
<1>0. LeaseTypeOK /\ WorkInv /\ row[p] \in Rows BY DEF PipelineInv, LeaseTypeOK
<1>2. /\ pc \in [Pipes -> Working \cup {"idle", "queued", "done", "dead"}]
      /\ pc[p] \in {"idle", "queued", "claimed", "failed", "missed", "retrying", "requeue", "lost"}
           => ~Said(p) /\ ~row[p].published /\ row[p].final # "PUBLISHED"
  BY <1>0, Silent DEF WorkInv, WorkTypes
<1>. USE DEF Places, Working, AfterSave, HoldPlaces, Gated
<1>3. CASE Request(p)
  <2>1. /\ pc[p] = "idle" /\ pc' = [pc EXCEPT ![p] = "queued"]
        /\ UNCHANGED <<verdict, talk, stage>>
        /\ WriteRow(p, [row[p] EXCEPT !.batch = "pending"])
    BY <1>3 DEF Request, roomVars, otherVars
  <2>2. pc'[p] = "queued" /\ \A q \in Pipes \ {p} : Rests(q) BY <1>2, <2>1 DEF Rests, Said
  <2>3. /\ row'[p].final = row[p].final /\ row'[p].published = row[p].published
        /\ row'[p].batch = "pending" /\ (Holds(p)' <=> Holds(p)) /\ help' = help
        /\ \A q \in Pipes \ {p} : Untouched(q)
    <3>1. PICK r \in Rows : /\ WriteRow(p, r) /\ r.batch = "pending"
                            /\ r.final = row[p].final /\ r.published = row[p].published
      BY <1>0, <2>1, NewBatch, ColumnValues
    <3> QED BY <1>0, <3>1, WriteEffect
  <2>4. (Said(p)' <=> Said(p)) /\ verdict'[p] = verdict[p] /\ stage' = stage BY <2>1 DEF Said
  <2>5. Fits(p)' BY <1>2, <2>1, <2>2, <2>3, <2>4 DEF Fits
  <2>6. Kept(p) => Kept(p)' BY <2>1, <2>3 DEF Kept
  <2> QED BY <1>2, <2>1, <2>2, <2>3, <2>4, <2>5, <2>6 DEF OwnStep, Still
<1>4. CASE Reopen(p)
  <2>1. /\ row[p].batch = "failed" /\ WriteRow(p, [row[p] EXCEPT !.batch = "pending"])
        /\ Go(p, "done", "queued") \/ Go(p, "dead", "queued")
    BY <1>4 DEF Reopen
  <2>2. ~Said(p) /\ ~row[p].published /\ row[p].final # "PUBLISHED" BY <2>1 DEF Fits
  <2>3. Kept(p) => ~Holds(p) BY <2>1 DEF Kept
  <2> QED BY <1>0, <2>1, <2>2, <2>3, BatchWrites
<1>5. CASE ClaimBatch(p)
  <2>1. PICK b \in {"running", "failed"}, to \in {"claimed", "done"} :
          pc' = [pc EXCEPT ![p] = to] /\ WriteRow(p, [row[p] EXCEPT !.batch = b])
    BY <1>5 DEF ClaimBatch
  <2>2. pc[p] = "queued" /\ UNCHANGED <<verdict, talk, stage>>
    BY <1>5 DEF ClaimBatch, roomVars, otherVars
  <2>3. pc'[p] = to /\ \A q \in Pipes \ {p} : Rests(q) BY <1>2, <2>1, <2>2 DEF Rests, Said
  <2>4. /\ row'[p].final = row[p].final /\ row'[p].published = row[p].published
        /\ (Holds(p)' <=> Holds(p)) /\ help' = help
        /\ \A q \in Pipes \ {p} : Untouched(q)
    <3>1. PICK r \in Rows : /\ WriteRow(p, r)
                            /\ r.final = row[p].final /\ r.published = row[p].published
      BY <1>0, <2>1, NewBatch, ColumnValues
    <3> QED BY <1>0, <3>1, WriteEffect
  <2>5. (Said(p)' <=> Said(p)) /\ verdict'[p] = verdict[p] /\ stage' = stage BY <2>2 DEF Said
  <2>6. Fits(p)' BY <1>2, <2>2, <2>3, <2>4, <2>5 DEF Fits
  <2>7. Kept(p) => Kept(p)' BY <2>2, <2>4 DEF Kept
  <2> QED BY <1>2, <2>2, <2>3, <2>4, <2>5, <2>6, <2>7 DEF OwnStep, Still
<1>6. CASE Prepare(p)
  <2>1. PICK to \in {"lease2", "start"} : WriteRow(p, Prepared(row[p])) /\ Go(p, "claimed", to)
    BY <1>6 DEF Prepare
  <2>2. pc[p] = "claimed" /\ (Kept(p) => ~Holds(p)) BY <2>1 DEF Go, Kept
  <2>3. PICK r \in Rows : /\ WriteRow(p, r) /\ r.published = row[p].published
                          /\ r.final \in {row[p].final, "PENDING_STAGE2"}
    <3>1. CASE Prepared(row[p]) = row[p] BY <1>0, <2>1, <3>1
    <3>2. CASE Prepared(row[p]) = [row[p] EXCEPT !.stage2 = "PENDING", !.final = "PENDING_STAGE2"]
      <4>. DEFINE r == [row[p] EXCEPT !.stage2 = "PENDING", !.final = "PENDING_STAGE2"]
      <4>1. r \in Rows /\ r.final = "PENDING_STAGE2" /\ r.published = row[p].published
        BY <1>0 DEF Rows, Active
      <4>2. WriteRow(p, r) BY <2>1, <3>2
      <4>. HIDE DEF r
      <4> QED BY <4>1, <4>2
    <3> QED BY <3>1, <3>2 DEF Prepared
  <2> QED BY <1>0, <1>2, <2>1, <2>2, <2>3, Writes DEF Active
<1>7. CASE Retry(p)
  <2>1. /\ WriteRow(p, [row[p] EXCEPT !.batch = "failed"])
        /\ Go(p, "failed", "retrying") \/ Go(p, "missed", "requeue")
    BY <1>7 DEF Retry
  <2>2. pc[p] \in {"failed", "missed"} /\ (Kept(p) => ~Holds(p)) BY <2>1 DEF Go, Kept
  <2> QED BY <1>0, <1>2, <2>1, <2>2, BatchWrites
<1>8. CASE PrepareRetry(p)
  <2>1. CASE WriteRow(p, [row[p] EXCEPT !.batch = "pending"])
               /\ (Go(p, "retrying", "queued") \/ Go(p, "requeue", "queued"))
    <3>1. pc[p] \in {"retrying", "requeue"} /\ (Kept(p) => ~Holds(p)) BY <2>1 DEF Go, Kept
    <3> QED BY <1>0, <1>2, <2>1, <3>1, BatchWrites
  <2>2. CASE UNCHANGED leaseVars /\ Go(p, "retrying", "done") BY <1>0, <2>2, Moves
  <2>3. CASE UNCHANGED leaseVars /\ Go(p, "requeue", "erred") BY <1>0, <2>3, Moves
  <2> QED BY <1>8, <2>1, <2>2, <2>3 DEF PrepareRetry
<1>9. CASE Exhaust(p)
  <2>1. /\ WriteRow(p, [row[p] EXCEPT !.batch = "over"])
        /\ Go(p, "failed", "done") \/ Go(p, "missed", "doomed")
    BY <1>9 DEF Exhaust
  <2>2. pc[p] \in {"failed", "missed"} /\ (Kept(p) => ~Holds(p)) BY <2>1 DEF Go, Kept
  <2> QED BY <1>0, <1>2, <2>1, <2>2, BatchWrites
<1>10. CASE LoseBatch(p)
  <2>1. /\ Go(p, "lost", "done")
        /\ WriteRow(p, row[p]) \/ WriteRow(p, [row[p] EXCEPT !.batch = "failed"])
    BY <1>10 DEF LoseBatch
  <2>2. pc[p] = "lost" /\ (Kept(p) => ~Holds(p)) BY <2>1 DEF Go, Kept
  <2>3. CASE WriteRow(p, row[p]) BY <1>0, <1>2, <2>1, <2>2, <2>3, Writes
  <2>4. CASE WriteRow(p, [row[p] EXCEPT !.batch = "failed"])
    BY <1>0, <1>2, <2>1, <2>2, <2>4, BatchWrites
  <2> QED BY <2>1, <2>3, <2>4
<1> QED BY <1>3, <1>4, <1>5, <1>6, <1>7, <1>8, <1>9, <1>10

LEMMA Stage2Own ==
  ASSUME TokenInv, PipelineInv, NEW p \in Pipes, Fits(p),
         Lease2(p) \/ LeaseMiss(p) \/ Start(p) \/ Assessed(p) \/ FailStage2(p) \/ Save(p)
           \/ Judge(p) \/ Persist(p)
  PROVE  OwnStep(p)
<1>0. LeaseTypeOK /\ WorkInv /\ row[p] \in Rows BY DEF PipelineInv, LeaseTypeOK
<1>1. pc[p] \in {"lease2", "start", "assess", "pulsed", "erred", "doomed", "judged"}
        => ~Said(p) /\ ~row[p].published /\ row[p].final # "PUBLISHED"
  BY Silent
<1>. USE DEF Places, Working, AfterSave, HoldPlaces, Gated
<1>2. CASE Lease2(p) BY <1>0, <1>2, Claims DEF Lease2
<1>3. CASE LeaseMiss(p)
  <2>1. /\ Go(p, "lease2", "missed")
        /\ WriteRow(p, row[p]) \/ WriteRow(p, [row[p] EXCEPT !.final = "WAITING_FOR_LOCK"])
    BY <1>3 DEF LeaseMiss
  <2>2. pc[p] = "lease2" /\ (Kept(p) => ~Holds(p)) BY <2>1 DEF Go, Kept
  <2>3. PICK r \in Rows : /\ WriteRow(p, r) /\ r.published = row[p].published
                          /\ r.final \in {row[p].final, "WAITING_FOR_LOCK"}
    BY <1>0, <2>1, NewFinal, ColumnValues
  <2> QED BY <1>0, <1>1, <2>1, <2>2, <2>3, Writes DEF Active
<1>4. CASE Start(p)
  <2>1. CASE UNCHANGED leaseVars /\ Go(p, "start", "erred") BY <1>0, <2>1, Moves
  <2>2. CASE /\ WriteRow(p, [row[p] EXCEPT !.stage2 = "RUNNING", !.final = "ASSESSING"])
             /\ Go(p, "start", "assess")
    <3>1. pc[p] = "start" BY <2>2 DEF Go
    <3>. DEFINE r == [row[p] EXCEPT !.stage2 = "RUNNING", !.final = "ASSESSING"]
    <3>2. /\ r \in Rows /\ r.final = "ASSESSING"
          /\ r.batch = row[p].batch /\ r.published = row[p].published
      BY <1>0 DEF Rows, Active
    <3>3. WriteRow(p, r) /\ Go(p, "start", "assess") BY <2>2
    <3>4. Kept(p) /\ Holds(p) => row[p].batch # "failed" BY DEF Kept
    <3>. HIDE DEF r
    <3> QED BY <1>0, <1>1, <3>1, <3>2, <3>3, <3>4, Writes DEF Active
  <2> QED BY <1>4, <2>1, <2>2 DEF Start
<1>5. CASE Assessed(p)
  <2>1. CASE (Pulse(p) \/ UNCHANGED leaseVars) /\ Go(p, "assess", "pulsed") BY <1>0, <2>1, Moves
  <2>2. CASE UNCHANGED leaseVars /\ Go(p, "assess", "doomed") BY <1>0, <2>2, Moves
  <2> QED BY <1>5, <2>1, <2>2 DEF Assessed
<1>6. CASE FailStage2(p)
  <2>1. PICK from \in {"assess", "pulsed", "erred", "doomed"}, to \in {"failed", "lost"} :
          /\ EndRow(p, [row[p] EXCEPT !.stage2 = "FAILED", !.intervene = FALSE, !.final = "FAILED"])
          /\ Go(p, from, to)
    BY <1>6 DEF FailStage2
  <2>2. pc[p] = from BY <2>1 DEF Go
  <2>. DEFINE r == [row[p] EXCEPT !.stage2 = "FAILED", !.intervene = FALSE, !.final = "FAILED"]
  <2>3. r \in Rows /\ r.published = row[p].published /\ r.final = "FAILED"
    BY <1>0 DEF Rows, Terminal
  <2>4. EndRow(p, r) /\ Go(p, from, to) BY <2>1
  <2>. HIDE DEF r
  <2> QED BY <1>0, <1>1, <2>2, <2>3, <2>4, Writes
<1>7. CASE Save(p)
  <2>1. WriteRow(p, [row[p] EXCEPT !.batch = "succeeded"]) /\ Go(p, "pulsed", "saved")
    BY <1>7 DEF Save
  <2>2. PICK r \in Rows : /\ WriteRow(p, r) /\ r.batch = "succeeded"
                          /\ r.final = row[p].final /\ r.published = row[p].published
    BY <1>0, <2>1, NewBatch, ColumnValues
  <2>3. pc[p] = "pulsed" BY <2>1 DEF Go
  <2> QED BY <1>0, <1>1, <2>1, <2>2, <2>3, Writes
<1>8. CASE Judge(p)
  <2>1. PICK v \in {"STALE", "PENDING_STAGE3", "SUPPRESSED", "FAILED"} :
          Decide(p, "saved", "judged", v)
    BY <1>8 DEF Judge
  <2> QED BY <1>0, <2>1, Decides
<1>9. CASE Persist(p)
  <2>1. pc[p] = "judged" BY <1>9 DEF Persist, Go
  <2>2. verdict[p] \in Finals /\ verdict[p] # "PUBLISHED"
    BY <1>0, <2>1 DEF WorkInv, Decided, Fits, Active, Finals
  <2>3. row[p].batch = "succeeded" BY <2>1 DEF Fits
  <2>4. CASE verdict[p] = "PENDING_STAGE3"
    <3>. DEFINE r == [row[p] EXCEPT !.stage2 = "SUCCEEDED", !.intervene = TRUE, !.final = verdict[p]]
    <3>1. WriteRow(p, r) /\ Go(p, "judged", "preflight") BY <1>9, <2>4 DEF Persist
    <3>2. /\ r \in Rows /\ r.batch = "succeeded"
          /\ r.final = verdict[p] /\ r.published = row[p].published
      BY <1>0, <2>2, <2>3 DEF Rows, Finals
    <3>. HIDE DEF r
    <3> QED BY <1>0, <1>1, <2>1, <2>4, <3>1, <3>2, Writes DEF Active
  <2>5. CASE verdict[p] # "PENDING_STAGE3"
    <3>. DEFINE r == [row[p] EXCEPT !.stage2 = "SUCCEEDED", !.intervene = FALSE, !.final = verdict[p]]
    <3>1. EndRow(p, r) /\ Go(p, "judged", "done") BY <1>9, <2>5 DEF Persist
    <3>2. r \in Rows /\ r.final = verdict[p] /\ r.published = row[p].published
      BY <1>0, <2>2 DEF Rows, Finals
    <3>. HIDE DEF r
    <3> QED BY <1>0, <1>1, <2>1, <2>2, <3>1, <3>2, Writes
  <2> QED BY <2>4, <2>5
<1> QED BY <1>2, <1>3, <1>4, <1>5, <1>6, <1>7, <1>8, <1>9
LEMMA Stage3Own ==
  ASSUME TokenInv, PipelineInv, NEW p \in Pipes, Fits(p),
         Preflight(p) \/ Lease3(p) \/ Generate(p) \/ Generated(p) \/ Draft(p)
  PROVE  OwnStep(p)
<1>0. LeaseTypeOK /\ WorkInv /\ row[p] \in Rows BY DEF PipelineInv, LeaseTypeOK
<1>1. pc[p] \in {"generate", "drafted"} =>
        ~Said(p) /\ ~row[p].published /\ row[p].final # "PUBLISHED" /\ row[p].batch = "succeeded"
  BY Silent DEF Fits, AfterSave
<1>. USE DEF Places, Working, AfterSave, HoldPlaces, Gated
<1>2. CASE Preflight(p)
  <2>1. CASE UNCHANGED leaseVars /\ Go(p, "preflight", "lease3") BY <1>0, <2>1, Moves
  <2>2. CASE Decide(p, "preflight", "finish", "SUPPRESSED") BY <1>0, <2>2, Decides
  <2> QED BY <1>2, <2>1, <2>2 DEF Preflight
<1>3. CASE Lease3(p)
  <2>1. CASE ClaimLease(p) /\ Go(p, "lease3", "generate") BY <1>0, <2>1, Claims
  <2>2. CASE Decide(p, "lease3", "finish", "FAILED") BY <1>0, <2>2, Decides
  <2> QED BY <1>3, <2>1, <2>2 DEF Lease3
<1>4. CASE Generate(p)
  <2>1. /\ Go(p, "generate", "generating")
        /\ WriteRow(p, row[p]) \/ WriteRow(p, [row[p] EXCEPT !.final = "GENERATING"])
    BY <1>4 DEF Generate
  <2>2. pc[p] = "generate" BY <2>1 DEF Go
  <2>3. PICK r \in Rows : /\ WriteRow(p, r) /\ r.published = row[p].published
                          /\ r.batch = row[p].batch /\ r.final \in {row[p].final, "GENERATING"}
    BY <1>0, <2>1, NewFinal, ColumnValues
  <2> QED BY <1>0, <1>1, <2>1, <2>2, <2>3, Writes DEF Active
<1>5. CASE Generated(p)
  <2>1. CASE Pulse(p) /\ Go(p, "generating", "drafted") BY <1>0, <2>1, Moves
  <2>2. CASE Decide(p, "generating", "finish", "FAILED") BY <1>0, <2>2, Decides
  <2> QED BY <1>5, <2>1, <2>2 DEF Generated
<1>6. CASE Draft(p)
  <2>1. /\ Go(p, "drafted", "gate")
        /\ WriteRow(p, [row[p] EXCEPT !.final = "PENDING_DECISION_GATE"])
    BY <1>6 DEF Draft
  <2>2. pc[p] = "drafted" BY <2>1 DEF Go
  <2>3. PICK r \in Rows : /\ WriteRow(p, r) /\ r.published = row[p].published
                          /\ r.batch = row[p].batch /\ r.final = "PENDING_DECISION_GATE"
    BY <1>0, <2>1, NewFinal, ColumnValues
  <2> QED BY <1>0, <1>1, <2>1, <2>2, <2>3, Writes DEF Active
<1> QED BY <1>2, <1>3, <1>4, <1>5, <1>6

LEMMA PublishOwn ==
  ASSUME TokenInv, PipelineInv, NEW p \in Pipes, Fits(p),
         Gate(p) \/ Confirm(p) \/ Publish(p) \/ Refused(p) \/ DbLocked(p) \/ Mark(p) \/ Finish(p)
  PROVE  OwnStep(p)
<1>0. LeaseTypeOK /\ WorkInv /\ row[p] \in Rows BY DEF PipelineInv, LeaseTypeOK
<1>. USE DEF Places, Working, AfterSave, HoldPlaces, Gated
<1>1. CASE Gate(p)
  <2>1. GateAnswer(p) \in {"FAILED", "SUPPRESSED", "STALE", "UNDECIDED"} BY DEF GateAnswer
  <2>2. GateAnswer(p) = "UNDECIDED" => ~HelpActive(p) BY DEF GateAnswer
  <2>3. PICK from \in {"gate", "regate"}, to \in {"passed", "resending", "finish"} :
          /\ Decide(p, from, to, GateAnswer(p))
          /\ to # "finish" => GateAnswer(p) = "UNDECIDED"
    BY <1>1 DEF Gate
  <2> QED BY <1>0, <2>1, <2>2, <2>3, Decides
<1>2. CASE Confirm(p)
  <2>1. CASE Pulse(p) /\ Go(p, "passed", "sending") BY <1>0, <2>1, Moves
  <2>2. CASE Decide(p, "passed", "finish", "FAILED") BY <1>0, <2>2, Decides
  <2> QED BY <1>2, <2>1, <2>2 DEF Confirm
<1>3. CASE Publish(p)
  <2>1. /\ pc[p] \in {"sending", "resending"} /\ pc' = [pc EXCEPT ![p] = "sent"]
        /\ talk' = Append(talk, p) /\ PublishPipe(p) /\ verdict' = verdict /\ stage' = stage
    BY <1>3 DEF Publish, otherVars
  <2>2. /\ Holds(p) /\ room' = Open(room) /\ row' = row /\ help' = help
    BY <2>1 DEF PublishPipe, Holds
  <2>3. pc'[p] = "sent" /\ \A q \in Pipes \ {p} : pc'[q] = pc[q]
    BY <1>0, <2>1 DEF WorkInv, WorkTypes
  <2>4. Said(p)' /\ \A q \in Pipes \ {p} : Said(q)' <=> Said(q)
    <3>1. talk \in Seq({Student} \cup Pipes \cup {-h : h \in Helps}) BY <1>0 DEF WorkInv, WorkTypes
    <3>2. /\ DOMAIN talk = 1 .. Len(talk) /\ DOMAIN talk' = 1 .. Len(talk) + 1
          /\ talk'[Len(talk) + 1] = p /\ Len(talk) \in Nat
          /\ \A i \in 1 .. Len(talk) : talk'[i] = talk[i]
      BY <2>1, <3>1
    <3>3. Said(p)' BY <3>2 DEF Said
    <3>4. ASSUME NEW q \in Pipes \ {p} PROVE Said(q)' <=> Said(q)
      <4>1. ASSUME NEW i \in DOMAIN talk', talk'[i] = q PROVE Said(q)
        BY <3>2, <3>4, <4>1 DEF Said
      <4>2. ASSUME NEW i \in DOMAIN talk, talk[i] = q PROVE Said(q)'
        BY <3>2, <4>2 DEF Said
      <4> QED BY <4>1, <4>2 DEF Said
    <3> QED BY <3>3, <3>4
  <2>5. \A q \in Pipes : ~Holds(q)' BY <2>2, OpenEnds
  <2>6. Fits(p)' BY <2>1, <2>2, <2>3, <2>4, <2>5 DEF Fits
  <2>7. Kept(p)' BY <2>5 DEF Kept
  <2>8. \A q \in Pipes \ {p} : Still(q) BY <2>1, <2>2, <2>3, <2>4, <2>5 DEF Still, Rests, Untouched
  <2> QED BY <2>1, <2>2, <2>3, <2>6, <2>7, <2>8 DEF OwnStep
<1>4. CASE Refused(p)
  <2>1. PICK from \in {"sending", "resending"}, v \in {"STALE", "FAILED"} : Decide(p, from, "finish", v)
    BY <1>4 DEF Refused
  <2> QED BY <1>0, <2>1, Decides
<1>5. CASE DbLocked(p)
  <2>1. CASE UNCHANGED leaseVars /\ Go(p, "sending", "regate") BY <1>0, <2>1, Moves
  <2>2. CASE Decide(p, "resending", "finish", "FAILED") BY <1>0, <2>2, Decides
  <2> QED BY <1>5, <2>1, <2>2 DEF DbLocked
<1>6. CASE Mark(p)
  <2>1. WriteRow(p, [row[p] EXCEPT !.final = "PUBLISHED", !.published = TRUE]) /\ Go(p, "sent", "done")
    BY <1>6 DEF Mark
  <2>2. /\ pc[p] = "sent" /\ pc'[p] = "done" /\ verdict'[p] = verdict[p] /\ (Said(p)' <=> Said(p))
        /\ stage' = stage /\ \A q \in Pipes \ {p} : Rests(q)
    BY <1>0, <2>1, GoEffect
  <2>. DEFINE r == [row[p] EXCEPT !.final = "PUBLISHED", !.published = TRUE]
  <2>3. r.final = "PUBLISHED" /\ r.published /\ r.batch = row[p].batch BY <1>0 DEF Rows
  <2>4. WriteRow(p, r) BY <2>1
  <2>. HIDE DEF r
  <2>5. /\ row'[p] = r /\ (Holds(p)' <=> Holds(p)) /\ help' = help
        /\ \A q \in Pipes \ {p} : Untouched(q)
    BY <1>0, <2>4, WriteEffect
  <2>6. Fits(p)' BY <2>2, <2>3, <2>5 DEF Fits
  <2>7. Kept(p)' BY <2>2, <2>5 DEF Fits, Kept
  <2> QED BY <2>2, <2>5, <2>6, <2>7 DEF OwnStep, Still
<1>7. CASE Finish(p)
  <2>1. EndRow(p, [row[p] EXCEPT !.final = verdict[p]]) /\ Go(p, "finish", "done") BY <1>7 DEF Finish
  <2>2. pc[p] = "finish" BY <2>1 DEF Go
  <2>3. verdict[p] \in Finals /\ verdict[p] # "PUBLISHED"
    BY <1>0, <2>2 DEF WorkInv, Decided, Fits, Active, Finals
  <2>4. ~Said(p) BY <2>2, Silent
  <2>5. PICK r \in Rows : EndRow(p, r) /\ r.published = row[p].published /\ r.final = verdict[p]
    BY <1>0, <2>1, <2>3, NewFinal
  <2> QED BY <1>0, <2>1, <2>2, <2>3, <2>4, <2>5, Writes
<1> QED BY <1>1, <1>2, <1>3, <1>4, <1>5, <1>6, <1>7

LEMMA AnyOwn ==
  ASSUME TokenInv, PipelineInv, NEW p \in Pipes, Fits(p),
         Request(p) \/ Reopen(p) \/ Work(p) \/ Heartbeat(p) \/ Crash(p)
  PROVE  OwnStep(p)
<1>0. LeaseTypeOK /\ WorkInv BY DEF PipelineInv
<1>1. CASE Request(p) \/ Reopen(p) \/ Work(p)
  BY <1>1, BatchOwn, Stage2Own, Stage3Own, PublishOwn DEF Work
<1>2. CASE Heartbeat(p)
  <2>1. Renew(p) /\ UNCHANGED <<pc, verdict, talk, stage>>
    BY <1>2 DEF Heartbeat, workVars, roomVars, otherVars
  <2>2. /\ row' = row /\ help' = help /\ (\A q \in Pipes : Holds(q)' <=> Holds(q))
        /\ \A q \in Pipes : Untouched(q)
    BY <1>0, <2>1, PulseEffect
  <2>3. \A q \in Pipes : Still(q) BY <2>1, <2>2 DEF Still, Rests, Said
  <2>4. Fits(p)' /\ (Kept(p) => Kept(p)') BY <1>0, <2>3, StillKeeps
  <2>5. (Said(p)' <=> Said(p)) /\ pc'[p] = pc[p] BY <2>3 DEF Still, Rests
  <2> QED BY <2>1, <2>2, <2>3, <2>4, <2>5 DEF OwnStep
<1>3. CASE Crash(p)
  <2>1. PICK from \in Working : pc[p] = from /\ Go(p, from, "dead") /\ UNCHANGED leaseVars
    BY <1>3 DEF Crash
  <2>2. from \in Places \ {"dead", "done"} /\ "dead" \in Places /\ "dead" \in HoldPlaces
        /\ "dead" \notin AfterSave \cup Gated
    BY DEF Places, Working, HoldPlaces, AfterSave, Gated
  <2> QED BY <1>0, <2>1, <2>2, Moves
<1> QED BY <1>1, <1>2, <1>3
-----------------------------------------------------------------------------
(* Help requests, students, the teacher and time. *)

Outside ==
  \/ \E h \in Helps : \/ HelpSee(h) \/ HelpPost(h) \/ HelpQueue(h) \/ HelpStart(h)
                      \/ HelpPreempt(h) \/ HelpLease(h) \/ HelpUnwinds(h)
                      \/ HelpAnswer(h) \/ HelpDies(h)
  \/ SeeRoom \/ Post \/ Close \/ CancelRuns \/ Clock \/ CoolDown

\* What they say is no strategy message.
LEMMA OutsideSays ==
  ASSUME PipelineInv, Outside, NEW p \in Pipes PROVE Rests(p)
<1>0. talk \in Seq({Student} \cup Pipes \cup {-h : h \in Helps}) BY DEF PipelineInv, WorkInv, WorkTypes
<1>1. UNCHANGED <<pc, verdict>>
  BY DEF Outside, HelpSee, HelpPost, HelpQueue, HelpStart, HelpPreempt, HelpLease,
         HelpUnwinds, HelpAnswer, HelpDies,
         Stage, SeeRoom, Post, Close, CancelRuns, Clock, CoolDown, workVars
<1>2. talk' = talk \/ \E a \in {Student} \cup {-h : h \in Helps} : talk' = Append(talk, a)
  BY DEF Outside, HelpSee, HelpPost, HelpQueue, HelpStart, HelpPreempt, HelpLease,
         HelpUnwinds, HelpAnswer, HelpDies,
         SeeRoom, Post, Close, CancelRuns, Clock, CoolDown, roomVars
<1>3. ASSUME NEW a \in {Student} \cup {-h : h \in Helps}, talk' = Append(talk, a)
      PROVE  Said(p)' <=> Said(p)
  <2>1. a # p BY IdsAssumption, AskersAreInt DEF Student
  <2>2. /\ DOMAIN talk = 1 .. Len(talk) /\ DOMAIN talk' = 1 .. Len(talk) + 1
        /\ talk'[Len(talk) + 1] = a /\ Len(talk) \in Nat
        /\ \A i \in 1 .. Len(talk) : talk'[i] = talk[i]
    BY <1>0, <1>3
  <2>3. ASSUME NEW i \in DOMAIN talk', talk'[i] = p PROVE Said(p) BY <2>1, <2>2, <2>3 DEF Said
  <2>4. ASSUME NEW i \in DOMAIN talk, talk[i] = p PROVE Said(p)' BY <2>2, <2>4 DEF Said
  <2> QED BY <2>3, <2>4 DEF Said
<1>4. Said(p)' <=> Said(p) BY <1>2, <1>3 DEF Said
<1> QED BY <1>1, <1>4 DEF Rests

LEMMA OutsideStill ==
  ASSUME TokenInv, PipelineInv, Outside, NEW p \in Pipes PROVE Still(p)
<1>0. LeaseTypeOK BY DEF PipelineInv
<1>1. ASSUME UNCHANGED leaseVars PROVE Untouched(p) BY <1>0, <1>1, PulseEffect
<1>2. ASSUME NEW h \in Helps,
             \/ HelpSee(h) \/ HelpPost(h) \/ HelpQueue(h) \/ HelpStart(h)
             \/ HelpPreempt(h) \/ HelpLease(h) \/ HelpUnwinds(h) \/ HelpAnswer(h) \/ HelpDies(h)
      PROVE  Untouched(p)
  BY <1>1, <1>2, OutsideEffect
     DEF HelpSee, HelpPost, HelpQueue, HelpStart, HelpPreempt, HelpLease, HelpUnwinds, HelpAnswer,
         HelpDies
<1>3. ASSUME SeeRoom \/ Post \/ CoolDown PROVE Untouched(p)
  BY <1>1, <1>3 DEF SeeRoom, Post, CoolDown
<1>4. ASSUME Close \/ CancelRuns PROVE Untouched(p)
  BY <1>4, OutsideEffect DEF Close, CancelRuns
<1>5. ASSUME Clock PROVE Untouched(p) BY <1>5, OutsideEffect DEF Clock
<1> QED BY <1>2, <1>3, <1>4, <1>5, OutsideSays DEF Outside, Still

\* A step of the system is one of a worker or of somebody else.
LEMMA Steps ==
  ASSUME TokenInv, PipelineInv, \A p \in Pipes : Fits(p), [PipelineNext]_pipelineVars
  PROVE  \/ \E p \in Pipes : OwnStep(p)
         \/ (Outside \/ UNCHANGED pipelineVars) /\ \A p \in Pipes : Still(p)
<1>1. CASE UNCHANGED pipelineVars
  <2>1. UNCHANGED <<leaseVars, pc, verdict, talk>>
    BY <1>1 DEF pipelineVars, workVars, roomVars
  <2>2. \A p \in Pipes : Untouched(p) BY <2>1, PulseEffect DEF PipelineInv
  <2>3. \A p \in Pipes : Rests(p) BY <2>1 DEF Rests, Said
  <2> QED BY <1>1, <2>2, <2>3 DEF Still
<1>2. CASE \E p \in Pipes : Request(p) \/ Reopen(p) \/ Work(p) \/ Heartbeat(p) \/ Crash(p)
  BY <1>2, AnyOwn
<1>3. CASE Outside BY <1>3, OutsideStill
<1> QED BY <1>1, <1>2, <1>3 DEF PipelineNext, Outside

-----------------------------------------------------------------------------
(* The audit row. *)

AuditInv == \A p \in Pipes : Fits(p)
RoomInv == TokenInv /\ PipelineInv /\ AuditInv

LEMMA AuditStep ==
  ASSUME RoomInv, Rows \subseteq WrittenRows, [PipelineNext]_pipelineVars PROVE RoomInv'
<1>0. TokenInv /\ PipelineInv /\ LeaseTypeOK /\ \A p \in Pipes : Fits(p)
  BY DEF RoomInv, AuditInv, PipelineInv
<1>1. [LeaseNext]_leaseVars /\ PipelineInv' BY <1>0, PipelineStep
<1>2. TokenInv' BY <1>0, <1>1, TokenStep
<1>3. ASSUME NEW p \in Pipes, OwnStep(p) PROVE AuditInv'
  <2>1. Fits(p)' /\ \A q \in Pipes \ {p} : Still(q) BY <1>3 DEF OwnStep
  <2>2. \A q \in Pipes \ {p} : Fits(q)' BY <1>0, <2>1, StillKeeps
  <2> QED BY <2>1, <2>2 DEF AuditInv
<1>4. ASSUME \A p \in Pipes : Still(p) PROVE AuditInv'
  <2>1. ASSUME NEW p \in Pipes PROVE Fits(p)' BY <1>0, <1>4, StillKeeps
  <2> QED BY <2>1 DEF AuditInv
<1>5. (\E p \in Pipes : OwnStep(p)) \/ (\A p \in Pipes : Still(p)) BY <1>0, Steps
<1>6. AuditInv' BY <1>3, <1>4, <1>5
<1> QED BY <1>1, <1>2, <1>6 DEF RoomInv

LEMMA AuditInit == ASSUME Rows \subseteq WrittenRows, PipelineInit PROVE RoomInv
<1>1. LeaseInit /\ PipelineInv BY PipelineInitOK
<1>2. TokenInv BY <1>1, TokenInit
<1>3. ASSUME NEW p \in Pipes PROVE Fits(p)
  <2>1. /\ row[p] \in StartRows /\ pc[p] = "idle" /\ verdict[p] = "UNDECIDED" /\ talk = <<>>
    BY DEF PipelineInit
  <2>2. row[p].final = "PENDING_STAGE2" /\ ~row[p].published BY <2>1 DEF StartRows
  <2>3. ~Said(p) BY <2>1 DEF Said
  <2> QED BY <2>1, <2>2, <2>3 DEF Fits, AfterSave, Active
<1> QED BY <1>1, <1>2, <1>3 DEF RoomInv, AuditInv

\* _mark_published() runs in a transaction of its own, after the message is out:
\* whatever a preemption, an expiry or a cancellation has written in between, a
\* worker that is done leaves PUBLISHED behind if and only if students saw the
\* message.
THEOREM AuditTellsTruth ==
  ASSUME Rows \subseteq WrittenRows PROVE PipelineSpec => []SaidIsRecorded
<1>1. RoomInv => SaidIsRecorded BY DEF RoomInv, AuditInv, Fits, SaidIsRecorded
<1> QED BY <1>1, AuditInit, AuditStep, PTL DEF PipelineSpec

-----------------------------------------------------------------------------
(* No lease is forgotten. *)

KeptInv == RoomInv /\ \A p \in Pipes : Kept(p)

LEMMA KeptStep ==
  ASSUME KeptInv, Rows \subseteq WrittenRows, [PipelineNext]_pipelineVars PROVE KeptInv'
<1>0. /\ RoomInv /\ TokenInv /\ PipelineInv /\ LeaseTypeOK
      /\ \A p \in Pipes : Fits(p) /\ Kept(p)
  BY DEF KeptInv, RoomInv, AuditInv, PipelineInv
<1>1. RoomInv' BY <1>0, AuditStep
<1>2. ASSUME NEW p \in Pipes, OwnStep(p) PROVE \A q \in Pipes : Kept(q)'
  <2>1. Kept(p)' /\ \A q \in Pipes \ {p} : Still(q) BY <1>0, <1>2 DEF OwnStep
  <2>2. \A q \in Pipes \ {p} : Kept(q)' BY <1>0, <2>1, StillKeeps
  <2> QED BY <2>1, <2>2
<1>3. ASSUME \A p \in Pipes : Still(p), NEW q \in Pipes PROVE Kept(q)'
  BY <1>0, <1>3, StillKeeps
<1>4. (\E p \in Pipes : OwnStep(p)) \/ (\A p \in Pipes : Still(p)) BY <1>0, Steps
<1>5. \A q \in Pipes : Kept(q)' BY <1>2, <1>3, <1>4
<1> QED BY <1>1, <1>5 DEF KeptInv

\* A room leased to a pipeline has a worker that will end the lease or has died:
\* every way out of Stage 2, Stage 3 and the gate ends it in the transaction that
\* ends the row.  (A lease left by an older release has no worker yet.)
THEOREM LeaseHasWorker ==
  ASSUME Rows \subseteq WrittenRows, LegacyOwners = {} PROVE PipelineSpec => []NoForgottenLease
<1>1. PipelineInit => KeptInv
  <2> SUFFICES ASSUME PipelineInit PROVE KeptInv OBVIOUS
  <2>1. lease = [p \in Pipes |-> NoLease] BY DEF PipelineInit, LeaseInit
  <2>2. \A p \in Pipes : Kept(p) BY <2>1 DEF Kept, Holds, NoLease
  <2> QED BY <2>2, AuditInit DEF KeptInv
<1>2. KeptInv => NoForgottenLease
  <2> SUFFICES ASSUME KeptInv, NEW p \in Pipes, Holds(p)
               PROVE  /\ row[p].final \in Active
                      /\ pc[p] \in (Working \ {"claimed", "failed", "missed", "requeue", "retrying", "lost", "sent"})
                                  \cup {"dead"}
    BY DEF NoForgottenLease, Holds
  <2> QED BY DEF KeptInv, RoomInv, AuditInv, Fits, Kept, HoldPlaces
<1> QED BY <1>1, <1>2, KeptStep, PTL DEF PipelineSpec

-----------------------------------------------------------------------------
(* A preemption holds. *)

\* While a help request that has preempted the strategy work is running, no
\* ordinary pipeline past the gate has the room.
Preempting(h) == stage[h] = "preempted" /\ help[h] = "RUNNING"
ClearInv ==
  /\ RoomInv
  /\ \A h \in Helps, p \in Pipes \ HelpTriggered :
       Preempting(h) /\ pc[p] \in Gated => ~Holds(p)

LEMMA PreemptingStarts ==
  ASSUME PipelineInv, Outside, NEW h \in Helps, Preempting(h)'
  PROVE  Preempting(h) \/ HelpPreempt(h)
<1>0. /\ stage \in [Helps -> {"idle", "open", "messaged", "queued", "claimed", "preempted", "dead"}]
      /\ help \in [Helps -> {"NONE", "QUEUED", "RUNNING", "COMPLETED", "FAILED"}]
  BY DEF PipelineInv, WorkInv, WorkTypes, LeaseTypeOK
<1>. USE DEF Preempting
<1>1. ASSUME UNCHANGED <<stage, help>> PROVE Preempting(h) BY <1>1
<1>2. ASSUME UNCHANGED leaseVars, NEW g \in Helps, NEW from,
             NEW to \in {"open", "messaged", "dead"}, Stage(g, from, to)
      PROVE  Preempting(h)
  BY <1>0, <1>2 DEF leaseVars, Stage
<1>3. ASSUME NEW g \in Helps, HelpSee(g) \/ HelpPost(g) \/ HelpDies(g) PROVE Preempting(h)
  BY <1>2, <1>3 DEF HelpSee, HelpPost, HelpDies
<1>4. ASSUME NEW g \in Helps, HelpQueue(g) PROVE Preempting(h)
  BY <1>0, <1>4 DEF HelpQueue, HelpAsk, Stage
<1>5. ASSUME NEW g \in Helps, HelpStart(g) PROVE Preempting(h)
  BY <1>0, <1>5 DEF HelpStart, HelpClaim, Stage
<1>6. ASSUME NEW g \in Helps, HelpPreempt(g) PROVE Preempting(h) \/ HelpPreempt(h)
  BY <1>0, <1>6 DEF HelpPreempt, Preempt, EndActive, Stage
<1>7. ASSUME NEW g \in Helps, HelpLease(g) PROVE Preempting(h)
  <2>1. stage' = stage BY <1>7 DEF HelpLease, otherVars
  <2>2. help'[h] = "RUNNING" => help[h] = "RUNNING"
    BY <1>0, <1>7 DEF HelpLease, ReadVersion, Acquire, HelpFail, Release
  <2> QED BY <2>1, <2>2
<1>7a. ASSUME NEW g \in Helps, HelpUnwinds(g) PROVE Preempting(h)
  <2>1. stage' = stage BY <1>7a DEF HelpUnwinds, otherVars
  <2>2. help'[h] = "RUNNING" => help[h] = "RUNNING"
    BY <1>0, <1>7a DEF HelpUnwinds, GiveUp, HelpRaises, HandlerFrees, HandlerRecords
  <2> QED BY <2>1, <2>2
<1>8. ASSUME NEW g \in Helps, HelpAnswer(g) PROVE Preempting(h)
  BY <1>0, <1>8 DEF HelpAnswer, HelpPublish, otherVars
<1>9. CASE SeeRoom \/ Post \/ CoolDown
  BY <1>1, <1>9 DEF SeeRoom, Post, CoolDown, otherVars, leaseVars
<1>10. CASE Close \/ CancelRuns
  BY <1>1, <1>10 DEF Close, CancelRuns, Switch, CancelActive, EndActive
<1>11. CASE Clock
  <2>1. stage' = stage BY <1>11 DEF Clock, otherVars
  <2>2. help'[h] = "RUNNING" => help[h] = "RUNNING" BY <1>11 DEF Clock, Tick, Expire
  <2> QED BY <2>1, <2>2
<1> QED BY <1>3, <1>4, <1>5, <1>6, <1>7, <1>7a, <1>8, <1>9, <1>10, <1>11 DEF Outside

LEMMA ClearStep ==
  ASSUME ClearInv, Rows \subseteq WrittenRows, [PipelineNext]_pipelineVars PROVE ClearInv'
<1>0. RoomInv /\ TokenInv /\ PipelineInv /\ LeaseTypeOK /\ \A p \in Pipes : Fits(p)
  BY DEF ClearInv, RoomInv, AuditInv, PipelineInv
<1>1. RoomInv' BY <1>0, AuditStep
<1> SUFFICES ASSUME NEW h \in Helps, NEW p \in Pipes \ HelpTriggered, Preempting(h)', pc'[p] \in Gated
             PROVE  ~Holds(p)'
  BY <1>1 DEF ClearInv
<1>2. ASSUME Preempting(h), Still(p) PROVE ~Holds(p)'
  BY <1>2 DEF ClearInv, Still, Rests, Untouched
<1>3. ASSUME NEW q \in Pipes, OwnStep(q) PROVE ~Holds(p)'
  <2>1. Preempting(h) BY <1>3 DEF OwnStep, Preempting
  <2>2. CASE p = q
    <3>1. HelpActive(p) BY <2>1 DEF HelpActive, Preempting
    <3> QED BY <1>3, <2>1, <2>2, <3>1 DEF OwnStep, ClearInv
  <2>3. CASE p # q BY <1>2, <1>3, <2>1, <2>3 DEF OwnStep
  <2> QED BY <2>2, <2>3
<1>4. ASSUME Outside, Still(p) PROVE ~Holds(p)'
  <2>1. CASE Preempting(h) BY <1>2, <1>4, <2>1
  <2>2. CASE HelpPreempt(h)
    <3>1. EndActive(Pipes \ HelpTriggered, "SUPERSEDED") BY <2>2 DEF HelpPreempt, Preempt
    <3>2. row[p].final \in Active /\ ~row[p].published => ~Holds(p)'
      BY <1>0, <3>1, EndActiveEffect
    <3>3. Holds(p) => row[p].final \in Active /\ ~row[p].published BY <1>0 DEF Fits, Active
    <3> QED BY <1>4, <3>2, <3>3 DEF Still, Untouched
  <2> QED BY <1>0, <1>4, <2>1, <2>2, PreemptingStarts
<1>5. ASSUME UNCHANGED pipelineVars, Still(p) PROVE ~Holds(p)'
  BY <1>2, <1>5 DEF pipelineVars, leaseVars, otherVars, Preempting
<1> QED BY <1>0, <1>3, <1>4, <1>5, Steps

\* preempt_for_student_help() ends the strategy work that has the room, the gate
\* lets none pass that comes later: until the help request is over no ordinary
\* pipeline gets its message out.
THEOREM PreemptionKept ==
  ASSUME Rows \subseteq WrittenRows PROVE PipelineSpec => PreemptionHolds
<1>1. PipelineInit => ClearInv
  <2> SUFFICES ASSUME PipelineInit PROVE ClearInv OBVIOUS
  <2>1. \A h \in Helps : stage[h] = "idle" BY DEF PipelineInit
  <2> QED BY <2>1, AuditInit DEF ClearInv, Preempting
<1>2. ClearInv /\ [PipelineNext]_pipelineVars =>
        [\A p \in Pipes \ HelpTriggered : Said(p)' /\ ~Said(p) =>
           \A h \in Helps : ~(stage[h] = "preempted" /\ help[h] = "RUNNING")]_pipelineVars
  <2> SUFFICES ASSUME ClearInv, [PipelineNext]_pipelineVars,
                      NEW p \in Pipes \ HelpTriggered, Said(p)', ~Said(p), NEW h \in Helps
               PROVE  ~(stage[h] = "preempted" /\ help[h] = "RUNNING")
    OBVIOUS
  <2>1. TokenInv /\ PipelineInv /\ \A q \in Pipes : Fits(q) BY DEF ClearInv, RoomInv, AuditInv
  <2>2. PICK q \in Pipes : OwnStep(q) BY <2>1, Steps DEF Still, Rests
  <2>3. p = q BY <2>2 DEF OwnStep, Still, Rests
  <2>4. pc[p] \in Gated /\ Holds(p) BY <2>2, <2>3 DEF OwnStep
  <2> QED BY <2>4 DEF ClearInv, Preempting
<1> QED BY <1>1, <1>2, ClearStep, PTL DEF PipelineSpec, PreemptionHolds
-----------------------------------------------------------------------------
(* Students speak between two strategy messages. *)

\* A pipeline at work answers a student message of its own, sent before its
\* answer, and answers once.
AnswersOwn ==
  /\ \A p \in Pipes : pc[p] # "idle" => cutoff[p] \in DOMAIN talk /\ talk[cutoff[p]] = Student
  /\ \A p, q \in Pipes : pc[p] # "idle" /\ pc[q] # "idle" /\ p # q => cutoff[p] # cutoff[q]
  /\ \A p \in Pipes, i \in DOMAIN talk : talk[i] = p => cutoff[p] < i
  /\ \A i, j \in DOMAIN talk : talk[i] \in Pipes /\ talk[i] = talk[j] => i = j
AnswerInv == RoomInv /\ FreshInv /\ AnswersOwn

\* Cutoffs are set by a request only, strategy messages are sent by Publish only.
Speech == talk' = talk \/ (\E a \in {Student} \cup {-h : h \in Helps} : talk' = Append(talk, a))
Stays == cutoff' = cutoff /\ \A p \in Pipes : pc[p] = "idle" => pc'[p] = "idle"

LEMMA SpeechKinds ==
  ASSUME PipelineInv, [PipelineNext]_pipelineVars
  PROVE  \/ \E p \in Pipes : Request(p)
         \/ Stays /\ (Speech \/ \E p \in Pipes : Publish(p))
<1>0. pc \in [Pipes -> Working \cup {"idle", "queued", "done", "dead"}]
  BY DEF PipelineInv, WorkInv, WorkTypes
<1>. USE DEF workVars, roomVars, otherVars
<1>1. ASSUME NEW p \in Pipes, NEW from \in Places, NEW to, Go(p, from, to) PROVE Stays /\ Speech
  BY <1>0, <1>1 DEF Go, Stays, Speech, Places, Working
<1>2. ASSUME NEW p \in Pipes, NEW from \in Working, NEW to, NEW v, Decide(p, from, to, v)
      PROVE  Stays /\ Speech
  BY <1>0, <1>2 DEF Decide, Stays, Speech, Working
<1>3. ASSUME NEW p \in Pipes, Reopen(p) \/ Work(p) \/ Heartbeat(p) \/ Crash(p)
      PROVE  Stays /\ (Speech \/ Publish(p))
  <2>1. CASE ClaimBatch(p) BY <1>0, <2>1 DEF ClaimBatch, Stays, Speech
  <2>2. CASE Publish(p) BY <1>0, <2>2 DEF Publish, Stays
  <2>3. CASE Gate(p)
    <3>1. PICK from \in Working : \E to, v : Decide(p, from, to, v) BY <2>3 DEF Gate, Working
    <3>2. PICK to, v : Decide(p, from, to, v) BY <3>1
    <3> QED BY <1>2, <3>2
  <2>4. CASE Heartbeat(p) BY <2>4 DEF Heartbeat, Stays, Speech
  <2>5. CASE Reopen(p) \/ Prepare(p) \/ Retry(p) \/ PrepareRetry(p) \/ Exhaust(p) \/ LoseBatch(p)
    BY <1>1, <2>5 DEF Reopen, Prepare, Retry, PrepareRetry, Exhaust, LoseBatch, Places, Working
  <2>6. CASE Lease2(p) \/ LeaseMiss(p) \/ Start(p) \/ Assessed(p) \/ FailStage2(p) \/ Save(p) \/ Persist(p)
    BY <1>1, <2>6 DEF Lease2, LeaseMiss, Start, Assessed, FailStage2, Save, Persist, Places, Working
  <2>7. CASE Preflight(p) \/ Lease3(p) \/ Generate(p) \/ Generated(p) \/ Draft(p)
    BY <1>1, <1>2, <2>7 DEF Preflight, Lease3, Generate, Generated, Draft, Places, Working
  <2>8. CASE Confirm(p) \/ Refused(p) \/ DbLocked(p) \/ Mark(p) \/ Finish(p) \/ Judge(p)
    BY <1>1, <1>2, <2>8 DEF Confirm, Refused, DbLocked, Mark, Finish, Judge, Places, Working
  <2>9. CASE Crash(p) BY <1>1, <2>9 DEF Crash, Places
  <2> QED BY <1>3, <2>1, <2>2, <2>3, <2>4, <2>5, <2>6, <2>7, <2>8, <2>9 DEF Work
<1>4. ASSUME Outside PROVE Stays /\ Speech
  <2>1. UNCHANGED <<pc, cutoff>>
    BY <1>4 DEF Outside, HelpSee, HelpPost, HelpQueue, HelpStart, HelpPreempt, HelpLease, HelpUnwinds,
                HelpAnswer, HelpDies, Stage, SeeRoom, Post, Close, CancelRuns, Clock, CoolDown
  <2>2. Speech
    BY <1>4 DEF Outside, HelpSee, HelpPost, HelpQueue, HelpStart, HelpPreempt, HelpLease, HelpUnwinds,
                HelpAnswer, HelpDies, SeeRoom, Post, Close, CancelRuns, Clock, CoolDown, Speech
  <2> QED BY <2>1, <2>2 DEF Stays
<1>5. ASSUME UNCHANGED pipelineVars PROVE Stays /\ Speech BY <1>5 DEF pipelineVars, Stays, Speech
<1> QED BY <1>3, <1>4, <1>5 DEF PipelineNext, Outside

LEMMA AnswersOwnStep ==
  ASSUME AnswerInv, [PipelineNext]_pipelineVars PROVE AnswersOwn'
<1>0. PipelineInv /\ AnswersOwn /\ NeverIdleAgain /\ \A p \in Pipes : Fits(p)
  BY TalkKinds DEF AnswerInv, RoomInv, AuditInv
<1>1. /\ talk \in Seq({Student} \cup Pipes \cup {-h : h \in Helps})
      /\ cutoff \in [Pipes -> Nat]
      /\ pc \in [Pipes -> Working \cup {"idle", "queued", "done", "dead"}]
  BY <1>0 DEF PipelineInv, WorkInv, WorkTypes
<1>2. DOMAIN talk = 1 .. Len(talk) /\ Len(talk) \in Nat BY <1>1
<1>3. \A p \in Pipes : Said(p) => pc[p] \in {"sent", "done", "dead"} BY <1>0 DEF Fits
<1>4. ASSUME NEW p \in Pipes, Request(p) PROVE AnswersOwn'
  <2>1. PICK c \in DOMAIN talk : /\ talk[c] = Student /\ \A q \in Pipes : cutoff[q] # c
                                 /\ cutoff' = [cutoff EXCEPT ![p] = c]
    BY <1>4 DEF Request
  <2>2. pc[p] = "idle" /\ pc' = [pc EXCEPT ![p] = "queued"] /\ talk' = talk
    BY <1>4 DEF Request, roomVars
  <2>3. /\ cutoff'[p] = c
        /\ \A q \in Pipes \ {p} : cutoff'[q] = cutoff[q] /\ pc'[q] = pc[q]
    BY <1>1, <2>1, <2>2
  <2>4. \A q \in Pipes : pc'[q] # "idle" => cutoff'[q] \in DOMAIN talk' /\ talk'[cutoff'[q]] = Student
    BY <1>0, <2>1, <2>2, <2>3 DEF AnswersOwn
  <2>5. \A q, r \in Pipes : pc'[q] # "idle" /\ pc'[r] # "idle" /\ q # r => cutoff'[q] # cutoff'[r]
    BY <1>0, <2>1, <2>3 DEF AnswersOwn
  <2>6. \A q \in Pipes, i \in DOMAIN talk' : talk'[i] = q => cutoff'[q] < i
    BY <1>0, <1>3, <2>2, <2>3 DEF AnswersOwn, Said
  <2>7. \A i, j \in DOMAIN talk' : talk'[i] \in Pipes /\ talk'[i] = talk'[j] => i = j
    BY <1>0, <2>2 DEF AnswersOwn
  <2> QED BY <2>4, <2>5, <2>6, <2>7 DEF AnswersOwn
<1>5. ASSUME Stays, talk' = talk PROVE AnswersOwn'
  BY <1>0, <1>5 DEF Stays, AnswersOwn
<1>6. ASSUME Stays, NEW a, talk' = Append(talk, a),
             a \in Pipes => pc[a] # "idle" /\ ~Said(a)
      PROVE  AnswersOwn'
  <2>1. /\ DOMAIN talk' = 1 .. Len(talk) + 1 /\ talk'[Len(talk) + 1] = a
        /\ \A i \in 1 .. Len(talk) : talk'[i] = talk[i]
    BY <1>1, <1>2, <1>6
  <2>2. \A q \in Pipes : pc'[q] # "idle" => cutoff'[q] \in DOMAIN talk' /\ talk'[cutoff'[q]] = Student
    BY <1>0, <1>2, <1>6, <2>1 DEF Stays, AnswersOwn
  <2>3. \A q, r \in Pipes : pc'[q] # "idle" /\ pc'[r] # "idle" /\ q # r => cutoff'[q] # cutoff'[r]
    BY <1>0, <1>6 DEF Stays, AnswersOwn
  <2>4. ASSUME NEW q \in Pipes, NEW i \in DOMAIN talk', talk'[i] = q PROVE cutoff'[q] < i
    <3>1. CASE i = Len(talk) + 1
      <4>1. cutoff[q] \in 1 .. Len(talk) BY <1>0, <1>2, <1>6, <2>1, <2>4, <3>1 DEF AnswersOwn
      <4> QED BY <1>2, <1>6, <3>1, <4>1 DEF Stays
    <3>2. CASE i # Len(talk) + 1
      <4>1. i \in 1 .. Len(talk) BY <1>2, <2>1, <3>2
      <4> QED BY <1>0, <1>2, <1>6, <2>1, <2>4, <4>1 DEF Stays, AnswersOwn
    <3> QED BY <3>1, <3>2
  <2>5. ASSUME NEW i \in DOMAIN talk', NEW j \in DOMAIN talk', talk'[i] \in Pipes, talk'[i] = talk'[j]
        PROVE  i = j
    <3>1. \A k \in 1 .. Len(talk) : talk[k] = a => a \notin Pipes BY <1>2, <1>6 DEF Said
    <3>2. CASE i \in 1 .. Len(talk) /\ j \in 1 .. Len(talk)
      BY <1>0, <1>2, <2>1, <2>5, <3>2 DEF AnswersOwn
    <3>3. i \in 1 .. Len(talk) \/ i = Len(talk) + 1 BY <1>2, <2>1
    <3>4. j \in 1 .. Len(talk) \/ j = Len(talk) + 1 BY <1>2, <2>1
    <3> QED BY <2>1, <2>5, <3>1, <3>2, <3>3, <3>4
  <2> QED BY <2>2, <2>3, <2>4, <2>5 DEF AnswersOwn
<1>7. ASSUME Stays, Speech PROVE AnswersOwn'
  <2>1. ASSUME NEW a \in {Student} \cup {-h : h \in Helps}, talk' = Append(talk, a) PROVE AnswersOwn'
    <3>1. a \notin Pipes BY IdsAssumption, AskersAreInt DEF Student
    <3> QED BY <1>6, <1>7, <2>1, <3>1
  <2> QED BY <1>5, <1>7, <2>1 DEF Speech
<1>8. ASSUME Stays, NEW p \in Pipes, Publish(p) PROVE AnswersOwn'
  <2>1. pc[p] \in {"sending", "resending"} /\ talk' = Append(talk, p) BY <1>8 DEF Publish
  <2> QED BY <1>3, <1>6, <1>8, <2>1
<1> QED BY <1>0, <1>4, <1>7, <1>8, SpeechKinds

LEMMA AnswersBetween == AnswerInv => StudentsAnswer
<1> SUFFICES ASSUME AnswerInv, NEW i \in DOMAIN talk, NEW j \in DOMAIN talk, i < j,
                    talk[i] \in Pipes, talk[j] \in Pipes
             PROVE  \E k \in i .. j : talk[k] = Student
  BY DEF StudentsAnswer
<1>0. PipelineInv /\ AnswersOwn /\ FreshAnswer /\ \A p \in Pipes : Said(p) => pc[p] # "idle"
  BY DEF AnswerInv, RoomInv, FreshInv
<1>1. /\ talk \in Seq({Student} \cup Pipes \cup {-h : h \in Helps})
      /\ cutoff \in [Pipes -> Nat]
  BY <1>0 DEF PipelineInv, WorkInv, WorkTypes
<1>2. DOMAIN talk = 1 .. Len(talk) /\ Len(talk) \in Nat BY <1>1
<1>3. PICK p \in Pipes, q \in Pipes : talk[i] = p /\ talk[j] = q /\ p # q
  BY <1>0, <1>2 DEF AnswersOwn
<1>4. pc[p] # "idle" /\ pc[q] # "idle" BY <1>0, <1>3 DEF Said
<1>5. /\ cutoff[p] \in 1 .. Len(talk) /\ talk[cutoff[p]] = Student /\ cutoff[p] < i
      /\ cutoff[q] \in 1 .. Len(talk) /\ talk[cutoff[q]] = Student /\ cutoff[q] < j
      /\ cutoff[p] # cutoff[q]
  BY <1>0, <1>2, <1>3, <1>4 DEF AnswersOwn
<1>6. i \in 1 .. Len(talk) /\ j \in 1 .. Len(talk) BY <1>2
<1>7. ~(cutoff[q] \in cutoff[p] + 1 .. i - 1) BY <1>0, <1>3, <1>5 DEF FreshAnswer
<1>8. ~(cutoff[p] \in cutoff[q] + 1 .. j - 1) BY <1>0, <1>3, <1>5 DEF FreshAnswer
<1>9. cutoff[q] \in i .. j BY <1>2, <1>5, <1>6, <1>7, <1>8
<1> QED BY <1>5, <1>9

\* Two batches never share a cutoff and no message is older than its cutoff, so
\* two strategy messages of one discussion always have a student message between
\* them, even while the first one has not been marked PUBLISHED and the cooldown
\* does not see it.
THEOREM StudentsSpeakBetween ==
  ASSUME Rows \subseteq WrittenRows PROVE PipelineSpec => []StudentsAnswer
<1>1. PipelineInit => AnswerInv
  <2> SUFFICES ASSUME PipelineInit PROVE AnswerInv OBVIOUS
  <2>1. talk = <<>> /\ \A p \in Pipes : pc[p] = "idle" BY DEF PipelineInit
  <2>2. AnswersOwn /\ FreshInv BY <2>1 DEF AnswersOwn, FreshInv, FreshAnswer, Said
  <2> QED BY <2>2, AuditInit DEF AnswerInv
<1>2. AnswerInv /\ [PipelineNext]_pipelineVars => AnswerInv'
  <2> SUFFICES ASSUME AnswerInv, [PipelineNext]_pipelineVars PROVE AnswerInv' OBVIOUS
  <2>1. RoomInv' BY AuditStep DEF AnswerInv
  <2>2. FreshInv' BY FreshStep DEF AnswerInv, RoomInv
  <2> QED BY <2>1, <2>2, AnswersOwnStep DEF AnswerInv
<1> QED BY <1>1, <1>2, AnswersBetween, PTL DEF PipelineSpec
=============================================================================
