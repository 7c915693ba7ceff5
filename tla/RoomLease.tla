----------------------------- MODULE RoomLease -----------------------------
(***************************************************************************)
(* The lease of one room, services/intervention_pipeline_v2/               *)
(* room_lease_service.py.  A room is a row of table groups; whoever owns   *)
(* its lease may publish an agent message there.  Three kinds of           *)
(* principals compete: strategy pipelines (rows of strategy_pipeline_runs),*)
(* student help requests and legacy intervention runs.  The column         *)
(* active_intervention_run_id names the owner: a run by its id, a pipeline *)
(* AND a help request by the negated id.                                   *)
(*                                                                         *)
(* Time is relative: room.ttl is lock_expires_at minus now, lease[p].age   *)
(* is now minus room_lock_acquired_at, both in whole seconds.  A uuid is   *)
(* the next unused number.                                                 *)
(***************************************************************************)
EXTENDS Integers

CONSTANTS Pipes,         \* ids of strategy_pipeline_runs
          Helps,         \* ids of help_requests
          Runs,          \* ids of legacy intervention_runs
          HelpTriggered, \* pipelines whose trigger was itself a help request
          LegacyOwners,  \* pipelines that may hold a lease from an older release
          Covers,        \* <<p, q>>: the window of p contains the cutoff of q
          WrittenRows,   \* what the other writers of a pipeline row leave in it
          LockSeconds,   \* INTERVENTION_V2_LOCK_SECONDS
          InitialTtl,    \* THREE_STAGE_LOCK_INITIAL_TTL_SECONDS
          MaxTotal,      \* THREE_STAGE_LOCK_MAX_TOTAL_SECONDS
          MaxTokens      \* bound of the model: leases granted

NoToken == 0
NoOwner == 0
NoAge == -1
NotRead == -1

Tokens == 1 .. MaxTokens
Askers == {-h : h \in Helps} \cup Runs   \* owners that go through acquire()

Terminal == {"PUBLISHED", "SUPPRESSED", "STALE", "FAILED", "CANCELLED", "SUPERSEDED"}
Active == {"PENDING", "ASSESSING", "WAITING_FOR_LOCK", "LOCKED", "PENDING_STAGE2",
           "PENDING_STAGE3", "GENERATING", "VALIDATING", "PENDING_DECISION_GATE",
           "READY_TO_PUBLISH"}

Rows == [batch : {"none", "pending", "running", "succeeded", "failed", "over"}, coarse : BOOLEAN,
         stage2 : {"PENDING", "RUNNING", "SUCCEEDED", "FAILED"}, intervene : BOOLEAN,
         final : Terminal \cup Active, published : BOOLEAN]

ASSUME IdsAssumption ==
  /\ Pipes \subseteq Nat \ {0} /\ Helps \subseteq Nat \ {0} /\ Runs \subseteq Nat \ {0}
  /\ LegacyOwners \subseteq Pipes /\ HelpTriggered \subseteq Pipes
  /\ WrittenRows \subseteq Rows
ASSUME SecondsAssumption ==
  /\ LockSeconds \in Nat \ {0} /\ InitialTtl \in Nat \ {0} /\ MaxTokens \in Nat
  /\ MaxTotal \in Nat /\ InitialTtl <= MaxTotal /\ LockSeconds <= MaxTotal

VARIABLES room,     \* the lease columns of the groups row
          row,      \* per pipeline, its lifecycle columns
          lease,    \* per pipeline, room_lock_token and the age of room_lock_acquired_at
          help,     \* per help request, its status (NONE: not asked yet)
          run,      \* per legacy run, whether it is active
          seen,     \* per asker inside acquire(), the version it has read
          held,     \* per asker, the token its worker keeps in a local variable
          handler,  \* per help request, where the exception handler of its worker is
          enabled,  \* discussion and session running, every agent switch on
          issued    \* tokens handed out so far

leaseVars == <<room, row, lease, help, run, seen, held, handler, enabled, issued>>

Min2(a, b) == IF a <= b THEN a ELSE b

Open(r) == [state |-> "OPEN", version |-> r.version + 1, token |-> NoToken,
            ttl |-> 0, owner |-> NoOwner]
\* Mutants of Locked: a COALESCE keeps the old owner; the version is forgotten.
LockedKeepsOwner(r, t, seconds, o) ==
  [state |-> "AI_INTERVENING", version |-> r.version + 1, token |-> t, ttl |-> seconds,
   owner |-> IF r.owner # NoOwner THEN r.owner ELSE o]

Locked(r, t, seconds, o) == [state |-> "AI_INTERVENING", version |-> r.version + 1,
                             token |-> t, ttl |-> seconds, owner |-> o]

\* The room is leased to pipeline p under the token its own row carries.
Owns(p) == /\ room.state = "AI_INTERVENING"
           /\ room.token = lease[p].token
           /\ room.owner = -p

Rooms == [state : {"OPEN", "AI_INTERVENING"}, version : Nat, token : {NoToken} \cup Tokens,
          ttl : 0 .. MaxTotal, owner : Int]
Leases == [token : {NoToken} \cup Tokens, age : {NoAge} \cup 0 .. MaxTotal]

LeaseTypeOK ==
  /\ room \in Rooms
  /\ row \in [Pipes -> Rows]
  /\ lease \in [Pipes -> Leases]
  /\ help \in [Helps -> {"NONE", "QUEUED", "RUNNING", "COMPLETED", "FAILED"}]
  /\ run \in [Runs -> {"ACTIVE", "EXPIRED", "DONE"}]
  /\ seen \in [Askers -> {NotRead} \cup Nat]
  /\ held \in [Askers -> {NoToken} \cup Tokens]
  /\ handler \in [Helps -> {"no", "free", "record", "over"}]
  /\ enabled \in BOOLEAN
  /\ issued \in 0 .. MaxTokens

FreshRoom == [state |-> "OPEN", version |-> 0, token |-> NoToken, ttl |-> 0, owner |-> NoOwner]
NoLease == [token |-> NoToken, age |-> NoAge]

LeaseInit ==
  /\ row \in [Pipes -> WrittenRows]
  /\ help = [h \in Helps |-> "NONE"]
  /\ run = [r \in Runs |-> "ACTIVE"]
  /\ seen = [o \in Askers |-> NotRead]
  /\ held = [o \in Askers |-> NoToken]
  /\ handler = [h \in Helps |-> "no"]
  /\ enabled = TRUE
  /\ \/ /\ room = FreshRoom /\ issued = 0
        /\ lease = [p \in Pipes |-> NoLease]
     \/ \E l \in LegacyOwners :        \* a preliminary lease of an older release
          /\ MaxTokens > 0
          /\ row[l].batch = "none" /\ row[l].final \in Active
          /\ room = Locked(FreshRoom, 1, InitialTtl, -l) /\ issued = 1
          /\ lease = [p \in Pipes |-> IF p = l THEN [token |-> 1, age |-> 0] ELSE NoLease]

-----------------------------------------------------------------------------
(* acquire(): the version is read in one statement and compared in another. *)

ReadVersion(o) ==
  /\ room.state = "OPEN" /\ seen[o] = NotRead /\ held[o] = NoToken
  /\ \/ \E h \in Helps : o = -h /\ help[h] = "RUNNING" /\ handler[h] = "no"
     \/ \E r \in Runs : o = r /\ run[r] = "ACTIVE"
  /\ seen' = [seen EXCEPT ![o] = room.version]
  /\ UNCHANGED <<room, row, lease, help, run, held, handler, enabled, issued>>

Acquire(o) ==
  /\ seen[o] # NotRead
  /\ room.state = "OPEN" /\ room.version = seen[o]
  /\ issued < MaxTokens
  /\ room' = Locked(room, issued + 1, LockSeconds, o)
  /\ held' = [held EXCEPT ![o] = issued + 1]
  /\ issued' = issued + 1
  /\ seen' = [seen EXCEPT ![o] = NotRead]
  /\ UNCHANGED <<row, lease, help, run, handler, enabled>>

\* A caller that finds the room taken, or loses the conditional UPDATE, gives
\* up: a legacy run is SKIPPED, a help request is marked FAILED.  The help worker
\* also gives up on any exception of _acquire_help_room_lock(), in an open room too.
GiveUp(o) ==
  /\ held[o] = NoToken
  /\ \/ \E h \in Helps : /\ o = -h /\ help[h] = "RUNNING" /\ handler[h] = "no"
                         /\ help' = [help EXCEPT ![h] = "FAILED"] /\ UNCHANGED run
     \/ /\ room.state # "OPEN" \/ (seen[o] # NotRead /\ room.version # seen[o])
        /\ \E r \in Runs : /\ o = r /\ run[r] = "ACTIVE"
                           /\ run' = [run EXCEPT ![r] = "DONE"] /\ UNCHANGED help
  /\ seen' = [seen EXCEPT ![o] = NotRead]
  /\ UNCHANGED <<room, row, lease, held, handler, enabled, issued>>

\* release(): frees the room only under the very token of its current lease;
\* the caller drops its token whatever the outcome.  A help worker whose write
\* phase failed may raise its exception again after that.
Release(o) ==
  /\ held[o] # NoToken
  /\ \A h \in Helps : o = -h => help[h] # "RUNNING"
  /\ \A r \in Runs : o = r => run[r] # "ACTIVE"
  /\ room' = IF room.state = "AI_INTERVENING" /\ room.token = held[o] THEN Open(room) ELSE room
  /\ held' = [held EXCEPT ![o] = NoToken]
  /\ \/ UNCHANGED handler
     \/ \E h \in Helps : /\ o = -h /\ help[h] = "FAILED"
                         /\ handler' = [handler EXCEPT ![h] = "free"]
  /\ UNCHANGED <<row, lease, help, run, seen, enabled, issued>>

-----------------------------------------------------------------------------
(* claim_strategy_pipeline() and renew_strategy_pipeline(). *)

Stage2Ready(r) == r.stage2 = "SUCCEEDED" /\ r.intervene

\* The checks before BEGIN IMMEDIATE touches the room, and
\* _authoritative_pipeline_guard().
Claimable(r) ==
  /\ enabled /\ ~r.published
  /\ r.final \notin Terminal
  /\ \/ /\ Stage2Ready(r)
        /\ r.final \in {"PENDING_STAGE3", "LOCKED", "GENERATING", "VALIDATING",
                        "PENDING_DECISION_GATE", "READY_TO_PUBLISH"}
        /\ r.batch \in {"none", "running", "succeeded"}
     \/ /\ r.coarse /\ ~Stage2Ready(r) /\ r.stage2 = "PENDING"
        /\ r.final \in {"PENDING_STAGE2", "WAITING_FOR_LOCK", "LOCKED"}
        /\ r.batch = "running"

\* A claim moves the row to LOCKED unless Stage 2 has already succeeded.
Claimed(r) == IF r.stage2 = "SUCCEEDED" THEN r ELSE [r EXCEPT !.final = "LOCKED"]

\* The room is free: a fresh lease.
ClaimOpen(p) ==
  /\ Claimable(row[p]) /\ room.state = "OPEN" /\ issued < MaxTokens
  /\ room' = Locked(room, issued + 1, InitialTtl, -p)
  /\ issued' = issued + 1
  /\ lease' = [lease EXCEPT ![p] = [token |-> issued + 1, age |-> 0]]
  /\ row' = [row EXCEPT ![p] = Claimed(@)]
  /\ UNCHANGED <<help, run, seen, held, handler, enabled>>

\* The deadline a renewal sets: never past MaxTotal.
RenewTtlUncapped(age) == InitialTtl            \* mutant
RenewTtlAdded(age) == room.ttl + InitialTtl    \* mutant: extends the old deadline
RenewTtl(age) == Min2(InitialTtl, MaxTotal - age)

\* The room carries the pipeline's own owner number, but not the token of its
\* row (with that token the call turns into a renewal before this point).
\* Nothing here tells -p, the pipeline, from -p, a help request.
ClaimOwned(p) ==
  LET age == IF lease[p].age = NoAge THEN 0 ELSE lease[p].age IN
  /\ Claimable(row[p])
  /\ room.state = "AI_INTERVENING" /\ room.owner = -p /\ room.token # lease[p].token
  /\ MaxTotal - age >= 1 /\ room.ttl > 0
  /\ room' = [room EXCEPT !.version = @ + 1, !.ttl = RenewTtl(age)]
  /\ lease' = [lease EXCEPT ![p] = [token |-> room.token, age |-> age]]
  /\ row' = [row EXCEPT ![p] = Claimed(@)]
  /\ UNCHANGED <<help, run, seen, held, handler, enabled, issued>>

\* _can_transfer_stage1_pipeline_lease(): q is the row whose id is the negated
\* owner number.
CanTransferAny(q, p) ==                        \* mutant: an assessed pipeline gives way too
  /\ ~row[q].published
  /\ row[q].stage2 # "SUCCEEDED" /\ row[q].final \in Active
  /\ <<p, q>> \in Covers
CanTransfer(q, p) ==
  /\ row[q].batch = "none" /\ ~row[q].published
  /\ row[q].stage2 # "SUCCEEDED" /\ row[q].final \in Active
  /\ <<p, q>> \in Covers

ClaimTransfer(p) ==
  /\ Claimable(row[p]) /\ room.state = "AI_INTERVENING" /\ issued < MaxTokens
  /\ \E q \in Pipes \ {p} : room.owner = -q /\ CanTransfer(q, p)
  /\ room' = Locked(room, issued + 1, InitialTtl, -p)
  /\ issued' = issued + 1
  /\ lease' = [lease EXCEPT ![p] = [token |-> issued + 1, age |-> 0]]
  /\ row' = [q \in Pipes |->
       IF q = p THEN Claimed(row[p])
       ELSE IF /\ <<p, q>> \in Covers /\ row[q].stage2 # "SUCCEEDED"
               /\ ~row[q].published /\ row[q].final \in Active
            THEN [row[q] EXCEPT !.final = "SUPERSEDED"] ELSE row[q]]
  /\ UNCHANGED <<help, run, seen, held, handler, enabled>>

\* renew_strategy_pipeline() lets the pipeline keep the room.
RenewableExpired(p) ==                         \* mutant: the deadline is not looked at
  /\ row[p].final \in Active /\ ~row[p].published
  /\ lease[p].token # NoToken /\ Owns(p)
  /\ MaxTotal - lease[p].age >= 1
  /\ enabled
Renewable(p) == RenewableExpired(p) /\ room.ttl > 0

\* A heartbeat, a pulse, the gate, or a claim of a pipeline that still owns the
\* room.  (A renewal that leaves the deadline alone would only bump the version.)
Renew(p) ==
  /\ Renewable(p) /\ RenewTtl(lease[p].age) # room.ttl
  /\ room' = [room EXCEPT !.version = @ + 1, !.ttl = RenewTtl(lease[p].age)]
  /\ UNCHANGED <<row, lease, help, run, seen, held, handler, enabled, issued>>

-----------------------------------------------------------------------------
(* Recovery and time. *)

\* _expire_locked_room(): called by release_expired() with the token a delayed
\* task remembers and by recover_expired() with none, so for any expired lease;
\* the owner is terminalized in the same transaction.
ExpireLeavesHelp ==                            \* mutant: only pipelines and runs are ended
  /\ room.state = "AI_INTERVENING" /\ room.ttl <= 0
  /\ room' = Open(room)
  /\ row' = [p \in Pipes |-> IF Owns(p) /\ row[p].final \notin Terminal
                             THEN [row[p] EXCEPT !.final = "FAILED"] ELSE row[p]]
  /\ run' = [r \in Runs |-> IF room.owner = r /\ run[r] = "ACTIVE" THEN "EXPIRED" ELSE run[r]]
  /\ UNCHANGED <<lease, help, seen, held, handler, enabled, issued>>
ExpireRunsOnly ==                              \* mutant: as before pipelines took leases
  /\ room.state = "AI_INTERVENING" /\ room.ttl <= 0 /\ room.owner > 0
  /\ room' = Open(room)
  /\ run' = [r \in Runs |-> IF room.owner = r /\ run[r] = "ACTIVE" THEN "EXPIRED" ELSE run[r]]
  /\ UNCHANGED <<row, lease, help, seen, held, handler, enabled, issued>>
Expire ==
  /\ room.state = "AI_INTERVENING" /\ room.ttl <= 0
  /\ room' = Open(room)
  /\ LET owned == {p \in Pipes : Owns(p)} IN
     /\ row' = [p \in Pipes |-> IF p \in owned /\ row[p].final \notin Terminal
                                THEN [row[p] EXCEPT !.final = "FAILED"] ELSE row[p]]
     /\ help' = [h \in Helps |-> IF /\ owned = {} /\ room.owner = -h
                                    /\ help[h] \in {"QUEUED", "RUNNING"}
                                 THEN "FAILED" ELSE help[h]]
     /\ run' = [r \in Runs |-> IF room.owner = r /\ run[r] = "ACTIVE" THEN "EXPIRED" ELSE run[r]]
  /\ UNCHANGED <<lease, seen, held, handler, enabled, issued>>

Tick ==
  /\ room' = [room EXCEPT !.ttl = IF @ > 0 THEN @ - 1 ELSE 0]
  /\ lease' = [p \in Pipes |-> [lease[p] EXCEPT !.age = IF @ = NoAge THEN NoAge ELSE Min2(@ + 1, MaxTotal)]]
  /\ UNCHANGED <<row, help, run, seen, held, handler, enabled, issued>>

-----------------------------------------------------------------------------
(* The callers. *)

\* Any service writes the lifecycle columns of a pipeline row and leaves the
\* lease alone.
WriteRow(p, r) ==
  /\ row' = [row EXCEPT ![p] = r]
  /\ UNCHANGED <<room, lease, help, run, seen, held, handler, enabled, issued>>

\* A service ends a pipeline and, in the same transaction, frees the room if
\* the pipeline owns it (the four _release_pipeline_lock() of the services).
FreeIfOwner(P) == IF \E p \in P : Owns(p) THEN Open(room) ELSE room

EndRow(p, r) ==
  /\ room' = FreeIfOwner({p})
  /\ row' = [row EXCEPT ![p] = r]
  /\ UNCHANGED <<lease, help, run, seen, held, handler, enabled, issued>>

\* publish_agent_intervention() for a pipeline: the room is freed by token while
\* the pipeline row still waits for _mark_published().
PublishPipe(p) ==
  /\ Owns(p) /\ lease[p].token # NoToken /\ room.ttl > 0
  /\ room' = Open(room)
  /\ UNCHANGED <<row, lease, help, run, seen, held, handler, enabled, issued>>

HelpAsk(h) ==
  /\ help[h] = "NONE"
  /\ help' = [help EXCEPT ![h] = "QUEUED"]
  /\ UNCHANGED <<room, row, lease, run, seen, held, handler, enabled, issued>>

HelpClaim(h) ==
  /\ help[h] = "QUEUED" /\ handler[h] = "no"
  /\ help' = [help EXCEPT ![h] = "RUNNING"]
  /\ UNCHANGED <<room, row, lease, run, seen, held, handler, enabled, issued>>

\* One transaction ends every active unpublished pipeline of P (_mark_pipeline_terminal).
EndActive(P, final) ==
  LET loses == {p \in P : row[p].final \in Active /\ ~row[p].published} IN
  /\ room' = FreeIfOwner(loses)
  /\ row' = [p \in Pipes |-> IF p \in loses THEN [row[p] EXCEPT !.final = final] ELSE row[p]]
  /\ UNCHANGED <<lease, help, run, seen, held, handler, enabled, issued>>

\* preempt_for_student_help(): all pipelines of the discussion with a lower
\* priority than a help request.
Preempt(h) ==
  /\ help[h] = "RUNNING" /\ held[-h] = NoToken /\ handler[h] = "no"
  /\ EndActive(Pipes \ HelpTriggered, "SUPERSEDED")

\* cancel_active_runs_for_session_end(): its own transaction, after the session
\* has been marked ended.
CancelActive == ~enabled /\ EndActive(Pipes, "CANCELLED")

\* The published help request and the free room are one transaction.
HelpPublish(h) ==
  /\ held[-h] # NoToken /\ help[h] = "RUNNING"
  /\ room.state = "AI_INTERVENING" /\ room.token = held[-h] /\ room.ttl > 0
  /\ room' = Open(room)
  /\ help' = [help EXCEPT ![h] = "COMPLETED"]
  /\ UNCHANGED <<row, lease, run, seen, held, handler, enabled, issued>>

\* The suggestion cannot be made, the publisher refuses, or the write phase
\* raises: FAILED first, Release() after.
HelpFail(h) ==
  /\ held[-h] # NoToken /\ help[h] = "RUNNING"
  /\ help' = [help EXCEPT ![h] = "FAILED"]
  /\ UNCHANGED <<room, row, lease, run, seen, held, handler, enabled, issued>>

\* Any other exception, one of the FAILED update itself included, leaves
\* _execute_help_flow() and its local variables: the handler of
\* process_student_help() has to clean up.
HelpRaises(h) ==
  /\ handler[h] = "no"
  /\ help[h] \in {"QUEUED", "RUNNING"} \/ (help[h] = "FAILED" /\ held[-h] # NoToken)
  /\ handler' = [handler EXCEPT ![h] = "free"]
  /\ held' = [held EXCEPT ![-h] = NoToken]
  /\ seen' = [seen EXCEPT ![-h] = NotRead]
  /\ UNCHANGED <<room, row, lease, help, run, enabled, issued>>

\* _release_help_room_lock_for_request(): the token is read from the room, whose
\* owner number may be that of a pipeline; an exception in here is swallowed.
HandlerFrees(h) ==
  /\ handler[h] = "free"
  /\ handler' = [handler EXCEPT ![h] = "record"]
  /\ \/ room.state = "AI_INTERVENING" /\ room.owner = -h /\ room' = Open(room)
     \/ UNCHANGED room
  /\ UNCHANGED <<row, lease, help, run, seen, held, enabled, issued>>

\* FAILED in a transaction of its own, whose exception is swallowed as well.
HandlerRecords(h) ==
  /\ handler[h] = "record"
  /\ handler' = [handler EXCEPT ![h] = "over"]
  /\ help' = [help EXCEPT ![h] = "FAILED"] \/ UNCHANGED help
  /\ UNCHANGED <<room, row, lease, run, seen, held, enabled, issued>>

RunEnds(r) ==
  /\ run[r] = "ACTIVE" /\ held[r] # NoToken
  /\ run' = [run EXCEPT ![r] = "DONE"]
  /\ UNCHANGED <<room, row, lease, help, seen, held, handler, enabled, issued>>

Switch ==
  /\ enabled' = ~enabled
  /\ UNCHANGED <<room, row, lease, help, run, seen, held, handler, issued>>

LeaseNext ==
  \/ \E o \in Askers : ReadVersion(o) \/ Acquire(o) \/ GiveUp(o) \/ Release(o)
  \/ \E p \in Pipes : ClaimOpen(p) \/ ClaimOwned(p) \/ ClaimTransfer(p) \/ Renew(p) \/ PublishPipe(p)
  \/ \E p \in Pipes, r \in WrittenRows : WriteRow(p, r) \/ EndRow(p, r)
  \/ \E h \in Helps : HelpAsk(h) \/ HelpClaim(h) \/ Preempt(h) \/ HelpPublish(h) \/ HelpFail(h)
  \/ \E h \in Helps : HelpRaises(h) \/ HandlerFrees(h) \/ HandlerRecords(h)
  \/ \E r \in Runs : RunEnds(r)
  \/ CancelActive \/ Expire \/ Tick \/ Switch

LeaseSpec == LeaseInit /\ [][LeaseNext]_leaseVars

\* Room polling (routes/api.py calls recover_expired) and the delayed release
\* task keep recovering; the clock keeps ticking.
FairLeaseSpec == LeaseSpec /\ WF_leaseVars(Tick) /\ WF_leaseVars(Expire)

-----------------------------------------------------------------------------
(* Properties. *)

\* Whoever knows the token of the current lease is the owner the room names, so
\* no second worker passes the token checks of release, renew and publish (only a
\* pipeline and a help request of the same number may both do).
OneHolder ==
  room.state = "AI_INTERVENING" =>
    /\ \A p \in Pipes : lease[p].token = room.token => room.owner = -p
    /\ \A o \in Askers : held[o] = room.token => room.owner = o

\* However often it is renewed, a pipeline's lease ends MaxTotal seconds after
\* it was acquired (THREE_STAGE_LOCK_MAX_TOTAL_SECONDS).
HardCap ==
  \A p \in Pipes : Owns(p) /\ lease[p].token # NoToken /\ room.ttl > 0 =>
    lease[p].age + room.ttl <= MaxTotal

\* The optimistic lock of acquire(): if the version is still the one that was
\* read, the room is still open; every change of the lease moves the version.
VersionFence ==
  \A o \in Askers : seen[o] # NotRead /\ seen[o] = room.version => room.state = "OPEN"

\* A help request that is RUNNING and whose worker holds a token still has the
\* room: whoever takes the lease away also ends the request.  (A worker that has
\* raised holds none any more: its request may stay RUNNING without the room.  One
\* whose number is also the id of a pipeline is mistaken for it.)
NoOrphanHelp ==
  \A h \in Helps \ Pipes : help[h] = "RUNNING" /\ held[-h] # NoToken =>
    room.state = "AI_INTERVENING" /\ room.token = held[-h]

\* The room passes from one lease straight to another only when the old one
\* belongs to a batch-less preliminary pipeline.
TransferOnlyLegacyLease ==
  [][ room.state = "AI_INTERVENING" /\ room'.token \notin {NoToken, room.token} =>
        \E p \in Pipes : Owns(p) /\ row[p].batch = "none" ]_leaseVars

\* The room passes from one lease straight to another only by the number of an
\* active batch-less pipeline, which holds the lease itself unless a help request
\* has the same number.
TransferByNumber ==
  [][ room.state = "AI_INTERVENING" /\ room'.token \notin {NoToken, room.token} =>
        \E q \in Pipes : /\ room.owner = -q /\ row[q].batch = "none" /\ row[q].final \in Active
                         /\ Owns(q) \/ q \in Helps ]_leaseVars

\* A lease that has run out never becomes valid again.
ExpiredStaysExpired ==
  [][ room.state = "AI_INTERVENING" /\ room.ttl = 0 /\ room'.token = room.token
        => room'.ttl = 0 ]_leaseVars

\* Whatever its holder does, a lease comes to an end.
LeaseEnds ==
  \A t \in Tokens : (room.token = t) ~> (room.token # t)
=============================================================================
