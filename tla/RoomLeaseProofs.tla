-------------------------- MODULE RoomLeaseProofs --------------------------
(***************************************************************************)
(* Proofs about RoomLease: what one lease of a room guarantees for any     *)
(* number of pipelines, help requests and runs, and any durations.         *)
(***************************************************************************)
EXTENDS RoomLease, TLAPS

\* The owner numbers are negative ids of pipelines and help requests and
\* positive ids of runs: runs never collide with the other two.
LEMMA AskersAreInt ==
  /\ Askers \subseteq Int
  /\ \A h \in Helps : -h \in Askers /\ -h \in Int /\ -h < 0
  /\ \A r \in Runs : r \in Askers /\ r > 0
  /\ \A p \in Pipes : -p \in Int /\ -p < 0
<1>1. \A p \in Pipes : p \in Nat /\ p > 0 BY IdsAssumption
<1>2. \A h \in Helps : h \in Nat /\ h > 0 BY IdsAssumption
<1>3. \A r \in Runs : r \in Nat /\ r > 0 BY IdsAssumption
<1>. DEFINE Neg(n) == -n
<1>4. \A n \in Nat : n > 0 => Neg(n) \in Int /\ Neg(n) < 0 OBVIOUS
<1>. HIDE DEF Neg
<1>5. \A h \in Helps : Neg(h) \in Int /\ Neg(h) < 0 BY <1>2, <1>4
<1>6. \A p \in Pipes : Neg(p) \in Int /\ Neg(p) < 0 BY <1>1, <1>4
<1> QED BY <1>3, <1>5, <1>6 DEF Askers, Neg

\* A write of the final status leaves a legal pipeline row, so does a claim.
LEMMA FinalIsRow ==
  ASSUME NEW r \in Rows, NEW f \in Terminal \cup Active PROVE [r EXCEPT !.final = f] \in Rows
BY DEF Rows
LEMMA ClaimedIsRow == ASSUME NEW r \in Rows PROVE Claimed(r) \in Rows
BY DEF Claimed, Rows, Terminal, Active

\* The three ways a step builds a room.
LEMMA RenewedIsRoom ==
  ASSUME NEW r \in Rooms, NEW n \in 0 .. MaxTotal
  PROVE  [r EXCEPT !.version = @ + 1, !.ttl = n] \in Rooms
<1>1. r.version + 1 \in Nat BY DEF Rooms
<1>2. [r EXCEPT !.version = @ + 1] \in Rooms BY <1>1 DEF Rooms
<1>3. \A s \in Rooms : [s EXCEPT !.ttl = n] \in Rooms BY DEF Rooms
<1>4. [r EXCEPT !.version = @ + 1, !.ttl = n] = [[r EXCEPT !.version = @ + 1] EXCEPT !.ttl = n]
  BY <1>2 DEF Rooms
<1> QED BY <1>2, <1>3, <1>4
LEMMA OpenIsRoom == ASSUME NEW r \in Rooms PROVE Open(r) \in Rooms
BY SecondsAssumption DEF Open, Rooms, NoToken, NoOwner
LEMMA LockedIsRoom ==
  ASSUME NEW r \in Rooms, NEW t \in Tokens, NEW n \in 0 .. MaxTotal, NEW o \in Int
  PROVE  Locked(r, t, n, o) \in Rooms
BY DEF Locked, Rooms

\* A lease granted to a pipeline at this moment, and the deadline of a renewal.
LEMMA GrantType ==
  ASSUME LeaseTypeOK, issued < MaxTokens
  PROVE  /\ issued + 1 \in Tokens /\ issued + 1 \in 0 .. MaxTokens
         /\ [token |-> issued + 1, age |-> 0] \in Leases
         /\ InitialTtl \in 0 .. MaxTotal /\ LockSeconds \in 0 .. MaxTotal
<1>1. issued \in Int /\ issued >= 0 /\ MaxTokens \in Int
  BY SecondsAssumption DEF LeaseTypeOK
<1>2. issued + 1 \in Tokens /\ issued + 1 \in 0 .. MaxTokens BY <1>1 DEF Tokens
<1> QED BY <1>2, SecondsAssumption DEF Leases
LEMMA RenewTtlType ==
  ASSUME NEW age \in {NoAge} \cup 0 .. MaxTotal, MaxTotal - age >= 1
  PROVE  RenewTtl(age) \in 0 .. MaxTotal
BY SecondsAssumption DEF RenewTtl, Min2, NoAge

\* The initial states are well typed.
LEMMA LeaseInitType == LeaseInit => LeaseTypeOK
<1> SUFFICES ASSUME LeaseInit PROVE LeaseTypeOK OBVIOUS
<1> USE IdsAssumption, SecondsAssumption, AskersAreInt
<1>1. row \in [Pipes -> Rows] BY DEF LeaseInit
<1>2. /\ help \in [Helps -> {"NONE", "QUEUED", "RUNNING", "COMPLETED", "FAILED"}]
      /\ run \in [Runs -> {"ACTIVE", "EXPIRED", "DONE"}]
      /\ seen \in [Askers -> {NotRead} \cup Nat]
      /\ held \in [Askers -> {NoToken} \cup Tokens]
      /\ handler \in [Helps -> {"no", "free", "record", "over"}]
      /\ enabled \in BOOLEAN
  BY DEF LeaseInit
<1>3. FreshRoom \in Rooms /\ NoLease \in Leases
  BY DEF FreshRoom, Rooms, NoLease, Leases, NoToken, NoOwner, NoAge
<1>4. CASE room = FreshRoom /\ issued = 0 /\ lease = [p \in Pipes |-> NoLease]
  BY <1>1, <1>2, <1>3, <1>4 DEF LeaseTypeOK
<1>5. CASE \E l \in LegacyOwners :
             /\ MaxTokens > 0
             /\ room = Locked(FreshRoom, 1, InitialTtl, -l) /\ issued = 1
             /\ lease = [p \in Pipes |-> IF p = l THEN [token |-> 1, age |-> 0] ELSE NoLease]
  <2>1. 1 \in Tokens /\ [token |-> 1, age |-> 0] \in Leases BY <1>5 DEF Tokens, Leases
  <2>2. room \in Rooms BY <1>3, <1>5, <2>1, LockedIsRoom
  <2>3. lease \in [Pipes -> Leases] BY <1>3, <1>5, <2>1
  <2>4. issued \in 0 .. MaxTokens BY <1>5
  <2> QED BY <1>1, <1>2, <2>2, <2>3, <2>4 DEF LeaseTypeOK
<1> QED BY <1>4, <1>5 DEF LeaseInit

\* The steps of acquire() and release() keep the types.
LEMMA AskerStepType ==
  ASSUME LeaseTypeOK, NEW o \in Askers, ReadVersion(o) \/ Acquire(o) \/ GiveUp(o) \/ Release(o)
  PROVE  LeaseTypeOK'
<1>1. CASE ReadVersion(o) BY <1>1 DEF ReadVersion, LeaseTypeOK, Rooms
<1>2. CASE Acquire(o)
  <2>1. issued + 1 \in Tokens /\ issued + 1 \in 0 .. MaxTokens /\ LockSeconds \in 0 .. MaxTotal
    BY <1>2, GrantType DEF Acquire
  <2>2. room' \in Rooms BY <1>2, <2>1, LockedIsRoom, AskersAreInt DEF Acquire, LeaseTypeOK
  <2> QED BY <1>2, <2>1, <2>2 DEF Acquire, LeaseTypeOK
<1>3. CASE GiveUp(o) BY <1>3 DEF GiveUp, LeaseTypeOK
<1>4. CASE Release(o) BY <1>4, OpenIsRoom DEF Release, LeaseTypeOK
<1> QED BY <1>1, <1>2, <1>3, <1>4

\* The steps of claim, renew and publish keep the types.
LEMMA ClaimStepType ==
  ASSUME LeaseTypeOK, NEW p \in Pipes,
         ClaimOpen(p) \/ ClaimOwned(p) \/ ClaimTransfer(p) \/ Renew(p) \/ PublishPipe(p)
  PROVE  LeaseTypeOK'
<1>0. Claimed(row[p]) \in Rows /\ -p \in Int BY ClaimedIsRow, AskersAreInt DEF LeaseTypeOK
<1>1. CASE ClaimOpen(p)
  <2>1. /\ issued + 1 \in Tokens /\ issued + 1 \in 0 .. MaxTokens
        /\ [token |-> issued + 1, age |-> 0] \in Leases /\ InitialTtl \in 0 .. MaxTotal
    BY <1>1, GrantType DEF ClaimOpen
  <2>2. room' \in Rooms BY <1>0, <1>1, <2>1, LockedIsRoom DEF ClaimOpen, LeaseTypeOK
  <2> QED BY <1>0, <1>1, <2>1, <2>2 DEF ClaimOpen, LeaseTypeOK
<1>2. CASE ClaimOwned(p)
  <2> DEFINE age == IF lease[p].age = NoAge THEN 0 ELSE lease[p].age
  <2>1. age \in 0 .. MaxTotal /\ MaxTotal - age >= 1
    BY <1>2, SecondsAssumption DEF ClaimOwned, NoAge, LeaseTypeOK, Leases
  <2>2. /\ room' = [room EXCEPT !.version = @ + 1, !.ttl = RenewTtl(age)]
        /\ lease' = [lease EXCEPT ![p] = [token |-> room.token, age |-> age]]
    BY <1>2 DEF ClaimOwned
  <2> HIDE DEF age
  <2>3. RenewTtl(age) \in 0 .. MaxTotal BY <2>1, RenewTtlType
  <2>4. room' \in Rooms BY <2>2, <2>3, RenewedIsRoom DEF LeaseTypeOK
  <2>5. [token |-> room.token, age |-> age] \in Leases BY <2>1 DEF LeaseTypeOK, Rooms, Leases
  <2> QED BY <1>0, <1>2, <2>2, <2>4, <2>5 DEF ClaimOwned, LeaseTypeOK
<1>3. CASE ClaimTransfer(p)
  <2>1. /\ issued + 1 \in Tokens /\ issued + 1 \in 0 .. MaxTokens
        /\ [token |-> issued + 1, age |-> 0] \in Leases /\ InitialTtl \in 0 .. MaxTotal
    BY <1>3, GrantType DEF ClaimTransfer
  <2>2. \A q \in Pipes : [row[q] EXCEPT !.final = "SUPERSEDED"] \in Rows
    BY FinalIsRow DEF Terminal, LeaseTypeOK
  <2>3. row' \in [Pipes -> Rows] BY <1>0, <1>3, <2>2 DEF ClaimTransfer, LeaseTypeOK
  <2>4. room' \in Rooms BY <1>0, <1>3, <2>1, LockedIsRoom DEF ClaimTransfer, LeaseTypeOK
  <2> QED BY <1>3, <2>1, <2>3, <2>4 DEF ClaimTransfer, LeaseTypeOK
<1>4. CASE Renew(p)
  <2>1. lease[p].age \in {NoAge} \cup 0 .. MaxTotal BY DEF LeaseTypeOK, Leases
  <2>2. RenewTtl(lease[p].age) \in 0 .. MaxTotal
    BY <1>4, <2>1, RenewTtlType DEF Renew, Renewable, RenewableExpired
  <2>3. room' \in Rooms BY <1>4, <2>2, RenewedIsRoom DEF Renew, LeaseTypeOK
  <2> QED BY <1>4, <2>3 DEF Renew, LeaseTypeOK
<1>5. CASE PublishPipe(p) BY <1>5, OpenIsRoom DEF PublishPipe, LeaseTypeOK
<1> QED BY <1>1, <1>2, <1>3, <1>4, <1>5

\* The other steps keep the types.
LEMMA OtherStepType ==
  ASSUME LeaseTypeOK,
         \/ \E p \in Pipes, r \in WrittenRows : WriteRow(p, r) \/ EndRow(p, r)
         \/ \E h \in Helps : HelpAsk(h) \/ HelpClaim(h) \/ Preempt(h) \/ HelpPublish(h) \/ HelpFail(h)
         \/ \E h \in Helps : HelpRaises(h) \/ HandlerFrees(h) \/ HandlerRecords(h)
         \/ \E r \in Runs : RunEnds(r)
         \/ CancelActive \/ Expire \/ Tick \/ Switch
  PROVE  LeaseTypeOK'
<1>1. ASSUME NEW p \in Pipes, NEW r \in WrittenRows, WriteRow(p, r) PROVE LeaseTypeOK'
  BY <1>1, IdsAssumption DEF WriteRow, LeaseTypeOK
<1>2. ASSUME NEW p \in Pipes, NEW r \in WrittenRows, EndRow(p, r) PROVE LeaseTypeOK'
  BY <1>2, IdsAssumption, OpenIsRoom DEF EndRow, FreeIfOwner, LeaseTypeOK
<1>3. ASSUME NEW h \in Helps, HelpAsk(h) \/ HelpClaim(h) \/ HelpFail(h) PROVE LeaseTypeOK'
  BY <1>3 DEF HelpAsk, HelpClaim, HelpFail, LeaseTypeOK
<1>4. ASSUME NEW P, NEW final \in Terminal, EndActive(P, final) PROVE LeaseTypeOK'
  <2>1. \A p \in Pipes : [row[p] EXCEPT !.final = final] \in Rows
    BY FinalIsRow DEF LeaseTypeOK
  <2>2. row' \in [Pipes -> Rows] BY <1>4, <2>1 DEF EndActive, LeaseTypeOK
  <2>3. room' \in Rooms BY <1>4, OpenIsRoom DEF EndActive, FreeIfOwner, LeaseTypeOK
  <2> QED BY <1>4, <2>2, <2>3 DEF EndActive, LeaseTypeOK
<1>4a. ASSUME NEW h \in Helps, Preempt(h) PROVE LeaseTypeOK'
  BY <1>4, <1>4a DEF Preempt, Terminal
<1>4b. CASE CancelActive BY <1>4, <1>4b DEF CancelActive, Terminal
<1>5. ASSUME NEW h \in Helps, HelpPublish(h) PROVE LeaseTypeOK'
  BY <1>5, OpenIsRoom DEF HelpPublish, LeaseTypeOK
<1>5a. ASSUME NEW h \in Helps, HelpRaises(h) \/ HandlerRecords(h) PROVE LeaseTypeOK'
  BY <1>5a DEF HelpRaises, HandlerRecords, LeaseTypeOK
<1>5b. ASSUME NEW h \in Helps, HandlerFrees(h) PROVE LeaseTypeOK'
  BY <1>5b, OpenIsRoom DEF HandlerFrees, LeaseTypeOK
<1>6. ASSUME NEW r \in Runs, RunEnds(r) PROVE LeaseTypeOK'
  BY <1>6 DEF RunEnds, LeaseTypeOK
<1>7. CASE Expire
  <2>1. \A p \in Pipes : [row[p] EXCEPT !.final = "FAILED"] \in Rows
    BY FinalIsRow DEF Terminal, LeaseTypeOK
  <2>2. row' \in [Pipes -> Rows] BY <1>7, <2>1 DEF Expire, LeaseTypeOK
  <2>3. room' \in Rooms BY <1>7, OpenIsRoom DEF Expire, LeaseTypeOK
  <2>4. /\ help' \in [Helps -> {"NONE", "QUEUED", "RUNNING", "COMPLETED", "FAILED"}]
        /\ run' \in [Runs -> {"ACTIVE", "EXPIRED", "DONE"}]
        /\ UNCHANGED <<lease, seen, held, handler, enabled, issued>>
    BY <1>7 DEF Expire, LeaseTypeOK
  <2> QED BY <2>2, <2>3, <2>4 DEF LeaseTypeOK
<1>8. CASE Tick
  <2>0. (IF room.ttl > 0 THEN room.ttl - 1 ELSE 0) \in 0 .. MaxTotal
    BY SecondsAssumption DEF LeaseTypeOK, Rooms
  <2>1. room' \in Rooms BY <1>8, <2>0 DEF Tick, LeaseTypeOK, Rooms
  <2>2. \A n \in {NoAge} \cup 0 .. MaxTotal :
          (IF n = NoAge THEN NoAge ELSE Min2(n + 1, MaxTotal)) \in {NoAge} \cup 0 .. MaxTotal
    BY SecondsAssumption DEF Min2, NoAge
  <2>3. \A l \in Leases : [l EXCEPT !.age = IF @ = NoAge THEN NoAge ELSE Min2(@ + 1, MaxTotal)] \in Leases
    BY <2>2 DEF Leases
  <2> QED BY <1>8, <2>1, <2>3 DEF Tick, LeaseTypeOK
<1>9. CASE Switch BY <1>9 DEF Switch, LeaseTypeOK
<1> QED BY <1>1, <1>2, <1>3, <1>5, <1>6, <1>7, <1>8, <1>9, <1>4a, <1>4b, <1>5a, <1>5b

LEMMA LeaseTypeStep == LeaseTypeOK /\ [LeaseNext]_leaseVars => LeaseTypeOK'
<1> SUFFICES ASSUME LeaseTypeOK, [LeaseNext]_leaseVars PROVE LeaseTypeOK' OBVIOUS
<1>1. CASE UNCHANGED leaseVars BY <1>1 DEF leaseVars, LeaseTypeOK
<1> QED BY <1>1, AskerStepType, ClaimStepType, OtherStepType DEF LeaseNext

\* Every state of every instance is well typed: in particular no deadline lies
\* further than MaxTotal away and only issued tokens are in use.
THEOREM TypeCorrect == LeaseSpec => []LeaseTypeOK
BY LeaseInitType, LeaseTypeStep, PTL DEF LeaseSpec

-----------------------------------------------------------------------------
(* Tokens.  A token names one lease for ever: a lease is granted under a     *)
(* number nobody has yet, so whoever carries the token of the current lease *)
(* is the owner the room names.                                              *)

RoomShape ==
  /\ room.state = "OPEN" => room.token = NoToken /\ room.ttl = 0
  /\ room.state = "AI_INTERVENING" => room.token # NoToken
TokensIssued ==
  /\ room.token <= issued
  /\ \A p \in Pipes : lease[p].token <= issued
  /\ \A o \in Askers : held[o] <= issued
TokenOwner ==
  room.state = "AI_INTERVENING" =>
    /\ \A p \in Pipes : lease[p].token = room.token => room.owner = -p
    /\ \A o \in Askers : held[o] = room.token => room.owner = o
TokenInv == LeaseTypeOK /\ RoomShape /\ TokensIssued /\ TokenOwner

\* What a step does to the room, whatever action it is.
Frees == room' = Open(room) /\ UNCHANGED <<lease, issued>>
Grants(t, seconds, o) ==
  /\ issued < MaxTokens /\ t = issued + 1 /\ issued' = t
  /\ room' = Locked(room, t, seconds, o)
GrantsPipe(p) ==
  /\ room.state = "OPEN" \/ (room.state = "AI_INTERVENING" /\ \E q \in Pipes \ {p} : room.owner = -q /\ CanTransfer(q, p))
  /\ Grants(issued + 1, InitialTtl, -p)
  /\ lease' = [lease EXCEPT ![p] = [token |-> issued + 1, age |-> 0]]
  /\ UNCHANGED <<seen, held>>
Extends(p) ==
  /\ room.state = "AI_INTERVENING" /\ room.owner = -p /\ room.ttl > 0
  /\ \E age \in {NoAge} \cup 0 .. MaxTotal :
       /\ MaxTotal - age >= 1 /\ lease[p].age <= age
       /\ room' = [room EXCEPT !.version = @ + 1, !.ttl = RenewTtl(age)]
       /\ lease'[p].age = age /\ lease'[p].token \in {room.token, lease[p].token}
  /\ lease' \in [Pipes -> Leases]
  /\ \A q \in Pipes \ {p} : lease'[q] = lease[q]
  /\ UNCHANGED <<seen, held, issued>>

Drops(o) == held' = [held EXCEPT ![o] = NoToken] /\ UNCHANGED <<room, lease, issued>>

LEMMA StepKinds ==
  ASSUME LeaseTypeOK, LeaseNext
  PROVE \/ UNCHANGED <<room, lease, issued, held>>
        \/ Frees /\ UNCHANGED <<seen, held>>
        \/ \E o \in Askers : Release(o)
        \/ \E o \in Askers : Drops(o)
        \/ \E o \in Askers : Acquire(o)
        \/ \E p \in Pipes : GrantsPipe(p) \/ Extends(p)
        \/ Tick
<1> USE DEF Frees
<1>1. ASSUME NEW o \in Askers, ReadVersion(o) \/ Acquire(o) \/ GiveUp(o) \/ Release(o)
      PROVE \/ UNCHANGED <<room, lease, issued, held>>
            \/ \E oo \in Askers : Release(oo) \/ Acquire(oo)
  BY <1>1 DEF ReadVersion, GiveUp
<1>2. ASSUME NEW p \in Pipes, ClaimOpen(p) PROVE GrantsPipe(p)
  BY <1>2 DEF ClaimOpen, GrantsPipe, Grants
<1>3. ASSUME NEW p \in Pipes, ClaimTransfer(p) PROVE GrantsPipe(p)
  BY <1>3 DEF ClaimTransfer, GrantsPipe, Grants
<1>4. ASSUME NEW p \in Pipes, ClaimOwned(p) PROVE Extends(p)
  <2> DEFINE age == IF lease[p].age = NoAge THEN 0 ELSE lease[p].age
  <2>1. age \in 0 .. MaxTotal /\ MaxTotal - age >= 1 /\ lease[p].age <= age
    BY <1>4, SecondsAssumption DEF ClaimOwned, NoAge, LeaseTypeOK, Leases
  <2>2. /\ room.state = "AI_INTERVENING" /\ room.owner = -p /\ room.ttl > 0
        /\ room' = [room EXCEPT !.version = @ + 1, !.ttl = RenewTtl(age)]
        /\ lease' = [lease EXCEPT ![p] = [token |-> room.token, age |-> age]]
        /\ UNCHANGED <<seen, held, issued>>
    BY <1>4 DEF ClaimOwned
  <2> HIDE DEF age
  <2>3. [token |-> room.token, age |-> age] \in Leases BY <2>1 DEF LeaseTypeOK, Rooms, Leases
  <2>4. /\ lease' \in [Pipes -> Leases] /\ \A q \in Pipes \ {p} : lease'[q] = lease[q]
        /\ lease'[p].age = age /\ lease'[p].token = room.token
    BY <2>2, <2>3 DEF LeaseTypeOK
  <2> QED BY <2>1, <2>2, <2>4 DEF Extends
<1>5. ASSUME NEW p \in Pipes, Renew(p) PROVE Extends(p)
  <2>1. /\ lease[p].age \in {NoAge} \cup 0 .. MaxTotal /\ lease[p].age <= lease[p].age
        /\ lease' = lease /\ lease \in [Pipes -> Leases]
    BY <1>5, SecondsAssumption DEF Renew, LeaseTypeOK, Leases, NoAge
  <2> QED BY <1>5, <2>1 DEF Renew, Renewable, RenewableExpired, Owns, Extends
<1>6. ASSUME NEW p \in Pipes, PublishPipe(p) PROVE Frees /\ UNCHANGED <<seen, held>>
  BY <1>6 DEF PublishPipe
<1>7. ASSUME NEW p \in Pipes, NEW r \in WrittenRows, WriteRow(p, r) \/ EndRow(p, r)
      PROVE UNCHANGED <<room, lease, issued, held>> \/ (Frees /\ UNCHANGED <<seen, held>>)
  BY <1>7 DEF WriteRow, EndRow, FreeIfOwner
<1>8. ASSUME NEW h \in Helps, HelpAsk(h) \/ HelpClaim(h) \/ HelpFail(h)
      PROVE UNCHANGED <<room, lease, issued, held>>
  BY <1>8 DEF HelpAsk, HelpClaim, HelpFail
<1>9. ASSUME NEW h \in Helps, Preempt(h) \/ HelpPublish(h)
      PROVE UNCHANGED <<room, lease, issued, held>> \/ (Frees /\ UNCHANGED <<seen, held>>)
  BY <1>9 DEF Preempt, EndActive, HelpPublish, FreeIfOwner
<1>9a. CASE CancelActive BY <1>9a DEF CancelActive, EndActive, FreeIfOwner
<1>9b. ASSUME NEW h \in Helps, HelpRaises(h) PROVE \E o \in Askers : Drops(o)
  BY <1>9b, AskersAreInt DEF HelpRaises, Drops
<1>9c. ASSUME NEW h \in Helps, HandlerFrees(h)
      PROVE UNCHANGED <<room, lease, issued, held>> \/ (Frees /\ UNCHANGED <<seen, held>>)
  BY <1>9c DEF HandlerFrees
<1>9d. ASSUME NEW h \in Helps, HandlerRecords(h) PROVE UNCHANGED <<room, lease, issued, held>>
  BY <1>9d DEF HandlerRecords
<1>10. ASSUME NEW r \in Runs, RunEnds(r) PROVE UNCHANGED <<room, lease, issued, held>>
  BY <1>10 DEF RunEnds
<1>11. CASE Expire BY <1>11 DEF Expire
<1>12. CASE Switch BY <1>12 DEF Switch
<1> QED BY <1>1, <1>2, <1>3, <1>4, <1>5, <1>6, <1>7, <1>8, <1>9, <1>10, <1>11, <1>12,
        <1>9a, <1>9b, <1>9c, <1>9d DEF LeaseNext

LEMMA TokenInit == LeaseInit => TokenInv
<1> SUFFICES ASSUME LeaseInit PROVE TokenInv OBVIOUS
<1>1. LeaseTypeOK BY LeaseInitType
<1>2. \A o \in Askers : held[o] = NoToken BY DEF LeaseInit
<1>3. CASE room = FreshRoom /\ issued = 0 /\ lease = [p \in Pipes |-> NoLease]
  BY <1>1, <1>2, <1>3 DEF TokenInv, RoomShape, TokensIssued, TokenOwner, FreshRoom, NoLease, NoToken
<1>4. ASSUME NEW l \in LegacyOwners,
             room = Locked(FreshRoom, 1, InitialTtl, -l), issued = 1,
             lease = [p \in Pipes |-> IF p = l THEN [token |-> 1, age |-> 0] ELSE NoLease]
      PROVE  TokenInv
  <2>1. room.state = "AI_INTERVENING" /\ room.token = 1 /\ room.owner = -l BY <1>4 DEF Locked
  <2>2. \A p \in Pipes : lease[p].token = (IF p = l THEN 1 ELSE 0)
    BY <1>4 DEF NoLease, NoToken
  <2> QED BY <1>1, <1>2, <1>4, <2>1, <2>2 DEF TokenInv, RoomShape, TokensIssued, TokenOwner, NoToken
<1> QED BY <1>3, <1>4 DEF LeaseInit

LEMMA TokenStep == TokenInv /\ [LeaseNext]_leaseVars => TokenInv'
<1> SUFFICES ASSUME TokenInv, [LeaseNext]_leaseVars PROVE TokenInv' OBVIOUS
<1>0. LeaseTypeOK /\ LeaseTypeOK' BY LeaseTypeStep DEF TokenInv
<1>1. /\ issued \in Int /\ room.token \in Int
      /\ \A p \in Pipes : lease[p].token \in Int
      /\ \A o \in Askers : held[o] \in Int
      /\ issued >= 0
  BY <1>0, SecondsAssumption DEF LeaseTypeOK, Rooms, Leases, Tokens, NoToken
<1> SUFFICES RoomShape' /\ TokensIssued' /\ TokenOwner' BY <1>0 DEF TokenInv
<1>2. CASE UNCHANGED <<room, lease, issued, held>>
  BY <1>2 DEF TokenInv, RoomShape, TokensIssued, TokenOwner
<1>3. CASE Frees /\ UNCHANGED <<seen, held>>
  BY <1>1, <1>3 DEF TokenInv, RoomShape, TokensIssued, TokenOwner, Frees, Open, NoToken
<1>4. ASSUME NEW o \in Askers, Release(o) PROVE RoomShape' /\ TokensIssued' /\ TokenOwner'
  <2>1. held' = [held EXCEPT ![o] = 0] /\ UNCHANGED <<lease, issued>>
    BY <1>4 DEF Release, NoToken
  <2>2. room' = room \/ room' = Open(room) BY <1>4 DEF Release
  <2>3. \A q \in Askers : held'[q] = held[q] \/ held'[q] = 0 BY <1>0, <2>1 DEF LeaseTypeOK
  <2>4. CASE room' = room
    BY <1>1, <2>1, <2>3, <2>4 DEF TokenInv, RoomShape, TokensIssued, TokenOwner, NoToken
  <2>5. CASE room' = Open(room)
    BY <1>1, <2>1, <2>3, <2>5 DEF TokenInv, RoomShape, TokensIssued, TokenOwner, Open, NoToken
  <2> QED BY <2>2, <2>4, <2>5
<1>4a. ASSUME NEW o \in Askers, Drops(o) PROVE RoomShape' /\ TokensIssued' /\ TokenOwner'
  <2>1. \A q \in Askers : held'[q] = held[q] \/ held'[q] = 0
    BY <1>0, <1>4a DEF Drops, LeaseTypeOK, NoToken
  <2> QED BY <1>1, <1>4a, <2>1 DEF Drops, TokenInv, RoomShape, TokensIssued, TokenOwner, NoToken
<1>5. ASSUME NEW o \in Askers, Acquire(o) PROVE RoomShape' /\ TokensIssued' /\ TokenOwner'
  <2>1. /\ room' = Locked(room, issued + 1, LockSeconds, o) /\ issued' = issued + 1
        /\ held' = [held EXCEPT ![o] = issued + 1] /\ lease' = lease
    BY <1>5 DEF Acquire
  <2>2. /\ \A q \in Askers : held'[q] = IF q = o THEN issued + 1 ELSE held[q]
        /\ \A p \in Pipes : lease'[p].token < issued + 1
        /\ \A q \in Askers : held[q] < issued + 1
    BY <1>0, <1>1, <2>1 DEF LeaseTypeOK, TokenInv, TokensIssued
  <2> QED BY <1>1, <2>1, <2>2 DEF RoomShape, TokensIssued, TokenOwner, Locked, NoToken
<1>6. ASSUME NEW p \in Pipes, GrantsPipe(p) PROVE RoomShape' /\ TokensIssued' /\ TokenOwner'
  <2>1. /\ room' = Locked(room, issued + 1, InitialTtl, -p) /\ issued' = issued + 1
        /\ lease' = [lease EXCEPT ![p] = [token |-> issued + 1, age |-> 0]] /\ held' = held
    BY <1>6 DEF GrantsPipe, Grants
  <2>2. /\ \A q \in Pipes : lease'[q].token = IF q = p THEN issued + 1 ELSE lease[q].token
        /\ \A q \in Pipes : lease[q].token < issued + 1
        /\ \A q \in Askers : held'[q] < issued + 1
    BY <1>0, <1>1, <2>1 DEF LeaseTypeOK, TokenInv, TokensIssued
  <2> QED BY <1>1, <2>1, <2>2 DEF RoomShape, TokensIssued, TokenOwner, Locked, NoToken
<1>7. ASSUME NEW p \in Pipes, Extends(p) PROVE RoomShape' /\ TokensIssued' /\ TokenOwner'
  <2>1. /\ room.state = "AI_INTERVENING" /\ room.owner = -p
        /\ room'.state = room.state /\ room'.token = room.token /\ room'.owner = room.owner
        /\ lease'[p].token \in {room.token, lease[p].token}
        /\ \A q \in Pipes \ {p} : lease'[q] = lease[q]
        /\ held' = held /\ issued' = issued
    BY <1>0, <1>7 DEF Extends, LeaseTypeOK, Rooms
  <2> QED BY <1>1, <2>1 DEF TokenInv, RoomShape, TokensIssued, TokenOwner
<1>8. CASE Tick
  <2>1. /\ room'.state = room.state /\ room'.token = room.token /\ room'.owner = room.owner
        /\ room.ttl = 0 => room'.ttl = 0
        /\ \A q \in Pipes : lease'[q].token = lease[q].token
        /\ held' = held /\ issued' = issued
    BY <1>0, <1>8 DEF Tick, LeaseTypeOK, Rooms, Leases
  <2> QED BY <1>1, <2>1 DEF TokenInv, RoomShape, TokensIssued, TokenOwner
<1> QED BY <1>0, <1>2, <1>3, <1>4, <1>4a, <1>5, <1>6, <1>7, <1>8, StepKinds DEF leaseVars

\* Whatever the ids, the token of the current lease is known to its owner only.
THEOREM TokensNameOwners == LeaseSpec => []TokenInv
BY TokenInit, TokenStep, PTL DEF LeaseSpec

\* The invariant OneHolder of the runs, whatever the ids.
THEOREM SingleHolder == LeaseSpec => []OneHolder
<1>1. TokenInv => OneHolder BY DEF OneHolder, TokenInv, TokenOwner
<1> QED BY <1>1, TokensNameOwners, PTL

-----------------------------------------------------------------------------
(* The optimistic lock.  The version only grows, and it grows whenever the   *)
(* room is leased.                                                           *)

SeenPast == \A o \in Askers : seen[o] <= room.version
FenceInv == LeaseTypeOK /\ SeenPast /\ VersionFence

LEMMA FenceStep == FenceInv /\ [LeaseNext]_leaseVars => FenceInv'
<1> SUFFICES ASSUME FenceInv, [LeaseNext]_leaseVars PROVE FenceInv' OBVIOUS
<1>0. LeaseTypeOK /\ LeaseTypeOK' BY LeaseTypeStep DEF FenceInv
<1>1. room.version \in Nat /\ \A o \in Askers : seen[o] \in Int
  BY <1>0 DEF LeaseTypeOK, Rooms, NotRead
<1>2. \/ room'.version = room.version /\ room'.state = room.state
      \/ room'.version = room.version + 1
  <2>1. CASE UNCHANGED room BY <2>1
  <2>2. CASE room' = Open(room) BY <2>2 DEF Open
  <2>3. ASSUME NEW t, NEW n, NEW o, room' = Locked(room, t, n, o) PROVE room'.version = room.version + 1
    BY <2>3 DEF Locked
  <2>4. ASSUME NEW p \in Pipes, Extends(p) PROVE room'.version = room.version + 1
    BY <1>0, <2>4 DEF Extends, LeaseTypeOK, Rooms
  <2>5. CASE Tick BY <1>0, <2>5 DEF Tick, LeaseTypeOK, Rooms
  <2>6. CASE UNCHANGED leaseVars BY <2>6 DEF leaseVars
  <2>7. ASSUME NEW o \in Askers, Release(o) PROVE UNCHANGED room \/ room' = Open(room)
    BY <2>7 DEF Release
  <2> QED BY <1>0, <2>1, <2>2, <2>3, <2>4, <2>5, <2>6, <2>7, StepKinds
          DEF Acquire, GrantsPipe, Grants, Frees, Drops
<1>3. ASSUME NEW o \in Askers
      PROVE  \/ seen'[o] = seen[o] \/ seen'[o] = NotRead
             \/ seen'[o] = room.version /\ room.state = "OPEN" /\ room' = room
  <2>1. ASSUME NEW a \in Askers, ReadVersion(a)
        PROVE  seen'[o] = seen[o] \/ (seen'[o] = room.version /\ room.state = "OPEN" /\ room' = room)
    BY <1>0, <2>1 DEF ReadVersion, LeaseTypeOK
  <2>2. ASSUME NEW a \in Askers, Acquire(a) \/ GiveUp(a) PROVE seen'[o] = seen[o] \/ seen'[o] = NotRead
    BY <1>0, <2>2 DEF Acquire, GiveUp, LeaseTypeOK
  <2>3. ASSUME NEW a \in Askers, Release(a) PROVE seen' = seen BY <2>3 DEF Release
  <2>4. ASSUME NEW p \in Pipes,
               ClaimOpen(p) \/ ClaimOwned(p) \/ ClaimTransfer(p) \/ Renew(p) \/ PublishPipe(p)
        PROVE seen' = seen
    BY <2>4 DEF ClaimOpen, ClaimOwned, ClaimTransfer, Renew, PublishPipe
  <2>5. ASSUME NEW p \in Pipes, NEW r \in WrittenRows, WriteRow(p, r) \/ EndRow(p, r) PROVE seen' = seen
    BY <2>5 DEF WriteRow, EndRow
  <2>6. ASSUME NEW h \in Helps,
               HelpAsk(h) \/ HelpClaim(h) \/ Preempt(h) \/ HelpPublish(h) \/ HelpFail(h)
        PROVE seen' = seen
    BY <2>6 DEF HelpAsk, HelpClaim, Preempt, EndActive, HelpPublish, HelpFail
  <2>6a. ASSUME NEW h \in Helps, HelpRaises(h) PROVE seen'[o] = seen[o] \/ seen'[o] = NotRead
    BY <1>0, <2>6a, AskersAreInt DEF HelpRaises, LeaseTypeOK
  <2>6b. ASSUME NEW h \in Helps, HandlerFrees(h) \/ HandlerRecords(h) PROVE seen' = seen
    BY <2>6b DEF HandlerFrees, HandlerRecords
  <2>7. ASSUME NEW r \in Runs, RunEnds(r) PROVE seen' = seen BY <2>7 DEF RunEnds
  <2>8. ASSUME CancelActive \/ Expire \/ Tick \/ Switch PROVE seen' = seen
    BY <2>8 DEF CancelActive, EndActive, Expire, Tick, Switch
  <2>9. ASSUME UNCHANGED leaseVars PROVE seen' = seen BY <2>9 DEF leaseVars
  <2> QED BY <2>1, <2>2, <2>3, <2>4, <2>5, <2>6, <2>6a, <2>6b, <2>7, <2>8, <2>9 DEF LeaseNext
<1>4. SeenPast' BY <1>1, <1>2, <1>3 DEF FenceInv, SeenPast, NotRead
<1>5. VersionFence' BY <1>1, <1>2, <1>3 DEF FenceInv, SeenPast, VersionFence, NotRead
<1> QED BY <1>0, <1>4, <1>5 DEF FenceInv

\* acquire() may trust its conditional UPDATE: an unchanged version means a
\* room that stayed open, whatever the ids.
THEOREM OptimisticLock == LeaseSpec => []VersionFence
<1>1. LeaseInit => FenceInv
  <2> SUFFICES ASSUME LeaseInit PROVE FenceInv OBVIOUS
  <2>1. LeaseTypeOK BY LeaseInitType
  <2>2. \A o \in Askers : seen[o] = NotRead BY DEF LeaseInit
  <2>3. room.version \in Nat BY <2>1 DEF LeaseTypeOK, Rooms
  <2> QED BY <2>1, <2>2, <2>3 DEF FenceInv, SeenPast, VersionFence, NotRead
<1>2. FenceInv => VersionFence BY DEF FenceInv
<1> QED BY <1>1, <1>2, FenceStep, PTL DEF LeaseSpec

-----------------------------------------------------------------------------
(* The hard cap of a pipeline's lease. *)

CapInv == TokenInv /\ HardCap

LEMMA CapStep == CapInv /\ [LeaseNext]_leaseVars => CapInv'
<1> SUFFICES ASSUME CapInv, [LeaseNext]_leaseVars PROVE CapInv' OBVIOUS
<1>0. TokenInv /\ LeaseTypeOK /\ TokenInv' /\ HardCap BY TokenStep DEF CapInv, TokenInv
<1> SUFFICES ASSUME NEW p \in Pipes, Owns(p)', lease'[p].token # NoToken, room'.ttl > 0
             PROVE  lease'[p].age + room'.ttl <= MaxTotal
  BY <1>0 DEF CapInv, HardCap
<1>1. /\ MaxTotal \in Nat /\ InitialTtl \in Nat /\ InitialTtl <= MaxTotal
      /\ room.ttl \in 0 .. MaxTotal /\ lease[p].age \in {-1} \cup 0 .. MaxTotal
      /\ -p \in Int /\ \A q \in Pipes : -q = -p => q = p
  BY <1>0, SecondsAssumption, AskersAreInt, IdsAssumption DEF LeaseTypeOK, Rooms, Leases, NoAge
<1>a. room'.state = "AI_INTERVENING" /\ room'.token = lease'[p].token /\ room'.owner = -p
  BY DEF Owns
<1>2. CASE UNCHANGED <<room, lease, issued, held>>
  BY <1>0, <1>2 DEF HardCap, Owns
<1>3. CASE room' = Open(room) BY <1>3 DEF Open, Owns
<1>4. ASSUME NEW o \in Askers, Release(o) PROVE UNCHANGED <<room, lease>> \/ room' = Open(room)
  BY <1>4 DEF Release
<1>5. CASE UNCHANGED <<room, lease>> BY <1>0, <1>5 DEF HardCap, Owns
<1>6. ASSUME NEW o \in Askers, Acquire(o) PROVE FALSE
  <2>1. room'.token = issued + 1 /\ lease' = lease BY <1>6 DEF Acquire, Locked
  <2>2. lease[p].token <= issued /\ issued \in Int /\ lease[p].token \in Int
    BY <1>0, SecondsAssumption DEF TokenInv, TokensIssued, LeaseTypeOK, Leases, Tokens, NoToken
  <2>3. lease'[p].token = issued + 1 BY <1>a, <2>1
  <2>4. lease'[p].token <= issued /\ issued \in Int BY <2>1, <2>2
  <2> QED BY <2>3, <2>4
<1>7. ASSUME NEW q \in Pipes, GrantsPipe(q) PROVE lease'[p].age + room'.ttl <= MaxTotal
  <2>1. room'.owner = -q /\ room'.ttl = InitialTtl BY <1>7 DEF GrantsPipe, Grants, Locked
  <2>2. p = q BY <1>1, <2>1 DEF Owns
  <2>3. lease'[p].age = 0 BY <1>0, <1>7, <2>2 DEF GrantsPipe, LeaseTypeOK
  <2> QED BY <1>1, <2>1, <2>3
<1>8. ASSUME NEW q \in Pipes, Extends(q) PROVE lease'[p].age + room'.ttl <= MaxTotal
  <2>1. PICK age \in {NoAge} \cup 0 .. MaxTotal :
          /\ MaxTotal - age >= 1
          /\ room' = [room EXCEPT !.version = @ + 1, !.ttl = RenewTtl(age)]
          /\ lease'[q].age = age
    BY <1>8 DEF Extends
  <2>2. room'.owner = -q /\ room'.ttl = RenewTtl(age)
    BY <1>0, <1>8, <2>1 DEF Extends, LeaseTypeOK, Rooms
  <2>3. p = q BY <1>1, <2>2 DEF Owns
  <2>4. RenewTtl(age) <= MaxTotal - age /\ RenewTtl(age) \in Int
    BY <1>1, <2>1 DEF RenewTtl, Min2, NoAge
  <2> QED BY <1>1, <2>1, <2>2, <2>3, <2>4 DEF NoAge
<1>9. CASE Tick
  <2>1. /\ room'.state = room.state /\ room'.token = room.token /\ room'.owner = room.owner
        /\ lease'[p].token = lease[p].token
        /\ room'.ttl = IF room.ttl > 0 THEN room.ttl - 1 ELSE 0
        /\ lease'[p].age = IF lease[p].age = -1 THEN -1 ELSE Min2(lease[p].age + 1, MaxTotal)
    BY <1>0, <1>9 DEF Tick, LeaseTypeOK, Rooms, Leases, NoAge
  <2>2. lease[p].age + room.ttl <= MaxTotal /\ room.ttl > 0
    <3>1. room.ttl > 0 BY <1>1, <2>1
    <3>2. Owns(p) /\ lease[p].token # NoToken BY <1>a, <2>1 DEF Owns
    <3> QED BY <1>0, <3>1, <3>2 DEF HardCap
  <2> QED BY <1>1, <2>1, <2>2 DEF Min2
<1>10. CASE UNCHANGED leaseVars BY <1>2, <1>10 DEF leaseVars
<1> QED BY <1>0, <1>2, <1>3, <1>4, <1>5, <1>6, <1>7, <1>8, <1>9, <1>10, StepKinds DEF Frees, Drops

\* No renewal carries a pipeline's lease past MaxTotal, whatever the ids.
THEOREM CappedRenewal == LeaseSpec => []HardCap
<1>1. LeaseInit => CapInv
  <2> SUFFICES ASSUME LeaseInit PROVE HardCap BY TokenInit DEF CapInv
  <2>1. CASE room = FreshRoom BY <2>1 DEF HardCap, Owns, FreshRoom
  <2>2. ASSUME NEW l \in LegacyOwners, room = Locked(FreshRoom, 1, InitialTtl, -l),
               lease = [p \in Pipes |-> IF p = l THEN [token |-> 1, age |-> 0] ELSE NoLease]
        PROVE HardCap
    <3>1. \A p \in Pipes : lease[p].token # NoToken => lease[p].age = 0
      BY <2>2 DEF NoLease, NoToken
    <3>2. room.ttl = InitialTtl BY <2>2 DEF Locked
    <3> QED BY <3>1, <3>2, SecondsAssumption DEF HardCap
  <2> QED BY <2>1, <2>2 DEF LeaseInit
<1>2. CapInv => HardCap BY DEF CapInv
<1> QED BY <1>1, <1>2, CapStep, PTL DEF LeaseSpec

-----------------------------------------------------------------------------
(* Owner numbers.  A help request whose number no pipeline has keeps the    *)
(* room; a pipeline whose number no help request has and that the room names *)
(* is also the one that keeps its token.                                     *)

HelpStage ==
  \A h \in Helps : help[h] \in {"NONE", "QUEUED"} => held[-h] = NoToken /\ seen[-h] = NotRead
\* A worker that has raised keeps no token, and only one that has neither raised nor
\* a token is inside acquire().
WorkerGone ==
  \A h \in Helps :
    /\ handler[h] # "no" => held[-h] = NoToken
    /\ handler[h] # "no" \/ held[-h] # NoToken => seen[-h] = NotRead
HelpInv == TokenInv /\ HelpStage /\ WorkerGone /\ NoOrphanHelp
OwnerHolds ==
  \A q \in Pipes \ Helps :
    room.state = "AI_INTERVENING" /\ room.owner = -q => lease[q].token = room.token
OwnerInv == TokenInv /\ OwnerHolds

LEMMA OwnerNumbers ==
  /\ \A p, q \in Pipes : -p = -q => p = q
  /\ \A g, h \in Helps : -g = -h => g = h
  /\ \A h \in Helps, r \in Runs : -h # r
  /\ \A p \in Pipes, r \in Runs : -p # r
  /\ \A p \in Pipes, h \in Helps \ Pipes : -p # -h
<1>1. \A p, q \in Pipes : -p = -q => p = q BY IdsAssumption
<1>2. \A g, h \in Helps : -g = -h => g = h BY IdsAssumption
<1>3. \A h \in Helps, r \in Runs : -h # r BY IdsAssumption
<1>4. \A p \in Pipes, r \in Runs : -p # r BY IdsAssumption
<1>5. \A p \in Pipes, h \in Helps \ Pipes : -p # -h BY IdsAssumption
<1> QED BY <1>1, <1>2, <1>3, <1>4, <1>5

LEMMA DistinctOwners == \A q \in Pipes \ Helps, o \in Askers : -q # o
<1>1. \A q \in Pipes \ Helps, h \in Helps : -q # -h BY IdsAssumption
<1> QED BY <1>1, OwnerNumbers DEF Askers

LEMMA OwnerHoldsStep ==
  ASSUME TokenInv, OwnerHolds, [LeaseNext]_leaseVars
  PROVE  OwnerHolds'
<1>0. LeaseTypeOK BY DEF TokenInv
<1>1. CASE UNCHANGED <<room, lease, issued, held>> BY <1>1 DEF OwnerHolds
<1>2. ASSUME room' = Open(room) PROVE OwnerHolds' BY <1>2 DEF OwnerHolds, Open
<1>3. ASSUME NEW o \in Askers, Release(o) PROVE UNCHANGED <<room, lease>> \/ room' = Open(room)
  BY <1>3 DEF Release
<1>4. ASSUME NEW o \in Askers, Acquire(o) PROVE OwnerHolds'
  <2>1. room'.owner = o BY <1>4 DEF Acquire, Locked
  <2> QED BY <2>1, DistinctOwners DEF OwnerHolds
<1>5. ASSUME NEW p \in Pipes, GrantsPipe(p) PROVE OwnerHolds'
  <2>1. room'.owner = -p /\ room'.token = issued + 1 BY <1>5 DEF GrantsPipe, Grants, Locked
  <2>2. lease'[p].token = issued + 1 BY <1>0, <1>5 DEF GrantsPipe, LeaseTypeOK
  <2> QED BY <2>1, <2>2, OwnerNumbers DEF OwnerHolds
<1>6. ASSUME NEW p \in Pipes, Extends(p) PROVE OwnerHolds'
  <2>1. /\ room'.owner = -p /\ room'.token = room.token /\ room.owner = -p /\ room.state = "AI_INTERVENING"
        /\ lease'[p].token \in {room.token, lease[p].token}
    BY <1>0, <1>6 DEF Extends, LeaseTypeOK, Rooms
  <2>2. \A q \in Pipes : room.owner = -q => q = p BY <2>1, OwnerNumbers
  <2>3. p \notin Helps => lease[p].token = room.token BY <2>1 DEF OwnerHolds
  <2> QED BY <2>1, <2>2, <2>3 DEF OwnerHolds
<1>7. CASE Tick
  <2>1. /\ room'.state = room.state /\ room'.token = room.token /\ room'.owner = room.owner
        /\ \A q \in Pipes : lease'[q].token = lease[q].token
    BY <1>0, <1>7 DEF Tick, LeaseTypeOK, Rooms, Leases
  <2> QED BY <2>1 DEF OwnerHolds
<1>8. ASSUME UNCHANGED <<room, lease>> PROVE OwnerHolds' BY <1>8 DEF OwnerHolds
<1> QED BY <1>0, <1>1, <1>2, <1>3, <1>4, <1>5, <1>6, <1>7, <1>8, StepKinds DEF Frees, Drops, leaseVars

LEMMA HelpStageStep ==
  ASSUME LeaseTypeOK, HelpStage, [LeaseNext]_leaseVars
  PROVE  HelpStage'
<1> SUFFICES ASSUME NEW h \in Helps, help'[h] \in {"NONE", "QUEUED"}
             PROVE  held'[-h] = NoToken /\ seen'[-h] = NotRead
  BY DEF HelpStage
<1>0. -h \in Askers BY AskersAreInt
<1>1. help[h] \in {"NONE", "QUEUED"} => held[-h] = NoToken /\ seen[-h] = NotRead BY DEF HelpStage
<1>2. ASSUME NEW o \in Askers, ReadVersion(o) \/ Acquire(o) \/ GiveUp(o) \/ Release(o)
      PROVE  held'[-h] = NoToken /\ seen'[-h] = NotRead
  <2>1. help[h] \in {"NONE", "QUEUED"}
    BY <1>2 DEF LeaseTypeOK, ReadVersion, Acquire, GiveUp, Release
  <2>2. CASE ReadVersion(o)
    <3>1. o # -h BY <2>1, <2>2, OwnerNumbers DEF ReadVersion
    <3> QED BY <1>0, <1>1, <2>1, <2>2, <3>1 DEF ReadVersion, LeaseTypeOK
  <2>3. CASE Acquire(o)
    <3>1. o # -h BY <1>1, <2>1, <2>3 DEF Acquire
    <3> QED BY <1>0, <1>1, <2>1, <2>3, <3>1 DEF Acquire, LeaseTypeOK
  <2>4. CASE GiveUp(o) BY <1>0, <1>1, <2>1, <2>4 DEF GiveUp, LeaseTypeOK
  <2>5. CASE Release(o) BY <1>0, <1>1, <2>1, <2>5 DEF Release, LeaseTypeOK
  <2> QED BY <1>2, <2>2, <2>3, <2>4, <2>5
<1>3. ASSUME NEW p \in Pipes,
             ClaimOpen(p) \/ ClaimOwned(p) \/ ClaimTransfer(p) \/ Renew(p) \/ PublishPipe(p)
      PROVE  held'[-h] = NoToken /\ seen'[-h] = NotRead
  BY <1>1, <1>3 DEF ClaimOpen, ClaimOwned, ClaimTransfer, Renew, PublishPipe
<1>4. ASSUME NEW p \in Pipes, NEW r \in WrittenRows, WriteRow(p, r) \/ EndRow(p, r)
      PROVE  held'[-h] = NoToken /\ seen'[-h] = NotRead
  BY <1>1, <1>4 DEF WriteRow, EndRow
<1>5. ASSUME NEW g \in Helps,
             HelpAsk(g) \/ HelpClaim(g) \/ Preempt(g) \/ HelpPublish(g) \/ HelpFail(g)
      PROVE  held'[-h] = NoToken /\ seen'[-h] = NotRead
  BY <1>1, <1>5 DEF HelpAsk, HelpClaim, Preempt, EndActive, HelpPublish, HelpFail, LeaseTypeOK
<1>5a. ASSUME NEW g \in Helps, HelpRaises(g) PROVE held'[-h] = NoToken /\ seen'[-h] = NotRead
  <2>1. help' = help /\ -g \in Askers BY <1>5a, AskersAreInt DEF HelpRaises
  <2> QED BY <1>0, <1>1, <1>5a, <2>1 DEF HelpRaises, LeaseTypeOK
<1>5b. ASSUME NEW g \in Helps, HandlerFrees(g) \/ HandlerRecords(g)
      PROVE  held'[-h] = NoToken /\ seen'[-h] = NotRead
  <2>1. seen' = seen /\ held' = held BY <1>5b DEF HandlerFrees, HandlerRecords
  <2>2. help[h] \in {"NONE", "QUEUED"} BY <1>5b DEF HandlerFrees, HandlerRecords, LeaseTypeOK
  <2> QED BY <1>1, <2>1, <2>2
<1>6. ASSUME NEW r \in Runs, RunEnds(r) PROVE held'[-h] = NoToken /\ seen'[-h] = NotRead
  BY <1>1, <1>6 DEF RunEnds
<1>7. ASSUME Expire PROVE held'[-h] = NoToken /\ seen'[-h] = NotRead
  BY <1>1, <1>7 DEF Expire
<1>8. ASSUME CancelActive \/ Tick \/ Switch PROVE held'[-h] = NoToken /\ seen'[-h] = NotRead
  BY <1>1, <1>8 DEF CancelActive, EndActive, Tick, Switch
<1>9. ASSUME UNCHANGED leaseVars PROVE held'[-h] = NoToken /\ seen'[-h] = NotRead
  BY <1>1, <1>9 DEF leaseVars
<1> QED BY <1>2, <1>3, <1>4, <1>5, <1>5a, <1>5b, <1>6, <1>7, <1>8, <1>9 DEF LeaseNext

LEMMA WorkerGoneStep ==
  ASSUME LeaseTypeOK, WorkerGone, [LeaseNext]_leaseVars
  PROVE  WorkerGone'
<1> DEFINE Gone(h) == /\ handler'[h] # "no" => held'[-h] = NoToken
                      /\ handler'[h] # "no" \/ held'[-h] # NoToken => seen'[-h] = NotRead
<1> SUFFICES ASSUME NEW h \in Helps PROVE Gone(h) BY DEF WorkerGone
<1>0. -h \in Askers BY AskersAreInt
<1>1. /\ handler[h] # "no" => held[-h] = NoToken
      /\ handler[h] # "no" \/ held[-h] # NoToken => seen[-h] = NotRead
  BY DEF WorkerGone
<1>2. ASSUME UNCHANGED <<seen, held, handler>> PROVE Gone(h) BY <1>1, <1>2
<1>3. ASSUME NEW o \in Askers, ReadVersion(o) PROVE Gone(h)
  <2>1. held' = held /\ handler' = handler /\ held[o] = NoToken BY <1>3 DEF ReadVersion
  <2>2. CASE o = -h
    <3>1. handler[h] = "no" BY <1>3, <2>2, OwnerNumbers DEF ReadVersion
    <3> QED BY <2>1, <2>2, <3>1
  <2>3. CASE o # -h
    <3>1. seen'[-h] = seen[-h] BY <1>0, <1>3, <2>3 DEF ReadVersion, LeaseTypeOK
    <3> QED BY <1>1, <2>1, <3>1
  <2> QED BY <2>2, <2>3
<1>4. ASSUME NEW o \in Askers, Acquire(o) PROVE Gone(h)
  <2>1. handler' = handler BY <1>4 DEF Acquire
  <2>2. CASE o = -h
    <3>1. handler[h] = "no" BY <1>1, <1>4, <2>2 DEF Acquire
    <3>2. seen'[-h] = NotRead BY <1>0, <1>4, <2>2 DEF Acquire, LeaseTypeOK
    <3> QED BY <2>1, <3>1, <3>2
  <2>3. CASE o # -h
    <3>1. seen'[-h] = seen[-h] /\ held'[-h] = held[-h]
      BY <1>0, <1>4, <2>3 DEF Acquire, LeaseTypeOK
    <3> QED BY <1>1, <2>1, <3>1
  <2> QED BY <2>2, <2>3
<1>5. ASSUME NEW o \in Askers, GiveUp(o) PROVE Gone(h)
  <2>1. held' = held /\ handler' = handler BY <1>5 DEF GiveUp
  <2>2. seen'[-h] = seen[-h] \/ seen'[-h] = NotRead BY <1>0, <1>5 DEF GiveUp, LeaseTypeOK
  <2> QED BY <1>1, <2>1, <2>2
<1>6. ASSUME NEW o \in Askers, Release(o) PROVE Gone(h)
  <2>1. seen' = seen /\ held[o] # NoToken BY <1>6 DEF Release
  <2>2. CASE o = -h
    <3>1. held'[-h] = NoToken BY <1>0, <1>6, <2>2 DEF Release, LeaseTypeOK
    <3> QED BY <1>1, <2>1, <2>2, <3>1
  <2>3. CASE o # -h
    <3>1. held'[-h] = held[-h] BY <1>0, <1>6, <2>3 DEF Release, LeaseTypeOK
    <3>2. handler'[h] = handler[h] BY <1>6, <2>3 DEF Release, LeaseTypeOK
    <3> QED BY <1>1, <2>1, <3>1, <3>2
  <2> QED BY <2>2, <2>3
<1>7. ASSUME NEW g \in Helps, HelpRaises(g) PROVE Gone(h)
  <2>1. -g \in Askers BY AskersAreInt
  <2>2. CASE g = h
    <3>1. held'[-h] = NoToken /\ seen'[-h] = NotRead
      BY <1>0, <1>7, <2>2 DEF HelpRaises, LeaseTypeOK
    <3> QED BY <3>1
  <2>3. CASE g # h
    <3>1. -g # -h BY <2>3, OwnerNumbers
    <3>2. held'[-h] = held[-h] /\ seen'[-h] = seen[-h] /\ handler'[h] = handler[h]
      BY <1>0, <1>7, <2>1, <2>3, <3>1 DEF HelpRaises, LeaseTypeOK
    <3> QED BY <1>1, <3>2
  <2> QED BY <2>2, <2>3
<1>8. ASSUME NEW g \in Helps, HandlerFrees(g) \/ HandlerRecords(g) PROVE Gone(h)
  <2>1. held' = held /\ seen' = seen BY <1>8 DEF HandlerFrees, HandlerRecords
  <2>2. handler[h] = "no" => handler'[h] = "no"
    BY <1>8 DEF HandlerFrees, HandlerRecords, LeaseTypeOK
  <2> QED BY <1>1, <2>1, <2>2
<1>9. ASSUME NEW p \in Pipes,
             ClaimOpen(p) \/ ClaimOwned(p) \/ ClaimTransfer(p) \/ Renew(p) \/ PublishPipe(p)
      PROVE  Gone(h)
  BY <1>2, <1>9 DEF ClaimOpen, ClaimOwned, ClaimTransfer, Renew, PublishPipe
<1>10. ASSUME NEW p \in Pipes, NEW r \in WrittenRows, WriteRow(p, r) \/ EndRow(p, r) PROVE Gone(h)
  BY <1>2, <1>10 DEF WriteRow, EndRow
<1>11. ASSUME NEW g \in Helps,
              HelpAsk(g) \/ HelpClaim(g) \/ Preempt(g) \/ HelpPublish(g) \/ HelpFail(g)
       PROVE  Gone(h)
  BY <1>2, <1>11 DEF HelpAsk, HelpClaim, Preempt, EndActive, HelpPublish, HelpFail
<1>12. ASSUME \/ \E r \in Runs : RunEnds(r)
              \/ CancelActive \/ Expire \/ Tick \/ Switch \/ UNCHANGED leaseVars
       PROVE  Gone(h)
  BY <1>2, <1>12 DEF RunEnds, CancelActive, EndActive, Expire, Tick, Switch, leaseVars
<1> QED BY <1>3, <1>4, <1>5, <1>6, <1>7, <1>8, <1>9, <1>10, <1>11, <1>12 DEF LeaseNext

LEMMA NoOrphanHelpStep ==
  ASSUME HelpInv, [LeaseNext]_leaseVars
  PROVE  NoOrphanHelp'
<1> DEFINE Keeps(h) == room'.state = "AI_INTERVENING" /\ room'.token = held'[-h]
<1> SUFFICES ASSUME NEW h \in Helps \ Pipes, help'[h] = "RUNNING", held'[-h] # NoToken
             PROVE  Keeps(h)
  BY DEF NoOrphanHelp
<1>0. LeaseTypeOK /\ TokenOwner /\ -h \in Askers BY AskersAreInt DEF HelpInv, TokenInv
\* Before the step a running request with a token is the owner of the room.
<1>1. ASSUME help[h] = "RUNNING", held[-h] # NoToken
      PROVE  /\ room.state = "AI_INTERVENING" /\ room.token = held[-h] /\ room.owner = -h
             /\ \A p \in Pipes : room.owner # -p /\ ~Owns(p)
             /\ \A o \in Askers : held[o] = room.token => o = -h
  <2>1. room.state = "AI_INTERVENING" /\ room.token = held[-h] BY <1>1 DEF HelpInv, NoOrphanHelp
  <2>2. room.owner = -h BY <1>0, <2>1 DEF TokenOwner
  <2>3. \A p \in Pipes : room.owner # -p BY <2>2, OwnerNumbers
  <2>4. \A o \in Askers : held[o] = room.token => o = -h BY <1>0, <2>1, <2>2 DEF TokenOwner
  <2> QED BY <2>1, <2>2, <2>3, <2>4 DEF Owns
<1>2. ASSUME NEW o \in Askers, ReadVersion(o) \/ GiveUp(o) PROVE Keeps(h)
  <2>1. room' = room /\ held' = held /\ help[h] = "RUNNING"
    BY <1>0, <1>2 DEF ReadVersion, GiveUp, LeaseTypeOK
  <2> QED BY <1>1, <2>1
<1>3. ASSUME NEW o \in Askers, Acquire(o) PROVE Keeps(h)
  <2>1. CASE o = -h
    BY <1>0, <1>3, <2>1 DEF Acquire, Locked, LeaseTypeOK
  <2>2. CASE o # -h
    <3>1. held'[-h] = held[-h] /\ help[h] = "RUNNING" /\ room.state = "OPEN"
      BY <1>0, <1>3, <2>2 DEF Acquire, LeaseTypeOK
    <3> QED BY <1>1, <3>1
  <2> QED BY <2>1, <2>2
<1>4. ASSUME NEW o \in Askers, Release(o) PROVE Keeps(h)
  <2>1. help[h] = "RUNNING" BY <1>4 DEF Release
  <2>2. o # -h BY <1>4, <2>1 DEF Release
  <2>3. held'[-h] = held[-h] BY <1>0, <1>4, <2>2 DEF Release, LeaseTypeOK
  <2>4. room.token # held[o] BY <1>1, <2>1, <2>2, <2>3
  <2> QED BY <1>1, <1>4, <2>1, <2>3, <2>4 DEF Release
<1>5. ASSUME NEW p \in Pipes, ClaimOpen(p) \/ ClaimTransfer(p) \/ PublishPipe(p) PROVE FALSE
  <2>1. held' = held /\ help' = help BY <1>5 DEF ClaimOpen, ClaimTransfer, PublishPipe
  <2>2. \/ room.state = "OPEN" \/ \E q \in Pipes : room.owner = -q \/ Owns(q)
    BY <1>5 DEF ClaimOpen, ClaimTransfer, PublishPipe
  <2> QED BY <1>1, <2>1, <2>2
<1>6. ASSUME NEW p \in Pipes, ClaimOwned(p) \/ Renew(p) PROVE FALSE
  <2>1. held' = held /\ help' = help /\ room.owner = -p
    BY <1>6 DEF ClaimOwned, Renew, Renewable, RenewableExpired, Owns
  <2> QED BY <1>1, <2>1
<1>7. ASSUME NEW p \in Pipes, NEW r \in WrittenRows, WriteRow(p, r) \/ EndRow(p, r) PROVE Keeps(h)
  <2>1. held' = held /\ help' = help BY <1>7 DEF WriteRow, EndRow
  <2>2. room' = room BY <1>1, <1>7, <2>1 DEF WriteRow, EndRow, FreeIfOwner
  <2> QED BY <1>1, <2>1, <2>2
<1>8. ASSUME NEW g \in Helps, HelpAsk(g) \/ HelpClaim(g) \/ HelpFail(g) PROVE Keeps(h)
  <2>1. room' = room /\ held' = held BY <1>8 DEF HelpAsk, HelpClaim, HelpFail
  <2>2. help[h] = "RUNNING" \/ help[h] = "QUEUED"
    BY <1>0, <1>8 DEF HelpAsk, HelpClaim, HelpFail, LeaseTypeOK
  <2>3. help[h] # "QUEUED" BY <2>1 DEF HelpInv, HelpStage
  <2> QED BY <1>1, <2>1, <2>2, <2>3
<1>8a. ASSUME NEW g \in Helps, HelpRaises(g) PROVE Keeps(h)
  <2>1. room' = room /\ help' = help /\ -g \in Askers BY <1>8a, AskersAreInt DEF HelpRaises
  <2>2. held'[-h] = held[-h] BY <1>0, <1>8a DEF HelpRaises, LeaseTypeOK
  <2> QED BY <1>1, <2>1, <2>2
<1>8b. ASSUME NEW g \in Helps, HandlerFrees(g) PROVE Keeps(h)
  <2>1. held' = held /\ help' = help BY <1>8b DEF HandlerFrees
  <2>2. handler[g] = "free" BY <1>8b DEF HandlerFrees
  <2>3. handler[h] # "free" BY <1>1, <2>1 DEF HelpInv, WorkerGone
  <2>4. -g # -h BY <2>2, <2>3, OwnerNumbers
  <2>5. room' = room BY <1>1, <1>8b, <2>1, <2>4 DEF HandlerFrees
  <2> QED BY <1>1, <2>1, <2>5
<1>8c. ASSUME NEW g \in Helps, HandlerRecords(g) PROVE Keeps(h)
  <2>1. room' = room /\ held' = held BY <1>8c DEF HandlerRecords
  <2>2. help[h] = "RUNNING" BY <1>0, <1>8c DEF HandlerRecords, LeaseTypeOK
  <2> QED BY <1>1, <2>1, <2>2
<1>9. ASSUME NEW P, NEW final, P \subseteq Pipes, EndActive(P, final) PROVE Keeps(h)
  <2>1. held' = held /\ help' = help BY <1>9 DEF EndActive
  <2>2. room' = room BY <1>1, <1>9, <2>1 DEF EndActive, FreeIfOwner
  <2> QED BY <1>1, <2>1, <2>2
<1>9a. ASSUME CancelActive \/ \E g \in Helps : Preempt(g) PROVE Keeps(h)
  BY <1>9, <1>9a DEF Preempt, CancelActive
<1>10. ASSUME NEW g \in Helps, HelpPublish(g) PROVE FALSE
  <2>1. held' = held /\ held[-g] = room.token /\ -g \in Askers
    BY <1>10, AskersAreInt DEF HelpPublish
  <2>2. g # h BY <1>0, <1>10 DEF HelpPublish, LeaseTypeOK
  <2>3. help[h] = "RUNNING" BY <1>0, <1>10, <2>2 DEF HelpPublish, LeaseTypeOK
  <2>4. -g = -h BY <1>1, <2>1, <2>3
  <2> QED BY <2>2, <2>4, OwnerNumbers
<1>11. ASSUME NEW r \in Runs, RunEnds(r) PROVE Keeps(h) BY <1>1, <1>11 DEF RunEnds
<1>12. ASSUME Expire PROVE FALSE
  <2>1. held' = held /\ help[h] = "RUNNING" BY <1>0, <1>12 DEF Expire, LeaseTypeOK
  <2>2. {p \in Pipes : Owns(p)} = {} /\ room.owner = -h BY <1>1, <2>1
  <2>3. help'[h] = "FAILED" BY <1>12, <2>1, <2>2 DEF Expire
  <2> QED BY <2>3
<1>13. ASSUME Tick PROVE Keeps(h)
  <2>1. held' = held /\ help' = help /\ room'.state = room.state /\ room'.token = room.token
    BY <1>0, <1>13 DEF Tick, LeaseTypeOK, Rooms
  <2> QED BY <1>1, <2>1
<1>14. ASSUME Switch \/ UNCHANGED leaseVars PROVE Keeps(h) BY <1>1, <1>14 DEF Switch, leaseVars
<1> QED BY <1>2, <1>3, <1>4, <1>5, <1>6, <1>7, <1>8, <1>10, <1>11, <1>12, <1>13, <1>14,
        <1>8a, <1>8b, <1>8c, <1>9a DEF LeaseNext

\* Nobody takes the room from a help worker that goes on with a running request,
\* one whose number no pipeline has, without ending the request.  (A worker that has
\* raised an exception keeps no token: process_student_help() then frees the room
\* while the request is still RUNNING, and may fail to record that it FAILED.)
THEOREM HelpKeepsRoom == LeaseSpec => []NoOrphanHelp
<1>1. LeaseInit => HelpInv
  <2> SUFFICES ASSUME LeaseInit PROVE HelpInv OBVIOUS
  <2>1. \A o \in Askers : held[o] = NoToken /\ seen[o] = NotRead BY DEF LeaseInit
  <2> QED BY <2>1, AskersAreInt, TokenInit DEF HelpInv, HelpStage, WorkerGone, NoOrphanHelp
<1>2. HelpInv /\ [LeaseNext]_leaseVars => HelpInv'
  BY TokenStep, HelpStageStep, WorkerGoneStep, NoOrphanHelpStep DEF HelpInv, TokenInv
<1>3. HelpInv => NoOrphanHelp BY DEF HelpInv
<1> QED BY <1>1, <1>2, <1>3, PTL DEF LeaseSpec

LEMMA OwnerInvAlways == LeaseSpec => []OwnerInv
<1>1. LeaseInit => OwnerInv
  <2> SUFFICES ASSUME LeaseInit PROVE OwnerHolds BY TokenInit DEF OwnerInv
  <2>1. ASSUME room = FreshRoom PROVE OwnerHolds BY <2>1 DEF OwnerHolds, FreshRoom
  <2>2. ASSUME NEW l \in LegacyOwners, room = Locked(FreshRoom, 1, InitialTtl, -l),
               lease = [p \in Pipes |-> IF p = l THEN [token |-> 1, age |-> 0] ELSE NoLease]
        PROVE OwnerHolds
    <3>1. room.owner = -l /\ room.token = 1 /\ l \in Pipes BY <2>2, IdsAssumption DEF Locked
    <3>2. lease[l].token = 1 BY <2>2, <3>1
    <3> QED BY <3>1, <3>2, OwnerNumbers DEF OwnerHolds
  <2> QED BY <2>1, <2>2 DEF LeaseInit
<1>2. OwnerInv /\ [LeaseNext]_leaseVars => OwnerInv' BY TokenStep, OwnerHoldsStep DEF OwnerInv
<1> QED BY <1>1, <1>2, PTL DEF LeaseSpec

\* A lease is handed over directly only by the number of an active batch-less
\* pipeline, and if no help request has that number the pipeline owns the lease
\* (claim_strategy_pipeline(), _can_transfer_stage1_pipeline_lease()).
THEOREM HandedOverByNumber == LeaseSpec => TransferByNumber
<1> DEFINE Giver(q) == /\ room.owner = -q /\ row[q].batch = "none" /\ row[q].final \in Active
                       /\ Owns(q) \/ q \in Helps
           A == room.state = "AI_INTERVENING" /\ room'.token \notin {NoToken, room.token} =>
                  \E q \in Pipes : Giver(q)
<1>1. OwnerInv /\ [LeaseNext]_leaseVars => [A]_leaseVars
  <2> SUFFICES ASSUME OwnerInv, LeaseNext, room.state = "AI_INTERVENING",
                      room'.token \notin {NoToken, room.token}
               PROVE  \E q \in Pipes : Giver(q)
    OBVIOUS
  <2>0. LeaseTypeOK BY DEF OwnerInv, TokenInv
  <2>1. room' # room /\ room' # Open(room) BY DEF Open
  <2>2. ASSUME NEW o \in Askers, Release(o) \/ Acquire(o) PROVE FALSE
    BY <2>1, <2>2 DEF Release, Acquire
  <2>3. ASSUME NEW p \in Pipes, Extends(p) PROVE FALSE
    BY <2>0, <2>3 DEF Extends, LeaseTypeOK, Rooms
  <2>4. ASSUME Tick PROVE FALSE BY <2>0, <2>4 DEF Tick, LeaseTypeOK, Rooms
  <2>5. ASSUME NEW p \in Pipes, GrantsPipe(p) PROVE \E q \in Pipes : Giver(q)
    <3>1. PICK q \in Pipes : room.owner = -q /\ CanTransfer(q, p) BY <2>5 DEF GrantsPipe
    <3>2. q \notin Helps => lease[q].token = room.token BY <3>1 DEF OwnerInv, OwnerHolds
    <3>3. Owns(q) \/ q \in Helps BY <3>1, <3>2 DEF Owns
    <3> QED BY <3>1, <3>3 DEF CanTransfer
  <2> QED BY <2>0, <2>1, <2>2, <2>3, <2>4, <2>5, StepKinds DEF Frees, Drops
<1> QED BY <1>1, OwnerInvAlways, PTL DEF LeaseSpec, TransferByNumber

\* A lease whose deadline has passed is never brought back by a renewal.
THEOREM NoRevival == LeaseSpec => ExpiredStaysExpired
<1> DEFINE A == room.state = "AI_INTERVENING" /\ room.ttl = 0 /\ room'.token = room.token
                  => room'.ttl = 0
<1>1. TokenInv /\ [LeaseNext]_leaseVars => [A]_leaseVars
  <2> SUFFICES ASSUME TokenInv, LeaseNext, room.state = "AI_INTERVENING", room.ttl = 0,
                      room'.token = room.token
               PROVE  room'.ttl = 0
    OBVIOUS
  <2>0. LeaseTypeOK BY DEF TokenInv
  <2>1. CASE room' = room BY <2>1
  <2>2. CASE room' = Open(room) BY <2>2 DEF Open
  <2>3. ASSUME NEW o \in Askers, Release(o) PROVE room' = room \/ room' = Open(room)
    BY <2>3 DEF Release
  <2>4. ASSUME NEW o \in Askers, Acquire(o) PROVE FALSE BY <2>4 DEF Acquire
  <2>5. ASSUME NEW p \in Pipes, GrantsPipe(p) PROVE FALSE
    <3>1. room'.token = issued + 1 BY <2>5 DEF GrantsPipe, Grants, Locked
    <3>2. room.token <= issued /\ room.token \in Int /\ issued \in Int
      BY <2>0, SecondsAssumption DEF TokenInv, TokensIssued, LeaseTypeOK, Rooms, Tokens, NoToken
    <3> QED BY <3>1, <3>2
  <2>6. ASSUME NEW p \in Pipes, Extends(p) PROVE FALSE BY <2>6 DEF Extends
  <2>7. ASSUME Tick PROVE room'.ttl = 0 BY <2>0, <2>7 DEF Tick, LeaseTypeOK, Rooms
  <2> QED BY <2>0, <2>1, <2>2, <2>3, <2>4, <2>5, <2>6, <2>7, StepKinds DEF Frees, Drops
<1> QED BY <1>1, TokensNameOwners, PTL DEF LeaseSpec, ExpiredStaysExpired
=============================================================================
