----------------------------- MODULE BatchProofs -----------------------------
(* What AssessmentBatch promises, for any number of workers, callers,        *)
(* messages, attempts, faults and replays.                                   *)
(*                                                                           *)
(* BatchInv has four parts.  TypesInv adds to the types what each place of a *)
(* process says of its windows.  StartsInv says that until a replay every    *)
(* window, planned or requested, begins at or before the next message to be  *)
(* scheduled, without which the cursor could pass a message nobody assessed. *)
(* SoloInv says that a row is active for one reason at a time: a task, a     *)
(* process that enqueues one, or a worker.  NoStranded is inductive alone.   *)
EXTENDS AssessmentBatch, FiniteSetTheorems, WellFoundedInduction, TLAPS

Enqueuing == {"enqueue", "refused"}           \* a claimed window is in hand
Asking == {"recover", "ask"} \cup Enqueuing   \* inside request_state_assessment()
AtWork == {"claimed", "assess", "read"}
OnWindow == AtWork \cup {"retrying", "saved", "judged"}
Places == {"idle"} \cup Asking \cup OnWindow

CountsFit ==
  /\ posted \in 0 .. MaxMessages /\ open \in BOOLEAN
  /\ lost \in 0 .. MaxLost /\ unmarked \in 0 .. MaxUnmarked /\ replays \in 0 .. MaxReplays
CursorFits(c) ==
  /\ c \in [finalized : 0 .. MaxMessages, scheduled : 0 .. MaxMessages]
  /\ c.finalized <= c.scheduled
RowFits(b) ==
  /\ b \in Batches
  /\ b.status = "none" => ~b.terminal
  /\ b.status = "pending" => b.attempts < MaxAttempts
RowsFit(bs) == bs \in [Windows -> Batches] /\ \A w \in Windows : RowFits(bs[w])

\* Who enqueues has a window to enqueue.
CallsFit ==
  /\ pc \in [Procs -> Places]
  /\ back \in [Procs -> {"idle", "judged"}]
  /\ req \in [Procs -> Requests]
  /\ target \in [Procs -> Windows \cup {NoWindow}]
  /\ \A p \in Procs : pc[p] \in Enqueuing => target[p] \in Windows

\* A worker keeps its window until it leaves, also while it asks for newer
\* messages; the row of its window exists.
WorkFits ==
  /\ win \in [Workers -> Windows \cup {NoWindow}]
  /\ plan \in [Workers -> [rerun : BOOLEAN, next : Requests]]
  /\ \A v \in Workers :
       /\ back[v] = "judged" => pc[v] \in Asking
       /\ pc[v] \in OnWindow \/ back[v] = "judged" =>
            win[v] \in Windows /\ batch[win[v]].status # "none"

TypesInv ==
  /\ CountsFit
  /\ CursorFits(cursor)
  /\ RowsFit(batch)
  /\ tasks \in [Windows -> Nat]
  /\ CallsFit
  /\ WorkFits

Settled(b) == b.status = "succeeded" \/ b.terminal
Next1 == cursor.scheduled + 1                 \* the next message to be scheduled
StartsInv ==
  replays = 0 =>
    /\ \A w \in Windows : batch[w].status # "none" => w[1] <= Next1
    /\ \A w \in Windows : batch[w].queued.start <= Next1
    /\ \A p \in Procs : req[p].start <= Next1
    /\ \A v \in Workers : plan[v].next.start <= Next1
    /\ \A m \in 1 .. cursor.scheduled : \E w \in Windows : Within(m, w) /\ Settled(batch[w])

\* The index of the one active batch, and what keeps it active.
OneActive ==
  \A u, w \in Windows :
    batch[u].status \in ActiveStatus /\ batch[w].status \in ActiveStatus => u = w
OneReason ==
  /\ \A v \in Workers : pc[v] \in AtWork => batch[win[v]].status = "running"
  /\ \A u, v \in Workers : pc[u] \in AtWork /\ pc[v] \in AtWork => u = v
  /\ \A w \in Windows :
       /\ tasks[w] <= 1
       /\ tasks[w] > 0 =>
            /\ batch[w].status = "pending"
            /\ \A p \in Procs : pc[p] \in Enqueuing => target[p] # w
  /\ \A p \in Procs : pc[p] \in Enqueuing => batch[target[p]].status = "pending"
  /\ \A p, q \in Procs : pc[p] \in Enqueuing /\ pc[q] \in Enqueuing => p = q
SoloInv == OneActive /\ (unmarked = 0 => OneReason)

BatchInv == TypesInv /\ StartsInv /\ SoloInv /\ NoStranded

-----------------------------------------------------------------------------
(* Numbers and windows.                                                      *)

LEMMA LeastOf ==
  ASSUME NEW S, S \subseteq Nat, S # {} PROVE \E m \in S : \A n \in S : m <= n
<1>1. PICK m \in S : \A n \in S : ~ (<<n, m>> \in OpToRel(<, Nat))
  BY WFMin, NatLessThanWellFounded, Zenon
<1>2. ASSUME NEW n \in S PROVE ~(n < m)
  <2>1. ~(<<n, m>> \in OpToRel(<, Nat)) BY <1>1
  <2>2. n \in Nat /\ m \in Nat OBVIOUS
  <2> QED BY <2>1, <2>2, Zenon DEF OpToRel
<1> QED BY <1>2

LEMMA WindowFacts ==
  ASSUME NEW w \in Windows
  PROVE  /\ w[1] \in 1 .. MaxMessages /\ w[2] \in 1 .. MaxMessages
         /\ w[1] <= w[2] /\ w # NoWindow
BY BatchAssumption DEF Windows, Positions, NoWindow

\* What recover_exhausted_batches() moves the cursor to is well defined.
LastOf(over) == CHOOSE m \in 0 .. MaxMessages :
                  (\A w \in over : w[2] <= m) /\ (m = 0 \/ \E w \in over : w[2] = m)
LEMMA LastExists ==
  ASSUME NEW over, over \subseteq Windows
  PROVE  /\ LastOf(over) \in 0 .. MaxMessages
         /\ \A w \in over : w[2] <= LastOf(over)
         /\ LastOf(over) # 0 => \E w \in over : w[2] = LastOf(over)
<1> DEFINE bounds == {m \in 0 .. MaxMessages : \A w \in over : w[2] <= m}
<1>1. \A w \in over : w[2] \in 1 .. MaxMessages BY WindowFacts
<1>2. MaxMessages \in bounds BY <1>1, BatchAssumption
<1>3. PICK m \in bounds : \A n \in bounds : m <= n
  <2>1. bounds \subseteq Nat BY BatchAssumption
  <2> QED BY <1>2, <2>1, LeastOf
<1>4. m = 0 \/ \E w \in over : w[2] = m
  <2> SUFFICES ASSUME m # 0, \A w \in over : w[2] # m PROVE FALSE
      OBVIOUS
  <2>1. m \in 0 .. MaxMessages /\ \A w \in over : w[2] <= m BY <1>3
  <2>2. \A w \in over : w[2] <= m - 1 BY <1>1, <2>1
  <2>3. m - 1 \in bounds BY <2>1, <2>2, BatchAssumption
  <2>4. m <= m - 1 BY <1>3, <2>3
  <2> QED BY <2>1, <2>4
<1>5. \E n \in 0 .. MaxMessages :
        (\A w \in over : w[2] <= n) /\ (n = 0 \/ \E w \in over : w[2] = n)
  BY <1>3, <1>4
<1> QED BY <1>5 DEF LastOf

\* The window prepare_scope_reprocessing() goes back to begins first.
LEMMA FirstExists ==
  ASSUME NEW ws, ws \subseteq Windows, ws # {}, NEW from, Replayable(ws, from)
  PROVE  /\ from \in 0 .. MaxMessages
         /\ \A w \in ws : from < w[1]
         /\ cursor.finalized <= from
<1> DEFINE starts == {m \in Positions : \E w \in ws : w[1] = m}
<1> DEFINE first == CHOOSE m \in Positions : (\E w \in ws : w[1] = m) /\ \A w \in ws : m <= w[1]
<1>1. \A w \in ws : w[1] \in 1 .. MaxMessages BY WindowFacts
<1>2. starts \subseteq Nat /\ starts # {} BY <1>1 DEF Positions
<1>3. PICK m \in starts : \A n \in starts : m <= n BY <1>2, LeastOf
<1>4. \A w \in ws : w[1] \in starts BY <1>1 DEF Positions
<1>5. \E n \in Positions : (\E w \in ws : w[1] = n) /\ \A w \in ws : n <= w[1]
  BY <1>3, <1>4
<1>6. first \in Positions /\ \A w \in ws : first <= w[1] BY <1>5
<1>7. from = first - 1 /\ cursor.finalized <= from BY DEF Replayable
<1> HIDE DEF first
<1>8. first \in 1 .. MaxMessages BY <1>6 DEF Positions
<1>9. from \in 0 .. MaxMessages BY <1>7, <1>8, BatchAssumption
<1>10. \A w \in ws : from < w[1] BY <1>1, <1>6, <1>7, <1>8
<1> QED BY <1>7, <1>9, <1>10

\* Requests with a bound.
LEMMA CutTypes ==
  ASSUME NEW k \in BOOLEAN, NEW c \in 0 .. MaxMessages
  PROVE  /\ Anything(k) \in Requests /\ Anything(k).start = 0
         /\ [Anything(k) EXCEPT !.cut = c] \in Requests
         /\ [Anything(k) EXCEPT !.cut = c].start = 0
<1>1. 0 \in 0 .. MaxMessages BY BatchAssumption
<1>2. Anything(k) \in Requests BY <1>1 DEF Anything, Requests
<1>3. Anything(k).start = 0 BY DEF Anything
<1> QED BY <1>2, <1>3 DEF Requests

LEMMA ContractTypes ==
  ASSUME RowsFit(batch), NEW w \in Windows
  PROVE  /\ Contract(w) \in Requests
         /\ Contract(w).start \in {0, batch[w].queued.start}
<1>1. batch[w] \in Batches BY DEF RowsFit
<1>2. batch[w].cut \in 0 .. MaxMessages
  /\ batch[w].queued \in [cut : 0 .. MaxMessages, start : 0 .. MaxMessages]
  BY <1>1 DEF Batches
<1>3. 0 \in 0 .. MaxMessages /\ TRUE \in BOOLEAN BY BatchAssumption
<1> DEFINE own == IF batch[w].cut > w[2] THEN batch[w].cut ELSE 0
<1>4. own \in 0 .. MaxMessages BY <1>2, <1>3
<1>5. [Anything(TRUE) EXCEPT !.cut = own] \in Requests
      /\ [Anything(TRUE) EXCEPT !.cut = own].start = 0
  BY <1>3, <1>4, CutTypes
<1>6. Contract(w) = IF batch[w].queued.cut # 0
                    THEN [cut |-> batch[w].queued.cut, start |-> batch[w].queued.start,
                          continuation |-> TRUE]
                    ELSE [Anything(TRUE) EXCEPT !.cut = own]
  BY DEF Contract
<1> HIDE DEF own
<1>7. CASE batch[w].queued.cut # 0
  <2> DEFINE k == TRUE
  <2>1. k \in BOOLEAN OBVIOUS
  <2>2. Contract(w) = [cut |-> batch[w].queued.cut, start |-> batch[w].queued.start, continuation |-> k]
    BY <1>6, <1>7
  <2> HIDE DEF k
  <2> QED BY <1>2, <2>1, <2>2 DEF Requests
<1>8. CASE batch[w].queued.cut = 0 BY <1>5, <1>6, <1>8
<1> QED BY <1>7, <1>8

\* A window that may be claimed is a window, and begins where the request says
\* or after the cursor.
LEMMA ClaimedWindow ==
  ASSUME TypesInv, NEW p \in Procs, MayClaim(p)
  PROVE  /\ Window(req[p]) \in Windows
         /\ Window(req[p])[1] \in {req[p].start, Next1}
<1> DEFINE r == req[p]
           f == FirstRow(r)
           l == LastRow(r)
<1>1. r \in Requests BY DEF TypesInv, CallsFit
<1>2. r.start \in 0 .. MaxMessages /\ r.cut \in 0 .. MaxMessages BY <1>1 DEF Requests
<1>3. cursor.scheduled \in 0 .. MaxMessages /\ posted \in 0 .. MaxMessages
  BY DEF TypesInv, CursorFits, CountsFit
<1>4. f \in {r.start, Next1} /\ f \in Nat /\ f >= 1
  BY <1>2, <1>3, BatchAssumption DEF FirstRow, Next1
<1>5. l \in 0 .. MaxMessages BY <1>2, <1>3, BatchAssumption DEF LastRow, Low
<1>6. f <= l BY DEF MayClaim
<1>7. Window(r) = <<f, Low(l, f + MaxCandidate - 1)>> BY DEF Window
<1> HIDE DEF f, l
<1>8. f \in Positions /\ Low(l, f + MaxCandidate - 1) \in Positions
      /\ f <= Low(l, f + MaxCandidate - 1) /\ Low(l, f + MaxCandidate - 1) < f + MaxCandidate
  BY <1>4, <1>5, <1>6, BatchAssumption DEF Positions, Low
<1>9. Window(r) \in Windows /\ Window(r)[1] = f BY <1>7, <1>8 DEF Windows
<1> QED BY <1>4, <1>9 DEF r

-----------------------------------------------------------------------------
(* Frames: what a step has to respect.                                       *)

LEMMA GoFacts ==
  ASSUME TypesInv, NEW p \in Procs, NEW place \in Places, Go(p, place)
  PROVE  /\ pc' \in [Procs -> Places] /\ pc'[p] = place
         /\ \A q \in Procs : q # p => pc'[q] = pc[q]
BY DEF Go, TypesInv, CallsFit

\* A request begins.
LEMMA AskFacts ==
  ASSUME TypesInv, NEW p \in Procs, NEW r \in Requests, NEW place \in {"idle", "judged"},
         Ask(p, r, place)
  PROVE  /\ pc' \in [Procs -> Places] /\ pc'[p] = "recover" /\ back'[p] = place
         /\ back' \in [Procs -> {"idle", "judged"}] /\ req' \in [Procs -> Requests]
         /\ req'[p] = r
         /\ \A q \in Procs : q # p => pc'[q] = pc[q] /\ back'[q] = back[q] /\ req'[q] = req[q]
<1>1. "recover" \in Places BY DEF Places, Asking
<1>2. pc' \in [Procs -> Places] /\ pc'[p] = "recover" /\ \A q \in Procs : q # p => pc'[q] = pc[q]
  BY <1>1, GoFacts DEF Ask
<1>3. /\ back' \in [Procs -> {"idle", "judged"}] /\ back'[p] = place
      /\ \A q \in Procs : q # p => back'[q] = back[q]
  BY DEF Ask, TypesInv, CallsFit
<1>4. /\ req' \in [Procs -> Requests] /\ req'[p] = r
      /\ \A q \in Procs : q # p => req'[q] = req[q]
  BY DEF Ask, TypesInv, CallsFit
<1> QED BY <1>2, <1>3, <1>4

\* A request ends.
LEMMA ReturnFacts ==
  ASSUME TypesInv, NEW p \in Procs, Return(p)
  PROVE  /\ pc' \in [Procs -> Places] /\ pc'[p] = back[p] /\ back'[p] = "idle"
         /\ pc'[p] \in {"idle", "judged"}
         /\ back' \in [Procs -> {"idle", "judged"}] /\ req' \in [Procs -> Requests]
         /\ target' \in [Procs -> Windows \cup {NoWindow}]
         /\ req'[p].start = 0
         /\ \A q \in Procs : q # p => /\ pc'[q] = pc[q] /\ back'[q] = back[q]
                                      /\ req'[q] = req[q] /\ target'[q] = target[q]
<1>1. back[p] \in {"idle", "judged"} BY DEF TypesInv, CallsFit
<1>2. back[p] \in Places BY <1>1 DEF Places, OnWindow
<1>3. pc' \in [Procs -> Places] /\ pc'[p] = back[p] /\ \A q \in Procs : q # p => pc'[q] = pc[q]
  BY <1>2, GoFacts DEF Return
<1>4. /\ back' \in [Procs -> {"idle", "judged"}] /\ back'[p] = "idle"
      /\ \A q \in Procs : q # p => back'[q] = back[q]
  BY DEF Return, TypesInv, CallsFit
<1> DEFINE nothing == Anything(FALSE)
<1>5. nothing \in Requests /\ nothing.start = 0 
  <2>1. 0 \in 0 .. MaxMessages /\ FALSE \in BOOLEAN BY BatchAssumption
  <2> QED BY <2>1, CutTypes
<1>6. req' = [req EXCEPT ![p] = nothing] BY DEF Return
<1> HIDE DEF nothing
<1>7. /\ req' \in [Procs -> Requests] /\ req'[p].start = 0
      /\ \A q \in Procs : q # p => req'[q] = req[q]
  BY <1>5, <1>6 DEF TypesInv, CallsFit
<1>8. /\ target' \in [Procs -> Windows \cup {NoWindow}]
      /\ \A q \in Procs : q # p => target'[q] = target[q]
  BY DEF Return, TypesInv, CallsFit
<1> QED BY <1>1, <1>3, <1>4, <1>7, <1>8

\* One row is written.
LEMMA RowWritten ==
  ASSUME RowsFit(batch), NEW w \in Windows, NEW r, RowFits(r), batch' = [batch EXCEPT ![w] = r]
  PROVE  /\ RowsFit(batch') /\ batch'[w] = r
         /\ \A u \in Windows : u # w => batch'[u] = batch[u]
BY DEF RowsFit, RowFits

\* The windows of workers, when no row disappears.
LEMMA WorkKeeps ==
  ASSUME TypesInv,
         win' \in [Workers -> Windows \cup {NoWindow}],
         plan' \in [Workers -> [rerun : BOOLEAN, next : Requests]],
         \A w \in Windows : batch'[w].status = "none" => batch[w].status = "none",
         \A v \in Workers :
           \/ pc'[v] = pc[v] /\ back'[v] = back[v] /\ win'[v] = win[v]
           \/ /\ back'[v] = "judged" => pc'[v] \in Asking
              /\ pc'[v] \in OnWindow \/ back'[v] = "judged" =>
                   win'[v] \in Windows /\ batch'[win'[v]].status # "none"
  PROVE  WorkFits'
BY DEF WorkFits, TypesInv

\* The parts of StartsInv, each for a step that does not begin a replay.
StartsStep ==
  replays' = 0 =>
    /\ replays = 0
    /\ cursor.scheduled <= cursor'.scheduled
    /\ \A w \in Windows :
         /\ batch'[w].status # "none" => batch[w].status # "none" \/ w[1] <= Next1
         /\ batch'[w].queued.start = batch[w].queued.start \/ batch'[w].queued.start <= Next1
         /\ Settled(batch[w]) => Settled(batch'[w])
    /\ \A p \in Procs : req'[p].start = req[p].start \/ req'[p].start <= Next1
    /\ \A v \in Workers : \/ plan'[v].next.start = plan[v].next.start
                          \/ plan'[v].next.start <= Next1
    /\ \A m \in Next1 .. cursor'.scheduled :
         \E w \in Windows : Within(m, w) /\ Settled(batch'[w])

LEMMA StartsKept ==
  ASSUME TypesInv, TypesInv', StartsInv, StartsStep PROVE StartsInv'
<1> SUFFICES ASSUME replays' = 0 PROVE StartsInv'
    BY DEF StartsInv
<1>1. /\ cursor.scheduled \in 0 .. MaxMessages /\ cursor'.scheduled \in 0 .. MaxMessages
      /\ Next1 = cursor.scheduled + 1 /\ Next1' = cursor'.scheduled + 1
  BY DEF TypesInv, CursorFits, Next1
<1>2. Next1 \in Nat /\ Next1' \in Nat /\ Next1 <= Next1' BY <1>1, BatchAssumption DEF StartsStep
<1>3. \A w \in Windows : batch'[w].status # "none" => w[1] <= Next1'
  BY <1>2, WindowFacts DEF StartsStep, StartsInv
<1>4. \A w \in Windows : batch'[w].queued.start \in Nat
  BY BatchAssumption DEF TypesInv, RowsFit, Batches
<1>5. \A w \in Windows : batch'[w].queued.start <= Next1'
  BY <1>2, <1>4 DEF StartsStep, StartsInv
<1>6. \A p \in Procs : req'[p].start <= Next1'
  <2>1. \A p \in Procs : req'[p].start \in Nat
    BY BatchAssumption DEF TypesInv, CallsFit, Requests
  <2> QED BY <1>2, <2>1 DEF StartsStep, StartsInv
<1>7. \A v \in Workers : plan'[v].next.start <= Next1'
  <2>1. \A v \in Workers : plan'[v].next.start \in Nat
    BY BatchAssumption DEF TypesInv, WorkFits, Requests
  <2> QED BY <1>2, <2>1 DEF StartsStep, StartsInv
<1>8. ASSUME NEW m \in 1 .. cursor'.scheduled
      PROVE  \E w \in Windows : Within(m, w) /\ Settled(batch'[w])
  <2>1. m \in 1 .. cursor.scheduled \/ m \in Next1 .. cursor'.scheduled BY <1>1
  <2> QED BY <2>1 DEF StartsStep, StartsInv
<1> QED BY <1>3, <1>5, <1>6, <1>7, <1>8 DEF StartsInv, Settled, Within

\* The step keeps the state of every row, and nobody begins to enqueue or to work.
LEMMA StatusKept ==
  ASSUME TypesInv, SoloInv, NoStranded, UNCHANGED <<tasks, unmarked>>,
         \A w \in Windows : batch'[w].status = batch[w].status,
         \A p \in Procs : /\ pc'[p] \in Enqueuing <=> pc[p] \in Enqueuing
                          /\ pc[p] \in Enqueuing => target'[p] = target[p],
         \A v \in Workers : pc'[v] \in AtWork => pc[v] \in AtWork /\ win'[v] = win[v]
  PROVE  SoloInv' /\ NoStranded'
<1>1. OneActive' BY DEF SoloInv, OneActive
<1>2. ASSUME OneReason PROVE OneReason'
  <2>1. \A v \in Workers : pc[v] \in AtWork => win[v] \in Windows
    BY DEF TypesInv, WorkFits, OnWindow
  <2>2. \A p \in Procs : pc[p] \in Enqueuing => target[p] \in Windows BY DEF TypesInv, CallsFit
  <2>3. \A v \in Workers : pc'[v] \in AtWork => batch'[win'[v]].status = "running"
    BY <1>2, <2>1 DEF OneReason
  <2>4. \A u, v \in Workers : pc'[u] \in AtWork /\ pc'[v] \in AtWork => u = v
    BY <1>2 DEF OneReason
  <2>5. \A p \in Procs : pc'[p] \in Enqueuing => batch'[target'[p]].status = "pending"
    BY <1>2, <2>2 DEF OneReason
  <2>6. \A p, q \in Procs : pc'[p] \in Enqueuing /\ pc'[q] \in Enqueuing => p = q
    BY <1>2 DEF OneReason
  <2>7. ASSUME NEW w \in Windows
        PROVE  /\ tasks'[w] <= 1
               /\ tasks'[w] > 0 =>
                    /\ batch'[w].status = "pending"
                    /\ \A p \in Procs : pc'[p] \in Enqueuing => target'[p] # w
    BY <1>2 DEF OneReason
  <2> QED BY <2>3, <2>4, <2>5, <2>6, <2>7 DEF OneReason
<1>3. SoloInv' BY <1>1, <1>2 DEF SoloInv
<1>4. NoStranded' BY DEF NoStranded, Enqueuing
<1> QED BY <1>3, <1>4

\* A worker leaves its window, whose row is made active by nobody.
LEMMA WorkLeft ==
  ASSUME TypesInv, SoloInv, NoStranded, UNCHANGED <<tasks, unmarked, target>>,
         NEW v \in Workers, pc[v] \in AtWork, NEW r,
         batch' = [batch EXCEPT ![win[v]] = r],
         r.status \in ActiveStatus => r.status = batch[win[v]].status,
         pc'[v] \notin AtWork \cup Enqueuing,
         \A q \in Procs : q # v => pc'[q] = pc[q],
         \A u \in Workers : u # v => win'[u] = win[u]
  PROVE  SoloInv' /\ NoStranded'
<1> DEFINE w == win[v]
<1>1. w \in Windows BY DEF TypesInv, WorkFits, OnWindow
<1>2. batch'[w] = r /\ \A u \in Windows : u # w => batch'[u] = batch[u]
  BY <1>1 DEF TypesInv, RowsFit
<1> HIDE DEF w
<1>3. v \in Procs /\ pc[v] \notin Enqueuing BY DEF Procs, AtWork, Enqueuing
<1>4. r.status \in ActiveStatus => r.status = batch[w].status BY DEF w
<1>5. OneActive' BY <1>1, <1>2, <1>4 DEF SoloInv, OneActive
<1>6. NoStranded'
  <2>1. \A u \in Windows : batch'[u].status = "pending" => batch[u].status = "pending"
    BY <1>2, <1>4 DEF ActiveStatus
  <2>2. \A p \in Procs : pc[p] \in {"enqueue", "refused"} => pc'[p] \in {"enqueue", "refused"}
    BY <1>3 DEF Enqueuing
  <2> QED BY <2>1, <2>2 DEF NoStranded
<1>7. ASSUME OneReason PROVE OneReason'
  <2>1. batch[w].status = "running" BY <1>7 DEF OneReason, w
  <2>2. \A u \in Workers : u \in Procs BY DEF Procs
  <2>3. \A u \in Workers : pc'[u] \notin AtWork BY <1>7, <2>2 DEF OneReason
  <2>4. \A p \in Procs : pc'[p] \in Enqueuing => p # v /\ pc[p] \in Enqueuing OBVIOUS
  <2>5. \A p \in Procs : pc[p] \in Enqueuing => target[p] \in Windows /\ target[p] # w
    BY <1>7, <2>1 DEF OneReason, TypesInv, CallsFit
  <2>6. \A p \in Procs : pc'[p] \in Enqueuing => batch'[target'[p]].status = "pending"
    BY <1>2, <1>7, <2>4, <2>5 DEF OneReason
  <2>7. \A p, q \in Procs : pc'[p] \in Enqueuing /\ pc'[q] \in Enqueuing => p = q
    BY <1>7, <2>4 DEF OneReason
  <2>8. ASSUME NEW u \in Windows
        PROVE  /\ tasks'[u] <= 1
               /\ tasks'[u] > 0 =>
                    /\ batch'[u].status = "pending"
                    /\ \A p \in Procs : pc'[p] \in Enqueuing => target'[p] # u
    BY <1>2, <1>7, <2>1, <2>4 DEF OneReason
  <2> QED BY <2>3, <2>6, <2>7, <2>8 DEF OneReason
<1> QED BY <1>5, <1>6, <1>7 DEF SoloInv

\* Nothing is active, and a process makes a row pending in order to enqueue it.
LEMMA WindowClaimed ==
  ASSUME TypesInv, SoloInv, NoStranded, UNCHANGED <<tasks, unmarked>>,
         \A u \in Windows : batch[u].status \notin ActiveStatus,
         NEW p \in Procs, NEW w \in Windows, NEW r, r.status = "pending",
         batch' = [batch EXCEPT ![w] = r],
         target' = [target EXCEPT ![p] = w], Go(p, "enqueue"),
         \A u \in Workers : u # p => win'[u] = win[u]
  PROVE  SoloInv' /\ NoStranded'
<1>1. pc'[p] = "enqueue" /\ \A q \in Procs : q # p => pc'[q] = pc[q]
  BY GoFacts DEF Places, Asking, Enqueuing
<1>2. batch'[w] = r /\ \A u \in Windows : u # w => batch'[u] = batch[u]
  BY DEF TypesInv, RowsFit
<1>3. target'[p] = w /\ \A q \in Procs : q # p => target'[q] = target[q]
  BY DEF TypesInv, CallsFit
<1>4. OneActive' BY <1>2 DEF OneActive
<1>5. NoStranded'
  <2>1. \A u \in Windows : batch'[u].status = "pending" => u = w BY <1>2 DEF ActiveStatus
  <2> QED BY <1>1, <1>3, <2>1 DEF NoStranded
<1>6. ASSUME OneReason PROVE OneReason'
  <2>1. \A u \in Workers : u \in Procs /\ (pc[u] \in AtWork => win[u] \in Windows)
    BY DEF Procs, TypesInv, WorkFits, OnWindow
  <2>2. \A u \in Workers : pc[u] \notin AtWork BY <1>6, <2>1 DEF OneReason, ActiveStatus
  <2>3. \A q \in Procs : pc[q] \in Enqueuing => target[q] \in Windows BY DEF TypesInv, CallsFit
  <2>4. \A q \in Procs : pc[q] \notin Enqueuing BY <1>6, <2>3 DEF OneReason, ActiveStatus
  <2>5. tasks \in [Windows -> Nat] BY DEF TypesInv
  <2>6. \A u \in Windows : tasks[u] = 0 BY <1>6, <2>5 DEF OneReason, ActiveStatus
  <2>7. \A u \in Workers : pc'[u] \notin AtWork BY <1>1, <2>1, <2>2 DEF AtWork
  <2>8. \A q \in Procs : pc'[q] \in Enqueuing => q = p BY <1>1, <2>4
  <2> QED BY <1>2, <1>3, <2>6, <2>7, <2>8 DEF OneReason
<1> QED BY <1>4, <1>5, <1>6 DEF SoloInv

-----------------------------------------------------------------------------
(* Rows.                                                                     *)

LEMMA TerminatedFacts ==
  ASSUME NEW b, RowFits(b)
  PROVE  /\ RowFits(Terminated(b)) /\ Terminated(b).queued = b.queued
         /\ Settled(Terminated(b))
         /\ Closable(b) => Terminated(b).status = "failed" /\ Terminated(b).terminal
         /\ ~Closable(b) => Terminated(b) = b
<1>1. ~Closable(b) => Terminated(b) = b /\ Settled(b) BY DEF Terminated, Closable, Settled
<1>2. CASE Closable(b)
  <2> DEFINE t == TRUE
             f == FALSE
             row == [b EXCEPT !.status = "failed", !.terminal = t, !.rerun = f, !.backoff = f]
  <2>1. Terminated(b) = row BY <1>2 DEF Terminated
  <2>2. t \in BOOLEAN /\ f \in BOOLEAN /\ t OBVIOUS
  <2> HIDE DEF t, f
  <2>3. b \in Batches BY DEF RowFits
  <2>4. row.status = "failed" /\ row.terminal = t /\ row.queued = b.queued BY <2>3 DEF Batches
  <2>5. row \in Batches BY <2>2, <2>3 DEF Batches
  <2> HIDE DEF row
  <2>6. row.terminal BY <2>2, <2>4
  <2> QED BY <1>2, <2>1, <2>4, <2>5, <2>6 DEF RowFits, Settled
<1> QED BY <1>1, <1>2

LEMMA FailedFacts ==
  ASSUME NEW b, RowFits(b), NEW k \in BOOLEAN
  PROVE  /\ RowFits(Failed(b, k)) /\ Failed(b, k).queued = b.queued
         /\ Failed(b, k).terminal = b.terminal
         /\ b.status \in ActiveStatus => Failed(b, k).status = "failed"
         /\ b.status \notin ActiveStatus => Failed(b, k) = b
<1>1. CASE b.status \in ActiveStatus
  <2> DEFINE row == [b EXCEPT !.status = "failed", !.backoff = k]
  <2>1. b \in Batches BY DEF RowFits
  <2>2. row.status = "failed" /\ row.queued = b.queued /\ row.terminal = b.terminal
    BY <2>1 DEF Batches
  <2>3. row \in Batches BY <2>1 DEF Batches
  <2>4. Failed(b, k) = row BY <1>1 DEF Failed
  <2> HIDE DEF row
  <2> QED BY <1>1, <2>2, <2>3, <2>4 DEF RowFits
<1>2. CASE b.status \notin ActiveStatus BY <1>2 DEF Failed
<1> QED BY <1>1, <1>2

LEMMA Together ==
  ASSUME BatchInv, TypesInv', StartsStep, SoloInv' /\ NoStranded' PROVE BatchInv'
BY StartsKept DEF BatchInv

-----------------------------------------------------------------------------
(* request_state_assessment()                                                *)

LEMMA RecoverKeeps == ASSUME BatchInv, NEW p \in Procs, Recover(p) PROVE BatchInv'
<1> USE DEF BatchInv, worldVars, workVars
<1> DEFINE over == {w \in Windows : Exhausted(w)}
<1>1. pc' \in [Procs -> Places] /\ pc'[p] = "ask" /\ \A q \in Procs : q # p => pc'[q] = pc[q]
  BY GoFacts DEF Recover, Places, Asking
<1>2. pc[p] = "recover" BY DEF Recover
<1>3. /\ LastOf(over) \in 0 .. MaxMessages
      /\ \A w \in over : w[2] <= LastOf(over)
      /\ LastOf(over) # 0 => \E w \in over : w[2] = LastOf(over)
  BY LastExists
<1>4. cursor' = Scheduled(cursor, LastOf(over)) BY DEF Recover, LastOf
<1>5. CursorFits(cursor') /\ cursor'.scheduled \in {cursor.scheduled, LastOf(over)}
      /\ cursor'.scheduled >= cursor.scheduled
  BY <1>3, <1>4, BatchAssumption DEF TypesInv, CursorFits, Scheduled, High
<1>6. batch' = [w \in Windows |-> IF w \in over THEN Terminated(batch[w]) ELSE batch[w]]
  BY DEF Recover
<1>7. ASSUME NEW w \in Windows
      PROVE  /\ RowFits(batch'[w]) /\ batch'[w].status = batch[w].status
             /\ batch'[w].queued = batch[w].queued
             /\ Settled(batch[w]) => Settled(batch'[w])
             /\ w \in over => Settled(batch'[w])
  <2>1. RowFits(batch[w]) BY DEF TypesInv, RowsFit
  <2>2. CASE w \in over
    <3>1. batch'[w] = Terminated(batch[w]) BY <1>6, <2>2
    <3>2. batch[w].status = "failed" /\ ~batch[w].terminal BY <2>2 DEF Exhausted
    <3>3. Closable(batch[w]) BY <3>2 DEF Closable
    <3> QED BY <2>1, <3>1, <3>2, <3>3, TerminatedFacts
  <2>3. CASE w \notin over BY <1>6, <2>1, <2>3
  <2> QED BY <2>2, <2>3
<1>8. RowsFit(batch') BY <1>6, <1>7 DEF RowsFit, RowFits
<1>9. CallsFit' BY <1>1, <1>2 DEF Recover, TypesInv, CallsFit, Enqueuing
<1>10. WorkFits'
  <2>1. \A v \in Workers : v \in Procs BY DEF Procs
  <2> QED BY <1>1, <1>2, <1>7, <2>1, WorkKeeps
         DEF Recover, TypesInv, WorkFits, Asking, OnWindow, AtWork
<1>11. TypesInv' BY <1>5, <1>8, <1>9, <1>10 DEF Recover, TypesInv, CountsFit
<1>12. SoloInv' /\ NoStranded'
  <2>1. \A v \in Workers : v \in Procs BY DEF Procs
  <2> QED BY <1>1, <1>2, <1>7, <2>1, StatusKept DEF Recover, Enqueuing, AtWork
<1>13. StartsStep
  <2> SUFFICES ASSUME replays' = 0 PROVE StartsStep
      BY DEF StartsStep
  <2>1. \A m \in Next1 .. cursor'.scheduled :
          \E w \in Windows : Within(m, w) /\ Settled(batch'[w])
    <3> SUFFICES ASSUME NEW m \in Next1 .. cursor'.scheduled
                 PROVE  \E w \in Windows : Within(m, w) /\ Settled(batch'[w])
        OBVIOUS
    <3>1. cursor.scheduled \in 0 .. MaxMessages BY DEF TypesInv, CursorFits
    <3>2. cursor'.scheduled = LastOf(over) /\ LastOf(over) # 0
      BY <1>3, <1>5, <3>1, BatchAssumption DEF Next1
    <3>3. PICK w \in over : w[2] = LastOf(over) BY <1>3, <3>2
    <3>4. w \in Windows /\ batch[w].status # "none" BY DEF Exhausted
    <3>5. w[1] <= Next1 BY <3>4 DEF StartsInv, Recover
    <3>6. Within(m, w)
      BY <1>3, <3>1, <3>2, <3>3, <3>4, <3>5, WindowFacts, BatchAssumption DEF Within, Next1
    <3> QED BY <1>7, <3>3, <3>4, <3>6
  <2> QED BY <1>5, <1>7, <2>1 DEF StartsStep, Recover
<1> QED BY <1>11, <1>12, <1>13, Together

\* Steps that leave the cursor, the rows' windows and their progress alone.
LEMMA RowJoined ==
  ASSUME BatchInv, NEW p \in Procs, Join(p)
  PROVE  /\ RowsFit(batch')
         /\ \A w \in Windows :
              /\ batch'[w].status = batch[w].status
              /\ batch'[w].terminal = batch[w].terminal
              /\ \/ batch'[w].queued = batch[w].queued
                 \/ replays = 0 => batch'[w].queued.start <= Next1
<1> USE DEF BatchInv
<1> DEFINE r == req[p]
<1>0. PICK w \in ActiveWindows :
        \E q \in QueuedOnes(batch[w], w, r),
           c \in {batch[w].cut} \cup (IF SameWindow(w, r) THEN OwnBounds(w) ELSE {}) :
          batch' = [batch EXCEPT ![w] = [@ EXCEPT !.rerun = TRUE, !.queued = q, !.cut = c]]
  BY DEF Join
<1>1. PICK q \in QueuedOnes(batch[w], w, r),
           c \in {batch[w].cut} \cup (IF SameWindow(w, r) THEN OwnBounds(w) ELSE {}) :
        batch' = [batch EXCEPT ![w] = [@ EXCEPT !.rerun = TRUE, !.queued = q, !.cut = c]]
  BY <1>0
<1>2. w \in Windows /\ batch[w].status \in ActiveStatus BY DEF ActiveWindows
<1>3. RowFits(batch[w]) BY <1>2 DEF TypesInv, RowsFit
<1>4. r \in Requests BY DEF TypesInv, CallsFit
<1>5. posted \in 0 .. MaxMessages /\ cursor.finalized \in 0 .. MaxMessages
      /\ cursor.scheduled \in 0 .. MaxMessages /\ cursor.finalized <= cursor.scheduled
      /\ w[1] \in 1 .. MaxMessages /\ w[2] \in 1 .. MaxMessages
      /\ r.cut \in 0 .. MaxMessages /\ r.start \in 0 .. MaxMessages
  BY <1>2, <1>4, WindowFacts DEF TypesInv, CountsFit, CursorFits, Requests
<1>6. c \in 0 .. MaxMessages
  BY <1>3, <1>5, BatchAssumption DEF RowFits, Batches, OwnBounds
<1>7. q = batch[w].queued
      \/ /\ q = Queueable(w, r)
         /\ ~(r.cut < w[2] /\ Queueable(w, r).start > r.cut)
  BY DEF QueuedOnes
<1>8. CASE q = Queueable(w, r) /\ ~(r.cut < w[2] /\ Queueable(w, r).start > r.cut)
  <2> DEFINE s == IF r.cut < w[2] THEN High(cursor.finalized + 1, w[1]) ELSE r.start
  <2>1. q = [cut |-> r.cut, start |-> s] /\ ~(r.cut < w[2] /\ s > r.cut)
    BY <1>8 DEF Queueable
  <2>2. s \in 0 .. MaxMessages BY <1>5, <2>1, BatchAssumption DEF High
  <2>3. replays = 0 => s <= Next1
    <3>1. replays = 0 => w[1] <= Next1 /\ r.start <= Next1
      BY <1>2 DEF StartsInv, ActiveStatus
    <3> QED BY <1>5, <3>1, BatchAssumption DEF High, Next1
  <2> HIDE DEF s
  <2>4. q \in [cut : 0 .. MaxMessages, start : 0 .. MaxMessages] /\ q.start = s
    BY <1>5, <2>1, <2>2
  <2>5. [batch[w] EXCEPT !.rerun = TRUE, !.queued = q, !.cut = c] \in Batches
    BY <1>3, <1>6, <2>4 DEF RowFits, Batches
  <2> DEFINE row == [batch[w] EXCEPT !.rerun = TRUE, !.queued = q, !.cut = c]
  <2>6. row.status = batch[w].status /\ row.terminal = batch[w].terminal /\ row.queued = q
        /\ row.attempts = batch[w].attempts
    BY <1>3 DEF RowFits, Batches
  <2>7. batch' = [batch EXCEPT ![w] = row] BY <1>1, <1>2 DEF TypesInv, RowsFit
  <2>8. row \in Batches BY <2>5
  <2> HIDE DEF row
  <2>9. RowFits(row) BY <1>3, <2>6, <2>8 DEF RowFits
  <2>10. /\ RowsFit(batch') /\ batch'[w] = row
         /\ \A u \in Windows : u # w => batch'[u] = batch[u]
    BY <1>2, <2>7, <2>9, RowWritten DEF TypesInv
  <2>11. replays = 0 => batch'[w].queued.start <= Next1 BY <2>3, <2>4, <2>6, <2>10
  <2> QED BY <2>6, <2>10, <2>11
<1>9. CASE q = batch[w].queued
  <2> DEFINE row == [batch[w] EXCEPT !.rerun = TRUE, !.queued = q, !.cut = c]
  <2>1. row \in Batches BY <1>3, <1>6, <1>9 DEF RowFits, Batches
  <2>2. row.status = batch[w].status /\ row.terminal = batch[w].terminal /\ row.queued = q
        /\ row.attempts = batch[w].attempts
    BY <1>3 DEF RowFits, Batches
  <2>3. batch' = [batch EXCEPT ![w] = row] BY <1>1, <1>2 DEF TypesInv, RowsFit
  <2> HIDE DEF row
  <2>4. RowFits(row) BY <1>3, <2>1, <2>2 DEF RowFits
  <2>5. /\ RowsFit(batch') /\ batch'[w] = row
        /\ \A u \in Windows : u # w => batch'[u] = batch[u]
    BY <1>2, <2>3, <2>4, RowWritten DEF TypesInv
  <2> QED BY <1>9, <2>2, <2>5
<1> QED BY <1>7, <1>8, <1>9

\* A request returns: to nothing, or to the worker that asked before it goes on.
LEMMA CallReturned ==
  ASSUME TypesInv, NEW p \in Procs, pc[p] \in Asking, Return(p), UNCHANGED workVars,
         \A w \in Windows : batch'[w].status = "none" => batch[w].status = "none"
  PROVE  /\ CallsFit' /\ WorkFits'
         /\ \A q \in Procs : q # p => pc'[q] = pc[q] /\ target'[q] = target[q]
         /\ pc'[p] \notin Enqueuing \cup AtWork
         /\ \A q \in Procs : req'[q].start = req[q].start \/ req'[q].start = 0
         /\ \A v \in Workers : plan'[v].next.start = plan[v].next.start
         /\ \A v \in Workers : pc'[v] \in AtWork => pc[v] \in AtWork /\ win'[v] = win[v]
<1> USE DEF workVars
<1>1. /\ pc' \in [Procs -> Places] /\ pc'[p] = back[p] /\ back'[p] = "idle"
      /\ pc'[p] \in {"idle", "judged"}
      /\ back' \in [Procs -> {"idle", "judged"}] /\ req' \in [Procs -> Requests]
      /\ target' \in [Procs -> Windows \cup {NoWindow}]
      /\ req'[p].start = 0
      /\ \A q \in Procs : q # p => /\ pc'[q] = pc[q] /\ back'[q] = back[q]
                                   /\ req'[q] = req[q] /\ target'[q] = target[q]
  BY ReturnFacts
<1>2. CallsFit' BY <1>1 DEF CallsFit, TypesInv, Enqueuing
<1>3. \A v \in Workers : v \in Procs BY DEF Procs
<1>4. WorkFits'
  BY <1>1, <1>3, WorkKeeps DEF TypesInv, WorkFits, Asking, OnWindow, AtWork, Enqueuing
<1>5. pc'[p] \notin Enqueuing \cup AtWork BY <1>1 DEF Enqueuing, AtWork
<1> QED BY <1>1, <1>2, <1>3, <1>4, <1>5

\* StartsInv when the cursor stays where it is.
LEMMA StartsStay ==
  ASSUME BatchInv, TypesInv', UNCHANGED <<cursor, replays>>,
         \A w \in Windows :
           /\ batch'[w].status # "none" /\ batch[w].status = "none" =>
                (replays = 0 => w[1] <= Next1)
           /\ \/ batch'[w].queued.start = batch[w].queued.start
              \/ (replays = 0 => batch'[w].queued.start <= Next1)
           /\ Settled(batch[w]) => Settled(batch'[w]),
         \A q \in Procs : \/ req'[q].start = req[q].start
                          \/ replays = 0 => req'[q].start <= Next1,
         \A v \in Workers : \/ plan'[v].next.start = plan[v].next.start
                            \/ replays = 0 => plan'[v].next.start <= Next1
  PROVE  StartsStep
<1>1. cursor.scheduled \in 0 .. MaxMessages BY DEF BatchInv, TypesInv, CursorFits
<1>2. Next1 .. cursor.scheduled = {} BY <1>1 DEF Next1
<1> QED BY <1>1, <1>2 DEF StartsStep

LEMMA ZeroStarts == ASSUME TypesInv PROVE 0 <= Next1
BY DEF TypesInv, CursorFits, Next1

LEMMA JoinKeeps == ASSUME BatchInv, NEW p \in Procs, Join(p) PROVE BatchInv'
<1> USE DEF BatchInv, worldVars
<1>1. /\ RowsFit(batch')
      /\ \A w \in Windows :
           /\ batch'[w].status = batch[w].status
           /\ batch'[w].terminal = batch[w].terminal
           /\ \/ batch'[w].queued = batch[w].queued
              \/ replays = 0 => batch'[w].queued.start <= Next1
  BY RowJoined
<1>2. pc[p] = "ask" /\ Return(p) /\ UNCHANGED <<worldVars, workVars, cursor, tasks>> BY DEF Join
<1>3. /\ CallsFit' /\ WorkFits'
      /\ \A q \in Procs : q # p => pc'[q] = pc[q] /\ target'[q] = target[q]
      /\ pc'[p] \notin Enqueuing \cup AtWork
      /\ \A q \in Procs : req'[q].start = req[q].start \/ req'[q].start = 0
      /\ \A v \in Workers : plan'[v].next.start = plan[v].next.start
      /\ \A v \in Workers : pc'[v] \in AtWork => pc[v] \in AtWork /\ win'[v] = win[v]
  BY <1>1, <1>2, CallReturned DEF Asking
<1>4. TypesInv' BY <1>1, <1>2, <1>3 DEF TypesInv, CountsFit
<1>5. SoloInv' /\ NoStranded' BY <1>1, <1>2, <1>3, StatusKept DEF Enqueuing
<1>6. StartsStep BY <1>1, <1>2, <1>3, <1>4, ZeroStarts, StartsStay DEF Settled
<1> QED BY <1>4, <1>5, <1>6, Together

LEMMA SkipKeeps == ASSUME BatchInv, NEW p \in Procs, Skip(p) PROVE BatchInv'
<1> USE DEF BatchInv, worldVars
<1>1. pc[p] = "ask" /\ Return(p) /\ UNCHANGED <<worldVars, workVars, batch, cursor, tasks>>
  BY DEF Skip
<1>2. /\ CallsFit' /\ WorkFits'
      /\ \A q \in Procs : q # p => pc'[q] = pc[q] /\ target'[q] = target[q]
      /\ pc'[p] \notin Enqueuing \cup AtWork
      /\ \A q \in Procs : req'[q].start = req[q].start \/ req'[q].start = 0
      /\ \A v \in Workers : plan'[v].next.start = plan[v].next.start
      /\ \A v \in Workers : pc'[v] \in AtWork => pc[v] \in AtWork /\ win'[v] = win[v]
  BY <1>1, CallReturned DEF Asking
<1>3. TypesInv' BY <1>1, <1>2 DEF TypesInv, CountsFit
<1>4. SoloInv' /\ NoStranded' BY <1>1, <1>2, StatusKept DEF Enqueuing
<1>5. StartsStep BY <1>1, <1>2, <1>3, ZeroStarts, StartsStay
<1> QED BY <1>3, <1>4, <1>5, Together

\* A window is claimed with row b: pending, for the first time or again.
LEMMA ClaimedKeeps ==
  ASSUME BatchInv, NEW p \in Procs, MayClaim(p), NEW b, Claimed(p, b), RowFits(b),
         b.status = "pending",
         b.queued.start \in {0, batch[Window(req[p])].queued.start},
         Settled(batch[Window(req[p])]) => Settled(b)
  PROVE  BatchInv'
<1> USE DEF BatchInv, worldVars, workVars
<1> DEFINE w == Window(req[p])
<1>1. w \in Windows /\ w[1] \in {req[p].start, Next1} BY ClaimedWindow
<1>2. batch' = [batch EXCEPT ![w] = b] /\ target' = [target EXCEPT ![p] = w] /\ Go(p, "enqueue")
  BY DEF Claimed
<1>3. b.queued.start \in {0, batch[w].queued.start} /\ (Settled(batch[w]) => Settled(b))
  OBVIOUS
<1> HIDE DEF w
<1>4. UNCHANGED <<worldVars, workVars, cursor, tasks, back, req>> BY DEF Claimed
<1>5. RowsFit(batch') /\ batch'[w] = b /\ \A u \in Windows : u # w => batch'[u] = batch[u]
  BY <1>1, <1>2, RowWritten DEF TypesInv
<1>6. pc' \in [Procs -> Places] /\ pc'[p] = "enqueue" /\ \A q \in Procs : q # p => pc'[q] = pc[q]
  BY <1>2, GoFacts DEF Places, Asking, Enqueuing
<1>7. pc[p] = "ask" /\ ActiveWindows = {} BY DEF MayClaim
<1>8. CallsFit' BY <1>1, <1>2, <1>4, <1>6 DEF TypesInv, CallsFit
<1>9. WorkFits'
  <2>1. \A v \in Workers : v \in Procs BY DEF Procs
  <2> QED BY <1>4, <1>5, <1>6, <1>7, <2>1, WorkKeeps
         DEF TypesInv, WorkFits, Asking, OnWindow, AtWork, Enqueuing
<1>10. TypesInv' BY <1>4, <1>5, <1>8, <1>9 DEF TypesInv, CountsFit
<1>11. SoloInv' /\ NoStranded'
  <2>1. \A u \in Windows : batch[u].status \notin ActiveStatus BY <1>7 DEF ActiveWindows
  <2> QED BY <1>1, <1>2, <1>4, <2>1, WindowClaimed
<1>12. StartsStep
  <2>1. replays = 0 => w[1] <= Next1
    <3>1. Next1 \in Nat BY DEF TypesInv, CursorFits, Next1
    <3> QED BY <1>1, <3>1 DEF StartsInv
  <2> QED BY <1>3, <1>4, <1>5, <1>10, <2>1, ZeroStarts, StartsStay
<1> QED BY <1>10, <1>11, <1>12, Together

\* The row of a new batch.
LEMMA EmptyRow == NoBatch \in Batches /\ NoBatch.attempts = 0 /\ NoBatch.queued.start = 0
<1> DEFINE no == FALSE
<1>1. no \in BOOLEAN /\ 0 \in 0 .. MaxAttempts /\ 0 \in 0 .. MaxMessages BY BatchAssumption
<1>2. NoBatch = [status |-> "none", terminal |-> no, attempts |-> 0, rerun |-> no,
                 backoff |-> no, cut |-> 0, queued |-> NoQueued]
  BY DEF NoBatch
<1> HIDE DEF no
<1>3. NoQueued \in [cut : 0 .. MaxMessages, start : 0 .. MaxMessages] /\ NoQueued.start = 0
  BY <1>1 DEF NoQueued
<1> QED BY <1>1, <1>2, <1>3 DEF Batches

LEMMA CreateKeeps == ASSUME BatchInv, NEW p \in Procs, Create(p) PROVE BatchInv'
<1> DEFINE r == req[p]
           w == Window(r)
           k == More(r)
           c == IF r.cut > w[2] THEN r.cut ELSE 0
           b == [NoBatch EXCEPT !.status = "pending", !.rerun = k, !.cut = c]
<1>1. MayClaim(p) /\ batch[w].status = "none" /\ Claimed(p, b) BY DEF Create
<1>2. w \in Windows BY <1>1, ClaimedWindow DEF BatchInv
<1>3. r \in Requests /\ 0 \in 0 .. MaxMessages BY BatchAssumption DEF BatchInv, TypesInv, CallsFit
<1>4. c \in 0 .. MaxMessages BY <1>3 DEF Requests
<1>5. k \in BOOLEAN BY DEF More
<1>6. RowFits(batch[w]) BY <1>2 DEF BatchInv, TypesInv, RowsFit
<1>7. ~Settled(batch[w]) BY <1>1, <1>6 DEF RowFits, Settled
<1> HIDE DEF k, c
<1>8. b \in Batches /\ b.status = "pending" /\ b.attempts = 0 /\ b.queued.start = 0
  BY <1>4, <1>5, EmptyRow DEF Batches
<1> HIDE DEF b
<1>9. RowFits(b) BY <1>8, BatchAssumption DEF RowFits
<1> QED BY <1>1, <1>7, <1>8, <1>9, ClaimedKeeps

LEMMA ReopenKeeps == ASSUME BatchInv, NEW p \in Procs, Reopen(p) PROVE BatchInv'
<1> DEFINE w == Window(req[p])
<1>1. PICK c \in OwnBounds(w) :
        Claimed(p, [batch[w] EXCEPT !.status = "pending", !.cut = c])
  BY DEF Reopen
<1>2. MayClaim(p) /\ Reopenable(batch[w]) BY DEF Reopen
<1>3. w \in Windows BY <1>2, ClaimedWindow DEF BatchInv
<1>4. RowFits(batch[w]) BY <1>3 DEF BatchInv, TypesInv, RowsFit
<1>5. c \in 0 .. MaxMessages
  <2>1. posted \in 0 .. MaxMessages /\ w[2] \in 1 .. MaxMessages
    BY <1>3, WindowFacts DEF BatchInv, TypesInv, CountsFit
  <2> QED BY <2>1, BatchAssumption DEF OwnBounds
<1> DEFINE b == [batch[w] EXCEPT !.status = "pending", !.cut = c]
<1>6. b \in Batches /\ b.status = "pending" /\ b.attempts = batch[w].attempts
      /\ b.queued = batch[w].queued /\ b.terminal = batch[w].terminal
  BY <1>4, <1>5 DEF RowFits, Batches
<1>7. Claimed(p, b) BY <1>1
<1> HIDE DEF b
<1>8. RowFits(b) /\ (Settled(batch[w]) => Settled(b))
  BY <1>2, <1>6 DEF RowFits, Reopenable, Settled
<1> QED BY <1>2, <1>6, <1>7, <1>8, ClaimedKeeps

LEMMA EnqueueKeeps == ASSUME BatchInv, NEW p \in Procs, Enqueue(p) PROVE BatchInv'
<1> USE DEF BatchInv, worldVars
<1> DEFINE w == target[p]
<1>1. pc[p] = "enqueue" /\ Return(p) /\ tasks' = [tasks EXCEPT ![w] = @ + 1]
      /\ UNCHANGED <<worldVars, workVars, batch, cursor>>
  BY DEF Enqueue
<1>2. pc[p] \in Enqueuing /\ w \in Windows BY <1>1 DEF Enqueuing, TypesInv, CallsFit
<1> HIDE DEF w
<1>3. /\ CallsFit' /\ WorkFits'
      /\ \A q \in Procs : q # p => pc'[q] = pc[q] /\ target'[q] = target[q]
      /\ pc'[p] \notin Enqueuing \cup AtWork
      /\ \A q \in Procs : req'[q].start = req[q].start \/ req'[q].start = 0
      /\ \A v \in Workers : plan'[v].next.start = plan[v].next.start
      /\ \A v \in Workers : pc'[v] \in AtWork => pc[v] \in AtWork /\ win'[v] = win[v]
  BY <1>1, CallReturned DEF Asking, Enqueuing
<1>4. /\ tasks' \in [Windows -> Nat] /\ tasks'[w] = tasks[w] + 1 /\ tasks'[w] > 0
      /\ \A u \in Windows : u # w => tasks'[u] = tasks[u]
  BY <1>1, <1>2 DEF TypesInv
<1>5. TypesInv' BY <1>1, <1>3, <1>4 DEF TypesInv, CountsFit
<1>6. StartsStep BY <1>1, <1>3, <1>5, ZeroStarts, StartsStay
<1>7. NoStranded'
  <2>1. ASSUME NEW u \in Windows, batch[u].status = "pending", u # w
        PROVE  tasks'[u] > 0 \/ \E q \in Procs : target'[q] = u /\ pc'[q] \in {"enqueue", "refused"}
    <3>1. CASE tasks[u] > 0 BY <1>4, <2>1, <3>1
    <3>2. CASE \E q \in Procs : target[q] = u /\ pc[q] \in {"enqueue", "refused"}
      BY <1>3, <2>1, <3>2 DEF w
    <3> QED BY <2>1, <3>1, <3>2 DEF NoStranded
  <2> QED BY <1>1, <1>4, <2>1 DEF NoStranded
<1>8. OneActive' BY <1>1 DEF SoloInv, OneActive
<1>9. ASSUME OneReason PROVE OneReason'
  <2>1. batch[w].status = "pending" /\ \A q \in Procs : pc'[q] \notin Enqueuing
    BY <1>2, <1>3, <1>9 DEF OneReason, w
  <2>2. tasks[w] = 0 BY <1>2, <1>9 DEF OneReason, TypesInv, w
  <2> QED BY <1>1, <1>3, <1>4, <1>9, <2>1, <2>2 DEF OneReason
<1> QED BY <1>1, <1>5, <1>6, <1>7, <1>8, <1>9, Together DEF SoloInv

LEMMA EnqueueLostKeeps == ASSUME BatchInv, NEW p \in Procs, EnqueueLost(p) PROVE BatchInv'
<1> USE DEF BatchInv, workVars
<1>1. pc' \in [Procs -> Places] /\ pc'[p] = "refused" /\ \A q \in Procs : q # p => pc'[q] = pc[q]
  BY GoFacts DEF EnqueueLost, Places, Asking, Enqueuing
<1>2. pc[p] = "enqueue" /\ lost' \in 0 .. MaxLost
  BY BatchAssumption DEF EnqueueLost, TypesInv, CountsFit
<1>3. UNCHANGED <<workVars, posted, open, unmarked, replays, batch, cursor, tasks, back, req, target>>
  BY DEF EnqueueLost
<1>4. \A v \in Workers : v \in Procs BY DEF Procs
<1>5. CallsFit' BY <1>1, <1>2, <1>3 DEF TypesInv, CallsFit, Enqueuing
<1>6. WorkFits'
  BY <1>1, <1>2, <1>3, <1>4, WorkKeeps DEF TypesInv, WorkFits, Asking, OnWindow, AtWork, Enqueuing
<1>7. TypesInv' BY <1>2, <1>3, <1>5, <1>6 DEF TypesInv, CountsFit
<1>8. SoloInv' /\ NoStranded' BY <1>1, <1>2, <1>3, <1>4, StatusKept DEF Enqueuing, AtWork
<1>9. StartsStep BY <1>3, <1>7, StartsStay
<1> QED BY <1>7, <1>8, <1>9, Together

\* A task whose enqueueing is reported as failed: from now on OneReason is given up.
LEMMA EnqueueUnmarkedKeeps == ASSUME BatchInv, NEW p \in Procs, EnqueueUnmarked(p) PROVE BatchInv'
<1> USE DEF BatchInv, workVars
<1> DEFINE w == target[p]
<1>1. pc' \in [Procs -> Places] /\ pc'[p] = "refused" /\ \A q \in Procs : q # p => pc'[q] = pc[q]
  BY GoFacts DEF EnqueueUnmarked, Places, Asking, Enqueuing
<1>2. pc[p] = "enqueue" /\ unmarked' \in 0 .. MaxUnmarked /\ unmarked' # 0
  BY BatchAssumption DEF EnqueueUnmarked, TypesInv, CountsFit
<1>3. UNCHANGED <<workVars, posted, open, lost, replays, batch, cursor, back, req, target>>
      /\ tasks' = [tasks EXCEPT ![w] = @ + 1]
  BY DEF EnqueueUnmarked
<1>4. \A v \in Workers : v \in Procs BY DEF Procs
<1>5. w \in Windows BY <1>2 DEF Enqueuing, TypesInv, CallsFit
<1> HIDE DEF w
<1>6. tasks' \in [Windows -> Nat] /\ \A u \in Windows : tasks[u] > 0 => tasks'[u] > 0
  BY <1>3, <1>5 DEF TypesInv
<1>7. CallsFit' BY <1>1, <1>2, <1>3 DEF TypesInv, CallsFit, Enqueuing
<1>8. WorkFits'
  BY <1>1, <1>2, <1>3, <1>4, WorkKeeps DEF TypesInv, WorkFits, Asking, OnWindow, AtWork, Enqueuing
<1>9. TypesInv' BY <1>2, <1>3, <1>6, <1>7, <1>8 DEF TypesInv, CountsFit
<1>10. NoStranded'
  <2>1. \A q \in Procs : pc[q] \in {"enqueue", "refused"} => pc'[q] \in {"enqueue", "refused"}
    BY <1>1
  <2> QED BY <1>3, <1>6, <2>1 DEF NoStranded
<1>11. SoloInv' BY <1>2, <1>3 DEF SoloInv, OneActive
<1>12. StartsStep BY <1>3, <1>9, StartsStay
<1> QED BY <1>9, <1>10, <1>11, <1>12, Together

LEMMA RefusedKeeps == ASSUME BatchInv, NEW p \in Procs, Refused(p) PROVE BatchInv'
<1> USE DEF BatchInv, worldVars
<1> DEFINE w == target[p]
           k == TRUE
           b == Failed(batch[w], k)
<1>1. pc[p] = "refused" /\ Return(p) /\ UNCHANGED <<worldVars, workVars, cursor, tasks>>
  BY DEF Refused
<1>2. pc[p] \in Enqueuing /\ w \in Windows BY <1>1 DEF Enqueuing, TypesInv, CallsFit
<1>3. batch' = [batch EXCEPT ![w] = b] BY <1>2 DEF Refused, TypesInv, RowsFit
<1>4. RowFits(batch[w]) /\ k \in BOOLEAN BY <1>2 DEF TypesInv, RowsFit
<1>5. /\ RowFits(b) /\ b.queued = batch[w].queued /\ b.terminal = batch[w].terminal
      /\ batch[w].status \in ActiveStatus => b.status = "failed"
      /\ batch[w].status \notin ActiveStatus => b = batch[w]
  BY <1>4, FailedFacts
<1> HIDE DEF w, b, k
<1>6. RowsFit(batch') /\ batch'[w] = b /\ \A u \in Windows : u # w => batch'[u] = batch[u]
  BY <1>2, <1>3, <1>5, RowWritten DEF TypesInv
<1>7. \A u \in Windows : /\ batch'[u].status = "none" <=> batch[u].status = "none"
                         /\ batch'[u].status \in ActiveStatus => batch'[u] = batch[u] /\ u # w
                         /\ batch'[u].queued = batch[u].queued
                         /\ Settled(batch[u]) => Settled(batch'[u])
  BY <1>5, <1>6 DEF ActiveStatus, Settled
<1>8. /\ CallsFit' /\ WorkFits'
      /\ \A q \in Procs : q # p => pc'[q] = pc[q] /\ target'[q] = target[q]
      /\ pc'[p] \notin Enqueuing \cup AtWork
      /\ \A q \in Procs : req'[q].start = req[q].start \/ req'[q].start = 0
      /\ \A v \in Workers : plan'[v].next.start = plan[v].next.start
      /\ \A v \in Workers : pc'[v] \in AtWork => pc[v] \in AtWork /\ win'[v] = win[v]
  BY <1>1, <1>7, CallReturned DEF Asking, Enqueuing
<1>9. TypesInv' BY <1>1, <1>6, <1>8 DEF TypesInv, CountsFit
<1>10. StartsStep BY <1>1, <1>7, <1>8, <1>9, ZeroStarts, StartsStay
<1>11. OneActive' BY <1>7 DEF SoloInv, OneActive
<1>12. NoStranded'
  <2>1. ASSUME NEW u \in Windows, batch'[u].status = "pending"
        PROVE  tasks'[u] > 0 \/ \E q \in Procs : target'[q] = u /\ pc'[q] \in {"enqueue", "refused"}
    <3>1. batch[u].status = "pending" /\ u # w BY <1>7, <2>1 DEF ActiveStatus
    <3> QED BY <1>1, <1>8, <3>1 DEF NoStranded, w
  <2> QED BY <2>1 DEF NoStranded
<1>13. ASSUME OneReason PROVE OneReason'
  <2>1. \A q \in Procs : pc'[q] \notin Enqueuing BY <1>2, <1>8, <1>13 DEF OneReason
  <2>2. batch[w].status = "pending" /\ \A u \in Windows : tasks[u] > 0 => u # w
    BY <1>2, <1>13 DEF OneReason, w
  <2>3. \A v \in Workers : pc[v] \in AtWork => win[v] \in Windows /\ win[v] # w
    BY <1>13, <2>2 DEF OneReason, TypesInv, WorkFits, OnWindow
  <2>4. \A v \in Workers : pc'[v] \in AtWork => batch'[win'[v]].status = "running"
    BY <1>6, <1>8, <1>13, <2>3 DEF OneReason
  <2>5. \A u \in Windows : tasks'[u] <= 1 /\ (tasks'[u] > 0 => batch'[u].status = "pending")
    BY <1>1, <1>6, <1>13, <2>2 DEF OneReason
  <2> QED BY <1>8, <1>13, <2>1, <2>4, <2>5 DEF OneReason
<1> QED BY <1>1, <1>9, <1>10, <1>11, <1>12, <1>13, Together DEF SoloInv

LEMMA RequestKeeps == ASSUME BatchInv, NEW p \in Procs, Request(p) PROVE BatchInv'
BY RecoverKeeps, JoinKeeps, CreateKeeps, ReopenKeeps, SkipKeeps, EnqueueKeeps, EnqueueLostKeeps,
   EnqueueUnmarkedKeeps, RefusedKeeps DEF Request

-----------------------------------------------------------------------------
(* The other callers and the world.                                          *)

LEMMA CallAsked ==
  ASSUME TypesInv, NEW p \in Procs, NEW r \in Requests, NEW place \in {"idle", "judged"},
         Ask(p, r, place), UNCHANGED target
  PROVE  /\ CallsFit'
         /\ pc'[p] = "recover" /\ pc'[p] \in Asking /\ pc'[p] \notin Enqueuing \cup OnWindow
         /\ back'[p] = place /\ req'[p] = r
         /\ \A q \in Procs : q # p => pc'[q] = pc[q] /\ back'[q] = back[q] /\ req'[q] = req[q]
<1>1. /\ pc' \in [Procs -> Places] /\ pc'[p] = "recover" /\ back'[p] = place
      /\ back' \in [Procs -> {"idle", "judged"}] /\ req' \in [Procs -> Requests]
      /\ req'[p] = r
      /\ \A q \in Procs : q # p => pc'[q] = pc[q] /\ back'[q] = back[q] /\ req'[q] = req[q]
  BY AskFacts
<1>2. pc'[p] \in Asking /\ pc'[p] \notin Enqueuing \cup OnWindow
  BY <1>1 DEF Asking, Enqueuing, OnWindow, AtWork
<1>3. CallsFit' BY <1>1, <1>2 DEF TypesInv, CallsFit
<1> QED BY <1>1, <1>2, <1>3

LEMMA CallerIsNoWorker ==
  ASSUME NEW c \in Callers PROVE c \in Procs /\ c \notin Workers /\ \A v \in Workers : v \in Procs
BY BatchAssumption DEF Procs

\* Somebody who is no worker asks.
LEMMA CallerAsks ==
  ASSUME BatchInv, NEW c \in Callers, pc[c] = "idle", NEW r \in Requests, r.start = 0,
         Ask(c, r, "idle"), UNCHANGED <<callerRest, replays, batch, cursor>>
  PROVE  BatchInv'
<1> USE DEF BatchInv, callerRest, workVars
<1>1. c \in Procs /\ c \notin Workers /\ \A v \in Workers : v \in Procs BY CallerIsNoWorker
<1>2. /\ CallsFit'
      /\ pc'[c] = "recover" /\ pc'[c] \in Asking /\ pc'[c] \notin Enqueuing \cup OnWindow
      /\ req'[c] = r
      /\ \A q \in Procs : q # c => pc'[q] = pc[q] /\ back'[q] = back[q] /\ req'[q] = req[q]
  BY <1>1, CallAsked
<1>3. WorkFits' BY <1>1, <1>2, WorkKeeps DEF TypesInv, WorkFits
<1>4. TypesInv' BY <1>2, <1>3 DEF TypesInv, CountsFit
<1>5. SoloInv' /\ NoStranded' BY <1>1, <1>2, StatusKept DEF Enqueuing
<1>6. StartsStep BY <1>2, <1>4, ZeroStarts, StartsStay
<1> QED BY <1>4, <1>5, <1>6, Together

LEMMA ScanKeeps == ASSUME BatchInv, NEW c \in Callers, Scan(c) PROVE BatchInv'
<1>1. 0 \in 0 .. MaxMessages /\ FALSE \in BOOLEAN BY BatchAssumption
<1>2. Anything(FALSE) \in Requests /\ Anything(FALSE).start = 0 BY <1>1, CutTypes
<1> QED BY <1>2, CallerAsks DEF Scan

LEMMA TriggerKeeps == ASSUME BatchInv, NEW c \in Callers, Trigger(c) PROVE BatchInv'
<1>1. PICK m \in 1 .. posted : Ask(c, [Anything(FALSE) EXCEPT !.cut = m], "idle") BY DEF Trigger
<1>2. m \in 0 .. MaxMessages /\ FALSE \in BOOLEAN
  BY BatchAssumption DEF BatchInv, TypesInv, CountsFit
<1>3. /\ [Anything(FALSE) EXCEPT !.cut = m] \in Requests
      /\ [Anything(FALSE) EXCEPT !.cut = m].start = 0
  BY <1>2, CutTypes
<1> QED BY <1>1, <1>3, CallerAsks DEF Trigger

LEMMA PreparedFacts ==
  ASSUME NEW b, RowFits(b), b.status = "failed"
  PROVE  RowFits(Prepared(b)) /\ Prepared(b).status = "failed"
<1> DEFINE t == TRUE
           f == FALSE
           row == [b EXCEPT !.terminal = f, !.attempts = 0, !.rerun = t, !.backoff = f]
<1>1. Prepared(b) = row BY DEF Prepared
<1>2. t \in BOOLEAN /\ f \in BOOLEAN /\ 0 \in 0 .. MaxAttempts BY BatchAssumption
<1> HIDE DEF t, f
<1>3. b \in Batches BY DEF RowFits
<1>4. row \in Batches /\ row.status = "failed" BY <1>2, <1>3 DEF Batches
<1> QED BY <1>1, <1>4 DEF RowFits

\* What a replay changes: failed rows ahead of where the cursor goes back to.
LEMMA ReplayFacts ==
  ASSUME TypesInv, NEW c \in Callers, Replay(c)
  PROVE  /\ CursorFits(cursor') /\ cursor'.finalized = cursor.finalized
         /\ cursor'.scheduled >= cursor.finalized
         /\ RowsFit(batch') /\ \A w \in Windows : batch'[w].status = batch[w].status
         /\ \A w \in Windows : batch[w].terminal /\ ~batch'[w].terminal => cursor'.scheduled < w[1]
<1>1. PICK ws \in SUBSET {w \in Windows : batch[w].terminal /\ batch[w].status = "failed"} :
        /\ ws # {}
        /\ \E from \in 0 .. MaxMessages :
             /\ Replayable(ws, from)
             /\ cursor' = [cursor EXCEPT !.scheduled = High(cursor.finalized, from)]
        /\ batch' = [w \in Windows |-> IF w \in ws THEN Prepared(batch[w]) ELSE batch[w]]
  BY DEF Replay
<1>2. PICK from \in 0 .. MaxMessages :
        /\ Replayable(ws, from)
        /\ cursor' = [cursor EXCEPT !.scheduled = High(cursor.finalized, from)]
  BY <1>1
<1>3. ws \subseteq Windows BY <1>1
<1>4. (\A w \in ws : from < w[1]) /\ cursor.finalized <= from BY <1>1, <1>2, <1>3, FirstExists
<1>5. /\ cursor'.scheduled = from /\ cursor'.finalized = cursor.finalized
      /\ CursorFits(cursor') /\ cursor'.scheduled >= cursor.finalized
  BY <1>2, <1>4, BatchAssumption DEF TypesInv, CursorFits, High
<1>6. ASSUME NEW w \in Windows
      PROVE  /\ RowFits(batch'[w]) /\ batch'[w].status = batch[w].status
             /\ batch[w].terminal /\ ~batch'[w].terminal => w \in ws
  <2>1. RowFits(batch[w]) BY DEF TypesInv, RowsFit
  <2>2. CASE w \in ws
    <3>1. batch'[w] = Prepared(batch[w]) /\ batch[w].status = "failed" BY <1>1, <2>2
    <3> QED BY <2>1, <2>2, <3>1, PreparedFacts
  <2>3. CASE w \notin ws BY <1>1, <2>1, <2>3
  <2> QED BY <2>2, <2>3
<1>7. RowsFit(batch') BY <1>1, <1>6 DEF RowsFit, RowFits
<1> QED BY <1>4, <1>5, <1>6, <1>7

LEMMA ReplayKeeps == ASSUME BatchInv, NEW c \in Callers, Replay(c) PROVE BatchInv'
<1> USE DEF BatchInv, callerRest, workVars
<1>1. c \in Procs /\ c \notin Workers /\ \A v \in Workers : v \in Procs BY CallerIsNoWorker
<1>2. /\ pc[c] = "idle" /\ UNCHANGED callerRest /\ replays' \in 0 .. MaxReplays /\ replays' # 0
      /\ Ask(c, Anything(TRUE), "idle") \/ UNCHANGED <<pc, req, back>>
  <2>1. /\ replays < MaxReplays /\ replays' = replays + 1 /\ pc[c] = "idle" /\ UNCHANGED callerRest
        /\ Ask(c, Anything(TRUE), "idle") \/ UNCHANGED <<pc, req, back>>
    BY DEF Replay
  <2>2. replays \in 0 .. MaxReplays BY DEF TypesInv, CountsFit
  <2>3. replays' \in 0 .. MaxReplays /\ replays' # 0 BY <2>1, <2>2, BatchAssumption
  <2> QED BY <2>1, <2>3
<1>3. /\ CallsFit'
      /\ pc'[c] \notin Enqueuing \cup OnWindow
      /\ \A q \in Procs : q # c => pc'[q] = pc[q] /\ back'[q] = back[q]
  <2>1. CASE Ask(c, Anything(TRUE), "idle")
    <3>1. 0 \in 0 .. MaxMessages /\ TRUE \in BOOLEAN BY BatchAssumption
    <3>2. Anything(TRUE) \in Requests BY <3>1, CutTypes
    <3> QED BY <1>1, <1>2, <2>1, <3>2, CallAsked
  <2>2. CASE UNCHANGED <<pc, req, back>>
    BY <1>2, <2>2 DEF TypesInv, CallsFit, Enqueuing, OnWindow, AtWork
  <2> QED BY <1>2, <2>1, <2>2
<1>4. CursorFits(cursor') /\ RowsFit(batch') /\ \A w \in Windows : batch'[w].status = batch[w].status
  BY ReplayFacts
<1>5. WorkFits' BY <1>1, <1>2, <1>3, <1>4, WorkKeeps DEF TypesInv, WorkFits
<1>6. TypesInv' BY <1>2, <1>3, <1>4, <1>5 DEF TypesInv, CountsFit
<1>7. SoloInv' /\ NoStranded' BY <1>1, <1>2, <1>3, <1>4, StatusKept DEF Enqueuing
<1>8. StartsStep BY <1>2 DEF StartsStep
<1> QED BY <1>6, <1>7, <1>8, Together

\* Students post, the teacher closes.
LEMMA WorldKeeps == ASSUME BatchInv, Post \/ CloseDiscussion PROVE BatchInv'
<1> USE DEF BatchInv, workVars
<1>1. /\ posted' \in 0 .. MaxMessages /\ open' \in BOOLEAN
      /\ UNCHANGED <<lost, unmarked, replays, workVars, batch, cursor, tasks, pc, back, req, target>>
  <2>1. CASE Post BY <2>1, BatchAssumption DEF Post, TypesInv, CountsFit
  <2>2. CASE CloseDiscussion
    <3>1. open' = FALSE BY <2>2 DEF CloseDiscussion
    <3>2. open' \in BOOLEAN BY <3>1
    <3>3. /\ posted' = posted
          /\ UNCHANGED <<lost, unmarked, replays, workVars, batch, cursor, tasks, pc, back, req,
                         target>>
      BY <2>2 DEF CloseDiscussion
    <3>4. posted \in 0 .. MaxMessages BY DEF TypesInv, CountsFit
    <3> QED BY <3>2, <3>3, <3>4
  <2> QED BY <2>1, <2>2
<1>2. WorkFits' BY <1>1, WorkKeeps DEF TypesInv, WorkFits
<1>3. TypesInv' BY <1>1, <1>2 DEF TypesInv, CountsFit, CallsFit
<1>4. SoloInv' /\ NoStranded' BY <1>1, StatusKept
<1>5. StartsStep BY <1>1, <1>3, StartsStay
<1> QED BY <1>3, <1>4, <1>5, Together

LEMMA ElapseKeeps == ASSUME BatchInv, Elapse PROVE BatchInv'
<1> USE DEF BatchInv, worldVars, workVars
<1>1. PICK w \in Windows : batch' = [batch EXCEPT ![w].backoff = FALSE] BY DEF Elapse
<1> DEFINE f == FALSE
           b == [batch[w] EXCEPT !.backoff = f]
<1>2. batch' = [batch EXCEPT ![w] = b] BY <1>1 DEF TypesInv, RowsFit
<1>3. RowFits(batch[w]) /\ f \in BOOLEAN BY DEF TypesInv, RowsFit
<1> HIDE DEF f
<1>4. /\ b \in Batches /\ b.status = batch[w].status /\ b.attempts = batch[w].attempts
      /\ b.terminal = batch[w].terminal /\ b.queued = batch[w].queued
  BY <1>3 DEF RowFits, Batches
<1> HIDE DEF b
<1>5. RowFits(b) BY <1>3, <1>4 DEF RowFits
<1>6. /\ RowsFit(batch') /\ batch'[w] = b
      /\ \A u \in Windows : u # w => batch'[u] = batch[u]
  BY <1>2, <1>5, RowWritten DEF TypesInv
<1>7. \A u \in Windows : /\ batch'[u].status = batch[u].status
                         /\ batch'[u].terminal = batch[u].terminal
                         /\ batch'[u].queued = batch[u].queued
  BY <1>4, <1>6
<1>8. UNCHANGED <<worldVars, workVars, cursor, tasks, pc, back, req, target>> BY DEF Elapse
<1>9. WorkFits' BY <1>7, <1>8, WorkKeeps DEF TypesInv, WorkFits
<1>10. TypesInv' BY <1>6, <1>8, <1>9 DEF TypesInv, CountsFit, CallsFit
<1>11. SoloInv' /\ NoStranded' BY <1>7, <1>8, StatusKept
<1>12. StartsStep BY <1>7, <1>8, <1>10, StartsStay DEF Settled
<1> QED BY <1>10, <1>11, <1>12, Together

-----------------------------------------------------------------------------
(* execute_state_assessment_batch()                                          *)

LEMMA WorkerFacts ==
  ASSUME TypesInv, NEW v \in Workers, pc[v] \in OnWindow
  PROVE  /\ v \in Procs /\ back[v] # "judged"
         /\ pc[v] \notin Enqueuing \cup Asking
         /\ win[v] \in Windows /\ RowFits(batch[win[v]]) /\ batch[win[v]].status # "none"
         /\ \A u \in Workers : u \in Procs
<1>1. pc[v] \notin Enqueuing \cup Asking BY DEF OnWindow, AtWork, Asking, Enqueuing
<1>2. win[v] \in Windows /\ batch[win[v]].status # "none" /\ back[v] # "judged"
  BY <1>1 DEF TypesInv, WorkFits
<1> QED BY <1>1, <1>2 DEF TypesInv, RowsFit, Procs

LEMMA LeaveFacts ==
  ASSUME TypesInv, NEW v \in Workers, Leave(v)
  PROVE  /\ win' \in [Workers -> Windows \cup {NoWindow}]
         /\ plan' \in [Workers -> [rerun : BOOLEAN, next : Requests]]
         /\ plan'[v].next.start = 0
         /\ \A u \in Workers : u # v => win'[u] = win[u] /\ plan'[u] = plan[u]
<1> DEFINE f == FALSE
           n == Anything(FALSE)
           none == [rerun |-> f, next |-> n]
<1>1. NoPlan = none /\ f \in BOOLEAN BY DEF NoPlan
<1>2. 0 \in 0 .. MaxMessages /\ FALSE \in BOOLEAN BY BatchAssumption
<1>3. n \in Requests /\ n.start = 0 BY <1>2, CutTypes
<1> HIDE DEF f, n
<1>4. none \in [rerun : BOOLEAN, next : Requests] /\ none.next.start = 0 BY <1>1, <1>3
<1> HIDE DEF none
<1>5. plan' = [plan EXCEPT ![v] = none] /\ win' = [win EXCEPT ![v] = NoWindow] BY <1>1 DEF Leave
<1>6. /\ win' \in [Workers -> Windows \cup {NoWindow}]
      /\ \A u \in Workers : u # v => win'[u] = win[u]
  BY <1>5 DEF TypesInv, WorkFits
<1>7. /\ plan' \in [Workers -> [rerun : BOOLEAN, next : Requests]] /\ plan'[v] = none
      /\ \A u \in Workers : u # v => plan'[u] = plan[u]
  BY <1>4, <1>5 DEF TypesInv, WorkFits
<1> QED BY <1>4, <1>6, <1>7

\* A worker leaves its window: it stops, or asks for the next one.
LEMMA WindowLeft ==
  ASSUME TypesInv, NEW v \in Workers, pc[v] \in OnWindow, UNCHANGED target,
         NEW r \in Requests, Stop(v) \/ (Ask(v, r, "idle") /\ Leave(v)),
         \A w \in Windows : batch'[w].status = "none" => batch[w].status = "none"
  PROVE  /\ CallsFit' /\ WorkFits'
         /\ pc'[v] \notin Enqueuing \cup OnWindow
         /\ \A q \in Procs : q # v => pc'[q] = pc[q]
         /\ \A u \in Workers : u # v => win'[u] = win[u]
         /\ \A q \in Procs : req'[q] = req[q] \/ req'[q] = r
         /\ \A u \in Workers : plan'[u].next.start = plan[u].next.start \/ plan'[u].next.start = 0
<1>1. v \in Procs /\ back[v] # "judged" /\ \A u \in Workers : u \in Procs BY WorkerFacts
<1>2. Leave(v) BY DEF Stop
<1>3. /\ win' \in [Workers -> Windows \cup {NoWindow}]
      /\ plan' \in [Workers -> [rerun : BOOLEAN, next : Requests]]
      /\ plan'[v].next.start = 0
      /\ \A u \in Workers : u # v => win'[u] = win[u] /\ plan'[u] = plan[u]
  BY <1>2, LeaveFacts
<1>4. /\ CallsFit' /\ pc'[v] \notin Enqueuing \cup OnWindow /\ back'[v] # "judged"
      /\ \A q \in Procs : q # v => pc'[q] = pc[q] /\ back'[q] = back[q]
      /\ \A q \in Procs : req'[q] = req[q] \/ req'[q] = r
  <2>1. CASE Stop(v)
    <3>1. pc' \in [Procs -> Places] /\ pc'[v] = "idle" /\ \A q \in Procs : q # v => pc'[q] = pc[q]
      BY <1>1, <2>1, GoFacts DEF Stop, Places
    <3> QED BY <1>1, <2>1, <3>1 DEF Stop, TypesInv, CallsFit, Enqueuing, OnWindow, AtWork
  <2>2. CASE Ask(v, r, "idle") /\ Leave(v)
    <3>1. /\ CallsFit' /\ pc'[v] \notin Enqueuing \cup OnWindow
          /\ back'[v] = "idle" /\ req'[v] = r
          /\ \A q \in Procs : q # v => pc'[q] = pc[q] /\ back'[q] = back[q] /\ req'[q] = req[q]
      BY <1>1, <2>2, CallAsked
    <3> QED BY <3>1
  <2> QED BY <2>1, <2>2
<1>5. WorkFits' BY <1>1, <1>3, <1>4, WorkKeeps
<1> QED BY <1>3, <1>4, <1>5

LEMMA WorkerWrites ==
  ASSUME TypesInv, NEW v \in Workers, pc[v] \in OnWindow, NEW b, RowFits(b), b.status # "none",
         Work(v, b)
  PROVE  /\ RowsFit(batch') /\ batch' = [batch EXCEPT ![win[v]] = b] /\ batch'[win[v]] = b
         /\ \A u \in Windows : u # win[v] => batch'[u] = batch[u]
         /\ \A w \in Windows : batch'[w].status = "none" => batch[w].status = "none"
<1>1. win[v] \in Windows BY WorkerFacts
<1>2. batch' = [batch EXCEPT ![win[v]] = b] BY DEF Work
<1> QED BY <1>1, <1>2, RowWritten DEF TypesInv

LEMMA NothingAsked == Anything(FALSE) \in Requests /\ Anything(FALSE).start = 0
<1>1. 0 \in 0 .. MaxMessages /\ FALSE \in BOOLEAN BY BatchAssumption
<1> QED BY <1>1, CutTypes

LEMMA FailedStopKeeps ==
  ASSUME BatchInv, NEW v \in Workers, StopClosed(v) \/ LoseLease(v) PROVE BatchInv'
<1> USE DEF BatchInv, worldVars
<1> DEFINE w == win[v]
           f == FALSE
           b == Failed(batch[w], f)
<1>1. pc[v] \in AtWork /\ pc[v] \in OnWindow BY DEF StopClosed, LoseLease, AtWork, OnWindow
<1>2. Work(v, b) /\ Stop(v) /\ UNCHANGED <<worldVars, cursor, tasks, target>>
  BY DEF StopClosed, LoseLease
<1>3. w \in Windows /\ RowFits(batch[w]) /\ batch[w].status # "none" BY <1>1, WorkerFacts
<1>4. f \in BOOLEAN OBVIOUS
<1> HIDE DEF f
<1>5. /\ RowFits(b) /\ b.queued = batch[w].queued /\ b.terminal = batch[w].terminal
      /\ batch[w].status \in ActiveStatus => b.status = "failed"
      /\ batch[w].status \notin ActiveStatus => b = batch[w]
  BY <1>3, <1>4, FailedFacts
<1> HIDE DEF b
<1>6. b.status # "none" /\ b.status \notin ActiveStatus /\ (Settled(batch[w]) => Settled(b))
  BY <1>3, <1>5 DEF ActiveStatus, Settled
<1>7. /\ RowsFit(batch') /\ batch' = [batch EXCEPT ![win[v]] = b] /\ batch'[w] = b
      /\ \A u \in Windows : u # w => batch'[u] = batch[u]
      /\ \A u \in Windows : batch'[u].status = "none" => batch[u].status = "none"
  BY <1>1, <1>2, <1>5, <1>6, WorkerWrites
<1>8. /\ CallsFit' /\ WorkFits'
      /\ pc'[v] \notin Enqueuing \cup OnWindow
      /\ \A q \in Procs : q # v => pc'[q] = pc[q]
      /\ \A u \in Workers : u # v => win'[u] = win[u]
      /\ \A u \in Workers : plan'[u].next.start = plan[u].next.start \/ plan'[u].next.start = 0
  <2>1. PICK r \in Requests : TRUE BY NothingAsked
  <2> QED BY <1>1, <1>2, <1>7, <2>1, WindowLeft
<1>9. req' = req BY <1>2 DEF Stop
<1>10. TypesInv' BY <1>2, <1>7, <1>8 DEF TypesInv, CountsFit
<1>11. SoloInv' /\ NoStranded' BY <1>1, <1>2, <1>6, <1>7, <1>8, WorkLeft DEF OnWindow
<1>12. StartsStep
  BY <1>2, <1>3, <1>5, <1>6, <1>7, <1>8, <1>9, <1>10, ZeroStarts, StartsStay
<1> QED BY <1>10, <1>11, <1>12, Together

LEMMA FailKeeps == ASSUME BatchInv, NEW v \in Workers, Fail(v) PROVE BatchInv'
<1> USE DEF BatchInv, worldVars, workVars
<1> DEFINE w == win[v]
           k == TRUE
           b == Failed(batch[w], k)
<1>1. pc[v] \in AtWork /\ pc[v] \in OnWindow BY DEF Fail, AtWork, OnWindow
<1>2. /\ Work(v, b) /\ Go(v, "retrying")
      /\ UNCHANGED <<worldVars, workVars, cursor, tasks, back, req, target>>
  BY DEF Fail
<1>3. /\ w \in Windows /\ RowFits(batch[w]) /\ batch[w].status # "none" /\ v \in Procs
      /\ back[v] # "judged" /\ \A u \in Workers : u \in Procs
  BY <1>1, WorkerFacts
<1>4. k \in BOOLEAN OBVIOUS
<1> HIDE DEF k
<1>5. /\ RowFits(b) /\ b.queued = batch[w].queued /\ b.terminal = batch[w].terminal
      /\ batch[w].status \in ActiveStatus => b.status = "failed"
      /\ batch[w].status \notin ActiveStatus => b = batch[w]
  BY <1>3, <1>4, FailedFacts
<1> HIDE DEF b
<1>6. b.status # "none" /\ b.status \notin ActiveStatus /\ (Settled(batch[w]) => Settled(b))
  BY <1>3, <1>5 DEF ActiveStatus, Settled
<1>7. /\ RowsFit(batch') /\ batch' = [batch EXCEPT ![win[v]] = b] /\ batch'[w] = b
      /\ \A u \in Windows : u # w => batch'[u] = batch[u]
      /\ \A u \in Windows : batch'[u].status = "none" => batch[u].status = "none"
  BY <1>1, <1>2, <1>5, <1>6, WorkerWrites
<1>8. pc' \in [Procs -> Places] /\ pc'[v] = "retrying" /\ \A q \in Procs : q # v => pc'[q] = pc[q]
  BY <1>2, <1>3, GoFacts DEF Places, OnWindow
<1>9. pc'[v] \notin AtWork \cup Enqueuing BY <1>8 DEF AtWork, Enqueuing
<1>10. CallsFit' BY <1>2, <1>8, <1>9 DEF TypesInv, CallsFit
<1>11. WorkFits'
  <2>1. \A u \in Windows : batch'[u].status # "none" \/ batch[u].status = "none" BY <1>7
  <2> QED BY <1>2, <1>3, <1>7, <1>8, <2>1, WorkKeeps DEF TypesInv, WorkFits, w
<1>12. TypesInv' BY <1>2, <1>7, <1>10, <1>11 DEF TypesInv, CountsFit
<1>13. SoloInv' /\ NoStranded' BY <1>1, <1>2, <1>6, <1>7, <1>8, <1>9, WorkLeft
<1>14. StartsStep BY <1>2, <1>3, <1>5, <1>6, <1>7, <1>12, StartsStay
<1> QED BY <1>12, <1>13, <1>14, Together

LEMMA GiveUpKeeps == ASSUME BatchInv, NEW v \in Workers, GiveUp(v) PROVE BatchInv'
<1> USE DEF BatchInv, worldVars
<1> DEFINE w == win[v]
           b == Terminated(batch[w])
           r == Contract(w)
<1>1. pc[v] \in AtWork /\ pc[v] \in OnWindow BY DEF GiveUp, AtWork, OnWindow
<1>2. /\ Work(v, b) /\ UNCHANGED <<worldVars, tasks, target>>
      /\ cursor' = IF Closable(batch[w]) THEN Scheduled(cursor, w[2]) ELSE cursor
      /\ Stop(v) \/ (Ask(v, r, "idle") /\ Leave(v))
  BY DEF GiveUp
<1>3. w \in Windows /\ RowFits(batch[w]) /\ batch[w].status # "none" BY <1>1, WorkerFacts
<1>4. r \in Requests /\ r.start \in {0, batch[w].queued.start}
  BY <1>3, ContractTypes DEF TypesInv
<1> HIDE DEF r
<1>5. /\ RowFits(b) /\ b.queued = batch[w].queued /\ Settled(b)
      /\ Closable(batch[w]) => b.status = "failed" /\ b.terminal
      /\ ~Closable(batch[w]) => b = batch[w]
  BY <1>3, TerminatedFacts
<1> HIDE DEF b
<1>6. b.status # "none" /\ (b.status \in ActiveStatus => b.status = batch[w].status)
  BY <1>3, <1>5 DEF ActiveStatus
<1>7. /\ RowsFit(batch') /\ batch' = [batch EXCEPT ![win[v]] = b] /\ batch'[w] = b
      /\ \A u \in Windows : u # w => batch'[u] = batch[u]
      /\ \A u \in Windows : batch'[u].status = "none" => batch[u].status = "none"
  BY <1>1, <1>2, <1>5, <1>6, WorkerWrites
<1>8. /\ CallsFit' /\ WorkFits'
      /\ pc'[v] \notin Enqueuing \cup OnWindow
      /\ \A q \in Procs : q # v => pc'[q] = pc[q]
      /\ \A u \in Workers : u # v => win'[u] = win[u]
      /\ \A q \in Procs : req'[q] = req[q] \/ req'[q] = r
      /\ \A u \in Workers : plan'[u].next.start = plan[u].next.start \/ plan'[u].next.start = 0
  BY <1>1, <1>2, <1>4, <1>7, WindowLeft
<1>9. /\ CursorFits(cursor') /\ cursor.scheduled <= cursor'.scheduled
      /\ cursor'.scheduled \in {cursor.scheduled, w[2]}
  <2>1. w[2] \in 1 .. MaxMessages BY <1>3, WindowFacts
  <2> QED BY <1>2, <2>1, BatchAssumption DEF TypesInv, CursorFits, Scheduled, High
<1>10. TypesInv' BY <1>2, <1>7, <1>8, <1>9 DEF TypesInv, CountsFit
<1>11. SoloInv' /\ NoStranded' BY <1>1, <1>2, <1>6, <1>7, <1>8, WorkLeft DEF OnWindow
<1>12. StartsStep
  <2> SUFFICES ASSUME replays = 0 PROVE StartsStep
      BY <1>2 DEF StartsStep
  <2>1. w[1] <= Next1 /\ batch[w].queued.start <= Next1 BY <1>3 DEF StartsInv
  <2>2. \A q \in Procs : req'[q].start = req[q].start \/ req'[q].start <= Next1
    BY <1>4, <1>8, <2>1, ZeroStarts
  <2>3. ASSUME NEW m \in Next1 .. cursor'.scheduled PROVE Within(m, w) /\ Settled(batch'[w])
    <3>1. cursor.scheduled \in 0 .. MaxMessages BY DEF TypesInv, CursorFits
    <3>2. cursor'.scheduled = w[2] BY <1>9, <3>1 DEF Next1
    <3> QED BY <1>3, <1>5, <1>7, <2>1, <3>1, <3>2, WindowFacts DEF Within, Next1
  <2>4. \A u \in Windows : /\ batch'[u].status # "none" => batch[u].status # "none"
                           /\ batch'[u].queued.start = batch[u].queued.start
                           /\ Settled(batch[u]) => Settled(batch'[u])
    BY <1>3, <1>5, <1>7
  <2>5. \A u \in Workers : \/ plan'[u].next.start = plan[u].next.start
                           \/ plan'[u].next.start <= Next1
    BY <1>8, ZeroStarts
  <2>6. \A m \in Next1 .. cursor'.scheduled :
          \E u \in Windows : Within(m, u) /\ Settled(batch'[u])
    BY <1>3, <2>3
  <2> QED BY <1>2, <1>9, <2>2, <2>4, <2>5, <2>6 DEF StartsStep
<1> QED BY <1>10, <1>11, <1>12, Together

LEMMA PrepareRetryKeeps == ASSUME BatchInv, NEW v \in Workers, PrepareRetry(v) PROVE BatchInv'
<1> USE DEF BatchInv, worldVars
<1> DEFINE w == win[v]
           k == TRUE
           b == [batch[w] EXCEPT !.status = "pending", !.backoff = k]
<1>1. pc[v] \in OnWindow /\ pc[v] = "retrying" BY DEF PrepareRetry, OnWindow
<1>2. /\ Work(v, b) /\ target' = [target EXCEPT ![v] = w] /\ Go(v, "enqueue") /\ Leave(v)
      /\ UNCHANGED <<worldVars, cursor, tasks, back, req>>
      /\ Retryable(batch[w]) /\ ActiveWindows \subseteq {w}
  BY DEF PrepareRetry
<1>3. /\ w \in Windows /\ RowFits(batch[w]) /\ v \in Procs /\ back[v] # "judged"
      /\ \A u \in Workers : u \in Procs
  BY <1>1, WorkerFacts
<1>4. k \in BOOLEAN OBVIOUS
<1> HIDE DEF k
<1>5. /\ b \in Batches /\ b.status = "pending" /\ b.attempts = batch[w].attempts
      /\ b.terminal = batch[w].terminal /\ b.queued = batch[w].queued
  BY <1>3, <1>4 DEF RowFits, Batches
<1> HIDE DEF b
<1>6. RowFits(b) /\ (Settled(batch[w]) => Settled(b))
  BY <1>2, <1>5 DEF RowFits, Retryable, Settled
<1>7. /\ RowsFit(batch') /\ batch' = [batch EXCEPT ![win[v]] = b] /\ batch'[w] = b
      /\ \A u \in Windows : u # w => batch'[u] = batch[u]
      /\ \A u \in Windows : batch'[u].status = "none" => batch[u].status = "none"
  BY <1>1, <1>2, <1>5, <1>6, WorkerWrites
<1>8. pc' \in [Procs -> Places] /\ pc'[v] = "enqueue" /\ \A q \in Procs : q # v => pc'[q] = pc[q]
  BY <1>2, <1>3, GoFacts DEF Places, Asking, Enqueuing
<1>9. /\ win' \in [Workers -> Windows \cup {NoWindow}]
      /\ plan' \in [Workers -> [rerun : BOOLEAN, next : Requests]]
      /\ plan'[v].next.start = 0
      /\ \A u \in Workers : u # v => win'[u] = win[u] /\ plan'[u] = plan[u]
  BY <1>2, LeaveFacts
<1>10. CallsFit' BY <1>2, <1>3, <1>8 DEF TypesInv, CallsFit
<1>11. WorkFits'
  <2>1. pc'[v] \notin OnWindow BY <1>8 DEF OnWindow, AtWork
  <2> QED BY <1>2, <1>3, <1>7, <1>8, <1>9, <2>1, WorkKeeps
<1>12. TypesInv' BY <1>2, <1>7, <1>10, <1>11 DEF TypesInv, CountsFit
<1>13. SoloInv' /\ NoStranded'
  <2>1. batch[w].status = "failed" BY <1>2 DEF Retryable
  <2>2. \A u \in Windows : batch[u].status \notin ActiveStatus
    BY <1>2, <2>1 DEF ActiveWindows, ActiveStatus
  <2> QED BY <1>2, <1>3, <1>5, <1>7, <1>9, <2>2, WindowClaimed
<1>14. StartsStep
  <2>1. batch[w].status # "none" BY <1>1, WorkerFacts
  <2> QED BY <1>2, <1>3, <1>5, <1>6, <1>7, <1>9, <1>12, <2>1, ZeroStarts, StartsStay
<1> QED BY <1>12, <1>13, <1>14, Together

\* The worker goes on or stops; no row is written.
LEMMA WindowLeftKeeps ==
  ASSUME BatchInv, NEW v \in Workers, pc[v] \in OnWindow, NEW r \in Requests,
         replays = 0 => r.start <= Next1,
         Stop(v) \/ (Ask(v, r, "idle") /\ Leave(v)),
         UNCHANGED <<worldVars, batch, cursor, tasks, target>>
  PROVE  BatchInv'
<1> USE DEF BatchInv, worldVars
<1>1. v \in Procs /\ pc[v] \notin Enqueuing \cup Asking /\ \A u \in Workers : u \in Procs
  BY WorkerFacts
<1>2. /\ CallsFit' /\ WorkFits'
      /\ pc'[v] \notin Enqueuing \cup OnWindow
      /\ \A q \in Procs : q # v => pc'[q] = pc[q]
      /\ \A u \in Workers : u # v => win'[u] = win[u]
      /\ \A q \in Procs : req'[q] = req[q] \/ req'[q] = r
      /\ \A u \in Workers : plan'[u].next.start = plan[u].next.start \/ plan'[u].next.start = 0
  BY WindowLeft
<1>3. TypesInv' BY <1>2 DEF TypesInv, CountsFit
<1>4. SoloInv' /\ NoStranded' BY <1>1, <1>2, StatusKept DEF OnWindow
<1>5. StartsStep BY <1>2, <1>3, ZeroStarts, StartsStay
<1> QED BY <1>3, <1>4, <1>5, Together

LEMMA DropRetryKeeps == ASSUME BatchInv, NEW v \in Workers, DropRetry(v) PROVE BatchInv'
<1>1. PICK r \in Requests : r.start = 0 BY NothingAsked
<1>2. pc[v] \in OnWindow BY DEF DropRetry, OnWindow
<1> QED BY <1>1, <1>2, ZeroStarts, WindowLeftKeeps DEF DropRetry, BatchInv

LEMMA ContinueKeeps == ASSUME BatchInv, NEW v \in Workers, Continue(v) PROVE BatchInv'
<1>1. plan[v].next \in Requests /\ (replays = 0 => plan[v].next.start <= Next1)
  BY DEF BatchInv, TypesInv, WorkFits, StartsInv
<1>2. pc[v] \in OnWindow BY DEF Continue, OnWindow
<1>3. Stop(v) \/ (Ask(v, plan[v].next, "idle") /\ Leave(v)) BY DEF Continue
<1> QED BY <1>1, <1>2, <1>3, WindowLeftKeeps DEF Continue

LEMMA ReplaceKeeps == ASSUME BatchInv, NEW v \in Workers, Replace(v) PROVE BatchInv'
<1> USE DEF BatchInv, worldVars, workVars
<1> DEFINE r == [Anything(TRUE) EXCEPT !.cut = posted]
<1>1. Ask(v, r, "judged") /\ UNCHANGED <<worldVars, workVars, batch, cursor, tasks, target>>
  BY DEF Replace
<1>2. pc[v] \in OnWindow BY DEF Replace, OnWindow
<1>3. posted \in 0 .. MaxMessages /\ TRUE \in BOOLEAN BY DEF TypesInv, CountsFit
<1>4. r \in Requests /\ r.start = 0 BY <1>3, CutTypes
<1> HIDE DEF r
<1>5. /\ v \in Procs /\ pc[v] \notin Enqueuing \cup Asking /\ \A u \in Workers : u \in Procs
      /\ win[v] \in Windows /\ batch[win[v]].status # "none"
  BY <1>2, WorkerFacts
<1>6. /\ CallsFit'
      /\ pc'[v] \in Asking /\ pc'[v] \notin Enqueuing \cup OnWindow
      /\ req'[v] = r
      /\ \A q \in Procs : q # v => pc'[q] = pc[q] /\ back'[q] = back[q] /\ req'[q] = req[q]
  BY <1>1, <1>4, <1>5, CallAsked
<1>7. WorkFits' BY <1>1, <1>5, <1>6, WorkKeeps DEF TypesInv, WorkFits
<1>8. TypesInv' BY <1>1, <1>6, <1>7 DEF TypesInv, CountsFit
<1>9. SoloInv' /\ NoStranded' BY <1>1, <1>5, <1>6, StatusKept DEF OnWindow
<1>10. StartsStep BY <1>1, <1>4, <1>6, <1>8, ZeroStarts, StartsStay
<1> QED BY <1>8, <1>9, <1>10, Together

LEMMA StartKeeps == ASSUME BatchInv, NEW v \in Workers, Start(v) PROVE BatchInv'
<1> USE DEF BatchInv, worldVars, workVars
<1>1. pc[v] \in AtWork /\ pc[v] \in OnWindow BY DEF Start, AtWork, OnWindow
<1>2. /\ v \in Procs /\ pc[v] \notin Enqueuing \cup Asking /\ \A u \in Workers : u \in Procs
      /\ win[v] \in Windows /\ batch[win[v]].status # "none" /\ back[v] # "judged"
  BY <1>1, WorkerFacts
<1>3. pc' \in [Procs -> Places] /\ pc'[v] = "assess" /\ \A q \in Procs : q # v => pc'[q] = pc[q]
  BY <1>2, GoFacts DEF Start, Places, OnWindow, AtWork
<1>4. UNCHANGED <<worldVars, workVars, batch, cursor, tasks, back, req, target>> BY DEF Start
<1>5. pc'[v] \notin Enqueuing BY <1>3 DEF Enqueuing
<1>6. CallsFit' BY <1>3, <1>4, <1>5 DEF TypesInv, CallsFit
<1>7. WorkFits' BY <1>2, <1>3, <1>4, WorkKeeps DEF TypesInv, WorkFits
<1>8. TypesInv' BY <1>4, <1>6, <1>7 DEF TypesInv, CountsFit
<1>9. SoloInv' /\ NoStranded' BY <1>1, <1>2, <1>3, <1>4, <1>5, StatusKept
<1>10. StartsStep BY <1>4, <1>8, StartsStay
<1> QED BY <1>8, <1>9, <1>10, Together

LEMMA ReadBatchKeeps == ASSUME BatchInv, NEW v \in Workers, ReadBatch(v) PROVE BatchInv'
<1> USE DEF BatchInv, worldVars
<1> DEFINE w == win[v]
           k == batch[w].rerun
           r == Contract(w)
           read == [rerun |-> k, next |-> r]
<1>1. pc[v] \in AtWork /\ pc[v] \in OnWindow BY DEF ReadBatch, AtWork, OnWindow
<1>2. /\ v \in Procs /\ pc[v] \notin Enqueuing \cup Asking /\ \A u \in Workers : u \in Procs
      /\ w \in Windows /\ batch[w].status # "none" /\ back[v] # "judged" /\ RowFits(batch[w])
  BY <1>1, WorkerFacts
<1>3. pc' \in [Procs -> Places] /\ pc'[v] = "read" /\ \A q \in Procs : q # v => pc'[q] = pc[q]
  BY <1>2, GoFacts DEF ReadBatch, Places, OnWindow, AtWork
<1>4. /\ UNCHANGED <<worldVars, win, batch, cursor, tasks, back, req, target>>
      /\ plan' = [plan EXCEPT ![v] = read]
  BY DEF ReadBatch
<1>5. r \in Requests /\ r.start \in {0, batch[w].queued.start}
  BY <1>2, ContractTypes DEF TypesInv
<1>6. k \in BOOLEAN BY <1>2 DEF RowFits, Batches
<1> HIDE DEF w, k, r
<1>7. read \in [rerun : BOOLEAN, next : Requests] /\ read.next = r BY <1>5, <1>6
<1> HIDE DEF read
<1>8. /\ plan' \in [Workers -> [rerun : BOOLEAN, next : Requests]] /\ plan'[v].next = r
      /\ \A u \in Workers : u # v => plan'[u] = plan[u]
  BY <1>4, <1>7 DEF TypesInv, WorkFits
<1>9. pc'[v] \notin Enqueuing BY <1>3 DEF Enqueuing
<1>10. CallsFit' BY <1>3, <1>4, <1>9 DEF TypesInv, CallsFit
<1>11. WorkFits' BY <1>2, <1>3, <1>4, <1>8, WorkKeeps DEF TypesInv, WorkFits, w
<1>12. TypesInv' BY <1>4, <1>10, <1>11 DEF TypesInv, CountsFit
<1>13. SoloInv' /\ NoStranded' BY <1>1, <1>2, <1>3, <1>4, <1>9, StatusKept
<1>14. StartsStep
  <2>1. replays = 0 => r.start <= Next1 BY <1>2, <1>5, ZeroStarts DEF StartsInv
  <2> QED BY <1>4, <1>8, <1>12, <2>1, StartsStay
<1> QED BY <1>12, <1>13, <1>14, Together

LEMMA SaveKeeps == ASSUME BatchInv, NEW v \in Workers, Save(v) PROVE BatchInv'
<1> USE DEF BatchInv, worldVars, workVars
<1> DEFINE w == win[v]
<1>1. pc[v] \in AtWork /\ pc[v] \in OnWindow BY DEF Save, AtWork, OnWindow
<1>2. /\ v \in Procs /\ pc[v] \notin Enqueuing \cup Asking /\ \A u \in Workers : u \in Procs
      /\ w \in Windows /\ batch[w].status # "none" /\ back[v] # "judged" /\ RowFits(batch[w])
  BY <1>1, WorkerFacts
<1>3. pc' \in [Procs -> Places] /\ pc'[v] = "saved" /\ \A q \in Procs : q # v => pc'[q] = pc[q]
  BY <1>2, GoFacts DEF Save, Places, OnWindow, AtWork
<1>4. UNCHANGED <<worldVars, workVars, tasks, back, req, target>> BY DEF Save
<1>5. pc'[v] \notin Enqueuing \cup AtWork BY <1>3 DEF Enqueuing, AtWork
<1>6. CallsFit' BY <1>3, <1>4, <1>5 DEF TypesInv, CallsFit
<1>7. CASE batch[w].status = "succeeded" /\ UNCHANGED <<batch, cursor>>
  <2>1. WorkFits' BY <1>2, <1>3, <1>4, <1>7, WorkKeeps DEF TypesInv, WorkFits
  <2>2. TypesInv' BY <1>4, <1>6, <1>7, <2>1 DEF TypesInv, CountsFit
  <2>3. SoloInv' /\ NoStranded' BY <1>2, <1>3, <1>4, <1>5, <1>7, StatusKept
  <2>4. StartsStep BY <1>4, <1>7, <2>2, StartsStay
  <2> QED BY <2>2, <2>3, <2>4, Together
<1>8. CASE /\ batch[w].status = "running"
           /\ Work(v, [NoBatch EXCEPT !.status = "succeeded", !.terminal = batch[w].terminal])
           /\ cursor' = Finalized(cursor, w[2])
  <2> DEFINE t == batch[w].terminal
             b == [NoBatch EXCEPT !.status = "succeeded", !.terminal = t]
  <2>1. t \in BOOLEAN BY <1>2 DEF RowFits, Batches
  <2> HIDE DEF t
  <2>2. b \in Batches /\ b.status = "succeeded" /\ b.queued.start = 0
    BY <2>1, EmptyRow DEF Batches
  <2>3. Work(v, b) BY <1>8 DEF t
  <2> HIDE DEF b
  <2>4. RowFits(b) /\ Settled(b) BY <2>2 DEF RowFits, Settled
  <2>5. /\ RowsFit(batch') /\ batch' = [batch EXCEPT ![win[v]] = b] /\ batch'[w] = b
        /\ \A u \in Windows : u # w => batch'[u] = batch[u]
        /\ \A u \in Windows : batch'[u].status = "none" => batch[u].status = "none"
    BY <1>1, <2>2, <2>3, <2>4, WorkerWrites
  <2>6. /\ CursorFits(cursor') /\ cursor.scheduled <= cursor'.scheduled
        /\ cursor'.scheduled \in {cursor.scheduled, w[2]}
    <3>1. w[2] \in 1 .. MaxMessages BY <1>2, WindowFacts
    <3>2. /\ cursor'.finalized = High(cursor.finalized, w[2])
          /\ cursor'.scheduled = High(cursor.scheduled, w[2])
          /\ cursor' \in [finalized : {cursor'.finalized}, scheduled : {cursor'.scheduled}]
      BY <1>8 DEF Finalized
    <3> QED BY <3>1, <3>2, BatchAssumption DEF TypesInv, CursorFits, High
  <2>7. WorkFits'
    <3>1. win'[v] = w /\ batch'[w].status # "none" BY <1>4, <2>2, <2>5
    <3>2. pc'[v] \in OnWindow BY <1>3 DEF OnWindow
    <3> QED BY <1>2, <1>3, <1>4, <2>5, <3>1, WorkKeeps DEF TypesInv, WorkFits
  <2>8. TypesInv' BY <1>4, <1>6, <2>5, <2>6, <2>7 DEF TypesInv, CountsFit
  <2>9. SoloInv' /\ NoStranded'
    <3>1. b.status \notin ActiveStatus BY <2>2 DEF ActiveStatus
    <3> QED BY <1>1, <1>3, <1>4, <1>5, <2>5, <3>1, WorkLeft
  <2>10. StartsStep
    <3> SUFFICES ASSUME replays = 0 PROVE StartsStep
        BY <1>4 DEF StartsStep
    <3>1. w[1] <= Next1 BY <1>2 DEF StartsInv
    <3>2. ASSUME NEW m \in Next1 .. cursor'.scheduled PROVE Within(m, w) /\ Settled(batch'[w])
      <4>1. cursor.scheduled \in 0 .. MaxMessages BY DEF TypesInv, CursorFits
      <4>2. cursor'.scheduled = w[2] BY <2>6, <4>1 DEF Next1
      <4> QED BY <1>2, <2>4, <2>5, <3>1, <4>1, <4>2, WindowFacts DEF Within, Next1
    <3>3. \A u \in Windows : /\ batch'[u].status # "none" => batch[u].status # "none"
                             /\ \/ batch'[u].queued.start = batch[u].queued.start
                                \/ batch'[u].queued.start <= Next1
                             /\ Settled(batch[u]) => Settled(batch'[u])
      BY <1>2, <2>2, <2>4, <2>5, ZeroStarts
    <3>4. \A m \in Next1 .. cursor'.scheduled :
            \E u \in Windows : Within(m, u) /\ Settled(batch'[u])
      BY <1>2, <3>2
    <3> QED BY <1>4, <2>6, <3>3, <3>4 DEF StartsStep
  <2> QED BY <2>8, <2>9, <2>10, Together
<1>9. \/ /\ batch[w].status = "running"
         /\ Work(v, [NoBatch EXCEPT !.status = "succeeded", !.terminal = batch[w].terminal])
         /\ cursor' = Finalized(cursor, w[2])
      \/ batch[w].status = "succeeded" /\ UNCHANGED <<batch, cursor>>
  BY DEF Save
<1> QED BY <1>7, <1>8, <1>9

LEMMA ClaimKeeps == ASSUME BatchInv, NEW v \in Workers, Claim(v) PROVE BatchInv'
<1> USE DEF BatchInv, worldVars
<1>1. PICK w \in Windows :
        /\ tasks[w] > 0 /\ batch[w].status = "pending" /\ ~batch[w].backoff
        /\ tasks' = [tasks EXCEPT ![w] = @ - 1]
        /\ batch' = [batch EXCEPT ![w].status = "running", ![w].attempts = @ + 1]
        /\ win' = [win EXCEPT ![v] = w]
  BY DEF Claim
<1>2. pc[v] = "idle" /\ Go(v, "claimed") /\ UNCHANGED <<worldVars, cursor, back, req, target, plan>>
  BY DEF Claim
<1> DEFINE b == [batch[w] EXCEPT !.status = "running", !.attempts = @ + 1]
<1>3. RowFits(batch[w]) /\ batch[w].attempts < MaxAttempts BY <1>1 DEF TypesInv, RowsFit, RowFits
<1>4. batch[w].attempts + 1 \in 0 .. MaxAttempts BY <1>3, BatchAssumption DEF RowFits, Batches
<1>5. /\ b \in Batches /\ b.status = "running" /\ b.terminal = batch[w].terminal
      /\ b.queued = batch[w].queued
  BY <1>3, <1>4 DEF RowFits, Batches
<1>6. batch' = [batch EXCEPT ![w] = b] BY <1>1 DEF TypesInv, RowsFit
<1> HIDE DEF b
<1>7. RowFits(b) /\ (Settled(batch[w]) => Settled(b)) BY <1>1, <1>5 DEF RowFits, Settled
<1>8. RowsFit(batch') /\ batch'[w] = b /\ \A u \in Windows : u # w => batch'[u] = batch[u]
  BY <1>6, <1>7, RowWritten DEF TypesInv
<1>9. v \in Procs /\ \A u \in Workers : u \in Procs BY DEF Procs
<1>10. pc' \in [Procs -> Places] /\ pc'[v] = "claimed" /\ \A q \in Procs : q # v => pc'[q] = pc[q]
  BY <1>2, <1>9, GoFacts DEF Places, OnWindow, AtWork
<1>11. /\ win' \in [Workers -> Windows \cup {NoWindow}] /\ win'[v] = w
       /\ \A u \in Workers : u # v => win'[u] = win[u]
  BY <1>1 DEF TypesInv, WorkFits
<1>12. /\ tasks' \in [Windows -> Nat] /\ tasks'[w] = tasks[w] - 1
       /\ \A u \in Windows : u # w => tasks'[u] = tasks[u]
  BY <1>1 DEF TypesInv
<1>13. pc'[v] \notin Enqueuing /\ pc[v] \notin Enqueuing /\ back[v] # "judged"
  <2>1. back[v] = "judged" => pc[v] \in Asking BY DEF TypesInv, WorkFits
  <2> QED BY <1>2, <1>10, <2>1 DEF Enqueuing, Asking
<1>14. CallsFit' BY <1>2, <1>10, <1>13 DEF TypesInv, CallsFit
<1>15. WorkFits'
  <2>1. \A u \in Windows : batch'[u].status = "none" => batch[u].status = "none" BY <1>5, <1>8
  <2>2. plan' \in [Workers -> [rerun : BOOLEAN, next : Requests]] BY <1>2 DEF TypesInv, WorkFits
  <2>3. back'[v] # "judged" /\ batch'[win'[v]].status # "none" BY <1>2, <1>5, <1>8, <1>11, <1>13
  <2> QED BY <1>2, <1>9, <1>10, <1>11, <2>1, <2>2, <2>3, WorkKeeps
<1>16. TypesInv' BY <1>2, <1>8, <1>12, <1>14, <1>15 DEF TypesInv, CountsFit
<1>17. StartsStep BY <1>1, <1>2, <1>5, <1>7, <1>8, <1>16, StartsStay
<1>18. OneActive' BY <1>1, <1>8 DEF SoloInv, OneActive, ActiveStatus
<1>19. NoStranded'
  <2>1. \A u \in Windows : batch'[u].status = "pending" => u # w /\ batch[u].status = "pending"
    BY <1>5, <1>8
  <2>2. \A p \in Procs : pc[p] \in {"enqueue", "refused"} => pc'[p] = pc[p]
    BY <1>10, <1>13 DEF Enqueuing
  <2> QED BY <1>2, <1>12, <2>1, <2>2 DEF NoStranded
<1>20. ASSUME OneReason PROVE OneReason'
  <2>1. ASSUME NEW u \in Windows, batch[u].status \in ActiveStatus PROVE u = w
    BY <1>1, <2>1 DEF SoloInv, OneActive, ActiveStatus
  <2>2. ASSUME NEW u \in Workers PROVE pc[u] \notin AtWork
    <3>1. pc[u] \in AtWork => win[u] \in Windows BY DEF TypesInv, WorkFits, OnWindow
    <3> QED BY <1>1, <1>20, <2>1, <3>1 DEF OneReason, ActiveStatus
  <2>3. ASSUME NEW p \in Procs PROVE pc[p] \notin Enqueuing
    <3>1. pc[p] \in Enqueuing => target[p] \in Windows BY DEF TypesInv, CallsFit
    <3> QED BY <1>1, <1>20, <2>1, <3>1 DEF OneReason, ActiveStatus
  <2>4. tasks[w] = 1 BY <1>1, <1>20 DEF OneReason, TypesInv
  <2>5. \A u \in Windows : tasks'[u] = 0
    <3>1. \A u \in Windows : u # w => tasks[u] = 0
      BY <1>20, <2>1 DEF OneReason, ActiveStatus, TypesInv
    <3> QED BY <1>12, <2>4, <3>1
  <2>6. \A u \in Workers : pc'[u] \in AtWork => u = v BY <1>9, <1>10, <2>2
  <2>7. \A p \in Procs : pc'[p] \notin Enqueuing BY <1>10, <1>13, <2>3
  <2> QED BY <1>5, <1>8, <1>11, <2>5, <2>6, <2>7 DEF OneReason
<1> QED BY <1>2, <1>16, <1>17, <1>18, <1>19, <1>20, Together DEF SoloInv

LEMMA DropTaskKeeps == ASSUME BatchInv, NEW v \in Workers, DropTask(v) PROVE BatchInv'
<1> USE DEF BatchInv, worldVars, workVars
<1>1. PICK w \in Windows :
        /\ tasks[w] > 0
        /\ batch[w].status # "pending" \/ (batch[w].backoff /\ tasks[w] > 1)
        /\ tasks' = [tasks EXCEPT ![w] = @ - 1]
  BY DEF DropTask
<1>2. UNCHANGED <<worldVars, workVars, batch, cursor, pc, back, req, target>> BY DEF DropTask
<1>3. /\ tasks' \in [Windows -> Nat] /\ tasks'[w] = tasks[w] - 1
      /\ \A u \in Windows : u # w => tasks'[u] = tasks[u]
  BY <1>1 DEF TypesInv
<1>4. WorkFits' BY <1>2, WorkKeeps DEF TypesInv, WorkFits
<1>5. TypesInv' BY <1>2, <1>3, <1>4 DEF TypesInv, CountsFit, CallsFit
<1>6. StartsStep BY <1>2, <1>5, StartsStay
<1>7. OneActive' BY <1>2 DEF SoloInv, OneActive
<1>8. batch[w].status = "pending" => tasks[w] > 1 BY <1>1
<1>9. NoStranded'
  <2>1. tasks[w] \in Nat BY DEF TypesInv
  <2>2. \A u \in Windows : batch[u].status = "pending" /\ tasks[u] > 0 => tasks'[u] > 0
    BY <1>3, <1>8, <2>1
  <2> QED BY <1>2, <2>2 DEF NoStranded
<1>10. ~OneReason BY <1>1, <1>8 DEF OneReason, TypesInv
<1> QED BY <1>2, <1>5, <1>6, <1>7, <1>9, <1>10, Together DEF SoloInv

LEMMA ExecuteKeeps == ASSUME BatchInv, NEW v \in Workers, Execute(v) PROVE BatchInv'
BY ClaimKeeps, DropTaskKeeps, StartKeeps, FailedStopKeeps, GiveUpKeeps, FailKeeps,
   PrepareRetryKeeps, DropRetryKeeps, ReadBatchKeeps, SaveKeeps, ReplaceKeeps, ContinueKeeps
   DEF Execute

LEMMA BatchInvStart == BatchInit => BatchInv
<1> SUFFICES ASSUME BatchInit PROVE BatchInv
    OBVIOUS
<1> USE DEF BatchInit
<1>1. CountsFit
  <2>1. open \in BOOLEAN OBVIOUS
  <2>2. /\ posted \in 0 .. MaxMessages /\ lost \in 0 .. MaxLost
        /\ unmarked \in 0 .. MaxUnmarked /\ replays \in 0 .. MaxReplays
    BY BatchAssumption
  <2> QED BY <2>1, <2>2 DEF CountsFit
<1>2. CursorFits(cursor) /\ cursor.scheduled = 0 BY BatchAssumption DEF CursorFits
<1>3. NoBatch \in Batches /\ NoBatch.status = "none" /\ ~NoBatch.terminal
      /\ NoBatch.queued.start = 0
  <2>1. NoBatch.status = "none" /\ ~NoBatch.terminal BY DEF NoBatch
  <2> QED BY <2>1, EmptyRow
<1>4. \A w \in Windows : batch[w] = NoBatch OBVIOUS
<1>5. RowsFit(batch) BY <1>3, <1>4 DEF RowsFit, RowFits
<1> DEFINE n == Anything(FALSE)
<1>6. n \in Requests /\ n.start = 0 BY NothingAsked
<1>7. req = [p \in Procs |-> n] OBVIOUS
<1> HIDE DEF n
<1>8. CallsFit BY <1>6, <1>7 DEF CallsFit, Places, Enqueuing
<1>9. NoPlan \in [rerun : BOOLEAN, next : Requests] /\ NoPlan.next.start = 0
  <2> DEFINE f == FALSE
  <2>1. NoPlan = [rerun |-> f, next |-> n] /\ f \in BOOLEAN BY DEF NoPlan, n
  <2> HIDE DEF f
  <2> QED BY <1>6, <2>1
<1>10. WorkFits
  <2>1. \A v \in Workers : v \in Procs BY DEF Procs
  <2>2. "idle" \notin OnWindow BY DEF OnWindow, AtWork
  <2> QED BY <1>9, <2>1, <2>2 DEF WorkFits
<1>11. TypesInv
  <2>1. tasks \in [Windows -> Nat] OBVIOUS
  <2> QED BY <1>1, <1>2, <1>5, <1>8, <1>10, <2>1 DEF TypesInv
<1>12. StartsInv
  <2>1. Next1 = 1 /\ 1 .. cursor.scheduled = {} BY <1>2 DEF Next1
  <2>2. \A w \in Windows : batch[w].status = "none" /\ batch[w].queued.start <= Next1
    BY <1>3, <1>4, <2>1
  <2>3. \A p \in Procs : req[p].start <= Next1
    <3>1. \A p \in Procs : req[p] = n BY <1>7
    <3>2. n.start <= Next1 BY <1>6, <2>1
    <3> QED BY <3>1, <3>2
  <2>4. \A v \in Workers : plan[v].next.start <= Next1 BY <1>9, <2>1
  <2> QED BY <2>1, <2>2, <2>3, <2>4 DEF StartsInv
<1>13. \A w \in Windows : batch[w].status \notin ActiveStatus BY <1>3, <1>4 DEF ActiveStatus
<1>14. NoStranded BY <1>13 DEF NoStranded, ActiveStatus
<1>15. SoloInv
  <2>1. \A p \in Procs : pc[p] \notin Enqueuing BY DEF Enqueuing
  <2>2. \A v \in Workers : pc[v] \notin AtWork BY DEF Procs, AtWork
  <2>3. \A w \in Windows : tasks[w] = 0 OBVIOUS
  <2> QED BY <1>13, <2>1, <2>2, <2>3 DEF SoloInv, OneActive, OneReason
<1> QED BY <1>11, <1>12, <1>14, <1>15 DEF BatchInv

LEMMA BatchInvStep == BatchInv /\ [BatchNext]_batchVars => BatchInv'
<1> SUFFICES ASSUME BatchInv, [BatchNext]_batchVars PROVE BatchInv'
    OBVIOUS
<1>1. CASE BatchNext
  BY <1>1, RequestKeeps, ScanKeeps, TriggerKeeps, ReplayKeeps, ExecuteKeeps, WorldKeeps, ElapseKeeps
     DEF BatchNext
<1>2. CASE UNCHANGED batchVars
  <2>1. UNCHANGED <<posted, open, batch, cursor, tasks, pc, back, req, target, win, plan,
                    lost, unmarked, replays>>
    BY <1>2 DEF batchVars
  <2>2. TypesInv' BY <2>1 DEF BatchInv, TypesInv, CountsFit, CallsFit, WorkFits
  <2>3. SoloInv' /\ NoStranded' BY <2>1, StatusKept DEF BatchInv
  <2>4. StartsStep BY <2>1, <2>2, StartsStay
  <2> QED BY <2>2, <2>3, <2>4, Together
<1> QED BY <1>1, <1>2

LEMMA BatchAlways == BatchSpec => []BatchInv
BY BatchInvStart, BatchInvStep, PTL DEF BatchSpec

-----------------------------------------------------------------------------
(* Steps of the cursors.                                                     *)

Onward ==
  /\ cursor'.finalized >= cursor.finalized
  /\ cursor'.scheduled < cursor.scheduled =>
       ActiveWindows = {} /\ cursor'.scheduled >= cursor.finalized
  /\ \A w \in Windows :
       batch[w].terminal /\ ~batch'[w].terminal => cursor'.scheduled < w[1]

LEMMA CursorOnward ==
  ASSUME TypesInv, \A w \in Windows : batch[w].terminal => batch'[w].terminal,
         \/ cursor' = cursor
         \/ \E n \in Nat : cursor' \in {Scheduled(cursor, n), Finalized(cursor, n)}
  PROVE  Onward
<1>1. cursor.finalized \in Nat /\ cursor.scheduled \in Nat
  BY DEF TypesInv, CursorFits
<1>2. cursor \in [finalized : {cursor.finalized}, scheduled : {cursor.scheduled}]
  BY DEF TypesInv, CursorFits
<1>3. cursor'.finalized >= cursor.finalized /\ cursor'.scheduled >= cursor.scheduled
      /\ cursor'.scheduled \in Nat
  <2>1. CASE cursor' = cursor BY <1>1, <2>1
  <2>2. ASSUME NEW n \in Nat, cursor' = Scheduled(cursor, n) PROVE <1>3
    BY <1>1, <1>2, <2>2 DEF Scheduled, High
  <2>3. ASSUME NEW n \in Nat, cursor' = Finalized(cursor, n) PROVE <1>3
    BY <1>1, <1>2, <2>3 DEF Finalized, High
  <2> QED BY <2>1, <2>2, <2>3
<1> QED BY <1>1, <1>3 DEF Onward

\* One row is written and stays terminal.
LEMMA RowOnward ==
  ASSUME TypesInv, NEW w \in Windows, NEW b, batch' = [batch EXCEPT ![w] = b],
         batch[w].terminal => b.terminal,
         \/ cursor' = cursor
         \/ \E n \in Nat : cursor' \in {Scheduled(cursor, n), Finalized(cursor, n)}
  PROVE  Onward
<1>1. \A u \in Windows : batch[u].terminal => batch'[u].terminal BY DEF TypesInv, RowsFit
<1> QED BY <1>1, CursorOnward

LEMMA RequestOnward == ASSUME BatchInv, NEW p \in Procs, Request(p) PROVE Onward
<1> USE DEF BatchInv
<1>1. CASE Recover(p)
  <2> DEFINE over == {w \in Windows : Exhausted(w)}
  <2>1. LastOf(over) \in Nat BY LastExists, BatchAssumption
  <2>2. cursor' = Scheduled(cursor, LastOf(over)) BY <1>1 DEF Recover, LastOf
  <2>3. batch' = [w \in Windows |-> IF w \in over THEN Terminated(batch[w]) ELSE batch[w]]
    BY <1>1 DEF Recover
  <2>4. \A w \in over : ~batch[w].terminal BY DEF Exhausted
  <2>5. \A w \in Windows : batch[w].terminal => batch'[w] = batch[w] BY <2>3, <2>4
  <2> QED BY <2>1, <2>2, <2>5, CursorOnward
<1>2. CASE Join(p)
  <2>1. \A w \in Windows : batch'[w].terminal = batch[w].terminal BY <1>2, RowJoined
  <2> QED BY <1>2, <2>1, CursorOnward DEF Join
<1>3. CASE Create(p)
  <2> DEFINE w == Window(req[p])
  <2>1. MayClaim(p) /\ batch[w].status = "none" /\ cursor' = cursor BY <1>3 DEF Create, Claimed
  <2>2. w \in Windows BY <2>1, ClaimedWindow
  <2>3. ~batch[w].terminal BY <2>1, <2>2 DEF TypesInv, RowsFit, RowFits
  <2>4. PICK b : batch' = [batch EXCEPT ![w] = b] BY <1>3 DEF Create, Claimed
  <2> HIDE DEF w
  <2> QED BY <2>1, <2>2, <2>3, <2>4, RowOnward
<1>4. CASE Reopen(p)
  <2> DEFINE w == Window(req[p])
  <2>1. MayClaim(p) /\ cursor' = cursor BY <1>4 DEF Reopen, Claimed
  <2>2. w \in Windows BY <2>1, ClaimedWindow
  <2>3. PICK c \in OwnBounds(w) :
          batch' = [batch EXCEPT ![w] = [batch[w] EXCEPT !.status = "pending", !.cut = c]]
    BY <1>4 DEF Reopen, Claimed
  <2> DEFINE b == [batch[w] EXCEPT !.status = "pending", !.cut = c]
  <2>4. RowFits(batch[w]) BY <2>2 DEF TypesInv, RowsFit
  <2>5. b.terminal = batch[w].terminal BY <2>4 DEF RowFits, Batches
  <2>6. batch' = [batch EXCEPT ![w] = b] BY <2>3
  <2> HIDE DEF w, b
  <2> QED BY <2>1, <2>2, <2>5, <2>6, RowOnward
<1>5. CASE Refused(p)
  <2> DEFINE w == target[p]
             k == TRUE
             b == Failed(batch[w], k)
  <2>1. w \in Windows BY <1>5 DEF Refused, TypesInv, CallsFit, Enqueuing
  <2>2. RowFits(batch[w]) /\ k \in BOOLEAN BY <2>1 DEF TypesInv, RowsFit
  <2>3. b.terminal = batch[w].terminal BY <2>2, FailedFacts
  <2>4. batch' = [batch EXCEPT ![w] = b] /\ cursor' = cursor
    BY <1>5, <2>1 DEF Refused, TypesInv, RowsFit
  <2> HIDE DEF w, b, k
  <2> QED BY <2>1, <2>3, <2>4, RowOnward
<1>6. CASE Skip(p) \/ Enqueue(p) \/ EnqueueLost(p) \/ EnqueueUnmarked(p)
  <2>1. UNCHANGED <<batch, cursor>> BY <1>6 DEF Skip, Enqueue, EnqueueLost, EnqueueUnmarked
  <2> QED BY <2>1, CursorOnward
<1> QED BY <1>1, <1>2, <1>3, <1>4, <1>5, <1>6 DEF Request

LEMMA ExecuteOnward == ASSUME BatchInv, NEW v \in Workers, Execute(v) PROVE Onward
<1> USE DEF BatchInv
<1> DEFINE w == win[v]
<1>1. pc[v] \in OnWindow => w \in Windows /\ RowFits(batch[w]) BY WorkerFacts
<1>2. CASE Claim(v)
  <2>1. PICK u \in Windows :
          batch' = [batch EXCEPT ![u].status = "running", ![u].attempts = @ + 1]
    BY <1>2 DEF Claim
  <2> DEFINE b == [batch[u] EXCEPT !.status = "running", !.attempts = @ + 1]
  <2>2. batch' = [batch EXCEPT ![u] = b] BY <2>1 DEF TypesInv, RowsFit
  <2>3. RowFits(batch[u]) BY DEF TypesInv, RowsFit
  <2>4. b.terminal = batch[u].terminal BY <2>3 DEF RowFits, Batches
  <2> HIDE DEF b
  <2>5. cursor' = cursor BY <1>2 DEF Claim
  <2> QED BY <2>2, <2>4, <2>5, RowOnward
<1>3. ASSUME NEW k \in BOOLEAN, Work(v, Failed(batch[w], k)), pc[v] \in OnWindow, cursor' = cursor
      PROVE  Onward
  <2> DEFINE b == Failed(batch[w], k)
  <2>1. b.terminal = batch[w].terminal BY <1>1, <1>3, FailedFacts
  <2>2. batch' = [batch EXCEPT ![w] = b] BY <1>3 DEF Work
  <2> HIDE DEF b, w
  <2> QED BY <1>1, <1>3, <2>1, <2>2, RowOnward
<1>4. CASE StopClosed(v) \/ LoseLease(v)
  <2> DEFINE k == FALSE
  <2>1. k \in BOOLEAN OBVIOUS
  <2>2. Work(v, Failed(batch[w], k)) /\ pc[v] \in OnWindow /\ cursor' = cursor
    BY <1>4 DEF StopClosed, LoseLease, OnWindow, AtWork
  <2> HIDE DEF k
  <2> QED BY <1>3, <2>1, <2>2
<1>5. CASE Fail(v)
  <2> DEFINE k == TRUE
  <2>1. k \in BOOLEAN OBVIOUS
  <2>2. Work(v, Failed(batch[w], k)) /\ pc[v] \in OnWindow /\ cursor' = cursor
    BY <1>5 DEF Fail, OnWindow, AtWork
  <2> HIDE DEF k
  <2> QED BY <1>3, <2>1, <2>2
<1>6. CASE GiveUp(v)
  <2> DEFINE b == Terminated(batch[w])
  <2>1. /\ batch' = [batch EXCEPT ![w] = b] /\ pc[v] \in OnWindow
        /\ cursor' \in {cursor, Scheduled(cursor, w[2])}
    BY <1>6 DEF GiveUp, Work, OnWindow, AtWork
  <2>2. batch[w].terminal => b = batch[w] BY <1>1, <2>1, TerminatedFacts DEF Closable
  <2>3. w[2] \in Nat BY <1>1, <2>1, WindowFacts
  <2> HIDE DEF b, w
  <2> QED BY <1>1, <2>1, <2>2, <2>3, RowOnward
<1>7. CASE PrepareRetry(v)
  <2> DEFINE k == TRUE
             b == [batch[w] EXCEPT !.status = "pending", !.backoff = k]
  <2>1. batch' = [batch EXCEPT ![w] = b] /\ pc[v] \in OnWindow /\ cursor' = cursor
    BY <1>7 DEF PrepareRetry, Work, OnWindow
  <2>2. b.terminal = batch[w].terminal BY <1>1, <2>1 DEF RowFits, Batches
  <2> HIDE DEF b, w, k
  <2> QED BY <1>1, <2>1, <2>2, RowOnward
<1>8. CASE Save(v)
  <2> DEFINE t == batch[w].terminal
             b == [NoBatch EXCEPT !.status = "succeeded", !.terminal = t]
  <2>1. pc[v] \in OnWindow BY <1>8 DEF Save, OnWindow, AtWork
  <2>2. \/ UNCHANGED <<batch, cursor>>
        \/ batch' = [batch EXCEPT ![w] = b] /\ cursor' = Finalized(cursor, w[2])
    BY <1>8 DEF Save, Work
  <2>3. w[2] \in Nat BY <1>1, <2>1, WindowFacts
  <2>4. b.terminal = t BY EmptyRow DEF Batches
  <2>5. batch[w].terminal => b.terminal BY <2>4
  <2> HIDE DEF b, w, t
  <2> QED BY <1>1, <2>1, <2>2, <2>3, <2>5, RowOnward, CursorOnward
<1>9. CASE DropTask(v) \/ Start(v) \/ DropRetry(v) \/ ReadBatch(v) \/ Replace(v) \/ Continue(v)
  <2>1. UNCHANGED <<batch, cursor>>
    BY <1>9 DEF DropTask, Start, DropRetry, ReadBatch, Replace, Continue
  <2> QED BY <2>1, CursorOnward
<1> QED BY <1>2, <1>4, <1>5, <1>6, <1>7, <1>8, <1>9 DEF Execute

LEMMA StepOnward == BatchInv /\ [BatchNext]_batchVars => [Onward]_batchVars
<1> SUFFICES ASSUME BatchInv, BatchNext PROVE Onward
    OBVIOUS
<1> USE DEF BatchInv
<1>1. ASSUME NEW c \in Callers, Replay(c) PROVE Onward
  <2>1. ActiveWindows = {} BY <1>1 DEF Replay
  <2>2. /\ CursorFits(cursor') /\ cursor'.finalized = cursor.finalized
        /\ cursor'.scheduled >= cursor.finalized
        /\ \A w \in Windows : batch[w].terminal /\ ~batch'[w].terminal => cursor'.scheduled < w[1]
    BY <1>1, ReplayFacts
  <2> QED BY <2>1, <2>2, BatchAssumption DEF Onward, CursorFits
<1>2. ASSUME NEW c \in Callers, Scan(c) \/ Trigger(c) PROVE Onward
  <2>1. UNCHANGED <<batch, cursor>> BY <1>2 DEF Scan, Trigger
  <2> QED BY <2>1, CursorOnward
<1>3. CASE Post \/ CloseDiscussion
  <2>1. UNCHANGED <<batch, cursor>> BY <1>3 DEF Post, CloseDiscussion
  <2> QED BY <2>1, CursorOnward
<1>4. CASE Elapse
  <2> DEFINE f == FALSE
  <2>1. PICK w \in Windows : batch' = [batch EXCEPT ![w].backoff = FALSE] BY <1>4 DEF Elapse
  <2> DEFINE b == [batch[w] EXCEPT !.backoff = f]
  <2>2. batch' = [batch EXCEPT ![w] = b] BY <2>1 DEF TypesInv, RowsFit
  <2>3. RowFits(batch[w]) BY DEF TypesInv, RowsFit
  <2>4. b.terminal = batch[w].terminal BY <2>3 DEF RowFits, Batches
  <2>5. cursor' = cursor BY <1>4 DEF Elapse
  <2> HIDE DEF b
  <2> QED BY <2>2, <2>4, <2>5, RowOnward
<1> QED BY <1>1, <1>2, <1>3, <1>4, RequestOnward, ExecuteOnward DEF BatchNext

-----------------------------------------------------------------------------
(* The theorems.                                                             *)

\* Every reachable state is well typed: no row is attempted more often than
\* STATE_LLM_FAILURE_MAX_ATTEMPTS, whoever reopens it (claim_batch()).
THEOREM BatchTyped == BatchSpec => []BatchTypeOK
<1>1. BatchInv => BatchTypeOK
  BY DEF BatchInv, TypesInv, CountsFit, CursorFits, RowsFit, CallsFit, WorkFits, Places, Asking,
         OnWindow, AtWork, Enqueuing, BatchTypeOK
<1> QED BY <1>1, BatchAlways, PTL

\* Until the operator replays, every message the scheduling cursor has passed lies
\* in a window that was assessed or closed for good, whatever crosses
\* (request_state_assessment(), recover_exhausted_batches()).
THEOREM NothingSkipped == BatchSpec => []Covered
<1>1. BatchInv => Covered BY DEF BatchInv, StartsInv, Settled, Covered
<1> QED BY <1>1, BatchAlways, PTL

\* While every queued task is marked, a discussion has one assessment at a time,
\* of a row that is running, for any number of workers (claim_batch()).
THEOREM OneAssessment == BatchSpec => []OneWorker
<1>1. ASSUME BatchInv, unmarked = 0
      PROVE  /\ Cardinality(Executing) <= 1
             /\ \A v \in Executing : batch[win[v]].status = "running"
  <2>1. OneReason BY <1>1 DEF BatchInv, SoloInv
  <2>2. \A v \in Executing : v \in Workers /\ pc[v] \in AtWork BY DEF Executing, AtWork
  <2>3. Cardinality(Executing) <= 1
    <3>1. CASE Executing = {} BY <3>1, FS_EmptySet
    <3>2. CASE Executing # {}
      <4>1. PICK v \in Executing : TRUE BY <3>2
      <4>2. Executing = {v} BY <2>1, <2>2, <4>1 DEF OneReason
      <4>3. Cardinality({v}) = 1 BY FS_Singleton
      <4> QED BY <4>2, <4>3
    <3> QED BY <3>1, <3>2
  <2> QED BY <2>1, <2>2, <2>3 DEF OneReason
<1>2. BatchInv => OneWorker BY <1>1 DEF OneWorker
<1> QED BY <1>2, BatchAlways, PTL

\* A pending row, which keeps every other window from being claimed, is never
\* left without a task or a process that will queue or fail it (_enqueue_batch()).
THEOREM NothingStranded == BatchSpec => []NoStranded
<1>1. BatchInv => NoStranded BY DEF BatchInv
<1> QED BY <1>1, BatchAlways, PTL

\* The finalized cursor never goes back; the scheduling cursor only while nothing
\* is active and not behind what was finalized; and a window whose closing is
\* undone lies ahead of it (prepare_scope_reprocessing()).
THEOREM CursorsAdvance == BatchSpec => CursorsForward
<1>1. BatchInv /\ [BatchNext]_batchVars =>
        [ /\ cursor'.finalized >= cursor.finalized
          /\ cursor'.scheduled < cursor.scheduled =>
               ActiveWindows = {} /\ cursor'.scheduled >= cursor.finalized
          /\ \A w \in Windows :
               batch[w].terminal /\ ~batch'[w].terminal => cursor'.scheduled < w[1] ]_batchVars
  BY StepOnward DEF Onward
<1> QED BY <1>1, BatchAlways, PTL DEF BatchSpec, CursorsForward
=============================================================================
