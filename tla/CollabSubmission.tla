-------------------------- MODULE CollabSubmission --------------------------
(* Submitting the collaborative document: the two-phase commit of the pages, *)
(* the forced submission at the deadline, and the teacher's return, over the *)
(* rooms of CollabRoom. A request is a record whose pc names its next        *)
(* transaction or call to the collaboration server; a page waits for at most *)
(* one request and may stop waiting while the request goes on.               *)
EXTENDS CollabRoom, Sequences

CONSTANTS
  Scenarios,     \* who is there and what is asked for, one per behaviour
  MaxRequests,   \* bound on the requests of pages and teacher at a time, for all scenarios
  MaxFreezes,    \* bound on the freeze ids given out
  MaxReturns     \* bound on the returns by the teacher

ASSUME SubmissionAssumption ==
  /\ MaxRequests \in Nat \ {0} /\ MaxFreezes \in Nat /\ MaxReturns \in Nat
  /\ \A s \in Scenarios :
       /\ s.asks \subseteq {"submit", "auto", "end", "return"}
       /\ s.pages \subseteq Pages /\ s.faults \in 0..MaxFaults
       /\ s.requests \in 0..MaxRequests

VARIABLES
  prepares,     \* submission_prepares, oldest first
  freezes,      \* freeze ids given out so far
  filed,        \* rows of submissions since the last return
  torn,         \* a commit died between its status and its row, since then
  due,          \* the deadline of the group has passed
  returns,      \* returns so far
  request,      \* what the handlers are at; 0 is the periodic scan
  form,         \* the submit state machine of each page
  scenario      \* the scenario of this behaviour: chosen once

subVars == <<prepares, freezes, filed, torn, due, returns, request, form, scenario>>
vars == <<roomVars, subVars>>

Slots == 0..MaxRequests
Idle == [kind |-> "none", pc |-> "idle", fid |-> 0, froze |-> FALSE]

\* step: where submit() stands; waits: the request it waits for, 0 for none.
FormSteps == {"idle", "restoring", "preparing", "committing", "undoing", "recovering",
              "error", "submitted", "told"}
NewForm == [step |-> "idle", waits |-> 0]

SubInit ==
  /\ RoomInit
  /\ prepares = << >> /\ freezes = 0
  /\ filed = 0 /\ torn = FALSE
  /\ due = FALSE /\ returns = 0
  /\ request = [h \in Slots |-> Idle]
  /\ form = [p \in Pages |-> NewForm]
  /\ \E s \in Scenarios :
       /\ scenario = s
       /\ faults = s.faults
       /\ browser = [p \in Pages |-> IF p \in s.pages THEN Fresh ELSE Gone]

Free(h) == h \in 1..scenario.requests /\ request[h].kind = "none"
Started(kind, fid) == [kind |-> kind, pc |-> "check", fid |-> fid, froze |-> FALSE]

-----------------------------------------------------------------------------
(* The page: useSubmitStateMachine.js.                                       *)

Pending == prepares # << >> /\ ~prepares[Len(prepares)].committed

Waiting(p, step, h) == form' = [form EXCEPT ![p] = [step |-> step, waits |-> h]]

\* The editor of a page that knows of the submission is read-only.
ReadOnly(p) == browser' = [browser EXCEPT ![p].ro = TRUE]

\* A page has loaded; restoreFromServer() is on its way.
Enter(p) ==
  /\ Visit(p)
  /\ form' = [form EXCEPT ![p].step = "restoring"]
  /\ UNCHANGED <<prepares, freezes, filed, torn, due, returns, scenario, request>>

\* restoreFromServer(): a prepare left over by whoever is taken back, without
\* waiting for the answer.
Restore(p) ==
  /\ form[p].step = "restoring"
  /\ \/ /\ ~Writable
        /\ Waiting(p, "submitted", 0)
        /\ ReadOnly(p)
        /\ UNCHANGED request
     \/ /\ Writable /\ Pending
        /\ \E h \in Slots : Free(h) /\ request' = [request EXCEPT ![h] = Started("unfreeze", 0)]
        /\ Waiting(p, "idle", 0)
        /\ UNCHANGED browser
     \/ /\ Writable /\ ~Pending
        /\ Waiting(p, "idle", 0)
        /\ UNCHANGED <<browser, request>>
  /\ UNCHANGED <<doc, typed, faults, room, managed, path,
                 prepares, freezes, filed, torn, due, returns, scenario>>

\* submit(): wait for the sync or not, then prepare.
SubmitForm(p) ==
  /\ browser[p].page = "open"
  /\ form[p].step \in {"idle", "error"} /\ "submit" \in scenario.asks
  /\ \E h \in Slots :
       /\ Free(h)
       /\ request' = [request EXCEPT ![h] = Started("prepare", 0)]
       /\ Waiting(p, "preparing", h)
  /\ UNCHANGED <<roomVars, prepares, freezes, filed, torn, due, returns, scenario>>

\* Waiting has lasted too long: the page looks up how things stand
\* (_resolveTimeout, _recoverAfterFailedCommit) and takes its prepare back when
\* it finds nothing. An existing prepare row counts as success. A page whose
\* request failed instead does not look for prepares.
Resolved(p) ==
  \/ /\ form[p].step = "preparing"
     /\ prepares # << >> \/ ~Writable
  \/ /\ form[p].step = "committing"
     /\ ~Writable

GiveUpWaiting(p) ==
  /\ form[p].step \in {"preparing", "committing"}
  /\ \/ /\ Resolved(p)
        /\ Waiting(p, "told", 0)
        /\ ReadOnly(p)
        /\ UNCHANGED request
     \/ /\ ~Resolved(p) \/ (form[p].step = "preparing" /\ form[p].waits = 0)
        /\ \E h \in Slots :
             /\ Free(h)
             /\ request' = [request EXCEPT ![h] = Started("unfreeze", 0)]
             /\ Waiting(p, IF form[p].step = "preparing" THEN "undoing" ELSE "recovering", h)
        /\ UNCHANGED browser
  /\ UNCHANGED <<doc, typed, faults, room, managed, path,
                 prepares, freezes, filed, torn, due, returns, scenario>>

\* What the answer of request h makes of the page that waits for it, and of the
\* slot: a successful prepare is followed by the commit.
NextStep(step, ok, conflict) ==
  CASE step = "preparing" -> IF ok THEN "committing" ELSE "undoing"
    [] step = "committing" -> IF ok \/ conflict THEN "told" ELSE "recovering"
    [] step = "undoing" -> "error"
    [] step = "recovering" -> IF ok THEN "idle" ELSE "error"

Follow(step, fid) ==
  CASE step = "committing" -> Started("commit", fid)
    [] step \in {"undoing", "recovering"} -> Started("unfreeze", 0)
    [] OTHER -> Idle

\* Request h answers: ok, or refused, with status 409 if conflict. A page that
\* recovers looks at the status of the document first.
Answer(h, ok, conflict, fid, st) ==
  LET asked == {p \in Pages : form[p].waits = h}
      step(p) == LET s == NextStep(form[p].step, ok, conflict)
                 IN  IF s = "recovering" /\ st = "submitted" THEN "submitted" ELSE s
      next(p) == Follow(step(p), fid)
  IN  IF asked = {} \/ h = 0
      THEN /\ request' = [request EXCEPT ![h] = Idle]
           /\ UNCHANGED <<form, browser>>
      ELSE \E p \in asked :
             /\ request' = [request EXCEPT ![h] = next(p)]
             /\ form' = [form EXCEPT ![p] =
                  [step |-> step(p), waits |-> IF next(p) = Idle THEN 0 ELSE h]]
             /\ browser' = IF step(p) = "told" THEN [browser EXCEPT ![p].ro = TRUE] ELSE browser

\* Leaving a page leaves its request running.
LeaveForm(p) ==
  /\ Leave(p)
  /\ form' = [form EXCEPT ![p] = NewForm]
  /\ UNCHANGED <<prepares, freezes, filed, torn, due, returns, scenario, request>>

-----------------------------------------------------------------------------
(* The handlers.                                                             *)

Goto(h, pc) == request' = [request EXCEPT ![h].pc = pc]
Refuse(h, conflict) == Answer(h, FALSE, conflict, 0, doc.status)

Keep == UNCHANGED <<prepares, freezes, filed, torn, due, returns, scenario>>
KeepRooms == UNCHANGED <<typed, faults, managed, path>>
KeepPages == UNCHANGED <<browser, form>>

\* A call to the collaboration server: it may not be reached, and its answer may
\* not come back within the timeout (call[1]: reached, call[2]: answered).
Calls == {call \in BOOLEAN \X BOOLEAN : call[2] => call[1]}

\* verify_prepare(): the row with this freeze id exists and is not committed.
Verified(fid) == \E i \in 1..Len(prepares) : prepares[i].fid = fid /\ ~prepares[i].committed

\* The checks a handler begins with: a submitted document is a conflict, and
\* after the deadline students may not write (is_document_writable).
Ready(kind) == CASE kind = "auto" -> doc.status = "editing"
                 [] kind = "return" -> doc.status \in {"submitted", "editing"}
                 [] OTHER -> Writable

Entry(kind) == CASE kind = "commit" -> "update" [] kind = "unfreeze" -> "clean"
                 [] kind = "return" -> "thaw" [] OTHER -> "freeze"

ByStudent == {"prepare", "commit", "unfreeze"}

Check(h) ==
  LET kind == request[h].kind
      late == kind \in ByStudent /\ due
      unknown == kind = "commit" /\ ~Verified(request[h].fid)
  IN  /\ request[h].pc = "check"
      /\ IF ~Ready(kind) THEN Refuse(h, TRUE)
         ELSE IF late THEN Refuse(h, FALSE)
         ELSE IF unknown THEN Refuse(h, TRUE)
         ELSE Goto(h, Entry(kind)) /\ KeepPages
      /\ UNCHANGED <<doc, room>> /\ KeepRooms /\ Keep

\* freeze_document(): without a managed room there is nothing to freeze. The
\* prepare gives up then, the forced submission goes on.
Freeze(h) ==
  /\ request[h].pc = "freeze"
  /\ \E call \in Calls :
       LET froze == call[2] /\ managed # 0 IN
       /\ room' = IF call[1] THEN Thawed(TRUE) ELSE room
       /\ IF request[h].kind = "prepare" /\ ~froze
          THEN Refuse(h, FALSE)
          ELSE /\ request' = [request EXCEPT ![h].pc = "flush", ![h].froze = froze]
               /\ KeepPages
  /\ UNCHANGED doc /\ KeepRooms /\ Keep

\* flush_document(). The forced submission tries twice and goes on either way.
Flush(h) ==
  /\ request[h].pc = "flush"
  /\ \E call \in Calls : \E ok \in (IF managed = 0 THEN {FALSE} ELSE Outcome(managed)) :
       LET done == managed # 0 /\ call[1]
           fine == managed # 0 /\ call[2] /\ SaveWorks(managed, ok)
       IN
       /\ doc' = IF done THEN SavedRow(managed, ok) ELSE doc
       /\ room' = IF done THEN SavedRooms(managed, ok) ELSE room
       /\ Goto(h, IF request[h].kind # "prepare" THEN "txn"
                  ELSE IF fine THEN "clean" ELSE "thaw")
  /\ KeepPages /\ KeepRooms /\ Keep

\* unfreeze_document(), whose result only the page's unfreeze request tells.
Thaw(h) ==
  /\ request[h].pc = "thaw"
  /\ \E call \in Calls :
       /\ room' = IF call[1] THEN Thawed(FALSE) ELSE room
       /\ IF request[h].kind = "return" THEN Goto(h, "set") /\ KeepPages
          ELSE Answer(h, request[h].kind = "unfreeze", FALSE, 0, doc.status)
  /\ UNCHANGED doc /\ KeepRooms /\ Keep

\* cleanup_old_prepares()
Clean(h) ==
  /\ request[h].pc = "clean"
  /\ prepares' = << >>
  /\ Goto(h, IF request[h].kind = "prepare" THEN "insert" ELSE "thaw")
  /\ UNCHANGED <<doc, room, freezes, filed, torn, due, returns, scenario>> /\ KeepPages /\ KeepRooms

\* create_prepare()
Insert(h) ==
  /\ request[h].pc = "insert"
  /\ freezes < MaxFreezes
  /\ freezes' = freezes + 1
  /\ prepares' = Append(prepares, [fid |-> freezes', committed |-> FALSE])
  /\ request' = [request EXCEPT ![h].pc = "respond", ![h].fid = freezes']
  /\ UNCHANGED <<doc, room, filed, torn, due, returns, scenario>> /\ KeepPages /\ KeepRooms

\* The answer to a prepare, which may come too late for its page.
Respond(h) ==
  /\ request[h].pc = "respond"
  /\ Answer(h, TRUE, FALSE, request[h].fid, doc.status)
  /\ UNCHANGED <<doc, room>> /\ KeepRooms /\ Keep

\* The commit's UPDATE: a document submitted meanwhile keeps its status, and the
\* handler goes on all the same.
Update(h) ==
  /\ request[h].pc = "update"
  /\ doc' = [doc EXCEPT !.status = "submitted"]
  /\ Goto(h, "record")
  /\ UNCHANGED room /\ KeepPages /\ KeepRooms /\ Keep

\* Checkpoint and submission row, or an exception before the row, after which the
\* status stays.
Record(h) ==
  /\ request[h].pc = "record"
  /\ \/ /\ filed' = filed + 1
        /\ Goto(h, "mark")
        /\ UNCHANGED <<torn, faults>>
     \/ /\ faults > 0
        /\ faults' = faults - 1
        /\ torn' = TRUE
        /\ Goto(h, "thaw")
        /\ UNCHANGED filed
  /\ UNCHANGED <<doc, room, typed, managed, path, prepares, freezes, due, returns, scenario>>
  /\ KeepPages

\* The prepare is committed and the event recorded; an exception here leaves the
\* row, with the prepare as it was or committed, and reports a failed commit.
Committed(fid) == [i \in 1..Len(prepares) |->
  IF prepares[i].fid = fid THEN [prepares[i] EXCEPT !.committed = TRUE] ELSE prepares[i]]
Mark(h) ==
  /\ request[h].pc = "mark"
  /\ \/ /\ prepares' = Committed(request[h].fid)
        /\ Goto(h, "close")
        /\ UNCHANGED faults
     \/ /\ faults > 0
        /\ faults' = faults - 1
        /\ prepares' \in {prepares, Committed(request[h].fid)}
        /\ Goto(h, "thaw")
  /\ UNCHANGED <<doc, room, typed, managed, path, freezes, filed, torn, due, returns, scenario>>
  /\ KeepPages

\* The transaction of _perform_forced_submission(), and what it leaves when it
\* is refused.
Allowed(kind) == IF kind = "auto" THEN {"editing"} ELSE {"editing", "returned"}

\* A forced submission that writes its row in a transaction of its own.
ForceStatusFirst(h) ==
  /\ request[h].pc = "txn"
  /\ doc.status \in Allowed(request[h].kind)
  /\ doc' = [doc EXCEPT !.status = "submitted"]
  /\ Goto(h, "record")
  /\ UNCHANGED room /\ KeepPages /\ KeepRooms /\ Keep

ForceSubmit(h) ==
  /\ request[h].pc = "txn"
  /\ \/ /\ doc.status \in Allowed(request[h].kind)
        /\ doc' = [doc EXCEPT !.status = "submitted"]
        /\ prepares' = Append(prepares, [fid |-> 0, committed |-> TRUE])
        /\ filed' = filed + 1
        /\ Goto(h, "close") /\ KeepPages
        /\ UNCHANGED faults
     \/ /\ doc.status \notin Allowed(request[h].kind)
        /\ IF request[h].froze
           THEN Goto(h, IF Writable THEN "thaw" ELSE "close") /\ KeepPages
           ELSE Refuse(h, TRUE)
        /\ UNCHANGED <<doc, prepares, filed, faults>>
     \/ /\ faults > 0
        /\ faults' = faults - 1
        /\ IF request[h].froze THEN Goto(h, "thaw") /\ KeepPages ELSE Refuse(h, TRUE)
        /\ UNCHANGED <<doc, prepares, filed>>
  /\ UNCHANGED <<room, typed, managed, path, freezes, torn, due, returns, scenario>>

\* close_document()
Close(h) ==
  /\ request[h].pc = "close"
  /\ \E call \in Calls :
       /\ room' = IF call[1] THEN Stopped ELSE room
       /\ managed' = IF call[1] THEN Unregistered ELSE managed
  /\ Answer(h, TRUE, FALSE, 0, doc.status)
  /\ UNCHANGED <<doc, typed, faults, path>> /\ Keep

\* set_document_status("returned"), whatever the status is by now.
SetReturned(h) ==
  /\ request[h].pc = "set"
  /\ doc' = [doc EXCEPT !.status = "returned"]
  /\ filed' = 0 /\ torn' = FALSE
  /\ Answer(h, TRUE, FALSE, 0, doc.status)
  /\ UNCHANGED <<room, prepares, freezes, due, returns, scenario>> /\ KeepRooms

Handle(h) ==
  \/ Check(h) \/ Freeze(h) \/ Flush(h) \/ Thaw(h) \/ Clean(h) \/ Insert(h) \/ Respond(h)
  \/ Update(h) \/ Record(h) \/ Mark(h) \/ ForceSubmit(h) \/ Close(h) \/ SetReturned(h)

\* The process of a handler dies; its page sees a failure or a timeout.
Die(h) ==
  /\ request[h].kind # "none"
  /\ faults > 0
  /\ faults' = faults - 1
  /\ torn' = (torn \/ request[h].pc = "record")
  /\ request' = [request EXCEPT ![h] = Idle]
  /\ form' = [p \in Pages |-> IF h # 0 /\ form[p].waits = h
                              THEN [step |-> IF form[p].step \in {"undoing", "recovering"}
                                             THEN "error" ELSE form[p].step,
                                    waits |-> 0]
                              ELSE form[p]]
  /\ UNCHANGED <<doc, typed, room, managed, path, browser, prepares, freezes, filed, due, returns, scenario>>

-----------------------------------------------------------------------------
(* What starts the other handlers.                                           *)

Begin(h, kind) == request' = [request EXCEPT ![h] = Started(kind, 0)]

Deadline == "auto" \in scenario.asks /\ ~due /\ due' = TRUE /\ UNCHANGED <<roomVars, prepares, freezes, filed, torn, returns, scenario, request, form>>

\* scan_and_auto_submit() finds the group, and the document still editing.
Scan ==
  /\ due /\ doc.status = "editing" /\ request[0].kind = "none"
  /\ Begin(0, "auto")
  /\ UNCHANGED <<roomVars, prepares, freezes, filed, torn, due, returns, scenario, form>>

\* A page whose timer has run out asks for the same.
PageTimeout(p, h) ==
  /\ "auto" \in scenario.asks /\ due /\ browser[p].page = "open" /\ Free(h)
  /\ Begin(h, "auto")
  /\ UNCHANGED <<roomVars, prepares, freezes, filed, torn, due, returns, scenario, form>>

TeacherEnds(h) ==
  /\ "end" \in scenario.asks /\ Free(h)
  /\ Begin(h, "end")
  /\ UNCHANGED <<roomVars, prepares, freezes, filed, torn, due, returns, scenario, form>>

TeacherReturns(h) ==
  /\ "return" \in scenario.asks /\ Free(h) /\ returns < MaxReturns
  /\ returns' = returns + 1
  /\ Begin(h, "return")
  /\ UNCHANGED <<roomVars, prepares, freezes, filed, torn, due, scenario, form>>

RoomActs == RoomStep /\ UNCHANGED <<prepares, freezes, filed, torn, due, returns, scenario, request, form>>

SubNext ==
  \/ RoomActs
  \/ \E p \in Pages :
       \/ Enter(p) \/ Restore(p) \/ SubmitForm(p) \/ GiveUpWaiting(p) \/ LeaveForm(p)
       \/ \E h \in Slots : PageTimeout(p, h)
  \/ \E h \in Slots : Handle(h) \/ Die(h) \/ TeacherEnds(h) \/ TeacherReturns(h)
  \/ Deadline \/ Scan

SubSpec == SubInit /\ [][SubNext]_vars

-----------------------------------------------------------------------------
(* Properties.                                                               *)

Store == INSTANCE DocumentStore WITH
           Users <- Pages, status <- doc.status, text <- doc.y

\* Types, and the room the server manages is the one that knows the revision of
\* the row, so that no save is refused for ever.
CollabTypeOK ==
  /\ RoomTypeOK
  /\ managed # 0 => room[managed].known /\ room[managed].live
  /\ \A i \in 1..Len(prepares) : prepares[i] \in [fid : 0..MaxFreezes, committed : BOOLEAN]
  /\ freezes \in 0..MaxFreezes /\ returns \in 0..MaxReturns
  /\ filed \in Nat /\ torn \in BOOLEAN /\ due \in BOOLEAN
  /\ \A h \in Slots : request[h].fid \in 0..MaxFreezes /\ request[h].froze \in BOOLEAN
  /\ form \in [Pages -> [step : FormSteps, waits : Slots]]

\* A managed room that does not count as dirty holds exactly what the row holds,
\* across loads, failed saves, closes and restarts (room_manager.py,
\* perform_save: dirty stays TRUE on failure).
CleanMeansSaved == managed # 0 /\ ~room[managed].dirty => room[managed].y = doc.y

\* A submitted document has a submission row of this round, unless the commit
\* that submitted it is about to write the row, or failed before it.
SubmittedHasRecord ==
  doc.status = "submitted" /\ filed = 0 =>
    torn \/ \E h \in Slots : request[h].kind = "commit" /\ request[h].pc = "record"

\* Whatever rooms, pages and requests do, the row only gains text that was
\* typed, and its status moves as documents move.
StoreKept == Store!StoreSpec

\* A page tells the student that the result has been submitted only of a
\* document that has been.
ToldTheTruth ==
  [][\A p \in Pages : form[p].step # "told" /\ form'[p].step = "told"
       => doc'.status \in {"submitted", "returned"}]_vars
=============================================================================
