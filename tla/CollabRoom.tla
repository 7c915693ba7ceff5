----------------------------- MODULE CollabRoom -----------------------------
(* The collaboration server of one document: its two registries of rooms,    *)
(* the browsers connected to them, and the row the rooms are saved to.       *)
(*                                                                           *)
(* services/collaboration_server/app.py keeps `rooms` (the managed rooms,    *)
(* which are saved, frozen and closed) beside ws_server.rooms (the rooms     *)
(* that browsers are served from, by path); the two may name different       *)
(* rooms, or one of them none.                                               *)
EXTENDS Naturals, FiniteSets

CONSTANTS
  Pages,        \* the editor pages the students open, each for its own Y.Doc
  MaxEdits,     \* bound on the edits made in a page
  MaxRooms,     \* bound on the room objects in use at a time
  MaxFaults     \* bound on crashes and refused transactions

ASSUME RoomAssumption ==
  /\ MaxEdits \in Nat /\ MaxRooms \in Nat \ {0} /\ MaxFaults \in Nat

VARIABLES
  doc,          \* the row: status, y
  typed,        \* the edits ever made, by page
  faults,       \* crashes and refused transactions still to come
  room,         \* the room objects
  managed,      \* app.rooms: the managed room, or 0
  path,         \* ws_server.rooms: the room served under the path, or 0
  browser       \* the pages

roomVars == <<doc, typed, faults, room, managed, path, browser>>

Texts == [Pages -> 0..MaxEdits]
Empty == [u \in Pages |-> 0]
Within(r, s) == \A u \in Pages : r[u] <= s[u]

\* Merging two Y.Docs: every edit of either.
Merged(r, s) == [u \in Pages |-> IF r[u] <= s[u] THEN s[u] ELSE r[u]]

Rooms == 1..MaxRooms

\* saved: the text saved last, none before the first save; known: state_revision still is the revision of the row.
Blank == [y |-> Empty, frozen |-> FALSE, dirty |-> FALSE, saved |-> {},
          known |-> FALSE, live |-> FALSE]

\* A page: whether it is new, open or gone, whether its editor is read-only, the
\* text of its Y.Doc, its connection, the room it is served from, and how many of
\* its own edits that connection has taken care of.
Fresh == [page |-> "new", ro |-> FALSE, y |-> Empty, conn |-> "off", in |-> 0, at |-> 0]
Gone == [Fresh EXCEPT !.page = "gone"]

\* The server rejects edit connections to a submitted document.
Writable == doc.status # "submitted"

RoomInit ==
  /\ doc = [status |-> "editing", y |-> Empty]
  /\ typed = Empty
  /\ faults \in 0..MaxFaults
  /\ room = [r \in Rooms |-> Blank]
  /\ managed = 0
  /\ path = 0
  /\ browser \in [Pages -> {Fresh, Gone}]

Clients(r) == {u \in Pages : browser[u].conn = "on" /\ browser[u].in = r}

\* A room nothing refers to any more is one that does not exist.
InUse(r, m, p, b) ==
  \/ r = m \/ r = p \/ \E u \in Pages : b[u].conn = "on" /\ b[u].in = r

\* What is kept to save a room matters in the managed one only.
Tidy(rs, m, p, b) ==
  [r \in Rooms |-> IF r = m THEN rs[r]
                   ELSE IF InUse(r, m, p, b)
                   THEN [Blank EXCEPT !.y = rs[r].y, !.frozen = rs[r].frozen, !.live = rs[r].live]
                   ELSE Blank]

\* A new room object: the names of rooms do not matter, so it is the first unused.
Unused == {r \in Rooms : /\ ~InUse(r, managed, path, browser)
                         /\ \A s \in Rooms : s < r => InUse(s, managed, path, browser)}

-----------------------------------------------------------------------------
(* Pages.                                                                    *)

Visit(u) ==
  /\ browser[u].page = "new"
  /\ browser' = [browser EXCEPT ![u].page = "open"]
  /\ UNCHANGED <<doc, typed, faults, room, managed, path>>

Disconnected(b) == [b EXCEPT !.conn = "off", !.in = 0, !.at = 0]

\* Leaving the page loses what has not reached a room.
Leave(u) ==
  /\ browser[u].page = "open"
  /\ browser' = [browser EXCEPT ![u] = Gone]
  /\ room' = Tidy(room, managed, path, browser')
  /\ UNCHANGED <<doc, typed, faults, managed, path>>

\* The socket breaks; the provider connects again by itself.
Break(u) ==
  /\ browser[u].conn # "off"
  /\ browser' = [browser EXCEPT ![u] = Disconnected(@)]
  /\ room' = Tidy(room, managed, path, browser')
  /\ UNCHANGED <<doc, typed, faults, managed, path>>

\* A student edits, connected or not; with a connection the update is in flight
\* from now on.
Type(u) ==
  /\ browser[u].page = "open" /\ ~browser[u].ro
  /\ typed[u] < MaxEdits
  /\ typed' = [typed EXCEPT ![u] = @ + 1]
  /\ browser' = [browser EXCEPT ![u].y[u] = @ + 1]
  /\ UNCHANGED <<doc, faults, room, managed, path>>

\* A room that starts empty, as if the row had no text.
LoadedEmpty == [Blank EXCEPT !.frozen = ~Writable, !.known = TRUE, !.live = TRUE]

\* create_managed_room(): the room starts from the row, frozen if the document
\* is submitted by now.
Loaded == [Blank EXCEPT !.y = doc.y, !.frozen = ~Writable, !.known = TRUE, !.live = TRUE]

\* _handle_websocket() up to the accept: the managed room is created if there
\* is none, the path is registered if it is free.
Open(u) ==
  /\ browser[u].page = "open" /\ browser[u].conn = "off"
  /\ Writable
  /\ \/ /\ managed # 0
        /\ UNCHANGED <<room, managed>>
        /\ path' = IF path = 0 THEN managed ELSE path
     \/ /\ managed = 0
        /\ \E r \in Unused :
             /\ room' = [room EXCEPT ![r] = Loaded]
             /\ managed' = r
             /\ path' = IF path = 0 THEN r ELSE path
  /\ browser' = [browser EXCEPT ![u].conn = "opening"]
  /\ UNCHANGED <<doc, typed, faults>>

\* Everybody on room r has received text y.
Shared(b, r, y) ==
  [u \in Pages |-> IF b[u].conn = "on" /\ b[u].in = r
                   THEN [b[u] EXCEPT !.y = Merged(@, y)] ELSE b[u]]

\* YRoom.serve(): the two texts are exchanged, unless the room is frozen and
\* drops the sync messages. Either way the page does not send them again.
Joined(u, r, ro) ==
  LET on == [browser EXCEPT ![u].conn = "on", ![u].in = r, ![u].at = browser[u].y[u]]
      both == Merged(ro.y, browser[u].y)
  IN  IF ro.frozen
      THEN /\ browser' = on
           /\ room' = [room EXCEPT ![r] = ro]
      ELSE /\ browser' = IF ro.live THEN Shared(on, r, both)
                         ELSE [on EXCEPT ![u].y = both]
           /\ room' = [room EXCEPT ![r] =
                [ro EXCEPT !.y = both, !.dirty = @ \/ (r = managed /\ both # ro.y)]]

\* ws_server.serve() after the accept: it looks the path up again, and makes a
\* room of its own, that nobody manages, when the path has gone. Whether a
\* stopped room still serves is the library's business.
Serve(u) ==
  /\ browser[u].conn = "opening"
  /\ \/ path # 0 /\ Joined(u, path, room[path]) /\ UNCHANGED path
     \/ /\ path # 0 /\ ~room[path].live
        /\ browser' = [browser EXCEPT ![u] = Disconnected(@)]
        /\ UNCHANGED <<room, path>>
     \/ /\ path = 0
        /\ \E r \in Unused :
             /\ Joined(u, r, [Blank EXCEPT !.live = TRUE])
             /\ path' = r
  /\ UNCHANGED <<doc, typed, faults, managed>>

\* The next update of a page reaches its room. A frozen room drops it; a room
\* that misses an earlier edit of the author cannot integrate it.
Deliver(u) ==
  LET b == browser[u]
      ro == room[b.in]
      new == [ro.y EXCEPT ![u] = b.at + 1]
      taken == [browser EXCEPT ![u].at = @ + 1]
  IN  /\ b.conn = "on" /\ b.at < b.y[u]
      /\ \/ /\ ro.frozen \/ ro.y[u] # b.at
            /\ browser' = taken
            /\ UNCHANGED room
         \/ /\ ~ro.frozen /\ ro.y[u] = b.at
            /\ room' = [room EXCEPT ![b.in].y = new, ![b.in].dirty = b.in = managed]
            /\ browser' = IF ro.live THEN Shared(taken, b.in, new) ELSE taken
      /\ UNCHANGED <<doc, typed, faults, managed, path>>

-----------------------------------------------------------------------------
(* Saving. A save fails when the database is locked, or when the revision it *)
(* knows is not that of the row.                                             *)

\* perform_save() and perform_flush() of room r: what the row and the room
\* become. Nothing is written when the text is the one saved last.
Unchanged(r) == room[r].y \in room[r].saved
SavedRow(r, ok) == IF ok /\ ~Unchanged(r) THEN [doc EXCEPT !.y = room[r].y] ELSE doc
SaveWorks(r, ok) == Unchanged(r) \/ (ok /\ room[r].known)
\* A failed save that forgets what was to be saved.
SavedRoomsAlways(r, ok) ==
  [s \in Rooms |->
     IF s # r THEN room[s]
     ELSE [room[r] EXCEPT !.dirty = FALSE, !.saved = IF ok THEN {room[r].y} ELSE @]]

SavedRooms(r, ok) ==
  IF Unchanged(r) THEN [room EXCEPT ![r].dirty = FALSE]
  ELSE IF ok THEN [s \in Rooms |->
         IF s = r THEN [room[r] EXCEPT !.dirty = FALSE, !.saved = {room[r].y}]
         ELSE [room[s] EXCEPT !.known = FALSE]]
  ELSE room

\* The two results of a save: written or not.
Outcome(r) == IF room[r].known THEN BOOLEAN ELSE {FALSE}

\* periodic_save_loop(), the first half of a round.
PeriodicSave ==
  /\ managed # 0 /\ room[managed].dirty
  /\ \E ok \in Outcome(managed) :
       /\ doc' = SavedRow(managed, ok)
       /\ room' = SavedRooms(managed, ok)
  /\ UNCHANGED <<typed, faults, managed, path, browser>>

\* recycle_room(): a managed room without clients is dropped, even if it could
\* not be saved; so is whatever room the path names. A connection sets
\* last_active_at to the loop's clock, far behind time.time(), so a room may be
\* stale before the connection that opened it is served.
Recycle ==
  /\ managed # 0 /\ Clients(managed) = {}
  /\ \E ok \in (IF room[managed].dirty THEN Outcome(managed) ELSE {FALSE}) :
       /\ doc' = IF room[managed].dirty THEN SavedRow(managed, ok) ELSE doc
       /\ room' = Tidy(IF room[managed].dirty THEN SavedRooms(managed, ok) ELSE room, 0, 0, browser)
  /\ managed' = 0
  /\ path' = 0
  /\ UNCHANGED <<typed, faults, browser>>

\* The process ends and starts again; at SIGTERM flush_all_dirty_rooms() has
\* saved what can be saved.
Restart ==
  /\ faults > 0
  /\ faults' = faults - 1
  /\ \/ UNCHANGED doc
     \/ /\ managed # 0 /\ room[managed].dirty
        /\ \E ok \in Outcome(managed) : doc' = SavedRow(managed, ok)
  /\ room' = [r \in Rooms |-> Blank]
  /\ managed' = 0
  /\ path' = 0
  /\ browser' = [u \in Pages |-> Disconnected(browser[u])]
  /\ UNCHANGED typed

-----------------------------------------------------------------------------
(* Requests of the web application to the managed room                       *)
(* (handle_internal_request). Each says what the room becomes.               *)

\* freeze and unfreeze
Thawed(f) == IF managed = 0 THEN room ELSE [room EXCEPT ![managed].frozen = f]

\* close: the room stops and is no longer managed, but stays in the path, and
\* its clients stay with it.
Stopped == IF managed = 0 THEN room
           ELSE Tidy([room EXCEPT ![managed].live = FALSE], 0, path, browser)

\* A close that leaves the stopped room in the registry.
StillRegistered == managed

Unregistered == 0

-----------------------------------------------------------------------------
\* The steps of the server and of the connections by themselves.
RoomStep ==
  \/ \E u \in Pages : Break(u) \/ Type(u) \/ Open(u) \/ Serve(u) \/ Deliver(u)
  \/ PeriodicSave \/ Recycle \/ Restart

RoomTypeOK ==
  /\ doc \in [status : {"editing", "submitted", "returned"}, y : Texts]
  /\ typed \in Texts
  /\ faults \in 0..MaxFaults
  /\ room \in [Rooms -> [y : Texts, frozen : BOOLEAN, dirty : BOOLEAN, known : BOOLEAN,
                         saved : {{}} \cup {{t} : t \in Texts}, live : BOOLEAN]]
  /\ managed \in 0..MaxRooms
  /\ path \in 0..MaxRooms
  /\ browser \in [Pages -> [page : {"new", "open", "gone"}, ro : BOOLEAN, y : Texts, conn : {"off", "opening", "on"},
                            in : 0..MaxRooms, at : 0..MaxEdits]]
=============================================================================
