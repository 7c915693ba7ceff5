---------------------------- MODULE CollabProofs ----------------------------
(* What CollabSubmission promises, for any number of pages, edits, rooms,    *)
(* requests and faults: the text of the row is never lost to a stale room,   *)
(* and the row implements DocumentStore.                                     *)
(*                                                                           *)
(* TextInv orders the copies of the text: what was typed holds every page    *)
(* and every room, and the managed room holds the row.  FormInv says which   *)
(* requests write a submission row and whose answer a page may wait for.     *)
EXTENDS CollabSubmission, TLAPS

PageRecs == [page : {"new", "open", "gone"}, ro : BOOLEAN, y : Texts,
             conn : {"off", "opening", "on"}, in : 0..MaxRooms, at : 0..MaxEdits]
RoomRecs == [y : Texts, frozen : BOOLEAN, dirty : BOOLEAN, known : BOOLEAN,
             saved : {{}} \cup {{t} : t \in Texts}, live : BOOLEAN]
RowRecs == [status : {"editing", "submitted", "returned"}, y : Texts]

\* The pages and the rooms hold nothing that was not typed; a page that is
\* connected is served from a room.
PagesFit(b, t) ==
  /\ b \in [Pages -> PageRecs]
  /\ \A u \in Pages : Within(b[u].y, t) /\ (b[u].conn = "on" => b[u].in # 0)
RoomsFit(rs, t) ==
  /\ rs \in [Rooms -> RoomRecs]
  /\ \A r \in Rooms : Within(rs[r].y, t)
RowFits(d, t) == d \in RowRecs /\ Within(d.y, t)

\* The managed room can be saved, and saving it loses nothing of the row.
Keeps(ro, d) ==
  /\ ro.known /\ ro.live
  /\ Within(d.y, ro.y)
  /\ ro.saved \subseteq {d.y}
  /\ ~ro.dirty => ro.y = d.y

TextInv ==
  /\ typed \in Texts
  /\ faults \in 0..MaxFaults
  /\ managed \in 0..MaxRooms
  /\ path \in 0..MaxRooms
  /\ RowFits(doc, typed)
  /\ PagesFit(browser, typed)
  /\ RoomsFit(room, typed)
  /\ managed # 0 => Keeps(room[managed], doc)

-----------------------------------------------------------------------------
(* Texts.                                                                    *)

LEMMA WithinRefl == ASSUME NEW r \in Texts PROVE Within(r, r)
BY RoomAssumption DEF Within, Texts

LEMMA WithinTrans ==
  ASSUME NEW r \in Texts, NEW s \in Texts, NEW t \in Texts, Within(r, s), Within(s, t)
  PROVE Within(r, t)
BY RoomAssumption DEF Within, Texts

LEMMA WithinEmpty == ASSUME NEW t \in Texts PROVE Empty \in Texts /\ Within(Empty, t)
BY RoomAssumption DEF Within, Texts, Empty

\* A merge holds both texts, and nothing else.
LEMMA MergedFacts ==
  ASSUME NEW r \in Texts, NEW s \in Texts
  PROVE  /\ Merged(r, s) \in Texts
         /\ Within(r, Merged(r, s)) /\ Within(s, Merged(r, s))
         /\ \A t \in Texts : Within(r, t) /\ Within(s, t) => Within(Merged(r, s), t)
BY RoomAssumption DEF Within, Texts, Merged

\* One more edit of a page.
LEMMA OneMore ==
  ASSUME NEW r \in Texts, NEW u \in Pages, NEW n \in 0..MaxEdits, r[u] <= n
  PROVE  /\ [r EXCEPT ![u] = n] \in Texts
         /\ Within(r, [r EXCEPT ![u] = n])
         /\ \A t \in Texts : Within(r, t) /\ n <= t[u] => Within([r EXCEPT ![u] = n], t)
BY RoomAssumption DEF Within, Texts

-----------------------------------------------------------------------------
(* Rooms and pages.                                                          *)

LEMMA RoomTypes ==
  ASSUME TextInv
  PROVE RoomTypeOK
BY DEF TextInv, RoomTypeOK, RowFits, PagesFit, RoomsFit, RowRecs, PageRecs, RoomRecs

LEMMA BlankRoom ==
  /\ Blank \in RoomRecs /\ Blank.y = Empty /\ Blank.saved = {}
BY RoomAssumption, WithinEmpty DEF Blank, RoomRecs, Texts, Empty

LEMMA FreshPage ==
  /\ Fresh \in PageRecs /\ Fresh.y = Empty /\ Fresh.conn = "off"
  /\ Gone \in PageRecs /\ Gone.y = Empty /\ Gone.conn = "off"
<1>1. Empty \in Texts /\ 0 \in 0..MaxRooms /\ 0 \in 0..MaxEdits
  BY RoomAssumption DEF Texts, Empty
<1>2. Fresh \in PageRecs /\ Fresh.y = Empty /\ Fresh.conn = "off" BY <1>1 DEF Fresh, PageRecs
<1> QED BY <1>2 DEF Gone, PageRecs

\* Replacing one page by one that fits.
LEMMA OnePage ==
  ASSUME NEW b, NEW t \in Texts, PagesFit(b, t), NEW u \in Pages, NEW c \in PageRecs,
         Within(c.y, t), c.conn = "on" => c.in # 0
  PROVE  PagesFit([b EXCEPT ![u] = c], t)
BY DEF PagesFit

LEMMA OneRoom ==
  ASSUME NEW rs, NEW t \in Texts, RoomsFit(rs, t), NEW r \in Rooms, NEW ro \in RoomRecs,
         Within(ro.y, t)
  PROVE  RoomsFit([rs EXCEPT ![r] = ro], t)
BY DEF RoomsFit

\* Forgetting what nobody refers to leaves the managed room alone.
LEMMA TidyFits ==
  ASSUME NEW rs, NEW t \in Texts, RoomsFit(rs, t), NEW m, NEW p, NEW b
  PROVE  /\ RoomsFit(Tidy(rs, m, p, b), t)
         /\ m \in Rooms => Tidy(rs, m, p, b)[m] = rs[m]
<1>1. \A r \in Rooms : Tidy(rs, m, p, b)[r] \in RoomRecs /\ Within(Tidy(rs, m, p, b)[r].y, t)
  <2> SUFFICES ASSUME NEW r \in Rooms
               PROVE  Tidy(rs, m, p, b)[r] \in RoomRecs /\ Within(Tidy(rs, m, p, b)[r].y, t)
      OBVIOUS
  <2> DEFINE ro == [Blank EXCEPT !.y = rs[r].y, !.frozen = rs[r].frozen, !.live = rs[r].live]
  <2>1. rs[r] \in RoomRecs /\ Within(rs[r].y, t) BY DEF RoomsFit
  <2>2. ro \in RoomRecs /\ Within(ro.y, t) BY <2>1, BlankRoom DEF RoomRecs
  <2>3. Blank \in RoomRecs /\ Within(Blank.y, t) BY BlankRoom, WithinEmpty
  <2>4. Tidy(rs, m, p, b)[r] \in {rs[r], ro, Blank} BY DEF Tidy
  <2> QED BY <2>1, <2>2, <2>3, <2>4
<1>2. Tidy(rs, m, p, b) \in [Rooms -> RoomRecs] BY <1>1 DEF Tidy
<1>3. m \in Rooms => Tidy(rs, m, p, b)[m] = rs[m] BY DEF Tidy
<1> QED BY <1>1, <1>2, <1>3 DEF RoomsFit

\* What a row written from the managed room holds, and what the room is then:
\* a save never takes text from the row, whether it fails or not.
LEMMA SaveKeeps ==
  ASSUME TextInv, managed # 0, NEW ok \in BOOLEAN
  PROVE  /\ RowFits(SavedRow(managed, ok), typed)
         /\ Within(doc.y, SavedRow(managed, ok).y)
         /\ SavedRow(managed, ok).status = doc.status
         /\ RoomsFit(SavedRooms(managed, ok), typed)
         /\ Keeps(SavedRooms(managed, ok)[managed], SavedRow(managed, ok))
<1> DEFINE m == managed
<1>0. /\ m \in Rooms /\ typed \in Texts /\ RowFits(doc, typed) /\ Keeps(room[m], doc)
      /\ room \in [Rooms -> RoomRecs] /\ \A r \in Rooms : Within(room[r].y, typed)
  BY RoomAssumption DEF TextInv, Rooms, RoomsFit
<1>1. room[m] \in RoomRecs /\ room[m].y \in Texts /\ doc \in RowRecs /\ doc.y \in Texts
  BY <1>0 DEF RoomRecs, RowRecs, RowFits
<1> HIDE DEF m
<1>2. CASE Unchanged(m)
  <2>1. room[m].y = doc.y BY <1>0, <1>2 DEF Unchanged, Keeps
  <2>2. SavedRow(m, ok) = doc BY <1>2 DEF SavedRow
  <2> DEFINE ro == [room[m] EXCEPT !.dirty = FALSE]
  <2>3. SavedRooms(m, ok) = [room EXCEPT ![m] = ro] BY <1>2 DEF SavedRooms
  <2>4. ro \in RoomRecs /\ ro.y = room[m].y /\ Keeps(ro, doc)
    BY <1>0, <1>1, <2>1 DEF RoomRecs, Keeps
  <2> HIDE DEF ro
  <2>5. SavedRooms(m, ok)[m] = ro BY <1>0, <2>3
  <2>6. RoomsFit(SavedRooms(m, ok), typed)
    BY <1>0, <2>3, <2>4, OneRoom DEF RoomsFit
  <2> QED BY <1>0, <1>1, <2>2, <2>4, <2>5, <2>6, WithinRefl DEF m
<1>3. CASE ~Unchanged(m) /\ ok
  <2> DEFINE ro == [room[m] EXCEPT !.dirty = FALSE, !.saved = {room[m].y}]
             d == [doc EXCEPT !.y = room[m].y]
             lost(s) == [room[s] EXCEPT !.known = FALSE]
  <2>1. SavedRow(m, ok) = d BY <1>3 DEF SavedRow
  <2>2. SavedRooms(m, ok) = [s \in Rooms |-> IF s = m THEN ro ELSE lost(s)]
    BY <1>3 DEF SavedRooms
  <2>3. d \in RowRecs /\ d.y = room[m].y /\ d.status = doc.status BY <1>1 DEF RowRecs
  <2>4. ro \in RoomRecs /\ ro.y = room[m].y BY <1>1 DEF RoomRecs
  <2>5. Keeps(ro, d)
    <3>1. Within(ro.y, ro.y) BY <1>1, <2>4, WithinRefl
    <3>2. ro.known /\ ro.live /\ ro.saved = {room[m].y} BY <1>0, <1>1 DEF Keeps, RoomRecs
    <3> QED BY <2>3, <2>4, <3>1, <3>2 DEF Keeps
  <2>6. \A s \in Rooms : lost(s) \in RoomRecs /\ lost(s).y = room[s].y BY <1>0 DEF RoomRecs
  <2>7. Within(doc.y, room[m].y) BY <1>0 DEF Keeps
  <2> HIDE DEF ro, d, lost
  <2>8. RoomsFit(SavedRooms(m, ok), typed) BY <1>0, <2>2, <2>4, <2>6 DEF RoomsFit
  <2>9. SavedRooms(m, ok)[m] = ro BY <1>0, <2>2
  <2> QED BY <1>0, <2>1, <2>3, <2>5, <2>7, <2>8, <2>9 DEF RowFits, m
<1>4. CASE ~Unchanged(m) /\ ~ok
  <2>1. SavedRow(m, ok) = doc /\ SavedRooms(m, ok) = room BY <1>4 DEF SavedRow, SavedRooms
  <2> QED BY <1>0, <1>1, <2>1, WithinRefl DEF RoomsFit, m
<1> QED BY <1>2, <1>3, <1>4

-----------------------------------------------------------------------------
(* The steps of pages, rooms and server keep the order of the texts.         *)

\* What has to be shown of a step that is not an edit.
LEMMA TextFrame ==
  ASSUME TextInv, typed' = typed, faults' \in 0..MaxFaults,
         managed' \in 0..MaxRooms, path' \in 0..MaxRooms,
         RowFits(doc', typed), PagesFit(browser', typed), RoomsFit(room', typed),
         managed' # 0 => Keeps(room'[managed'], doc')
  PROVE  TextInv'
BY DEF TextInv

LEMMA TextFacts ==
  ASSUME TextInv
  PROVE  /\ typed \in Texts /\ doc \in RowRecs /\ doc.y \in Texts /\ Within(doc.y, typed)
         /\ \A u \in Pages : /\ browser[u] \in PageRecs /\ browser[u].y \in Texts
                             /\ Within(browser[u].y, typed)
         /\ \A r \in Rooms : /\ room[r] \in RoomRecs /\ room[r].y \in Texts
                             /\ Within(room[r].y, typed)
         /\ managed # 0 => managed \in Rooms
         /\ path # 0 => path \in Rooms
<1>1. managed # 0 => managed \in Rooms BY RoomAssumption DEF TextInv, Rooms
<1>2. path # 0 => path \in Rooms BY RoomAssumption DEF TextInv, Rooms
<1> QED BY <1>1, <1>2 DEF TextInv, RowFits, PagesFit, RoomsFit, RowRecs, PageRecs, RoomRecs

LEMMA VisitText == ASSUME TextInv, NEW u \in Pages, Visit(u) PROVE TextInv'
<1> DEFINE c == [browser[u] EXCEPT !.page = "open"]
<1>1. c \in PageRecs /\ c.y = browser[u].y /\ c.conn = browser[u].conn /\ c.in = browser[u].in
  BY TextFacts DEF PageRecs
<1>2. browser' = [browser EXCEPT ![u] = c] BY DEF Visit
<1> HIDE DEF c
<1>3. PagesFit(browser', typed)
  BY <1>1, <1>2, TextFacts, OnePage DEF TextInv, PagesFit
<1> QED BY <1>3, TextFrame DEF Visit, TextInv

\* A page that only loses its connection, or becomes read-only, still fits.
LEMMA OffFits ==
  ASSUME NEW c \in PageRecs
  PROVE  /\ Disconnected(c) \in PageRecs /\ Disconnected(c).y = c.y
         /\ Disconnected(c).conn = "off"
<1>1. 0 \in 0..MaxRooms /\ 0 \in 0..MaxEdits BY RoomAssumption
<1> QED BY <1>1 DEF PageRecs, Disconnected

LEMMA LeaveText == ASSUME TextInv, NEW u \in Pages, Leave(u) PROVE TextInv'
<1>1. PagesFit(browser', typed)
  BY FreshPage, TextFacts, WithinEmpty, OnePage DEF Leave, TextInv
<1>2. /\ RoomsFit(room', typed)
      /\ managed # 0 => room'[managed] = room[managed]
  BY TidyFits, TextFacts DEF TextInv, Leave
<1> QED BY <1>1, <1>2, TextFrame DEF Leave, TextInv

LEMMA BreakText == ASSUME TextInv, NEW u \in Pages, Break(u) PROVE TextInv'
<1>1. PagesFit(browser', typed)
  BY OffFits, TextFacts, OnePage DEF Break, TextInv
<1>2. /\ RoomsFit(room', typed)
      /\ managed # 0 => room'[managed] = room[managed]
  BY TidyFits, TextFacts DEF TextInv, Break
<1> QED BY <1>1, <1>2, TextFrame DEF Break, TextInv

\* An edit: what was typed grows with the page it was typed in.
LEMMA TypeText == ASSUME TextInv, NEW u \in Pages, Type(u) PROVE TextInv'
<1> DEFINE y == browser[u].y
           n == y[u] + 1
           ny == [y EXCEPT ![u] = n]
           c == [browser[u] EXCEPT !.y = ny]
<1>1. /\ typed \in Texts /\ y \in Texts /\ Within(y, typed) /\ browser[u] \in PageRecs
      /\ typed[u] \in 0..MaxEdits /\ typed[u] < MaxEdits
  BY TextFacts DEF Type, Texts
<1>2. typed' = [typed EXCEPT ![u] = typed[u] + 1] BY DEF Type
<1>3. typed[u] + 1 \in 0..MaxEdits /\ n \in 0..MaxEdits /\ n <= typed[u] + 1 /\ y[u] <= n
      /\ typed[u] <= typed[u] + 1
  BY <1>1, RoomAssumption DEF Within, Texts
<1>4. typed' \in Texts /\ Within(typed, typed') BY <1>1, <1>2, <1>3, OneMore
<1>5. typed'[u] = typed[u] + 1 BY <1>1, <1>2 DEF Texts
<1>6. ny \in Texts /\ Within(ny, typed')
  BY <1>1, <1>3, <1>4, <1>5, OneMore, WithinTrans
<1>7. c \in PageRecs /\ c.y = ny /\ c.conn = browser[u].conn /\ c.in = browser[u].in
  BY <1>1, <1>6 DEF PageRecs
<1>8. browser' = [browser EXCEPT ![u] = c]
  BY <1>1 DEF Type, TextInv, PagesFit, PageRecs, Texts
<1> HIDE DEF c, ny, n, y
<1>9. \A r \in Texts : Within(r, typed) => Within(r, typed')
  BY <1>1, <1>4, WithinTrans
<1>10. PagesFit(browser, typed')
  BY <1>9, TextFacts DEF TextInv, PagesFit
<1>11. PagesFit(browser', typed')
  BY <1>4, <1>6, <1>7, <1>8, <1>10, OnePage DEF PagesFit
<1>12. RoomsFit(room, typed') /\ RowFits(doc, typed')
  BY <1>9, TextFacts DEF TextInv, RoomsFit, RowFits
<1> QED BY <1>4, <1>11, <1>12 DEF TextInv, Type

\* A room made for the first connection starts from the row.
LEMMA OpenText == ASSUME TextInv, NEW u \in Pages, Open(u) PROVE TextInv'
<1> DEFINE c == [browser[u] EXCEPT !.conn = "opening"]
<1>1. c \in PageRecs /\ c.y = browser[u].y /\ c.conn = "opening" BY TextFacts DEF PageRecs
<1>2. browser' = [browser EXCEPT ![u] = c] BY DEF Open
<1> HIDE DEF c
<1>3. PagesFit(browser', typed) BY <1>1, <1>2, TextFacts, OnePage DEF TextInv
<1>4. UNCHANGED <<doc, typed, faults>> BY DEF Open
<1>5. CASE UNCHANGED <<room, managed>> /\ path' = IF path = 0 THEN managed ELSE path
  BY <1>3, <1>4, <1>5, TextFrame DEF TextInv
<1>6. ASSUME NEW r \in Unused, managed = 0, room' = [room EXCEPT ![r] = Loaded], managed' = r,
             path' = IF path = 0 THEN r ELSE path
      PROVE TextInv'
  <2>1. r \in Rooms /\ r \in 0..MaxRooms BY RoomAssumption, <1>6 DEF Unused, Rooms
  <2>2. /\ Loaded \in RoomRecs /\ Loaded.y = doc.y /\ Loaded.saved = {}
        /\ Loaded.known /\ Loaded.live
    BY BlankRoom, TextFacts DEF Loaded, RoomRecs, Writable
  <2>3. Within(doc.y, doc.y) BY TextFacts, WithinRefl
  <2>4. Keeps(Loaded, doc) BY <2>2, <2>3 DEF Keeps
  <2>5. RoomsFit(room', typed) BY <1>6, <2>1, <2>2, TextFacts, OneRoom DEF TextInv
  <2>6. room'[managed'] = Loaded BY <1>6, <2>1 DEF TextInv, RoomsFit
  <2> QED BY <1>3, <1>4, <1>6, <2>1, <2>4, <2>5, <2>6, TextFrame DEF TextInv
<1> QED BY <1>5, <1>6 DEF Open

\* What everybody on a room receives is of the room.
LEMMA SharedFits ==
  ASSUME NEW t \in Texts, NEW b, PagesFit(b, t), NEW r, NEW y \in Texts, Within(y, t)
  PROVE  PagesFit(Shared(b, r, y), t)
<1>1. ASSUME NEW u \in Pages
      PROVE  /\ Shared(b, r, y)[u] \in PageRecs /\ Within(Shared(b, r, y)[u].y, t)
             /\ Shared(b, r, y)[u].conn = "on" => Shared(b, r, y)[u].in # 0
  <2> DEFINE c == [b[u] EXCEPT !.y = Merged(@, y)]
  <2>1. /\ b[u] \in PageRecs /\ b[u].y \in Texts /\ Within(b[u].y, t)
        /\ b[u].conn = "on" => b[u].in # 0
    BY DEF PagesFit, PageRecs
  <2>2. Merged(b[u].y, y) \in Texts /\ Within(Merged(b[u].y, y), t) BY <2>1, MergedFacts
  <2>3. c \in PageRecs /\ c.y = Merged(b[u].y, y) /\ c.conn = b[u].conn /\ c.in = b[u].in
    BY <2>1, <2>2 DEF PageRecs
  <2>4. Shared(b, r, y)[u] \in {c, b[u]} BY DEF Shared
  <2> HIDE DEF c
  <2> QED BY <2>1, <2>2, <2>3, <2>4
<1>2. Shared(b, r, y) \in [Pages -> PageRecs] BY <1>1 DEF Shared
<1> QED BY <1>1, <1>2 DEF PagesFit

\* A page joins room ro, which is the managed one or one of its own.
LEMMA JoinedFits ==
  ASSUME TextInv, NEW u \in Pages, NEW r \in Rooms, NEW ro \in RoomRecs,
         Within(ro.y, typed), Joined(u, r, ro), r = managed => ro = room[r]
  PROVE  /\ PagesFit(browser', typed) /\ RoomsFit(room', typed)
         /\ managed # 0 => Keeps(room'[managed], doc)
<1> DEFINE b == browser[u]
           c == [b EXCEPT !.conn = "on", !.in = r, !.at = b.y[u]]
           both == Merged(ro.y, b.y)
           nro == [ro EXCEPT !.y = both, !.dirty = @ \/ (r = managed /\ both # ro.y)]
           on == [browser EXCEPT ![u] = c]
           onboth == [on EXCEPT ![u].y = both]
           cboth == [c EXCEPT !.y = both]
<1>1. /\ b \in PageRecs /\ b.y \in Texts /\ Within(b.y, typed) /\ b.y[u] \in 0..MaxEdits
      /\ r \in 0..MaxRooms /\ r # 0 /\ ro.y \in Texts /\ typed \in Texts /\ browser \in [Pages -> PageRecs]
  BY RoomAssumption, TextFacts DEF Rooms, Texts, RoomRecs, TextInv, PagesFit
<1>2. c \in PageRecs /\ c.y = b.y /\ c.in = r BY <1>1 DEF PageRecs
<1>3. /\ both \in Texts /\ Within(both, typed) /\ Within(ro.y, both)
  BY <1>1, MergedFacts
<1>4. /\ nro \in RoomRecs /\ nro.y = both /\ nro.known = ro.known /\ nro.live = ro.live
      /\ nro.saved = ro.saved /\ (~nro.dirty => ~ro.dirty /\ (r = managed => both = ro.y))
  BY <1>3 DEF RoomRecs
<1>5. cboth \in PageRecs /\ cboth.y = both /\ cboth.in = r BY <1>2, <1>3 DEF PageRecs
<1>6. onboth = [browser EXCEPT ![u] = cboth] BY <1>1
<1>7. \/ browser' = on /\ room' = [room EXCEPT ![r] = ro]
      \/ /\ browser' \in {Shared(on, r, both), onboth}
         /\ room' = [room EXCEPT ![r] = nro]
  <2>1. on = [browser EXCEPT ![u].conn = "on", ![u].in = r, ![u].at = browser[u].y[u]]
    BY <1>1
  <2> HIDE DEF on
  <2> QED BY <2>1 DEF Joined
<1> HIDE DEF c, both, nro, cboth, onboth
<1>8. PagesFit(on, typed) BY <1>1, <1>2, OnePage DEF TextInv
<1>9. PagesFit(onboth, typed) BY <1>1, <1>3, <1>5, <1>6, OnePage DEF TextInv
<1>10. PagesFit(Shared(on, r, both), typed) BY <1>1, <1>3, <1>8, SharedFits
<1>11. PagesFit(browser', typed) BY <1>7, <1>8, <1>9, <1>10
<1>12. RoomsFit([room EXCEPT ![r] = ro], typed) BY <1>1, OneRoom DEF TextInv
<1>13. RoomsFit([room EXCEPT ![r] = nro], typed) BY <1>1, <1>3, <1>4, OneRoom DEF TextInv
<1>14. RoomsFit(room', typed) BY <1>7, <1>12, <1>13
<1>15. ASSUME managed # 0 PROVE Keeps(room'[managed], doc)
  <2>1. Keeps(room[managed], doc) /\ room \in [Rooms -> RoomRecs]
    BY <1>15 DEF TextInv, RoomsFit
  <2>2. CASE r = managed
    <3>1. Keeps(ro, doc) BY <2>1, <2>2
    <3>2. Within(doc.y, ro.y) BY <3>1 DEF Keeps
    <3>3. Within(doc.y, both) BY <1>1, <1>3, <3>2, TextFacts, WithinTrans
    <3>4. Keeps(nro, doc) BY <1>4, <2>2, <3>1, <3>3 DEF Keeps
    <3>5. room'[managed] \in {ro, nro} BY <1>7, <2>1, <2>2
    <3> QED BY <3>1, <3>4, <3>5
  <2>3. CASE r # managed BY <1>7, <1>15, <2>1, <2>3, TextFacts
  <2> QED BY <2>2, <2>3
<1> QED BY <1>11, <1>14, <1>15

LEMMA ServeText == ASSUME TextInv, NEW u \in Pages, Serve(u) PROVE TextInv'
<1>1. UNCHANGED <<doc, typed, faults, managed>> BY DEF Serve
<1>2. CASE path # 0 /\ Joined(u, path, room[path]) /\ UNCHANGED path
  <2>1. path \in Rooms /\ room[path] \in RoomRecs /\ Within(room[path].y, typed)
    BY <1>2, TextFacts
  <2>2. /\ PagesFit(browser', typed) /\ RoomsFit(room', typed)
        /\ managed # 0 => Keeps(room'[managed], doc)
    BY <1>2, <2>1, JoinedFits
  <2> QED BY <1>1, <1>2, <2>2, TextFrame DEF TextInv
<1>3. CASE /\ browser' = [browser EXCEPT ![u] = Disconnected(@)]
           /\ UNCHANGED <<room, path>>
  <2>1. PagesFit(browser', typed) BY <1>3, OffFits, TextFacts, OnePage DEF TextInv
  <2> QED BY <1>1, <1>3, <2>1, TextFrame DEF TextInv
<1>4. ASSUME NEW r \in Unused, Joined(u, r, [Blank EXCEPT !.live = TRUE]), path' = r
      PROVE TextInv'
  <2> DEFINE ro == [Blank EXCEPT !.live = TRUE]
  <2>1. r \in Rooms /\ r \in 0..MaxRooms /\ r # managed
    BY RoomAssumption, <1>4 DEF Unused, Rooms, InUse
  <2>2. ro \in RoomRecs /\ ro.y = Empty BY BlankRoom DEF RoomRecs
  <2>3. Within(ro.y, typed) BY <2>2, TextFacts, WithinEmpty
  <2>4. Joined(u, r, ro) BY <1>4
  <2> HIDE DEF ro
  <2>5. /\ PagesFit(browser', typed) /\ RoomsFit(room', typed)
        /\ managed # 0 => Keeps(room'[managed], doc)
    BY <2>1, <2>2, <2>3, <2>4, JoinedFits
  <2> QED BY <1>1, <1>4, <2>1, <2>5, TextFrame DEF TextInv
<1> QED BY <1>2, <1>3, <1>4 DEF Serve

\* An update that reaches its room was typed, and is the next of its author.
LEMMA DeliverText == ASSUME TextInv, NEW u \in Pages, Deliver(u) PROVE TextInv'
<1> DEFINE b == browser[u]
           ro == room[b.in]
           n == b.at + 1
           new == [ro.y EXCEPT ![u] = n]
           c == [b EXCEPT !.at = n]
           taken == [browser EXCEPT ![u] = c]
           nro == [ro EXCEPT !.y = new, !.dirty = (b.in = managed)]
<1>1. /\ b \in PageRecs /\ b.y \in Texts /\ Within(b.y, typed) /\ b.at \in 0..MaxEdits
      /\ b.y[u] \in 0..MaxEdits /\ typed \in Texts /\ browser \in [Pages -> PageRecs]
      /\ typed[u] \in 0..MaxEdits /\ b.in \in 0..MaxRooms
      /\ room \in [Rooms -> RoomRecs]
  BY TextFacts DEF Texts, PageRecs, TextInv, PagesFit, RoomsFit
<1>2. b.conn = "on" /\ b.at < b.y[u] BY DEF Deliver
<1>3. b.in \in Rooms BY <1>1, <1>2 DEF TextInv, PagesFit, Rooms
<1>4. n \in 0..MaxEdits /\ n <= typed[u] /\ b.at <= n BY <1>1, <1>2, RoomAssumption DEF Within, Texts
<1>5. ro \in RoomRecs /\ ro.y \in Texts /\ Within(ro.y, typed) BY <1>3, TextFacts
<1>6. c \in PageRecs /\ c.y = b.y /\ c.conn = b.conn /\ c.in = b.in BY <1>1, <1>4 DEF PageRecs
<1>7. UNCHANGED <<doc, typed, faults, managed, path>> BY DEF Deliver
<1>8. taken = [browser EXCEPT ![u].at = @ + 1] BY <1>1
<1>9. \/ browser' = taken /\ UNCHANGED room
      \/ /\ ro.y[u] = b.at
         /\ room' = [room EXCEPT ![b.in] = nro]
         /\ browser' \in {Shared(taken, b.in, new), taken}
  BY <1>1, <1>3, <1>5, <1>8 DEF Deliver, RoomRecs
<1>10. n <= typed[u] => /\ ro.y[u] = b.at => /\ new \in Texts /\ Within(new, typed)
                                             /\ Within(ro.y, new)
  BY <1>1, <1>4, <1>5, OneMore
<1>11. new \in Texts => /\ nro \in RoomRecs /\ nro.y = new /\ nro.known = ro.known
                        /\ nro.live = ro.live /\ nro.saved = ro.saved
                        /\ nro.dirty = (b.in = managed)
  BY <1>5 DEF RoomRecs
<1> HIDE DEF c, nro, new, ro, n
<1>12. PagesFit(taken, typed) BY <1>1, <1>2, <1>3, <1>6, OnePage DEF TextInv, PagesFit
<1>13. CASE browser' = taken /\ UNCHANGED room BY <1>7, <1>12, <1>13, TextFrame DEF TextInv
<1>14. ASSUME ro.y[u] = b.at, room' = [room EXCEPT ![b.in] = nro],
              browser' \in {Shared(taken, b.in, new), taken}
       PROVE  TextInv'
  <2>1. /\ new \in Texts /\ Within(new, typed) /\ Within(ro.y, new)
        /\ nro \in RoomRecs /\ nro.y = new /\ nro.known = ro.known
        /\ nro.live = ro.live /\ nro.saved = ro.saved /\ nro.dirty = (b.in = managed)
    BY <1>4, <1>10, <1>11, <1>14
  <2> HIDE DEF taken
  <2>2. PagesFit(browser', typed)
    <3>1. PagesFit(Shared(taken, b.in, new), typed) BY <1>1, <1>12, <2>1, SharedFits
    <3> QED BY <1>12, <1>14, <3>1
  <2>3. RoomsFit(room', typed) BY <1>1, <1>3, <1>14, <2>1, OneRoom DEF TextInv
  <2>4. ASSUME managed # 0 PROVE Keeps(room'[managed], doc)
    <3>1. Keeps(room[managed], doc) BY <2>4 DEF TextInv
    <3>2. CASE b.in = managed
      <4>1. room'[managed] = nro BY <1>1, <1>3, <1>14, <3>2
      <4>2. Keeps(ro, doc) BY <3>1, <3>2 DEF ro
      <4>3. Within(doc.y, ro.y) BY <4>2 DEF Keeps
      <4>4. Within(doc.y, new) BY <1>5, <2>1, <4>3, TextFacts, WithinTrans
      <4> QED BY <2>1, <3>2, <4>1, <4>2, <4>4 DEF Keeps
    <3>3. CASE b.in # managed BY <1>1, <1>14, <2>4, <3>1, <3>3, TextFacts
    <3> QED BY <3>2, <3>3
  <2> QED BY <1>7, <2>2, <2>3, <2>4, TextFrame DEF TextInv
<1> QED BY <1>9, <1>13, <1>14

LEMMA OutcomeFacts == \A r : Outcome(r) \subseteq BOOLEAN /\ {FALSE} \subseteq BOOLEAN
BY DEF Outcome

LEMMA PeriodicText ==
  ASSUME TextInv, PeriodicSave
  PROVE  TextInv' /\ Within(doc.y, doc'.y) /\ doc'.status = doc.status
<1>1. PICK ok \in BOOLEAN : doc' = SavedRow(managed, ok) /\ room' = SavedRooms(managed, ok)
  BY OutcomeFacts DEF PeriodicSave
<1>2. managed # 0 /\ UNCHANGED <<typed, faults, managed, path, browser>> BY DEF PeriodicSave
<1>3. /\ RowFits(doc', typed) /\ RoomsFit(room', typed) /\ Keeps(room'[managed'], doc')
      /\ Within(doc.y, doc'.y) /\ doc'.status = doc.status
  BY <1>1, <1>2, SaveKeeps
<1> QED BY <1>2, <1>3, TextFrame DEF TextInv

LEMMA RecycleText ==
  ASSUME TextInv, Recycle
  PROVE  TextInv' /\ Within(doc.y, doc'.y) /\ doc'.status = doc.status
<1>1. PICK ok \in BOOLEAN :
        \/ doc' = SavedRow(managed, ok) /\ room' = Tidy(SavedRooms(managed, ok), 0, 0, browser)
        \/ doc' = doc /\ room' = Tidy(room, 0, 0, browser)
  <2>1. CASE room[managed].dirty BY <2>1, OutcomeFacts DEF Recycle
  <2>2. CASE ~room[managed].dirty BY <2>2 DEF Recycle
  <2> QED BY <2>1, <2>2
<1>2. managed # 0 /\ managed' = 0 /\ path' = 0 /\ UNCHANGED <<typed, faults, browser>>
  BY DEF Recycle
<1>3. RoomsFit(SavedRooms(managed, ok), typed) /\ RoomsFit(room, typed) /\ typed \in Texts
  BY <1>2, SaveKeeps DEF TextInv
<1>4. RoomsFit(room', typed) BY <1>1, <1>3, TidyFits
<1>5. RowFits(doc', typed) /\ Within(doc.y, doc'.y) /\ doc'.status = doc.status
  BY <1>1, <1>2, SaveKeeps, TextFacts, WithinRefl DEF TextInv
<1>6. 0 \in 0..MaxRooms BY RoomAssumption
<1> QED BY <1>2, <1>4, <1>5, <1>6, TextFrame DEF TextInv

LEMMA OneFaultLess ==
  ASSUME TextInv, faults > 0, faults' = faults - 1 PROVE faults' \in 0..MaxFaults
BY RoomAssumption DEF TextInv

LEMMA RestartText ==
  ASSUME TextInv, Restart
  PROVE  TextInv' /\ Within(doc.y, doc'.y) /\ doc'.status = doc.status
<1>1. doc' = doc \/ \E ok \in BOOLEAN : managed # 0 /\ doc' = SavedRow(managed, ok)
  BY OutcomeFacts DEF Restart
<1>2. RowFits(doc', typed) /\ Within(doc.y, doc'.y) /\ doc'.status = doc.status
  BY <1>1, SaveKeeps, TextFacts, WithinRefl DEF TextInv
<1>3. \A r \in Rooms : Blank \in RoomRecs /\ Within(Blank.y, typed)
  BY BlankRoom, TextFacts, WithinEmpty
<1>4. RoomsFit(room', typed) BY <1>3 DEF Restart, RoomsFit
<1>5. ASSUME NEW u \in Pages
      PROVE  /\ browser'[u] \in PageRecs /\ Within(browser'[u].y, typed)
             /\ browser'[u].conn = "off"
  BY OffFits, TextFacts DEF Restart
<1>6. PagesFit(browser', typed) BY <1>5 DEF PagesFit, Restart
<1>7. faults' \in 0..MaxFaults BY OneFaultLess DEF Restart
<1>8. managed' = 0 /\ path' = 0 /\ 0 \in 0..MaxRooms /\ typed' = typed
  BY RoomAssumption DEF Restart
<1> QED BY <1>2, <1>4, <1>6, <1>7, <1>8, TextFrame

-----------------------------------------------------------------------------
(* The requests. Each lemma is about what a handler does to the rooms.       *)

\* Pages that only become read-only, or stay as they are.
LEMMA ReadOnlyText ==
  ASSUME TextInv, NEW p \in Pages,
         UNCHANGED browser \/ browser' = [browser EXCEPT ![p].ro = TRUE]
  PROVE  PagesFit(browser', typed)
<1> DEFINE c == [browser[p] EXCEPT !.ro = TRUE]
<1>1. c \in PageRecs /\ c.y = browser[p].y /\ c.conn = browser[p].conn /\ c.in = browser[p].in
  BY TextFacts DEF PageRecs
<1>2. CASE browser' = [browser EXCEPT ![p].ro = TRUE]
  <2>1. browser' = [browser EXCEPT ![p] = c] BY <1>2
  <2> HIDE DEF c
  <2> QED BY <1>1, <2>1, TextFacts, OnePage DEF TextInv, PagesFit
<1>3. CASE UNCHANGED browser BY <1>3 DEF TextInv
<1> QED BY <1>2, <1>3

LEMMA AnswerText ==
  ASSUME TextInv, NEW h, NEW ok, NEW conflict, NEW fid, NEW st,
         Answer(h, ok, conflict, fid, st)
  PROVE  PagesFit(browser', typed)
<1>1. UNCHANGED browser \/ \E p \in Pages : \/ UNCHANGED browser
                                            \/ browser' = [browser EXCEPT ![p].ro = TRUE]
  BY DEF Answer
<1> QED BY <1>1, ReadOnlyText DEF TextInv

\* freeze and unfreeze
LEMMA ThawedFits ==
  ASSUME TextInv, NEW f \in BOOLEAN
  PROVE  /\ RoomsFit(Thawed(f), typed)
         /\ managed # 0 => Keeps(Thawed(f)[managed], doc)
<1>1. CASE managed = 0 BY <1>1 DEF Thawed, TextInv
<1>2. CASE managed # 0
  <2> DEFINE ro == [room[managed] EXCEPT !.frozen = f]
  <2>1. managed \in Rooms /\ room[managed] \in RoomRecs BY <1>2, TextFacts
  <2>2. /\ ro \in RoomRecs /\ ro.y = room[managed].y /\ ro.known = room[managed].known
        /\ ro.live = room[managed].live /\ ro.saved = room[managed].saved
        /\ ro.dirty = room[managed].dirty
    BY <2>1 DEF RoomRecs
  <2>3. Thawed(f) = [room EXCEPT ![managed] = ro] BY <1>2 DEF Thawed
  <2> HIDE DEF ro
  <2>4. RoomsFit(Thawed(f), typed)
    <3>1. Within(ro.y, typed) /\ typed \in Texts BY <2>1, <2>2, TextFacts
    <3>2. RoomsFit(room, typed) BY DEF TextInv
    <3>3. RoomsFit([room EXCEPT ![managed] = ro], typed) BY <2>1, <2>2, <3>1, <3>2, OneRoom
    <3> QED BY <2>3, <3>3
  <2>5. Thawed(f)[managed] = ro BY <2>1, <2>3 DEF TextInv, RoomsFit
  <2>6. Keeps(ro, doc) BY <1>2, <2>2 DEF TextInv, Keeps
  <2> QED BY <2>4, <2>5, <2>6
<1> QED BY <1>1, <1>2

LEMMA FreezeText ==
  ASSUME TextInv, NEW h, Freeze(h) \/ Thaw(h) PROVE TextInv'
<1>1. UNCHANGED <<doc, typed, faults, managed, path>> BY DEF Freeze, Thaw, KeepRooms
<1>2. room' = room \/ \E f \in BOOLEAN : room' = Thawed(f)
  BY DEF Freeze, Thaw
<1>3. RoomsFit(room', typed) /\ (managed # 0 => Keeps(room'[managed], doc))
  BY <1>2, ThawedFits DEF TextInv
<1>4. PagesFit(browser', typed)
  <2>1. UNCHANGED browser \/ \E ok, conflict, fid, st : Answer(h, ok, conflict, fid, st)
    BY DEF Freeze, Thaw, Refuse, KeepPages
  <2> QED BY <2>1, AnswerText DEF TextInv
<1> QED BY <1>1, <1>3, <1>4, TextFrame DEF TextInv

LEMMA FlushText ==
  ASSUME TextInv, NEW h, Flush(h)
  PROVE  TextInv' /\ Within(doc.y, doc'.y) /\ doc'.status = doc.status /\ typed' = typed
<1>1. UNCHANGED <<typed, faults, managed, path, browser>> BY DEF Flush, KeepRooms, KeepPages
<1>2. \/ UNCHANGED <<doc, room>>
      \/ \E ok \in BOOLEAN : managed # 0 /\ doc' = SavedRow(managed, ok) /\ room' = SavedRooms(managed, ok)
  BY OutcomeFacts DEF Flush
<1>3. CASE UNCHANGED <<doc, room>>
  BY <1>1, <1>3, TextFrame, TextFacts, WithinRefl DEF TextInv
<1>4. ASSUME NEW ok \in BOOLEAN, managed # 0, doc' = SavedRow(managed, ok),
             room' = SavedRooms(managed, ok)
      PROVE  TextInv' /\ Within(doc.y, doc'.y) /\ doc'.status = doc.status
  <2>1. /\ RowFits(doc', typed) /\ RoomsFit(room', typed) /\ Keeps(room'[managed], doc')
        /\ Within(doc.y, doc'.y) /\ doc'.status = doc.status
    BY <1>4, SaveKeeps
  <2> QED BY <1>1, <2>1, TextFrame DEF TextInv
<1> QED BY <1>1, <1>2, <1>3, <1>4

\* close: the stopped room stays with its clients and is managed no more.
LEMMA CloseText == ASSUME TextInv, NEW h, Close(h) PROVE TextInv'
<1>1. UNCHANGED <<doc, typed, faults, path>> BY DEF Close
<1>2. PagesFit(browser', typed) BY AnswerText DEF Close
<1>3. \/ UNCHANGED <<room, managed>>
      \/ room' = Stopped /\ managed' = 0
  BY DEF Close, Unregistered
<1>4. CASE UNCHANGED <<room, managed>> BY <1>1, <1>2, <1>4, TextFrame DEF TextInv
<1>5. CASE room' = Stopped /\ managed' = 0
  <2>1. RoomsFit(Stopped, typed)
    <3>1. CASE managed = 0 BY <3>1 DEF Stopped, TextInv
    <3>2. CASE managed # 0
      <4> DEFINE ro == [room[managed] EXCEPT !.live = FALSE]
      <4>1. ro \in RoomRecs /\ ro.y = room[managed].y /\ managed \in Rooms
        BY <3>2, TextFacts DEF RoomRecs
      <4>2. [room EXCEPT ![managed].live = FALSE] = [room EXCEPT ![managed] = ro] OBVIOUS
      <4> HIDE DEF ro
      <4>3. RoomsFit([room EXCEPT ![managed].live = FALSE], typed)
        BY <3>2, <4>1, <4>2, TextFacts, OneRoom DEF TextInv
      <4> QED BY <3>2, <4>3, TextFacts, TidyFits DEF Stopped
    <3> QED BY <3>1, <3>2
  <2>2. 0 \in 0..MaxRooms BY RoomAssumption
  <2> QED BY <1>1, <1>2, <1>5, <2>1, <2>2, TextFrame DEF TextInv
<1> QED BY <1>3, <1>4, <1>5

\* A handler that leaves the rooms alone writes at most the status of the row.
LEMMA StatusText ==
  ASSUME TextInv, PagesFit(browser', typed), UNCHANGED <<typed, room, managed, path>>,
         faults' \in 0..MaxFaults,
         doc' = doc \/ \E s \in {"submitted", "returned"} : doc' = [doc EXCEPT !.status = s]
  PROVE  TextInv'
<1>1. doc' \in RowRecs /\ doc'.y = doc.y BY TextFacts DEF RowRecs
<1>2. RowFits(doc', typed) BY <1>1, TextFacts DEF RowFits
<1>3. managed # 0 => Keeps(room[managed], doc') BY <1>1 DEF TextInv, Keeps
<1> QED BY <1>2, <1>3, TextFrame DEF TextInv

\* The handlers that touch neither the rooms nor the row.
LEMMA QuietText ==
  ASSUME TextInv, NEW h, Check(h) \/ Clean(h) \/ Insert(h) \/ Respond(h)
  PROVE  TextInv' /\ UNCHANGED <<doc, typed>>
<1>1. UNCHANGED <<doc, room, typed, faults, managed, path>>
  BY DEF Check, Clean, Insert, Respond, KeepRooms
<1>2. UNCHANGED browser \/ \E ok, conflict, fid, st : Answer(h, ok, conflict, fid, st)
  BY DEF Check, Clean, Insert, Respond, Refuse, KeepPages
<1>3. PagesFit(browser', typed) BY <1>2, AnswerText DEF TextInv
<1> QED BY <1>1, <1>3, StatusText DEF TextInv

-----------------------------------------------------------------------------
(* The row of the document implements DocumentStore.                         *)

\* [StoreNext]_storeVars, as a step of this specification.
StoreStep == Store!StoreNext \/ UNCHANGED Store!storeVars

LEMMA StoreStill == ASSUME UNCHANGED <<doc, typed>> PROVE StoreStep
BY DEF StoreStep, Store!storeVars

LEMMA StoreWrites ==
  ASSUME TextInv, TextInv', typed' = typed, Within(doc.y, doc'.y), doc'.status = doc.status
  PROVE  StoreStep
<1>1. doc'.y \in Texts /\ Within(doc'.y, typed)
  BY DEF TextInv, RowFits, RowRecs
<1>2. doc'.y \in {t \in Texts : Within(doc.y, t) /\ Within(t, typed)} BY <1>1
<1> QED BY <1>2 DEF StoreStep, Store!StoreNext, Store!Write, Store!Texts, Store!Within, Texts, Within

LEMMA StoreEdits == ASSUME NEW u \in Pages, Type(u) PROVE StoreStep
BY DEF Type, StoreStep, Store!StoreNext, Store!Edit

LEMMA StoreSubmits ==
  ASSUME TextInv, typed' = typed, doc' = [doc EXCEPT !.status = "submitted"]
  PROVE  StoreStep
<1>1. doc \in RowRecs BY TextFacts
<1>2. CASE doc.status = "submitted"
  <2>1. doc' = doc BY <1>1, <1>2 DEF RowRecs
  <2> QED BY <2>1, StoreStill
<1>3. CASE doc.status # "submitted"
  <2>1. /\ doc.status \in {"editing", "returned"}
        /\ doc'.status = "submitted" /\ doc'.y = doc.y
    BY <1>1, <1>3 DEF RowRecs
  <2> QED BY <2>1 DEF StoreStep, Store!StoreNext, Store!Submit
<1> QED BY <1>2, <1>3

LEMMA StoreReturns ==
  ASSUME TextInv, typed' = typed, doc' = [doc EXCEPT !.status = "returned"]
  PROVE  StoreStep
<1>1. doc'.status = "returned" /\ doc'.y = doc.y BY TextFacts DEF RowRecs
<1> QED BY <1>1 DEF StoreStep, Store!StoreNext, Store!Return

LEMMA RoomStepStore == ASSUME TextInv, RoomStep PROVE TextInv' /\ StoreStep
<1>1. ASSUME NEW u \in Pages, Break(u) PROVE TextInv' /\ StoreStep
  BY <1>1, BreakText, StoreStill DEF Break
<1>2. ASSUME NEW u \in Pages, Type(u) PROVE TextInv' /\ StoreStep
  BY <1>2, TypeText, StoreEdits
<1>3. ASSUME NEW u \in Pages, Open(u) PROVE TextInv' /\ StoreStep
  BY <1>3, OpenText, StoreStill DEF Open
<1>4. ASSUME NEW u \in Pages, Serve(u) PROVE TextInv' /\ StoreStep
  BY <1>4, ServeText, StoreStill DEF Serve
<1>5. ASSUME NEW u \in Pages, Deliver(u) PROVE TextInv' /\ StoreStep
  BY <1>5, DeliverText, StoreStill DEF Deliver
<1>6. CASE PeriodicSave
  <2>1. typed' = typed BY <1>6 DEF PeriodicSave
  <2> QED BY <1>6, <2>1, PeriodicText, StoreWrites
<1>7. CASE Recycle
  <2>1. typed' = typed BY <1>7 DEF Recycle
  <2> QED BY <1>7, <2>1, RecycleText, StoreWrites
<1>8. CASE Restart
  <2>1. typed' = typed BY <1>8 DEF Restart
  <2> QED BY <1>8, <2>1, RestartText, StoreWrites
<1> QED BY <1>1, <1>2, <1>3, <1>4, <1>5, <1>6, <1>7, <1>8 DEF RoomStep

LEMMA HandleStore == ASSUME TextInv, NEW h, Handle(h) PROVE TextInv' /\ StoreStep
<1>1. CASE Check(h) \/ Clean(h) \/ Insert(h) \/ Respond(h)
  BY <1>1, QuietText, StoreStill
<1>2. CASE Freeze(h) \/ Thaw(h)
  <2>1. UNCHANGED <<doc, typed>> BY <1>2 DEF Freeze, Thaw, KeepRooms
  <2> QED BY <1>2, <2>1, FreezeText, StoreStill
<1>3. CASE Flush(h) BY <1>3, FlushText, StoreWrites
<1>4. CASE Close(h)
  <2>1. UNCHANGED <<doc, typed>> BY <1>4 DEF Close
  <2> QED BY <1>4, <2>1, CloseText, StoreStill
<1>5. CASE Update(h)
  <2>1. /\ UNCHANGED <<typed, room, managed, path, faults, browser>>
        /\ doc' = [doc EXCEPT !.status = "submitted"]
    BY <1>5 DEF Update, KeepRooms, KeepPages
  <2> QED BY <2>1, StatusText, StoreSubmits DEF TextInv
<1>6. CASE Record(h) \/ Mark(h)
  <2>1. UNCHANGED <<doc, typed, room, managed, path, browser>> BY <1>6 DEF Record, Mark, KeepPages
  <2>2. faults' \in 0..MaxFaults BY <1>6, OneFaultLess DEF Record, Mark, TextInv
  <2> QED BY <2>1, <2>2, StatusText, StoreStill DEF TextInv
<1>7. CASE ForceSubmit(h)
  <2>1. UNCHANGED <<typed, room, managed, path>> BY <1>7 DEF ForceSubmit
  <2>2. doc' = doc \/ doc' = [doc EXCEPT !.status = "submitted"] BY <1>7 DEF ForceSubmit
  <2>3. faults' \in 0..MaxFaults BY <1>7, OneFaultLess DEF ForceSubmit, TextInv
  <2>4. UNCHANGED browser \/ \E ok, conflict, fid, st : Answer(h, ok, conflict, fid, st)
    BY <1>7 DEF ForceSubmit, Refuse, KeepPages
  <2>5. PagesFit(browser', typed) BY <2>4, AnswerText DEF TextInv
  <2>6. TextInv' BY <2>1, <2>2, <2>3, <2>5, StatusText
  <2> QED BY <2>1, <2>2, <2>6, StoreSubmits, StoreStill
<1>8. CASE SetReturned(h)
  <2>1. /\ UNCHANGED <<typed, faults, room, managed, path>>
        /\ doc' = [doc EXCEPT !.status = "returned"]
    BY <1>8 DEF SetReturned, KeepRooms
  <2>2. PagesFit(browser', typed) BY <1>8, AnswerText DEF SetReturned
  <2> QED BY <2>1, <2>2, StatusText, StoreReturns DEF TextInv
<1> QED BY <1>1, <1>2, <1>3, <1>4, <1>5, <1>6, <1>7, <1>8 DEF Handle

LEMMA UnchangedText ==
  ASSUME TextInv, UNCHANGED <<doc, typed, room, managed, path, browser>>,
         faults' \in 0..MaxFaults
  PROVE  TextInv' /\ StoreStep
BY StatusText, StoreStill DEF TextInv

LEMMA PagesStore ==
  ASSUME TextInv, NEW p \in Pages,
         Enter(p) \/ Restore(p) \/ SubmitForm(p) \/ GiveUpWaiting(p) \/ LeaveForm(p)
  PROVE  TextInv' /\ StoreStep
<1>1. CASE Enter(p)
  <2>1. Visit(p) /\ UNCHANGED <<doc, typed>> BY <1>1 DEF Enter, Visit
  <2> QED BY <2>1, VisitText, StoreStill
<1>2. CASE LeaveForm(p)
  <2>1. Leave(p) /\ UNCHANGED <<doc, typed>> BY <1>2 DEF LeaveForm, Leave
  <2> QED BY <2>1, LeaveText, StoreStill
<1>3. CASE Restore(p) \/ GiveUpWaiting(p)
  <2>1. /\ UNCHANGED <<doc, typed, faults, room, managed, path>>
        /\ UNCHANGED browser \/ browser' = [browser EXCEPT ![p].ro = TRUE]
    BY <1>3 DEF Restore, GiveUpWaiting, ReadOnly
  <2>2. PagesFit(browser', typed) BY <2>1, ReadOnlyText
  <2> QED BY <2>1, <2>2, StatusText, StoreStill DEF TextInv
<1>4. CASE SubmitForm(p)
  BY <1>4, UnchangedText DEF SubmitForm, roomVars, TextInv
<1> QED BY <1>1, <1>2, <1>3, <1>4

LEMMA SubNextStore == ASSUME TextInv, [SubNext]_vars PROVE TextInv' /\ StoreStep
<1>1. CASE RoomActs BY <1>1, RoomStepStore DEF RoomActs
<1>2. ASSUME NEW p \in Pages,
             Enter(p) \/ Restore(p) \/ SubmitForm(p) \/ GiveUpWaiting(p) \/ LeaveForm(p)
      PROVE  TextInv' /\ StoreStep
  BY <1>2, PagesStore
<1>3. ASSUME NEW h, Handle(h) PROVE TextInv' /\ StoreStep BY <1>3, HandleStore
<1>4. ASSUME NEW h, Die(h) PROVE TextInv' /\ StoreStep
  <2>1. faults' \in 0..MaxFaults BY <1>4, OneFaultLess DEF Die
  <2> QED BY <1>4, <2>1, UnchangedText DEF Die
<1>5. ASSUME \/ \E p, h : PageTimeout(p, h)
             \/ \E h : TeacherEnds(h) \/ TeacherReturns(h)
             \/ Deadline \/ Scan \/ UNCHANGED vars
      PROVE  TextInv' /\ StoreStep
  <2>1. UNCHANGED roomVars
    BY <1>5 DEF PageTimeout, TeacherEnds, TeacherReturns, Deadline, Scan, vars
  <2> QED BY <2>1, UnchangedText DEF roomVars, TextInv
<1> QED BY <1>1, <1>2, <1>3, <1>4, <1>5 DEF SubNext

LEMMA TextStart == ASSUME SubInit PROVE TextInv /\ Store!StoreInit
<1>1. typed = Empty /\ doc = [status |-> "editing", y |-> Empty] /\ managed = 0 /\ path = 0
  BY DEF SubInit, RoomInit
<1>2. Empty \in Texts /\ Within(Empty, Empty)
  <2>1. Empty \in Texts BY RoomAssumption DEF Empty, Texts
  <2> QED BY <2>1, WithinRefl
<1>3. RowFits(doc, typed) BY <1>1, <1>2 DEF RowFits, RowRecs
<1>4. 0 \in 0..MaxRooms /\ faults \in 0..MaxFaults
  BY RoomAssumption, SubmissionAssumption DEF SubInit, RoomInit
<1>5. RoomsFit(room, typed)
  <2>1. room = [r \in Rooms |-> Blank] BY DEF SubInit, RoomInit
  <2> QED BY <1>1, <1>2, <2>1, BlankRoom DEF RoomsFit
<1>6. PagesFit(browser, typed)
  <2>1. browser \in [Pages -> {Fresh, Gone}] BY DEF SubInit, RoomInit
  <2> QED BY <1>1, <1>2, <2>1, FreshPage DEF PagesFit
<1>7. Store!StoreInit BY <1>1 DEF Store!StoreInit, Empty
<1> QED BY <1>1, <1>2, <1>3, <1>4, <1>5, <1>6, <1>7 DEF TextInv

\* No room, page or request ever takes text from the row: what a stale room, a
\* failed save, a crash or two racing submissions write is at least what was
\* there, and is what was typed; the status moves as documents move.
THEOREM TextIsKept == SubSpec => StoreKept
<1>1. SubInit => TextInv /\ Store!StoreInit BY TextStart
<1>2. TextInv /\ [SubNext]_vars => TextInv' BY SubNextStore
<1>3. TextInv /\ [SubNext]_vars => [Store!StoreNext]_(Store!storeVars)
  BY SubNextStore DEF StoreStep
<1> QED BY <1>1, <1>2, <1>3, PTL DEF SubSpec, StoreKept, Store!StoreSpec

\* However loads, failed saves, closes and restarts follow each other, a managed
\* room without unsaved changes holds exactly the text of the row.
THEOREM CleanRoomIsSaved == SubSpec => []CleanMeansSaved
<1>1. SubInit => TextInv BY TextStart
<1>2. TextInv /\ [SubNext]_vars => TextInv' BY SubNextStore
<1>3. TextInv => CleanMeansSaved BY DEF TextInv, Keeps, CleanMeansSaved
<1> QED BY <1>1, <1>2, <1>3, PTL DEF SubSpec

-----------------------------------------------------------------------------
(* Requests and forms.                                                       *)

Kinds == {"none", "prepare", "commit", "unfreeze", "auto", "end", "return"}
Pcs == {"idle", "check", "freeze", "flush", "thaw", "clean", "insert", "respond", "update",
        "record", "mark", "txn", "close", "set"}
Requests == [kind : Kinds, pc : Pcs, fid : 0..MaxFreezes, froze : BOOLEAN]
Prepares == [fid : 0..MaxFreezes, committed : BOOLEAN]
Forms == [step : FormSteps, waits : Slots]

\* Only a commit writes a submission row in two transactions.
RequestFits(q) == q \in Requests /\ (q.pc \in {"update", "record"} => q.kind = "commit")
RequestsFit(rq) == rq \in [Slots -> Requests] /\ \A h \in Slots : RequestFits(rq[h])

\* A page waits for an answer only where it knows what to do with one, and not
\* before it has loaded.
Awaiting == {"preparing", "committing", "undoing", "recovering"}
FormFits(f) == f \in Forms /\ (f.waits # 0 => f.step \in Awaiting)
FormsFit(fs, b) ==
  /\ fs \in [Pages -> Forms]
  /\ \A p \in Pages : FormFits(fs[p]) /\ (b[p].page = "new" => fs[p] = NewForm)

CountsFit ==
  /\ prepares \in Seq(Prepares)
  /\ freezes \in 0..MaxFreezes /\ returns \in 0..MaxReturns
  /\ filed \in Nat /\ torn \in BOOLEAN /\ due \in BOOLEAN

FormInv == CountsFit /\ RequestsFit(request) /\ FormsFit(form, browser)

SubInv == TextInv /\ FormInv /\ SubmittedHasRecord

\* A request at its submission row.
Recording(q) == q.kind = "commit" /\ q.pc = "record"

LEMMA SlotZero == 0 \in Slots /\ NewForm \in Forms /\ FormFits(NewForm)
BY SubmissionAssumption DEF Slots, NewForm, Forms, FormFits, FormSteps

LEMMA IdleFits == RequestFits(Idle) /\ ~Recording(Idle)
BY SubmissionAssumption DEF Idle, RequestFits, Requests, Recording, Kinds, Pcs

LEMMA StartedFits ==
  ASSUME NEW kind \in Kinds, NEW fid \in 0..MaxFreezes
  PROVE  RequestFits(Started(kind, fid))
BY DEF Started, RequestFits, Requests, Pcs

LEMMA OneRequest ==
  ASSUME NEW rq, RequestsFit(rq), NEW h \in Slots, NEW q, RequestFits(q)
  PROVE  RequestsFit([rq EXCEPT ![h] = q])
BY DEF RequestsFit, RequestFits

\* A handler goes on to its next transaction or call.
LEMMA GotoFits ==
  ASSUME RequestsFit(request), NEW h \in Slots, NEW pc \in Pcs, Goto(h, pc),
         pc \in {"update", "record"} => request[h].kind = "commit"
  PROVE  /\ RequestsFit(request')
         /\ \A k \in Slots \ {h} : request'[k] = request[k]
<1> DEFINE q == [request[h] EXCEPT !.pc = pc]
<1>1. request[h] \in Requests BY DEF RequestsFit
<1>2. RequestFits(q) BY <1>1 DEF RequestFits, Requests
<1>3. request' = [request EXCEPT ![h] = q] BY DEF Goto
<1> HIDE DEF q
<1> QED BY <1>2, <1>3, OneRequest DEF RequestsFit

LEMMA OneForm ==
  ASSUME FormsFit(form, browser), NEW p \in Pages, browser[p].page # "new",
         NEW f, FormFits(f)
  PROVE  FormsFit([form EXCEPT ![p] = f], browser)
BY DEF FormsFit, FormFits

\* Other browsers, no page of which is newer.
LEMMA FormsStay ==
  ASSUME FormsFit(form, browser), UNCHANGED form,
         \A u \in Pages : browser'[u].page = "new" => browser[u].page = "new"
  PROVE  FormsFit(form', browser')
BY DEF FormsFit

LEMMA ReadOnlyPage ==
  ASSUME TextInv, NEW p \in Pages,
         UNCHANGED browser \/ browser' = [browser EXCEPT ![p].ro = TRUE]
  PROVE  \A u \in Pages : browser'[u].page = browser[u].page
BY TextFacts DEF PageRecs, TextInv, PagesFit

\* What an answer makes of the page that waits for it.
LEMMA NextStepFits ==
  ASSUME NEW step \in Awaiting, NEW ok \in BOOLEAN, NEW conflict \in BOOLEAN
  PROVE  NextStep(step, ok, conflict) \in {"committing", "undoing", "told", "recovering", "error", "idle"}
BY DEF NextStep, Awaiting

LEMMA FollowFits ==
  ASSUME NEW step, NEW fid \in 0..MaxFreezes
  PROVE  /\ RequestFits(Follow(step, fid)) /\ ~Recording(Follow(step, fid))
         /\ Follow(step, fid) # Idle => step \in Awaiting
<1>1. 0 \in 0..MaxFreezes BY SubmissionAssumption
<1>2. Follow(step, fid) \in {Started("commit", fid), Started("unfreeze", 0), Idle}
  BY DEF Follow
<1>3. RequestFits(Follow(step, fid)) BY <1>1, <1>2, StartedFits, IdleFits DEF Kinds
<1>4. ~Recording(Follow(step, fid)) BY <1>2, IdleFits DEF Started, Recording
<1>5. Follow(step, fid) # Idle => step \in Awaiting BY DEF Follow, Awaiting
<1> QED BY <1>3, <1>4, <1>5

\* An answer frees the slot or starts the next request in it, and moves at most
\* the page that waited.
LEMMA AnswerForms ==
  ASSUME TextInv, FormInv, NEW h \in Slots, NEW ok \in BOOLEAN, NEW conflict \in BOOLEAN,
         NEW fid \in 0..MaxFreezes, NEW st, Answer(h, ok, conflict, fid, st)
  PROVE  /\ RequestsFit(request') /\ FormsFit(form', browser')
         /\ \A k \in Slots \ {h} : request'[k] = request[k]
<1> DEFINE step(p) == LET s == NextStep(form[p].step, ok, conflict)
                      IN  IF s = "recovering" /\ st = "submitted" THEN "submitted" ELSE s
           next(p) == Follow(step(p), fid)
<1>1. CASE UNCHANGED <<form, browser>> /\ request' = [request EXCEPT ![h] = Idle]
  BY <1>1, IdleFits, OneRequest DEF FormInv, RequestsFit
<1>2. ASSUME NEW p \in Pages, h # 0, form[p].waits = h,
             request' = [request EXCEPT ![h] = next(p)],
             form' = [form EXCEPT ![p] =
                        [step |-> step(p), waits |-> IF next(p) = Idle THEN 0 ELSE h]],
             UNCHANGED browser \/ browser' = [browser EXCEPT ![p].ro = TRUE]
      PROVE  /\ RequestsFit(request') /\ FormsFit(form', browser')
             /\ \A k \in Slots \ {h} : request'[k] = request[k]
  <2> DEFINE f == [step |-> step(p), waits |-> IF next(p) = Idle THEN 0 ELSE h]
  <2>1. form[p].step \in Awaiting BY <1>2 DEF FormInv, FormsFit, FormFits
  <2>2. step(p) \in {"committing", "undoing", "told", "recovering", "error", "idle", "submitted"}
    BY <2>1, NextStepFits
  <2>3. step(p) \in FormSteps BY <2>2 DEF FormSteps
  <2>4. RequestFits(next(p)) /\ (next(p) # Idle => step(p) \in Awaiting) BY <2>3, FollowFits
  <2> HIDE DEF step, next
  <2>5. FormFits(f) BY <2>3, <2>4, SlotZero DEF FormFits, Forms
  <2>6. form' = [form EXCEPT ![p] = f] BY <1>2
  <2> HIDE DEF f
  <2>7. browser[p].page # "new" BY <1>2 DEF FormInv, FormsFit, NewForm
  <2>8. FormsFit(form', browser) BY <2>5, <2>6, <2>7, OneForm DEF FormInv
  <2>9. FormsFit(form', browser') BY <1>2, <2>8, ReadOnlyPage DEF FormsFit
  <2>10. RequestsFit(request') BY <1>2, <2>4, OneRequest DEF FormInv
  <2> QED BY <1>2, <2>9, <2>10 DEF FormInv, RequestsFit
<1> HIDE DEF step, next
<1>3. \/ UNCHANGED <<form, browser>> /\ request' = [request EXCEPT ![h] = Idle]
      \/ \E p \in Pages :
           /\ h # 0 /\ form[p].waits = h
           /\ request' = [request EXCEPT ![h] = next(p)]
           /\ form' = [form EXCEPT ![p] =
                        [step |-> step(p), waits |-> IF next(p) = Idle THEN 0 ELSE h]]
           /\ UNCHANGED browser \/ browser' = [browser EXCEPT ![p].ro = TRUE]
  BY DEF Answer, step, next
<1> QED BY <1>1, <1>2, <1>3

-----------------------------------------------------------------------------
(* The handlers keep the forms and the submission rows.                      *)

LEMMA RecordStays ==
  ASSUME SubmittedHasRecord, doc'.status = doc.status, UNCHANGED <<filed, torn>>,
         \A k \in Slots : Recording(request[k]) => request'[k] = request[k]
  PROVE  SubmittedHasRecord'
BY DEF SubmittedHasRecord, Recording

\* A handler that is not at its submission row, and leaves the counters alone.
LEMMA HandlerStays ==
  ASSUME SubInv, NEW h \in Slots, ~Recording(request[h]), doc'.status = doc.status,
         UNCHANGED <<filed, torn>>, CountsFit', RequestsFit(request'), FormsFit(form', browser'),
         \A k \in Slots \ {h} : request'[k] = request[k]
  PROVE  FormInv' /\ SubmittedHasRecord'
<1>1. \A k \in Slots : Recording(request[k]) => request'[k] = request[k] OBVIOUS
<1>2. SubmittedHasRecord' BY <1>1, RecordStays DEF SubInv
<1> QED BY <1>2 DEF FormInv

LEMMA GotoStays ==
  ASSUME SubInv, NEW h \in Slots, ~Recording(request[h]), doc'.status = doc.status,
         UNCHANGED <<filed, torn>>, CountsFit', KeepPages, NEW pc \in Pcs, Goto(h, pc),
         pc \in {"update", "record"} => request[h].kind = "commit"
  PROVE  FormInv' /\ SubmittedHasRecord'
<1>1. RequestsFit(request') /\ \A k \in Slots \ {h} : request'[k] = request[k]
  BY GotoFits DEF SubInv, FormInv
<1>2. FormsFit(form', browser') BY DEF SubInv, FormInv, KeepPages
<1> QED BY <1>1, <1>2, HandlerStays

LEMMA AnswerStays ==
  ASSUME SubInv, NEW h \in Slots, ~Recording(request[h]), doc'.status = doc.status,
         UNCHANGED <<filed, torn>>, CountsFit', NEW ok \in BOOLEAN, NEW conflict \in BOOLEAN,
         NEW fid \in 0..MaxFreezes, NEW st, Answer(h, ok, conflict, fid, st)
  PROVE  FormInv' /\ SubmittedHasRecord'
BY AnswerForms, HandlerStays DEF SubInv

LEMMA RefuseStays ==
  ASSUME SubInv, NEW h \in Slots, ~Recording(request[h]), doc'.status = doc.status,
         UNCHANGED <<filed, torn>>, CountsFit', NEW conflict \in BOOLEAN, Refuse(h, conflict)
  PROVE  FormInv' /\ SubmittedHasRecord'
<1>1. 0 \in 0..MaxFreezes BY SubmissionAssumption
<1> QED BY <1>1, AnswerStays DEF Refuse

LEMMA KeepCounts == ASSUME CountsFit, Keep PROVE CountsFit' /\ UNCHANGED <<filed, torn>>
BY DEF CountsFit, Keep

LEMMA SubFacts ==
  ASSUME SubInv, NEW h \in Slots
  PROVE  /\ CountsFit /\ request[h] \in Requests /\ request \in [Slots -> Requests]
         /\ request[h].pc \in {"update", "record"} => request[h].kind = "commit"
         /\ request[h].fid \in 0..MaxFreezes /\ 0 \in 0..MaxFreezes
BY SubmissionAssumption DEF SubInv, FormInv, RequestsFit, RequestFits, Requests

LEMMA CheckForms == ASSUME SubInv, NEW h \in Slots, Check(h) PROVE FormInv' /\ SubmittedHasRecord'
<1>1. /\ CountsFit' /\ UNCHANGED <<filed, torn>> /\ doc'.status = doc.status
      /\ ~Recording(request[h])
  BY KeepCounts, SubFacts DEF Check, Recording
<1>2. \/ \E conflict \in BOOLEAN : Refuse(h, conflict)
      \/ Goto(h, Entry(request[h].kind)) /\ KeepPages
  BY DEF Check
<1>3. /\ Entry(request[h].kind) \in Pcs
      /\ Entry(request[h].kind) \in {"update", "record"} => request[h].kind = "commit"
  BY DEF Entry, Pcs
<1> QED BY <1>1, <1>2, <1>3, RefuseStays, GotoStays

LEMMA FreezeForms == ASSUME SubInv, NEW h \in Slots, Freeze(h) PROVE FormInv' /\ SubmittedHasRecord'
<1>1. /\ CountsFit' /\ UNCHANGED <<filed, torn>> /\ doc'.status = doc.status
      /\ ~Recording(request[h])
  BY KeepCounts, SubFacts DEF Freeze, Recording
<1>2. \/ Refuse(h, FALSE)
      \/ \E froze \in BOOLEAN :
           /\ request' = [request EXCEPT ![h].pc = "flush", ![h].froze = froze]
           /\ KeepPages
  BY DEF Freeze, Calls
<1>3. ASSUME NEW froze \in BOOLEAN, KeepPages,
             request' = [request EXCEPT ![h].pc = "flush", ![h].froze = froze]
      PROVE  FormInv' /\ SubmittedHasRecord'
  <2> DEFINE q == [request[h] EXCEPT !.pc = "flush", !.froze = froze]
  <2>1. RequestFits(q) BY SubFacts DEF RequestFits, Requests, Pcs
  <2>2. request' = [request EXCEPT ![h] = q] BY <1>3, SubFacts
  <2> HIDE DEF q
  <2>3. RequestsFit(request') BY <2>1, <2>2, OneRequest DEF SubInv, FormInv
  <2>4. \A k \in Slots \ {h} : request'[k] = request[k] BY <2>2, SubFacts
  <2>5. FormsFit(form', browser') BY <1>3 DEF SubInv, FormInv, KeepPages
  <2> QED BY <1>1, <2>3, <2>4, <2>5, HandlerStays
<1> QED BY <1>1, <1>2, <1>3, RefuseStays

LEMMA FlushForms == ASSUME SubInv, NEW h \in Slots, Flush(h) PROVE FormInv' /\ SubmittedHasRecord'
<1>1. /\ CountsFit' /\ UNCHANGED <<filed, torn>> /\ doc'.status = doc.status /\ KeepPages
      /\ ~Recording(request[h])
  BY KeepCounts, SubFacts, FlushText DEF Flush, Recording, SubInv
<1>2. \E pc \in {"txn", "clean", "thaw"} : Goto(h, pc) BY DEF Flush
<1> QED BY <1>1, <1>2, GotoStays DEF Pcs

LEMMA ThawForms == ASSUME SubInv, NEW h \in Slots, Thaw(h) PROVE FormInv' /\ SubmittedHasRecord'
<1>1. /\ CountsFit' /\ UNCHANGED <<filed, torn>> /\ doc'.status = doc.status
      /\ ~Recording(request[h])
  BY KeepCounts, SubFacts DEF Thaw, Recording
<1>2. \/ Goto(h, "set") /\ KeepPages
      \/ \E ok \in BOOLEAN : Answer(h, ok, FALSE, 0, doc.status)
  BY DEF Thaw
<1> QED BY <1>1, <1>2, SubFacts, GotoStays, AnswerStays DEF Pcs

LEMMA CleanForms == ASSUME SubInv, NEW h \in Slots, Clean(h) PROVE FormInv' /\ SubmittedHasRecord'
<1>1. /\ UNCHANGED <<filed, torn>> /\ doc'.status = doc.status /\ KeepPages
      /\ ~Recording(request[h])
  BY DEF Clean, Recording
<1>2. CountsFit' BY SubFacts DEF Clean, CountsFit
<1>3. \E pc \in {"insert", "thaw"} : Goto(h, pc) BY DEF Clean
<1> QED BY <1>1, <1>2, <1>3, GotoStays DEF Pcs

LEMMA InsertForms == ASSUME SubInv, NEW h \in Slots, Insert(h) PROVE FormInv' /\ SubmittedHasRecord'
<1>1. /\ UNCHANGED <<filed, torn>> /\ doc'.status = doc.status /\ KeepPages
      /\ ~Recording(request[h])
  BY DEF Insert, Recording
<1>2. freezes' \in 0..MaxFreezes BY SubFacts, SubmissionAssumption DEF Insert, CountsFit
<1>3. CountsFit'
  <2>1. [fid |-> freezes', committed |-> FALSE] \in Prepares BY <1>2 DEF Prepares
  <2>2. prepares' \in Seq(Prepares) BY <2>1, SubFacts DEF Insert, CountsFit
  <2> QED BY <1>2, <2>2, SubFacts DEF Insert, CountsFit
<1> DEFINE q == [request[h] EXCEPT !.pc = "respond", !.fid = freezes']
<1>4. RequestFits(q) BY <1>2, SubFacts DEF RequestFits, Requests, Pcs
<1>5. request' = [request EXCEPT ![h] = q] BY SubFacts DEF Insert
<1> HIDE DEF q
<1>6. RequestsFit(request') BY <1>4, <1>5, OneRequest DEF SubInv, FormInv
<1>7. \A k \in Slots \ {h} : request'[k] = request[k] BY <1>5, SubFacts
<1>8. FormsFit(form', browser') BY <1>1 DEF SubInv, FormInv, KeepPages
<1> QED BY <1>1, <1>3, <1>6, <1>7, <1>8, HandlerStays

LEMMA RespondForms == ASSUME SubInv, NEW h \in Slots, Respond(h) PROVE FormInv' /\ SubmittedHasRecord'
<1>1. /\ CountsFit' /\ UNCHANGED <<filed, torn>> /\ doc'.status = doc.status
      /\ ~Recording(request[h])
  BY KeepCounts, SubFacts DEF Respond, Recording
<1> QED BY <1>1, SubFacts, AnswerStays DEF Respond

LEMMA CloseForms == ASSUME SubInv, NEW h \in Slots, Close(h) PROVE FormInv' /\ SubmittedHasRecord'
<1>1. /\ CountsFit' /\ UNCHANGED <<filed, torn>> /\ doc'.status = doc.status
      /\ ~Recording(request[h])
  BY KeepCounts, SubFacts DEF Close, Recording
<1> QED BY <1>1, SubFacts, AnswerStays DEF Close

\* The commit has set the status and is about to write its row.
LEMMA UpdateForms == ASSUME SubInv, NEW h \in Slots, Update(h) PROVE FormInv' /\ SubmittedHasRecord'
<1>1. CountsFit' /\ KeepPages /\ Goto(h, "record") /\ request[h].kind = "commit"
  BY KeepCounts, SubFacts DEF Update
<1>2. RequestsFit(request') BY <1>1, GotoFits DEF SubInv, FormInv, Pcs
<1>3. FormsFit(form', browser') BY <1>1 DEF SubInv, FormInv, KeepPages
<1>4. request'[h].kind = "commit" /\ request'[h].pc = "record"
  BY <1>1, SubFacts DEF Goto, Requests
<1> QED BY <1>1, <1>2, <1>3, <1>4 DEF FormInv, SubmittedHasRecord

LEMMA RecordForms == ASSUME SubInv, NEW h \in Slots, Record(h) PROVE FormInv' /\ SubmittedHasRecord'
<1>1. KeepPages /\ doc' = doc BY DEF Record
<1>2. FormsFit(form', browser') BY <1>1 DEF SubInv, FormInv, KeepPages
<1>3. CASE filed' = filed + 1 /\ Goto(h, "mark")
  <2>1. RequestsFit(request') BY <1>3, GotoFits DEF SubInv, FormInv, Pcs
  <2>2. CountsFit' /\ filed' # 0 BY <1>3, SubFacts DEF Record, CountsFit
  <2> QED BY <1>2, <2>1, <2>2 DEF FormInv, SubmittedHasRecord
<1>4. CASE torn' = TRUE /\ Goto(h, "thaw") /\ UNCHANGED filed
  <2>1. RequestsFit(request') BY <1>4, GotoFits DEF SubInv, FormInv, Pcs
  <2>2. CountsFit' BY <1>4, SubFacts DEF Record, CountsFit
  <2> QED BY <1>2, <1>4, <2>1, <2>2 DEF FormInv, SubmittedHasRecord
<1> QED BY <1>3, <1>4 DEF Record

LEMMA MarkForms == ASSUME SubInv, NEW h \in Slots, Mark(h) PROVE FormInv' /\ SubmittedHasRecord'
<1>1. /\ KeepPages /\ UNCHANGED <<doc, freezes, returns, filed, torn, due>>
      /\ request[h].pc = "mark"
  BY DEF Mark
<1>2. FormsFit(form', browser') BY <1>1 DEF SubInv, FormInv, KeepPages
<1>3. PICK pc \in {"close", "thaw"} : Goto(h, pc) BY DEF Mark
<1>4. RequestsFit(request') /\ \A k \in Slots \ {h} : request'[k] = request[k]
  BY <1>3, GotoFits DEF SubInv, FormInv, Pcs
<1>5. prepares' \in Seq(Prepares)
  <2> DEFINE e(i) == IF prepares[i].fid = request[h].fid
                     THEN [prepares[i] EXCEPT !.committed = TRUE] ELSE prepares[i]
  <2>1. prepares \in Seq(Prepares) BY SubFacts DEF CountsFit
  <2>2. \/ prepares' = prepares
        \/ prepares' = [i \in 1..Len(prepares) |-> e(i)]
    BY DEF Mark, Committed
  <2>3. \A i \in 1..Len(prepares) : prepares[i] \in Prepares BY <2>1
  <2>4. \A i \in 1..Len(prepares) : e(i) \in Prepares BY <2>3 DEF Prepares
  <2> HIDE DEF e
  <2>5. Len(prepares) \in Nat BY <2>1
  <2> QED BY <2>1, <2>2, <2>4, <2>5
<1>6. CountsFit' BY <1>1, <1>5, SubFacts DEF CountsFit
<1>7. ~Recording(request[h]) BY <1>1 DEF Recording
<1> QED BY <1>1, <1>2, <1>4, <1>6, <1>7, HandlerStays

LEMMA ForceForms == ASSUME SubInv, NEW h \in Slots, ForceSubmit(h) PROVE FormInv' /\ SubmittedHasRecord'
<1>0. ~Recording(request[h]) BY DEF ForceSubmit, Recording
<1>1. CASE /\ filed' = filed + 1 /\ prepares' = Append(prepares, [fid |-> 0, committed |-> TRUE])
           /\ Goto(h, "close") /\ KeepPages
  <2>1. RequestsFit(request') BY <1>1, GotoFits DEF SubInv, FormInv, Pcs
  <2>2. FormsFit(form', browser') BY <1>1 DEF SubInv, FormInv, KeepPages
  <2>3. [fid |-> 0, committed |-> TRUE] \in Prepares BY SubFacts DEF Prepares
  <2>4. prepares' \in Seq(Prepares) BY <1>1, <2>3, SubFacts DEF CountsFit
  <2>5. CountsFit' /\ filed' # 0 BY <1>1, <2>4, SubFacts DEF ForceSubmit, CountsFit
  <2> QED BY <2>1, <2>2, <2>5 DEF FormInv, SubmittedHasRecord
<1>2. CASE /\ UNCHANGED <<doc, prepares, filed>>
           /\ \/ KeepPages /\ \E pc \in {"thaw", "close"} : Goto(h, pc)
              \/ Refuse(h, TRUE)
  <2>1. CountsFit' /\ UNCHANGED <<filed, torn>> /\ doc'.status = doc.status
    BY <1>2, SubFacts DEF ForceSubmit, CountsFit
  <2> QED BY <1>0, <1>2, <2>1, GotoStays, RefuseStays DEF Pcs
<1> QED BY <1>1, <1>2 DEF ForceSubmit

LEMMA ReturnForms == ASSUME SubInv, NEW h \in Slots, SetReturned(h) PROVE FormInv' /\ SubmittedHasRecord'
<1>1. CountsFit' BY SubFacts DEF SetReturned, CountsFit
<1>2. doc'.status = "returned" BY TextFacts DEF SetReturned, RowRecs, SubInv
<1>3. RequestsFit(request') /\ FormsFit(form', browser')
  BY SubFacts, AnswerForms DEF SetReturned, SubInv
<1> QED BY <1>1, <1>2, <1>3 DEF FormInv, SubmittedHasRecord

LEMMA HandleForms == ASSUME SubInv, NEW h \in Slots, Handle(h) PROVE FormInv' /\ SubmittedHasRecord'
BY CheckForms, FreezeForms, FlushForms, ThawForms, CleanForms, InsertForms, RespondForms,
   UpdateForms, RecordForms, MarkForms, ForceForms, CloseForms, ReturnForms DEF Handle

-----------------------------------------------------------------------------
(* The other steps.                                                          *)

\* A step that starts requests in free slots at most.
LEMMA BeginStays ==
  ASSUME SubInv, CountsFit', UNCHANGED <<filed, torn>>, doc'.status = doc.status,
         FormsFit(form', browser'),
         \/ UNCHANGED request
         \/ \E h \in Slots, kind \in Kinds :
              request[h].kind = "none" /\ request' = [request EXCEPT ![h] = Started(kind, 0)]
  PROVE  FormInv' /\ SubmittedHasRecord'
<1>1. CASE UNCHANGED request
  <2>1. SubmittedHasRecord' BY <1>1, RecordStays DEF SubInv
  <2> QED BY <1>1, <2>1 DEF SubInv, FormInv
<1>2. ASSUME NEW h \in Slots, NEW kind \in Kinds, request[h].kind = "none",
             request' = [request EXCEPT ![h] = Started(kind, 0)]
      PROVE  FormInv' /\ SubmittedHasRecord'
  <2>1. RequestFits(Started(kind, 0)) BY SubFacts, StartedFits
  <2>2. RequestsFit(request') BY <1>2, <2>1, OneRequest DEF SubInv, FormInv
  <2>3. \A k \in Slots \ {h} : request'[k] = request[k] BY <1>2, SubFacts
  <2>4. ~Recording(request[h]) BY <1>2 DEF Recording
  <2> QED BY <2>2, <2>3, <2>4, HandlerStays
<1> QED BY <1>1, <1>2

\* No step of the rooms and connections makes a page new again.
LEMMA RoomStepPages ==
  ASSUME TextInv, RoomStep PROVE \A u \in Pages : browser'[u].page = browser[u].page
<1>0. browser \in [Pages -> PageRecs] /\ \A u \in Pages : browser[u] \in PageRecs
  BY DEF TextInv, PagesFit
<1>1. ASSUME NEW b, b \in [Pages -> PageRecs], NEW r, NEW y, NEW u \in Pages
      PROVE  Shared(b, r, y)[u].page = b[u].page
  BY <1>1 DEF Shared, PageRecs
<1>2. ASSUME NEW u \in Pages, Break(u) PROVE \A v \in Pages : browser'[v].page = browser[v].page
  BY <1>0, <1>2 DEF Break, Disconnected, PageRecs
<1>3. ASSUME NEW u \in Pages, Type(u) PROVE \A v \in Pages : browser'[v].page = browser[v].page
  BY <1>0, <1>3 DEF Type, PageRecs
<1>4. ASSUME NEW u \in Pages, Open(u) PROVE \A v \in Pages : browser'[v].page = browser[v].page
  BY <1>0, <1>4 DEF Open, PageRecs
<1>5. ASSUME NEW u \in Pages, NEW r \in Rooms, NEW ro \in RoomRecs, Joined(u, r, ro)
      PROVE  \A v \in Pages : browser'[v].page = browser[v].page
  <2> DEFINE c == [browser[u] EXCEPT !.conn = "on", !.in = r, !.at = browser[u].y[u]]
             on == [browser EXCEPT ![u] = c]
             both == Merged(ro.y, browser[u].y)
             onboth == [on EXCEPT ![u].y = both]
  <2>1. r \in 0..MaxRooms /\ browser[u].y[u] \in 0..MaxEdits
    BY <1>0 DEF Rooms, PageRecs, Texts
  <2>2. c \in PageRecs /\ c.page = browser[u].page BY <1>0, <2>1 DEF PageRecs
  <2>3. on = [browser EXCEPT ![u].conn = "on", ![u].in = r, ![u].at = browser[u].y[u]]
    BY <1>0
  <2>4. onboth = [browser EXCEPT ![u] = [c EXCEPT !.y = both]] BY <1>0
  <2>5. \A v \in Pages : onboth[v].page = browser[v].page BY <1>0, <2>2, <2>4 DEF PageRecs
  <2>6. on \in [Pages -> PageRecs] /\ \A v \in Pages : on[v].page = browser[v].page
    BY <1>0, <2>2
  <2> HIDE DEF on, onboth, both, c
  <2>7. browser' \in {on, Shared(on, r, both), onboth}
    BY <1>5, <2>3 DEF Joined, onboth, both
  <2>8. \A v \in Pages : Shared(on, r, both)[v].page = on[v].page BY <1>1, <2>6
  <2> QED BY <2>5, <2>6, <2>7, <2>8
<1>6. ASSUME NEW u \in Pages, Serve(u) PROVE \A v \in Pages : browser'[v].page = browser[v].page
  <2>1. CASE path # 0 /\ Joined(u, path, room[path]) BY <1>5, <2>1, TextFacts
  <2>2. CASE browser' = [browser EXCEPT ![u] = Disconnected(@)]
    BY <1>0, <2>2 DEF Disconnected, PageRecs
  <2>3. ASSUME NEW r \in Unused, Joined(u, r, [Blank EXCEPT !.live = TRUE])
        PROVE  \A v \in Pages : browser'[v].page = browser[v].page
    <3>1. [Blank EXCEPT !.live = TRUE] \in RoomRecs BY BlankRoom DEF RoomRecs
    <3> QED BY <1>5, <2>3, <3>1 DEF Unused
  <2> QED BY <1>6, <2>1, <2>2, <2>3 DEF Serve
<1>7. ASSUME NEW u \in Pages, Deliver(u) PROVE \A v \in Pages : browser'[v].page = browser[v].page
  <2> DEFINE taken == [browser EXCEPT ![u].at = @ + 1]
             new == [room[browser[u].in].y EXCEPT ![u] = browser[u].at + 1]
  <2>1. \A v \in Pages : taken[v].page = browser[v].page BY <1>0 DEF PageRecs
  <2>2. taken \in [Pages -> PageRecs]
    <3>1. browser[u].at + 1 \in 0..MaxEdits
      BY <1>0, <1>7, RoomAssumption DEF Deliver, PageRecs, Texts
    <3> QED BY <1>0, <3>1 DEF PageRecs
  <2>3. browser' \in {taken, Shared(taken, browser[u].in, new)} BY <1>7 DEF Deliver
  <2> HIDE DEF taken, new
  <2> QED BY <1>1, <2>1, <2>2, <2>3
<1>8. ASSUME PeriodicSave \/ Recycle PROVE browser' = browser BY <1>8 DEF PeriodicSave, Recycle
<1>9. ASSUME Restart PROVE \A v \in Pages : browser'[v].page = browser[v].page
  BY <1>0, <1>9 DEF Restart, Disconnected, PageRecs
<1> QED BY <1>2, <1>3, <1>4, <1>6, <1>7, <1>8, <1>9 DEF RoomStep

LEMMA RoomForms == ASSUME SubInv, RoomActs PROVE FormInv' /\ SubmittedHasRecord'
<1>1. doc'.status = doc.status
  BY PeriodicText, RecycleText, RestartText
     DEF RoomActs, RoomStep, Break, Type, Open, Serve, Deliver, SubInv
<1>2. FormsFit(form', browser')
  BY RoomStepPages, FormsStay DEF RoomActs, SubInv, FormInv
<1>3. CountsFit' BY DEF RoomActs, SubInv, FormInv, CountsFit
<1> QED BY <1>1, <1>2, <1>3, BeginStays DEF RoomActs

\* A page that moves on by itself.
LEMMA PageForm ==
  ASSUME SubInv, NEW p \in Pages, browser[p].page # "new",
         NEW step \in FormSteps, NEW w \in Slots, w # 0 => step \in Awaiting,
         Waiting(p, step, w), UNCHANGED browser \/ ReadOnly(p)
  PROVE  FormsFit(form', browser')
<1> DEFINE f == [step |-> step, waits |-> w]
<1>1. FormFits(f) BY DEF FormFits, Forms
<1>2. form' = [form EXCEPT ![p] = f] BY DEF Waiting
<1> HIDE DEF f
<1>3. FormsFit(form', browser) BY <1>1, <1>2, OneForm DEF SubInv, FormInv
<1> QED BY <1>3, ReadOnlyPage DEF FormsFit, ReadOnly, SubInv

LEMMA PagesForms ==
  ASSUME SubInv, NEW p \in Pages,
         Enter(p) \/ Restore(p) \/ SubmitForm(p) \/ GiveUpWaiting(p) \/ LeaveForm(p)
  PROVE  FormInv' /\ SubmittedHasRecord'
<1>0. /\ CountsFit' /\ UNCHANGED <<filed, torn>> /\ doc'.status = doc.status
  BY DEF Enter, Visit, Restore, SubmitForm, GiveUpWaiting, LeaveForm, Leave, roomVars,
         SubInv, FormInv, CountsFit
<1>1. FormsFit(form, browser) /\ TextInv /\ 0 \in Slots BY SlotZero DEF SubInv, FormInv
<1>2. /\ browser \in [Pages -> PageRecs] /\ form \in [Pages -> Forms]
      /\ \A u \in Pages : browser[u] \in PageRecs /\ form[u] \in Forms /\ FormFits(form[u])
                          /\ (browser[u].page = "new" => form[u] = NewForm)
  BY <1>1 DEF TextInv, PagesFit, FormsFit
<1>3. CASE Enter(p)
  <2> DEFINE f == [form[p] EXCEPT !.step = "restoring"]
  <2>1. form[p] = NewForm BY <1>2, <1>3 DEF Enter, Visit
  <2>2. FormFits(f) BY <2>1, <1>1 DEF NewForm, FormFits, Forms, FormSteps
  <2>3. form' = [form EXCEPT ![p] = f] BY <1>3 DEF Enter
  <2>4. browser'[p].page = "open" BY <1>2, <1>3 DEF Enter, Visit, PageRecs
  <2>5. \A u \in Pages \ {p} : browser'[u] = browser[u] BY <1>2, <1>3 DEF Enter, Visit
  <2> HIDE DEF f
  <2>6. FormsFit(form', browser') BY <1>2, <2>2, <2>3, <2>4, <2>5 DEF FormsFit, FormFits
  <2> QED BY <1>0, <1>3, <2>6, BeginStays DEF Enter
<1>4. CASE LeaveForm(p)
  <2>1. form' = [form EXCEPT ![p] = NewForm] BY <1>4 DEF LeaveForm
  <2>2. \A u \in Pages \ {p} : browser'[u] = browser[u] BY <1>2, <1>4 DEF LeaveForm, Leave
  <2>3. FormsFit(form', browser') BY <1>2, <2>1, <2>2, SlotZero DEF FormsFit
  <2> QED BY <1>0, <1>4, <2>3, BeginStays DEF LeaveForm
<1>5. CASE Restore(p)
  <2>1. browser[p].page # "new" BY <1>2, <1>5 DEF Restore, NewForm
  <2>2. \/ Waiting(p, "submitted", 0) /\ ReadOnly(p)
        \/ Waiting(p, "idle", 0) /\ UNCHANGED browser
    BY <1>5 DEF Restore
  <2>3. "submitted" \in FormSteps /\ "idle" \in FormSteps BY DEF FormSteps
  <2>4. FormsFit(form', browser') BY <1>1, <2>1, <2>2, <2>3, PageForm
  <2>5. \/ UNCHANGED request
        \/ \E h \in Slots : request[h].kind = "none" /\ request' = [request EXCEPT ![h] = Started("unfreeze", 0)]
    BY <1>5 DEF Restore, Free
  <2> QED BY <1>0, <2>4, <2>5, BeginStays DEF Kinds
<1>6. CASE SubmitForm(p)
  <2>1. PICK h \in Slots : Free(h) /\ request' = [request EXCEPT ![h] = Started("prepare", 0)]
                           /\ Waiting(p, "preparing", h)
    BY <1>6 DEF SubmitForm
  <2>2. browser[p].page # "new" /\ UNCHANGED browser BY <1>6 DEF SubmitForm, roomVars
  <2>3. FormsFit(form', browser') BY <2>1, <2>2, PageForm DEF FormSteps, Awaiting
  <2> QED BY <1>0, <2>1, <2>3, BeginStays DEF Free, Kinds
<1>7. CASE GiveUpWaiting(p)
  <2>1. browser[p].page # "new" BY <1>2, <1>7 DEF GiveUpWaiting, NewForm
  <2>2. \/ Waiting(p, "told", 0) /\ ReadOnly(p) /\ UNCHANGED request
        \/ \E h \in Slots, step \in {"undoing", "recovering"} :
             /\ Free(h) /\ request' = [request EXCEPT ![h] = Started("unfreeze", 0)]
             /\ Waiting(p, step, h) /\ UNCHANGED browser
    BY <1>7 DEF GiveUpWaiting
  <2>3. FormsFit(form', browser') BY <1>1, <2>1, <2>2, PageForm DEF FormSteps, Awaiting
  <2> QED BY <1>0, <2>2, <2>3, BeginStays DEF Free, Kinds
<1> QED BY <1>3, <1>4, <1>5, <1>6, <1>7

LEMMA DieForms == ASSUME SubInv, NEW h \in Slots, Die(h) PROVE FormInv' /\ SubmittedHasRecord'
<1>1. CountsFit' BY SubFacts DEF Die, CountsFit
<1>2. RequestsFit(request') /\ \A k \in Slots \ {h} : request'[k] = request[k]
  BY SubFacts, IdleFits, OneRequest DEF Die, SubInv, FormInv
<1>3. FormsFit(form, browser) /\ 0 \in Slots BY SlotZero DEF SubInv, FormInv
<1>4. ASSUME NEW p \in Pages
      PROVE  FormFits(form'[p]) /\ (browser[p].page = "new" => form'[p] = NewForm)
  <2>1. form[p] \in Forms /\ FormFits(form[p]) /\ (browser[p].page = "new" => form[p] = NewForm)
    BY <1>3 DEF FormsFit
  <2>2. CASE h # 0 /\ form[p].waits = h
    <3>1. form'[p] \in {[step |-> "error", waits |-> 0], [step |-> form[p].step, waits |-> 0]}
      BY <2>2 DEF Die
    <3>2. browser[p].page # "new" BY <2>1, <2>2 DEF NewForm
    <3> QED BY <1>3, <2>1, <3>1, <3>2 DEF FormFits, Forms, FormSteps
  <2>3. CASE ~(h # 0 /\ form[p].waits = h)
    <3>1. form'[p] = form[p] BY <2>3 DEF Die
    <3> QED BY <2>1, <3>1
  <2> QED BY <2>2, <2>3
<1>5. form' \in [Pages -> Forms] BY <1>4 DEF Die, FormFits
<1>6. FormsFit(form', browser') BY <1>4, <1>5 DEF FormsFit, Die
<1>7. SubmittedHasRecord'
  <2>1. doc' = doc /\ filed' = filed /\ torn' = (torn \/ request[h].pc = "record") BY DEF Die
  <2>2. CASE request[h].pc = "record" BY <2>1, <2>2 DEF SubmittedHasRecord
  <2>3. CASE request[h].pc # "record"
    <3>1. torn' = torn BY <2>1, <2>3, SubFacts DEF CountsFit
    <3>2. \A k \in Slots : Recording(request[k]) => request'[k] = request[k]
      BY <1>2, <2>3 DEF Recording
    <3> QED BY <2>1, <3>1, <3>2, RecordStays DEF SubInv
  <2> QED BY <2>2, <2>3
<1> QED BY <1>1, <1>2, <1>6, <1>7 DEF FormInv

LEMMA StartForms ==
  ASSUME SubInv,
         \/ \E p \in Pages, h \in Slots : PageTimeout(p, h)
         \/ \E h \in Slots : TeacherEnds(h) \/ TeacherReturns(h)
         \/ Deadline \/ Scan \/ UNCHANGED vars
  PROVE  FormInv' /\ SubmittedHasRecord'
<1>1. UNCHANGED roomVars /\ UNCHANGED <<filed, torn, form>>
  BY DEF PageTimeout, TeacherEnds, TeacherReturns, Deadline, Scan, vars, subVars
<1>2. CountsFit'
  <2>1. CountsFit BY DEF SubInv, FormInv
  <2>2. returns' \in 0..MaxReturns
    BY <2>1, SubmissionAssumption
       DEF CountsFit, PageTimeout, TeacherEnds, TeacherReturns, Deadline, Scan, vars, subVars
  <2>3. due' \in BOOLEAN
    BY <2>1 DEF CountsFit, PageTimeout, TeacherEnds, TeacherReturns, Deadline, Scan, vars, subVars
  <2>4. UNCHANGED <<prepares, freezes>>
    BY DEF PageTimeout, TeacherEnds, TeacherReturns, Deadline, Scan, vars, subVars
  <2> QED BY <1>1, <2>1, <2>2, <2>3, <2>4 DEF CountsFit
<1>3. FormsFit(form', browser') BY <1>1 DEF roomVars, SubInv, FormInv
<1>4. \/ UNCHANGED request
      \/ \E h \in Slots, kind \in {"auto", "end", "return"} :
           request[h].kind = "none" /\ request' = [request EXCEPT ![h] = Started(kind, 0)]
  BY SlotZero DEF PageTimeout, TeacherEnds, TeacherReturns, Deadline, Scan, vars, subVars, Begin, Free
<1>5. \/ UNCHANGED request
      \/ \E h \in Slots, kind \in Kinds :
           request[h].kind = "none" /\ request' = [request EXCEPT ![h] = Started(kind, 0)]
  BY <1>4 DEF Kinds
<1> QED BY <1>1, <1>2, <1>3, <1>5, BeginStays DEF roomVars

LEMMA SubInvStep == SubInv /\ [SubNext]_vars => SubInv'
<1> SUFFICES ASSUME SubInv, [SubNext]_vars PROVE SubInv'
    OBVIOUS
<1>1. TextInv' BY SubNextStore DEF SubInv
<1>2. FormInv' /\ SubmittedHasRecord'
  BY RoomForms, PagesForms, HandleForms, DieForms, StartForms DEF SubNext
<1> QED BY <1>1, <1>2 DEF SubInv

LEMMA SubInvStart == SubInit => SubInv
<1> SUFFICES ASSUME SubInit PROVE SubInv
    OBVIOUS
<1>1. TextInv BY TextStart
<1>2. CountsFit
  <2>1. 0 \in 0..MaxFreezes /\ 0 \in 0..MaxReturns BY SubmissionAssumption
  <2>2. << >> \in Seq(Prepares) OBVIOUS
  <2> QED BY <2>1, <2>2 DEF SubInit, CountsFit
<1>3. RequestsFit(request) BY IdleFits DEF SubInit, RequestsFit, RequestFits
<1>4. FormsFit(form, browser) BY SlotZero DEF SubInit, FormsFit
<1>5. SubmittedHasRecord BY DEF SubInit, RoomInit, SubmittedHasRecord
<1> QED BY <1>1, <1>2, <1>3, <1>4, <1>5 DEF SubInv, FormInv

\* Every reachable state is well typed, and the room the server manages is alive
\* and knows the revision of the row: none of its saves is refused for ever.
THEOREM CollabTyped == SubSpec => []CollabTypeOK
<1>1. SubInv => CollabTypeOK
  <2> SUFFICES ASSUME SubInv PROVE CollabTypeOK
      OBVIOUS
  <2>1. RoomTypeOK BY RoomTypes DEF SubInv
  <2>2. managed # 0 => room[managed].known /\ room[managed].live
    BY DEF SubInv, TextInv, Keeps
  <2>3. CountsFit /\ RequestsFit(request) /\ FormsFit(form, browser) BY DEF SubInv, FormInv
  <2>4. \A i \in 1..Len(prepares) : prepares[i] \in Prepares BY <2>3 DEF CountsFit
  <2>5. \A h \in Slots : request[h].fid \in 0..MaxFreezes /\ request[h].froze \in BOOLEAN
    BY <2>3 DEF RequestsFit, Requests
  <2>6. form \in [Pages -> Forms] BY <2>3 DEF FormsFit
  <2> QED BY <2>1, <2>2, <2>3, <2>4, <2>5, <2>6 DEF CollabTypeOK, CountsFit, Prepares, Forms
<1> QED BY <1>1, SubInvStart, SubInvStep, PTL DEF SubSpec

\* A submitted document has a submission row of its round, or the commit that
\* submitted it is about to write the row or failed before it (in which case the
\* document is submitted and no submission exists): no race of commits, forced
\* submissions and returns gets there in another way.
THEOREM SubmissionRecorded == SubSpec => []SubmittedHasRecord
<1>1. SubInv => SubmittedHasRecord BY DEF SubInv
<1> QED BY <1>1, SubInvStart, SubInvStep, PTL DEF SubSpec
=============================================================================
