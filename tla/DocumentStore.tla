--------------------------- MODULE DocumentStore ---------------------------
(* What the collaborative document of a group promises, whatever happens to  *)
(* rooms, browsers and requests: a text that only grows, and a status that   *)
(* moves between being written, submitted and returned.                      *)
(* A text says of every author how many of his edits it contains.            *)
EXTENDS Naturals

CONSTANTS Users, MaxEdits

VARIABLES
  status,     \* collaborative_documents.status
  text,       \* collaborative_documents.y_state
  typed       \* the edits ever made in a browser

storeVars == <<status, text, typed>>

Texts == [Users -> 0..MaxEdits]

\* Text s holds every edit that text r holds.
Within(r, s) == \A u \in Users : r[u] <= s[u]

StoreInit ==
  /\ status = "editing"
  /\ text = [u \in Users |-> 0]
  /\ typed = [u \in Users |-> 0]

Edit(u) ==
  /\ typed[u] < MaxEdits
  /\ typed' = [typed EXCEPT ![u] = @ + 1]
  /\ UNCHANGED <<status, text>>

Write ==
  /\ text' \in {t \in Texts : Within(text, t) /\ Within(t, typed)}
  /\ UNCHANGED <<status, typed>>

Submit ==
  /\ status \in {"editing", "returned"}
  /\ status' = "submitted"
  /\ UNCHANGED <<text, typed>>

Return ==
  /\ status' = "returned"
  /\ UNCHANGED <<text, typed>>

StoreNext == (\E u \in Users : Edit(u)) \/ Write \/ Submit \/ Return

StoreSpec == StoreInit /\ [][StoreNext]_storeVars
=============================================================================
