---------------------------- MODULE Connections ----------------------------
(***************************************************************************)
(* An organization's AI connections: two pages that list them, switch them *)
(* on and off and delete them with requests that overlap and answers that  *)
(* are late or lost, and the worker that picks one for an analysis.        *)
(***************************************************************************)
EXTENDS Integers, FiniteSets

CONSTANTS
  Screens,      \* open settings pages
  Connection,   \* ids, each used once
  MaxPending,   \* bound: requests of a page on their way
  MaxUpdates    \* bound: writes

ASSUME ConnectionConstants == IsFiniteSet(Screens) /\ IsFiniteSet(Connection) /\ MaxPending \in Nat /\ MaxUpdates \in Nat

VARIABLES
  row,      \* per id: "unused", "on", "off" or "deleted", and when it was last written
  writes,   \* number of writes, the clock of updatedAt
  shown,    \* per page and id: "absent", "on" or "off"
  pending,  \* requests on their way, and their answers on the way back
  deleted,     \* per page: ids it was told are deleted
  strained, \* per page, since it was loaded: requests overlapped, an answer was lost or another page wrote
  called    \* the connection the worker resolved for the analysis it runs

nVars == <<row, writes, shown, pending, deleted, strained, called>>

Exists(c) == row[c].is \in {"on", "off"}
Call(b, does, c, enabled) == [page |-> b, does |-> does, id |-> c, enabled |-> enabled, at |-> "sent"]
OfPage(b) == {r \in pending : r.page = b}
NoCall == [is |-> "none"]

ConnectionsInit ==
  /\ row = [c \in Connection |-> [is |-> "unused", updatedAt |-> 0]]
  /\ writes = 0
  /\ shown = [b \in Screens |-> [c \in Connection |-> "absent"]]
  /\ pending = {}
  /\ deleted = [b \in Screens |-> {}]
  /\ strained = [b \in Screens |-> TRUE]
  /\ called = NoCall

-----------------------------------------------------------------------------
(* The page sends a request; only the form waits for its own to return.    *)
Send(r) ==
  /\ Cardinality(OfPage(r.page)) < MaxPending /\ r \notin pending
  /\ pending' = pending \union {r}
  /\ strained' = [strained EXCEPT ![r.page] = @ \/ OfPage(r.page) # {}]
  /\ UNCHANGED <<row, writes, shown, deleted, called>>

OnCreate(b, c) ==
  /\ row[c].is = "unused" /\ \A r \in pending : r.does # "create" \/ (r.page # b /\ r.id # c)
  /\ Send(Call(b, "create", c, TRUE))

(* The value sent is the opposite of the one shown, not of the one stored. *)
OnToggleEnabled(b, c) == shown[b][c] # "absent" /\ Send(Call(b, "toggle", c, shown[b][c] = "off"))
OnDelete(b, c) == shown[b][c] # "absent" /\ Send(Call(b, "delete", c, FALSE))

Replied(r, status, is) == [Call(r.page, r.does, r.id, is = "on") EXCEPT !.at = status]
Reply(r, status, is) == pending' = (pending \ {r}) \union {Replied(r, status, is)}
Written(b) ==
  /\ writes < MaxUpdates /\ writes' = writes + 1
  /\ strained' = [q \in Screens |-> strained[q] \/ q # b]

Creates(r) ==
  /\ r.does = "create" /\ Written(r.page) /\ Reply(r, "ok", "on")
  /\ row' = [row EXCEPT ![r.id] = [is |-> "on", updatedAt |-> writes']]

(* A switch is written by one query and answered with what another reads.  *)
Updates(r) ==
  /\ r.does = "toggle" /\ Exists(r.id) /\ Written(r.page)
  /\ LET is == IF r.enabled THEN "on" ELSE "off" IN
     row' = [row EXCEPT ![r.id] = [is |-> is, updatedAt |-> writes']] /\ Reply(r, "written", is)

Deletes(r) ==
  /\ r.does = "delete" /\ Exists(r.id) /\ Written(r.page) /\ Reply(r, "ok", "off")
  /\ row' = [row EXCEPT ![r.id].is = "deleted"]

(* The server handles a request; a row that is gone answers 404.           *)
Handle(r) ==
  /\ r \in pending /\ r.at = "sent" /\ UNCHANGED <<shown, deleted, called>>
  /\ \/ Creates(r) \/ Updates(r) \/ Deletes(r)
     \/ r.does # "create" /\ ~Exists(r.id) /\ Reply(r, "404", "off") /\ UNCHANGED <<row, writes, strained>>

ReadAgain(r) ==
  /\ r \in pending /\ r.at = "written" /\ Reply(r, IF Exists(r.id) THEN "ok" ELSE "404", row[r.id].is)
  /\ UNCHANGED <<row, writes, shown, deleted, strained, called>>

(* Mutant: the answer of a switch is listed even when its row is gone.     *)
ListedAgain(list, r) == [list EXCEPT ![r.id] = IF r.does = "delete" THEN "absent" ELSE IF r.enabled THEN "on" ELSE "off"]
(* What an answer makes of the page's list: a new row in front, a listed   *)
(* row replaced, a row filtered out.                                       *)
Applied(list, r) ==
  [list EXCEPT ![r.id] = IF r.does = "create" THEN "on" ELSE IF r.does = "delete" \/ @ = "absent" THEN "absent"
                         ELSE IF r.enabled THEN "on" ELSE "off"]

Receive(r) ==
  /\ r \in pending /\ r.at \in {"ok", "404"}
  /\ pending' = pending \ {r}
  /\ shown' = [shown EXCEPT ![r.page] = IF r.at = "ok" THEN Applied(@, r) ELSE @]
  /\ deleted' = [deleted EXCEPT ![r.page] = IF r.at = "ok" /\ r.does = "delete" THEN @ \union {r.id} ELSE @]
  /\ UNCHANGED <<row, writes, strained, called>>

(* The connection broke: nothing is shown.                                 *)
Lose(r) ==
  /\ r \in pending
  /\ pending' = pending \ {r}
  /\ strained' = [strained EXCEPT ![r.page] = TRUE]
  /\ UNCHANGED <<row, writes, shown, deleted, called>>

StoredRows == [c \in Connection |-> IF Exists(c) THEN row[c].is ELSE "absent"]

(* The page is loaded afresh.                                              *)
LoadPage(b) ==
  /\ OfPage(b) = {}
  /\ shown' = [shown EXCEPT ![b] = StoredRows]
  /\ strained' = [strained EXCEPT ![b] = FALSE]
  /\ UNCHANGED <<row, writes, pending, deleted, called>>

-----------------------------------------------------------------------------
IsEnabledLatest(c) ==
  row[c].is = "on" /\ \A d \in Connection : row[d].is = "on" => row[d].updatedAt <= row[c].updatedAt

(* The worker takes the enabled connection written last and keeps its      *)
(* provider, model and key for the call and the record of it; without one  *)
(* it fails, outside of development.                                       *)
ResolveAiProvider ==
  /\ called = NoCall
  /\ \/ \E c \in Connection : IsEnabledLatest(c) /\ called' = [is |-> "resolved", id |-> c]
     \/ (\A c \in Connection : row[c].is # "on") /\ called' = [is |-> "failed"]
  /\ UNCHANGED <<row, writes, shown, pending, deleted, strained>>

RecordCall == called # NoCall /\ called' = NoCall /\ UNCHANGED <<row, writes, shown, pending, deleted, strained>>

ConnectionsNext ==
  \/ \E b \in Screens : LoadPage(b) \/ \E c \in Connection : OnCreate(b, c) \/ OnToggleEnabled(b, c) \/ OnDelete(b, c)
  \/ \E r \in pending : Handle(r) \/ ReadAgain(r) \/ Receive(r) \/ Lose(r)
  \/ ResolveAiProvider \/ RecordCall

ConnectionsSpec == ConnectionsInit /\ [][ConnectionsNext]_nVars

-----------------------------------------------------------------------------
(* Types; a page never lists an id that was not created.                   *)
ConnectionsTypeOK ==
  /\ \A c \in Connection : row[c].is \in {"unused", "on", "off", "deleted"} /\ row[c].updatedAt \in 0..writes
  /\ writes \in 0..MaxUpdates /\ strained \in [Screens -> BOOLEAN]
  /\ \A b \in Screens : /\ deleted[b] \subseteq Connection /\ Cardinality(OfPage(b)) <= MaxPending
                         /\ \A c \in Connection : shown[b][c] # "absent" => row[c].is # "unused"

(* A connection whose deletion a page was told of never comes back to its  *)
(* list, whatever answers arrive late; and a page whose requests returned  *)
(* one at a time, with nobody else writing, shows what is stored.          *)
ListsSettle ==
  \A b \in Screens :
    /\ \A c \in deleted[b] : shown[b][c] = "absent"
    /\ ~strained[b] /\ OfPage(b) = {} => shown[b] = StoredRows
=============================================================================
