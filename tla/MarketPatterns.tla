--------------------------- MODULE MarketPatterns ---------------------------
(***************************************************************************)
(* Patterns across competitors: what several of them did in the same       *)
(* window, refreshed after every scan.  Refreshes are not serialised: each *)
(* evaluates, reads the active rows and then writes pattern by pattern.    *)
(***************************************************************************)
EXTENDS Integers, Sequences, FiniteSets

CONSTANTS
  Rivals,       \* competitors of the organization
  Moves,        \* kinds of pattern
  Refreshers,   \* scan jobs that may be refreshing at once
  WindowDays, MinHistory, MinObserved, MinAffected,
  MinShare,     \* minShare, in percent
  PatternDays,  \* bound: days
  MaxRows       \* bound: MarketPattern rows

ASSUME PatternConstants ==
  /\ WindowDays \in Nat /\ MinHistory \in Nat /\ MinObserved \in Nat \ {0} /\ MinAffected \in Nat \ {0}
  /\ MinShare \in 0..100 /\ PatternDays \in Nat /\ MaxRows \in Nat /\ IsFiniteSet(Rivals)

VARIABLES
  since,     \* day of each competitor's first verified scan
  moves,     \* Signal rows that count for a pattern
  rows,      \* MarketPattern rows with their evidence
  refresher, \* refreshMarketPatterns in each job
  today,     \* the clock
  settled,   \* history: nothing happened since a refresh ended alone
  doubled    \* history: kinds created by two refreshes at once

mVars == <<since, moves, rows, refresher, today, settled, doubled>>

Never == PatternDays + 1  \* no verified scan, or an inactive competitor
Move == [kind : Moves, rival : Rivals, at : 0..PatternDays]
Row == [kind : Moves, status : {"ACTIVE", "RESOLVED"}, evidence : SUBSET Move, observed : Nat,
        first : 0..PatternDays, last : 0..PatternDays]
Waiting == [at |-> "idle", found |-> {}, observed |-> 0, day |-> 0, active |-> {}, todo |-> {}, alone |-> FALSE]

-----------------------------------------------------------------------------
(* Competitors watched long enough to say that they did not do something.  *)
Eligible == {c \in Rivals : since[c] <= today - MinHistory}

(* The signals behind a pattern, those of the eligible competitors.        *)
Behind(kind) == {m \in moves : m.kind = kind /\ m.rival \in Eligible /\ m.at >= today - WindowDays}

RivalsIn(evidence) == {m.rival : m \in evidence}

(* detectMarketPatterns over a sample that is large enough.                *)
Detected ==
  {kind \in Moves : LET n == Cardinality(RivalsIn(Behind(kind))) IN
                      n >= MinAffected /\ 100 * n >= MinShare * Cardinality(Eligible)}

Sufficient == Cardinality(Eligible) >= MinObserved

(* The two queries and the evaluation; with a small sample nothing is      *)
(* claimed and nothing is touched.                                         *)
Evaluate(r) ==
  /\ refresher[r].at = "idle"
  /\ Sufficient
  /\ refresher' = [refresher EXCEPT ![r] =
       [at |-> "active", found |-> {<<k, Behind(k)>> : k \in Detected}, observed |-> Cardinality(Eligible),
        day |-> today, active |-> {}, todo |-> {}, alone |-> TRUE]]
  /\ settled' = FALSE /\ UNCHANGED <<since, moves, rows, today, doubled>>

(* Active rows whose kind no longer holds.                                 *)
ToResolve(active, found) == {i \in active : rows[i].kind \notin {f[1] : f \in found}}

ReadActive(r) ==
  LET active == {i \in DOMAIN rows : rows[i].status = "ACTIVE"} IN
    /\ refresher[r].at = "active"
    /\ refresher' = [refresher EXCEPT ![r].at = "write", ![r].active = active,
                                      ![r].todo = ToResolve(active, refresher[r].found)]
    /\ UNCHANGED <<since, moves, rows, today, settled, doubled>>

(* Another refresh that is in its writes is not alone, nor is this one.    *)
Wrote(r, next) ==
  refresher' = [q \in Refreshers |-> IF q = r THEN next ELSE [refresher[q] EXCEPT !.alone = FALSE]]

Existing(r, kind) == {i \in refresher[r].active : rows[i].kind = kind}

(* Mutant: a confirmation is a first detection.                            *)
UpdatedAnew(old, row) == [row EXCEPT !.status = old.status]

Updated(old, row) == [row EXCEPT !.status = old.status, !.first = old.first]

(* One pattern that holds: of the active rows found, the last one of its   *)
(* kind is updated, whatever became of it since; without one it is new.    *)
Confirm(r) ==
  \E f \in refresher[r].found :
    LET me == refresher[r]
        mine == Existing(r, f[1])
        row == [kind |-> f[1], status |-> "ACTIVE", evidence |-> f[2], observed |-> me.observed, first |-> me.day, last |-> me.day]
    IN /\ me.at = "write"
       /\ Wrote(r, [me EXCEPT !.found = @ \ {f}])
       /\ IF mine # {}
            THEN /\ LET i == CHOOSE i \in mine : \A j \in mine : j <= i IN
                      rows' = [rows EXCEPT ![i] = Updated(@, row)]
                 /\ UNCHANGED doubled
            ELSE /\ Len(rows) < MaxRows /\ rows' = Append(rows, row)
                 /\ doubled' = IF \E i \in DOMAIN rows \ me.active : rows[i].kind = f[1] /\ rows[i].status = "ACTIVE"
                                 THEN doubled \cup {f[1]} ELSE doubled
       /\ UNCHANGED <<since, moves, today, settled>>

(* Then one active row that no longer holds.                               *)
ResolveOne(r) ==
  \E i \in refresher[r].todo :
    /\ refresher[r].at = "write" /\ refresher[r].found = {}
    /\ Wrote(r, [refresher[r] EXCEPT !.todo = @ \ {i}])
    /\ rows' = [rows EXCEPT ![i].status = "RESOLVED"]
    /\ UNCHANGED <<since, moves, today, settled, doubled>>

Finish(r) ==
  /\ refresher[r].at = "write" /\ refresher[r].found = {} /\ refresher[r].todo = {}
  /\ settled' = (refresher[r].alone /\ \A q \in Refreshers \ {r} : refresher[q].at = "idle")
  /\ refresher' = [refresher EXCEPT ![r] = Waiting]
  /\ UNCHANGED <<since, moves, rows, today, doubled>>

(* A query throws, which the pipeline only logs, or the worker dies.       *)
GiveUp(r) ==
  /\ refresher[r].at # "idle" /\ refresher' = [refresher EXCEPT ![r] = Waiting]
  /\ UNCHANGED <<since, moves, rows, today, settled, doubled>>

Disturbed == settled' = FALSE /\ refresher' = [q \in Refreshers |-> [refresher[q] EXCEPT !.alone = FALSE]]

(* Scans commit signals, competitors get their first verified scan or are  *)
(* deactivated, and days pass.                                             *)
Happens(kind, c) ==
  /\ since[c] # Never
  /\ moves' = moves \cup {[kind |-> kind, rival |-> c, at |-> today]} /\ moves' # moves
  /\ Disturbed /\ UNCHANGED <<since, rows, today, doubled>>

Watch(c) ==
  /\ since' = [since EXCEPT ![c] = IF @ = Never THEN today ELSE Never]
  /\ Disturbed /\ UNCHANGED <<moves, rows, today, doubled>>

PatternDay ==
  /\ today < PatternDays /\ today' = today + 1
  /\ Disturbed /\ UNCHANGED <<since, moves, rows, doubled>>

PatternInit ==
  /\ since = [c \in Rivals |-> 0] /\ moves = {} /\ rows = <<>> /\ today = 0
  /\ refresher = [r \in Refreshers |-> Waiting] /\ settled = FALSE /\ doubled = {}

PatternNext ==
  \/ \E r \in Refreshers : Evaluate(r) \/ ReadActive(r) \/ Confirm(r) \/ ResolveOne(r) \/ Finish(r) \/ GiveUp(r)
  \/ \E c \in Rivals : Watch(c) \/ \E kind \in Moves : Happens(kind, c)
  \/ PatternDay

PatternSpec == PatternInit /\ [][PatternNext]_mVars
-----------------------------------------------------------------------------
(* Types; and no row of a sample too small to claim anything from.         *)
PatternTypeOK ==
  \A i \in DOMAIN rows :
    /\ rows[i] \in Row /\ rows[i].observed >= MinObserved
    /\ \A m \in rows[i].evidence : m.kind = rows[i].kind /\ m.at <= rows[i].last /\ m.at >= rows[i].last - WindowDays

ActiveRows(kind) == {i \in DOMAIN rows : rows[i].kind = kind /\ rows[i].status = "ACTIVE"}

(* Whatever crashed or overlapped before, after a refresh that ran alone a *)
(* kind is active only if enough of the competitors watched long enough    *)
(* did it, and then a row that was refreshed today names just them.        *)
RefreshSettles ==
  settled => \A kind \in Moves :
    LET affected == {c \in Eligible : \E m \in moves : m.kind = kind /\ m.rival = c /\ today - m.at <= WindowDays} IN
      IF Cardinality(affected) >= MinAffected /\ 100 * Cardinality(affected) >= MinShare * Cardinality(Eligible)
        THEN \E i \in ActiveRows(kind) : RivalsIn(rows[i].evidence) = affected /\ rows[i].last = today
        ELSE ActiveRows(kind) = {}

(* "One ACTIVE row per kind", unless two refreshes created it at once.     *)
OneActiveUnlessDoubled ==
  \A kind \in Moves \ doubled : Cardinality(ActiveRows(kind)) <= 1

(* "its first detection stays", and what was resolved is not revived: a    *)
(* pattern that holds again is a row of its own.                           *)
HistoryStays ==
  [][\A i \in DOMAIN rows :
       /\ rows'[i].kind = rows[i].kind /\ rows'[i].first = rows[i].first
       /\ rows[i].status = "RESOLVED" => rows'[i].status = "RESOLVED"]_rows

(* A pattern is claimed while it holds, once, and keeps its history.       *)
PatternsFollowTheMarket == [](RefreshSettles /\ OneActiveUnlessDoubled) /\ HistoryStays
=============================================================================
