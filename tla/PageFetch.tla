----------------------------- MODULE PageFetch -----------------------------
(***************************************************************************)
(* One verified reading: the robots rules of the site, the requests with   *)
(* their redirects, and what the extractor makes of the answer.  Scans     *)
(* share one RobotsChecker and its cache.                                  *)
(***************************************************************************)
EXTENDS Integers, Sequences, FiniteSets

CONSTANTS
  Origins,       \* sites; a page is on one of them
  Readers,       \* scans that may be reading at once
  MaxRedirects,  \* maxRedirects
  MaxChunks,     \* maxBodyBytes, in chunks
  RobotsTtl,     \* ttlMs, in units of time
  CacheSize,     \* maxEntries
  MaxClock       \* bound: the clock

ASSUME FetchConstants ==
  /\ MaxRedirects \in Nat /\ MaxChunks \in Nat /\ RobotsTtl \in Nat \ {0} /\ CacheSize \in Nat \ {0} /\ MaxClock \in Nat

VARIABLES
  robots,   \* what each site's robots.txt says: the page is "open", "closed" or nobody answers, "down"
  cache,    \* RobotsChecker.cache, oldest entry first
  reader,   \* extract in each scan
  clock,
  said,     \* history: when each site last gave each answer
  requests  \* history: page requests of each reading and the chunks of the last one

fVars == <<robots, cache, reader, clock, said, requests>>

Entry == [origin : Origins, allowed : BOOLEAN, expires : Nat]
NotReading == [at |-> "idle", origin |-> "none", first |-> "none", left |-> 0, chunks |-> 0, validators |-> FALSE, result |-> "none"]
Results == {"none", "verified", "notModified", "failed"}

At(r, next) == reader' = [reader EXCEPT ![r] = next]
Failed == [NotReading EXCEPT !.result = "failed"]

-----------------------------------------------------------------------------
(* extract is called for a page of a site, with the validators of the      *)
(* latest snapshot or without.                                             *)
Cached(o) == {i \in DOMAIN cache : cache[i].origin = o}

(* Mutant: an entry does not expire.                                       *)
FreshAlways(o) == Cached(o)

Fresh(o) == {i \in Cached(o) : cache[i].expires > clock}

(* A page whose site is known to disallow it is not requested.             *)
Admitted(r, o, allowed, validators) ==
  IF allowed
    THEN [NotReading EXCEPT !.at = "resolve", !.origin = o, !.first = o, !.left = MaxRedirects, !.validators = validators]
    ELSE Failed

StartReading(r, o, validators) ==
  /\ reader[r].at = "idle"
  /\ requests' = [requests EXCEPT ![r] = <<0, 0>>]
  /\ IF Fresh(o) # {}
       THEN \E i \in Fresh(o) : At(r, Admitted(r, o, cache[i].allowed, validators))
       ELSE At(r, [NotReading EXCEPT !.at = "robots", !.origin = o, !.validators = validators])
  /\ UNCHANGED <<robots, cache, clock, said>>

(* The oldest entry leaves a full cache, whichever entry is written.       *)
MadeRoom == IF Len(cache) >= CacheSize THEN Tail(cache) ELSE cache

Stored(kept, entry) ==
  IF \E i \in DOMAIN kept : kept[i].origin = entry.origin
    THEN [i \in DOMAIN kept |-> IF kept[i].origin = entry.origin THEN entry ELSE kept[i]]
    ELSE Append(kept, entry)

(* robots.txt is asked for, with redirects and limits of its own; without  *)
(* an answer nothing is disallowed, and that is cached as well.            *)
AskRobots(r) ==
  LET o == reader[r].origin IN
    /\ reader[r].at = "robots"
    /\ cache' = Stored(MadeRoom, [origin |-> o, allowed |-> robots[o] # "closed", expires |-> clock + RobotsTtl])
    /\ At(r, Admitted(r, o, robots[o] # "closed", reader[r].validators))
    /\ said' = [said EXCEPT ![o][robots[o]] = clock]
    /\ UNCHANGED <<robots, clock, requests>>

-----------------------------------------------------------------------------
(* Each hop resolves its host, every address of it allowed, and connects   *)
(* to the first one; an address that is not allowed ends the reading.      *)
Resolve(r, usable) ==
  /\ reader[r].at = "resolve"
  /\ IF usable
       THEN At(r, [reader[r] EXCEPT !.at = "head", !.chunks = 0]) /\ requests' = [requests EXCEPT ![r] = <<@[1] + 1, 0>>]
       ELSE At(r, Failed) /\ UNCHANGED requests
  /\ UNCHANGED <<robots, cache, clock, said>>

(* Headers that already say that the body is unusable, or a socket that    *)
(* stays silent for the timeout.                                           *)
Refuse(r) ==
  /\ reader[r].at \in {"head", "body"} /\ At(r, Failed)
  /\ UNCHANGED <<robots, cache, clock, said, requests>>

Head200(r) ==
  /\ reader[r].at = "head" /\ At(r, [reader[r] EXCEPT !.at = "body"])
  /\ UNCHANGED <<robots, cache, clock, said, requests>>

Redirected(r, o) ==
  IF reader[r].left = 0 THEN Failed
  ELSE [reader[r] EXCEPT !.at = "resolve", !.origin = o, !.left = @ - 1]

(* A 3xx with a location, which may name another site.                     *)
Redirect(r, o) ==
  /\ reader[r].at = "head" /\ At(r, Redirected(r, o))
  /\ UNCHANGED <<robots, cache, clock, said, requests>>

Chunk(r) ==
  LET n == reader[r].chunks + 1 IN
    /\ reader[r].at = "body"
    /\ At(r, IF n > MaxChunks THEN Failed ELSE [reader[r] EXCEPT !.chunks = n])
    /\ requests' = [requests EXCEPT ![r][2] = n]
    /\ UNCHANGED <<robots, cache, clock, said>>

(* "304 is only meaningful because WE asked conditionally".                *)
NotModified(r) == IF reader[r].validators THEN [NotReading EXCEPT !.result = "notModified"] ELSE Failed

Answer304(r) ==
  /\ reader[r].at = "head" /\ At(r, NotModified(r))
  /\ UNCHANGED <<robots, cache, clock, said, requests>>

(* The end of the body.  A status outside 2xx, a placeholder and an        *)
(* application shell are not the page.                                     *)
End(r, isPage) ==
  /\ reader[r].at = "body"
  /\ At(r, IF isPage THEN [NotReading EXCEPT !.result = "verified"] ELSE Failed)
  /\ UNCHANGED <<robots, cache, clock, said, requests>>

-----------------------------------------------------------------------------
RobotsChange(o, answer) ==
  /\ robots[o] # answer /\ robots' = [robots EXCEPT ![o] = answer]
  /\ UNCHANGED <<cache, reader, clock, said, requests>>

FetchTick == clock < MaxClock /\ clock' = clock + 1 /\ UNCHANGED <<robots, cache, reader, said, requests>>

FetchInit ==
  /\ robots = [o \in Origins |-> "open"] /\ cache = <<>> /\ clock = 0
  /\ reader = [r \in Readers |-> NotReading]
  /\ said = [o \in Origins |-> [a \in {"open", "closed", "down"} |-> -1]]
  /\ requests = [r \in Readers |-> <<0, 0>>]

FetchNext ==
  \/ \E r \in Readers :
       \/ \E o \in Origins, v \in BOOLEAN : StartReading(r, o, v)
       \/ AskRobots(r) \/ Refuse(r) \/ Head200(r) \/ Chunk(r) \/ Answer304(r)
       \/ \E b \in BOOLEAN : Resolve(r, b) \/ End(r, b)
       \/ \E o \in Origins : Redirect(r, o)
  \/ \E o \in Origins, a \in {"open", "closed", "down"} : RobotsChange(o, a)
  \/ FetchTick

FetchSpec == FetchInit /\ [][FetchNext]_fVars
-----------------------------------------------------------------------------
(* Types; one entry per site and no more than the cache holds, although    *)
(* scans that found none store their answers one after the other.          *)
FetchTypeOK ==
  /\ \A i \in DOMAIN cache : cache[i] \in Entry
  /\ Len(cache) <= CacheSize /\ \A o \in Origins : Cardinality(Cached(o)) <= 1
  /\ \A r \in Readers : reader[r].result \in Results

(* A reading ends: however sites send it on and however slowly a body      *)
(* comes, it is one request more than its redirects and a body too long is *)
(* cut at the limit.                                                       *)
ReadingIsBounded ==
  \A r \in Readers : requests[r][1] <= MaxRedirects + 1 /\ requests[r][2] <= MaxChunks + 1

Admits(r) == reader[r].at \in {"idle", "robots"} /\ reader'[r].at = "resolve"

(* "it should honour the rules sites publish": a page is requested only    *)
(* when, within the time the rules are kept, its site was asked and did    *)
(* not disallow it, or did not answer at all.                              *)
HonoursRecentRules ==
  [][\A r \in Readers : Admits(r) =>
       LET o == reader'[r].first IN
         \E a \in {"open", "down"} : said'[o][a] >= 0 /\ clock - said'[o][a] <= RobotsTtl]_reader

(* Every reading ends and asks first.                                      *)
FetchIsPolite == []ReadingIsBounded /\ HonoursRecentRules
=============================================================================
